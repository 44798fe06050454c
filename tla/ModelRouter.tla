------------------------------ MODULE ModelRouter ------------------------------
(*****************************************************************************)
(* ai/router: DefaultRouter and the providers it holds.  An administrator    *)
(* registers, replaces and unregisters providers while callers route; every  *)
(* operation runs under one lock, and a caller keeps the provider that Route *)
(* gave it for as long as its call lasts.                                    *)
(*                                                                           *)
(* A provider ID is "vendor/model", here the sequence of its segments: a     *)
(* model name may contain slashes itself.  Two provider objects may have the *)
(* same ID and differ in what they are (key, base URL), told apart by gen.   *)
(*****************************************************************************)
EXTENDS Integers, Sequences, FiniteSets, Functions, SequencesExt

CONSTANTS
  Providers,      \* provider objects: [vendor, model, gen]
  Requirements,   \* sets of capabilities that callers ask for
  MaxOps          \* bound on the administrator's operations

VARIABLES
  providers,   \* the router's map: ID -> object
  route,       \* the last Route: what was asked, what it gave, and after how many operations
  log          \* history: the administrator's operations

vars == <<providers, route, log>>

-----------------------------------------------------------------------------
(* The two provider types and their three OpenAI-compatible constructors.    *)

Capabilities(p) ==
  {"text_generation", "tool_calling"} \union
    CASE p.vendor = "openai" -> {"json_mode", "vision", "embedding"}
      [] p.vendor = "anthropic" -> {"vision", "streaming"}
      [] OTHER -> {}

ID(p) == <<p.vendor>> \o p.model

EmbedSupported(p) == p.vendor = "openai"

-----------------------------------------------------------------------------

None == [vendor |-> "", model |-> <<>>, gen |-> 0]

Init ==
  /\ providers = [id \in {} |-> id]
  /\ route = [required |-> {}, preferred |-> <<>>, got |-> None, at |-> 0]
  /\ log = <<>>

Bounded == Len(log) < MaxOps

Put(p) == [id \in DOMAIN providers \union {ID(p)} |-> IF id = ID(p) THEN p ELSE providers[id]]

Register(p) ==
  /\ Bounded
  /\ LET ok == ID(p) \notin DOMAIN providers
     IN  /\ providers' = IF ok THEN Put(p) ELSE providers
         /\ log' = Append(log, [op |-> "register", p |-> p, ok |-> ok])
  /\ UNCHANGED route

\* Faulty: Replace keeps a provider that is already there.
ReplaceKeeps(p) ==
  /\ Bounded
  /\ providers' = IF ID(p) \in DOMAIN providers THEN providers ELSE Put(p)
  /\ log' = Append(log, [op |-> "replace", p |-> p])
  /\ UNCHANGED route

Replace(p) ==
  /\ Bounded
  /\ providers' = Put(p)
  /\ log' = Append(log, [op |-> "replace", p |-> p])
  /\ UNCHANGED route

\* The prefix, followed by a slash and something after it.
Under(id, prefix) == IsStrictPrefix(prefix, id)

Unregister(prefix) ==
  /\ Bounded
  /\ providers' = RestrictDomain(providers, LAMBDA id : ~Under(id, prefix))
  /\ log' = Append(log, [op |-> "unregister", prefix |-> prefix])
  /\ UNCHANGED route

hasAllCapabilities(p, required) == required \subseteq Capabilities(p)

\* The preferred provider if it is there and capable, else any capable one, in
\* map order, else ErrNoMatchingProvider.
Route(required, preferred) ==
  LET capable == {p \in Range(providers) : hasAllCapabilities(p, required)}
      first == {p \in capable : ID(p) = preferred}
  IN  /\ \E p \in IF first # {} THEN first ELSE IF capable # {} THEN capable ELSE {None} :
           route' = [required |-> required, preferred |-> preferred, got |-> p, at |-> Len(log)]
      /\ UNCHANGED <<providers, log>>

IDs == {ID(p) : p \in Providers}

Next ==
  \/ \E p \in Providers : Register(p) \/ Replace(p) \/ Unregister(<<p.vendor>>)
  \/ \E required \in Requirements, preferred \in IDs \union {<<>>} : Route(required, preferred)

Spec == Init /\ [][Next]_vars

-----------------------------------------------------------------------------
(* Properties.                                                               *)

Installs(op, p) == op.op \in {"register", "replace"} /\ op.p = p /\ (op.op = "register" => op.ok)
Retires(op, p) ==
  \/ op.op = "replace" /\ op.p # p /\ ID(op.p) = ID(p)
  \/ op.op = "unregister" /\ op.prefix = <<p.vendor>>

\* In service after the first n operations: installed, and nothing later took it out.
InService(p, n) ==
  \E i \in 1..n : Installs(log[i], p) /\ \A j \in i + 1..n : ~Retires(log[j], p)

\* What Route gives was in service at that moment, by the administrator's
\* operations alone: a provider that was replaced or whose vendor was unregistered
\* before is never given again, a caller is refused only if nothing capable was in
\* service, and the preference is ignored only if it was not in service or not
\* capable.  A provider that is asked to embed can.  Register succeeds exactly if
\* its ID is free.
RouteInService ==
  LET p == route.got
      Fit(q) == InService(q, route.at) /\ hasAllCapabilities(q, route.required)
  IN  /\ p # None =>
           /\ Fit(p)
           /\ "embedding" \in route.required => EmbedSupported(p)
           /\ \A q \in Providers : Fit(q) /\ ID(q) = route.preferred => p = q
      /\ p = None /\ route.required # {} => \A q \in Providers : ~Fit(q)
      /\ \A i \in DOMAIN log : log[i].op = "register" =>
           (log[i].ok <=> ~\E q \in Providers : ID(q) = ID(log[i].p) /\ InService(q, i - 1))
=============================================================================
