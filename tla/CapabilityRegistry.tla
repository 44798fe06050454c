--------------------------- MODULE CapabilityRegistry ---------------------------
(*****************************************************************************)
(* capability: MemoryCapabilityRegistry on a MapStore, and the adapters that *)
(* make capabilities of skills, MCP tools and builtin tools.  Each source    *)
(* registers and removes its own; the store only knows IDs, and Put          *)
(* overwrites.                                                               *)
(*                                                                           *)
(* A name is the sequence of its parts; an ID that an adapter puts together  *)
(* from names is the sequence of what it consists of, dots included, so that *)
(* two sources can arrive at one ID.                                         *)
(*****************************************************************************)
EXTENDS Integers, Sequences, Functions

CONSTANTS
  CapabilitySet,  \* [kind, source, name, descriptor]: descriptor is the ID a skill's own
                  \* DescriptorProvider gives, <<>> if it has none
  MaxOps          \* bound on the operations

VARIABLES
  store,   \* ID -> capability
  log      \* history: who registered or removed what

vars == <<store, log>>

\* NewFromSkill and NewFromNative keep the ID, NewFromMCP makes one.
ID(c) == IF c.kind = "mcp" THEN <<"mcp", ".">> \o c.source \o <<".">> \o c.name ELSE c.name

\* What the planner sees: a skill's own descriptor, or the capability's fields.
CapabilityToDescriptor(c) ==
  [id |-> IF c.descriptor # <<>> THEN c.descriptor ELSE ID(c), kind |-> c.kind, source |-> c.source]

Init == store = [id \in {} |-> id] /\ log = <<>>

Bounded == Len(log) < MaxOps

\* Faulty: PutIfAbsent.
RegisterIfAbsent(c) ==
  /\ Bounded
  /\ store' = [id \in DOMAIN store \union {ID(c)} |-> IF id \in DOMAIN store THEN store[id] ELSE c]
  /\ log' = Append(log, [op |-> "register", c |-> c])

\* MapStore.Put, under its lock.
Register(c) ==
  /\ Bounded
  /\ store' = [id \in DOMAIN store \union {ID(c)} |-> IF id = ID(c) THEN c ELSE store[id]]
  /\ log' = Append(log, [op |-> "register", c |-> c])

\* MapStore.Delete; an ID that is not there is no error.
Unregister(c) ==
  /\ Bounded
  /\ store' = Restrict(store, DOMAIN store \ {ID(c)})
  /\ log' = Append(log, [op |-> "unregister", c |-> c])

List == {CapabilityToDescriptor(c) : c \in Range(store)}
ListByKind(kind) == {CapabilityToDescriptor(c) : c \in {d \in Range(store) : d.kind = kind}}

Done == ~Bounded /\ UNCHANGED vars

Next == (\E c \in CapabilitySet : Register(c) \/ Unregister(c)) \/ Done

Spec == Init /\ [][Next]_vars

-----------------------------------------------------------------------------
(* Properties.                                                               *)

Own(c) == {i \in DOMAIN log : log[i].c = c}
LastOwn(c) == CHOOSE i \in Own(c) : \A j \in Own(c) : j <= i
Holds(c) == Own(c) # {} /\ log[LastOwn(c)].op = "register"
Disturbed(c) ==
  \E i \in LastOwn(c) + 1..Len(log) : log[i].c # c /\ ID(log[i].c) = ID(c)

\* A source finds in the registry what it registered and has not removed, and
\* nothing else of its own, unless another source used the same ID after it: then
\* its capability is gone without notice.  What it finds is in the planner's list
\* and in that of its kind, and an entry can be got by its ID unless a skill's own
\* descriptor gives it another.
SourceFindsItsOwn ==
  /\ \A c \in CapabilitySet :
       /\ Holds(c) /\ ~Disturbed(c) =>
            /\ ID(c) \in DOMAIN store /\ store[ID(c)] = c
            /\ CapabilityToDescriptor(c) \in List \intersect ListByKind(c.kind)
       /\ ~Holds(c) => c \notin Range(store)
  /\ \A c \in Range(store) :
       LET d == CapabilityToDescriptor(c)
       IN  c.descriptor = <<>> => d.id \in DOMAIN store /\ CapabilityToDescriptor(store[d.id]) = d
=============================================================================
