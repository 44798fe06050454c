----------------------------- MODULE PolicyEnforcer -----------------------------
(*****************************************************************************)
(* control/policy: the Enforcer, a set of rules per tenant behind a          *)
(* read-write lock.  AddRule, RemoveRule and Evaluate each hold the lock for *)
(* their whole body, so each is one step; ListRules only reads.              *)
(*                                                                           *)
(* Go leaves two orders open, and so does the model: the order in which      *)
(* RemoveRule meets the tenants (map iteration) and the order of rules of    *)
(* equal priority (map iteration, then an unstable sort).                    *)
(*                                                                           *)
(* A resource is a path <<kind>> or <<kind, name>>; a pattern is "*", a kind *)
(* followed by "/*", or an exact path.  Times of day are 0..Day-1.           *)
(*****************************************************************************)
EXTENDS Integers, Sequences, FiniteSets

CONSTANTS
  Tenants,     \* tenant IDs; a rule may also be filed under no tenant
  RuleIDs,
  Bodies,      \* what a rule says: effect, priority, patterns, conditions
  Requests,    \* what Evaluate may be asked: action, resource, attributes
  Day,         \* number of times of day
  None         \* an absent condition or attribute

Times == 0..Day - 1
Effects == {"allow", "deny", "other"}

ASSUME DayAssumption == Day \in Nat \ {0}
ASSUME NoneAssumption == None \notin Tenants \union RuleIDs \union Times
ASSUME BodiesAssumption ==
  \A b \in Bodies : /\ b.effect \in Effects
                    /\ b.priority \in Int
                    /\ {b.conditions.after, b.conditions.before} \subseteq Times \union {None}

VARIABLES
  rules,   \* tenant -> (rule ID -> rule)
  last     \* the last Evaluate and its verdict, until the rules change

vars == <<rules, last>>

Owners == Tenants \union {None}
NoCall == [tenant |-> None, verdict |-> "none"]

Init ==
  /\ rules = [t \in Owners |-> [i \in {} |-> None]]
  /\ last = NoCall

-----------------------------------------------------------------------------
(* Matching.                                                                 *)

matchAction(pattern, action) == pattern \in {"*", action}

matchResource(pattern, resource) ==
  CASE pattern.kind = "any"    -> TRUE
    [] pattern.kind = "prefix" -> Head(resource) = Head(pattern.path)
    [] pattern.kind = "exact"  -> resource = pattern.path

\* Faulty: no overnight windows.
matchDayWindow(after, before, t) == t >= after /\ t < before

\* An overnight window wraps around midnight.
matchTimeWindow(after, before, t) ==
  IF after > before THEN t >= after \/ t < before
                    ELSE t >= after /\ t < before

\* A window with both ends decides alone; otherwise its ends are ignored and
\* every other condition must equal the attribute of the same name.
matchConditions(c, attrs) ==
  IF c.after # None /\ c.before # None
  THEN attrs.time # None /\ matchTimeWindow(c.after, c.before, attrs.time)
  ELSE c.role # None => attrs.role = c.role

Matches(r, q) ==
  /\ matchAction(r.action, q.action)
  /\ matchResource(r.resource, q.resource)
  /\ matchConditions(r.conditions, q)

-----------------------------------------------------------------------------
(* Evaluate walks the tenant's rules in some order of falling priority and   *)
(* stops at the first that matches and allows or denies.                     *)

\* Faulty: lowest priority first.
OrdersRising(t) ==
  LET ids == DOMAIN rules[t]
  IN  {o \in [1..Cardinality(ids) -> ids] :
         /\ \A i, j \in DOMAIN o : o[i] = o[j] => i = j
         /\ \A i, j \in DOMAIN o : i < j => rules[t][o[i]].priority <= rules[t][o[j]].priority}

Orders(t) ==
  LET ids == DOMAIN rules[t]
  IN  {o \in [1..Cardinality(ids) -> ids] :
         /\ \A i, j \in DOMAIN o : o[i] = o[j] => i = j
         /\ \A i, j \in DOMAIN o : i < j => rules[t][o[i]].priority >= rules[t][o[j]].priority}

Decisive(t, id, q) == Matches(rules[t][id], q) /\ rules[t][id].effect \in {"allow", "deny"}

Walk(t, q, o) ==
  LET hits == {i \in DOMAIN o : Decisive(t, o[i], q)}
  IN  IF hits = {} THEN "allow"
      ELSE rules[t][o[CHOOSE i \in hits : \A j \in hits : i <= j]].effect

Evaluate(t, q) ==
  /\ \E o \in Orders(t) : last' = [tenant |-> t, req |-> q, verdict |-> Walk(t, q, o)]
  /\ UNCHANGED rules

\* A rule's tenant is not checked: one filed under no tenant is never evaluated.
AddRule(t, id, body) ==
  /\ id \notin DOMAIN rules[t]
  /\ rules' = [rules EXCEPT ![t] = [i \in DOMAIN @ \union {id} |-> IF i = id THEN body ELSE @[i]]]
  /\ last' = NoCall

\* The first tenant met that has the ID loses its rule; no other does.
RemoveRule(id) ==
  \E t \in {t \in Owners : id \in DOMAIN rules[t]} :
    /\ rules' = [rules EXCEPT ![t] = [i \in DOMAIN @ \ {id} |-> @[i]]]
    /\ last' = NoCall

\* A duplicate ID, a missing ID or an empty argument: an error, no change.
CallRefused ==
  /\ last' = NoCall
  /\ UNCHANGED rules

Next ==
  \/ \E t \in Tenants, q \in Requests : Evaluate(t, q)
  \/ \E t \in Owners, id \in RuleIDs, b \in Bodies : AddRule(t, id, b)
  \/ \E id \in RuleIDs : RemoveRule(id)
  \/ CallRefused

Spec == Init /\ [][Next]_vars

-----------------------------------------------------------------------------
(* Properties.                                                               *)

\* "Rules are evaluated in priority order (highest first), and the first matching
\* rule determines the outcome. Default policy is allow": a denial needs a
\* matching deny rule of this tenant that no matching allow rule outranks, an
\* allowance needs that no matching deny rule outranks every matching allow rule.
\* Rules of other tenants, rules under no tenant and unknown effects have no say.
VerdictJustified ==
  last.verdict \in {"allow", "deny"} =>
    LET t == last.tenant
        Hit(e) == {i \in DOMAIN rules[t] : rules[t][i].effect = e /\ Matches(rules[t][i], last.req)}
        Outranked(i, e) == \E j \in Hit(e) : rules[t][j].priority > rules[t][i].priority
    IN  IF last.verdict = "deny"
        THEN \E i \in Hit("deny") : ~Outranked(i, "allow")
        ELSE \/ Hit("deny") = {}
             \/ \E i \in Hit("allow") : ~Outranked(i, "deny")

\* "Supports overnight windows": a window is the half-open arc of the clock from
\* its start to its end, in both of matchTimeWindow's branches.
WindowIsArc ==
  \A i \in UNION {DOMAIN rules[t] : t \in Owners} : \A t \in {t \in Owners : i \in DOMAIN rules[t]} :
    LET c == rules[t][i].conditions
    IN  c.after # None /\ c.before # None =>
          \A now \in Times : matchTimeWindow(c.after, c.before, now)
                               <=> (now - c.after) % Day < (c.before - c.after) % Day

\* "matchConditions checks if all rule conditions match the given attributes": a
\* request that is denied meets the role condition of some deny rule.
AllConditionsMatch ==
  last.verdict = "deny" =>
    \E i \in DOMAIN rules[last.tenant] :
      LET r == rules[last.tenant][i]
      IN  r.effect = "deny" /\ (r.conditions.role # None => last.req.role = r.conditions.role)
=============================================================================
