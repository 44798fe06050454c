-------------------------- MODULE PolicyEnforcerProofs --------------------------
(*****************************************************************************)
(* Proofs about PolicyEnforcer, for every set of rules, tenants and requests *)
(* and every number of times of day.  The rules are finitely many at every   *)
(* moment, so every order that Evaluate may walk them in meets all of them:  *)
(* whichever it is, the first decisive rule is one that no other outranks.   *)
(*****************************************************************************)
EXTENDS PolicyEnforcer, FiniteSetTheorems, WellFoundedInduction, TLAPS

\* Each tenant has finitely many rules, each one that AddRule was given.
RulesOK ==
  /\ DOMAIN rules = Owners
  /\ \A t \in Owners : /\ IsFiniteSet(DOMAIN rules[t])
                       /\ \A i \in DOMAIN rules[t] : rules[t][i] \in Bodies

PolicyInv == RulesOK /\ VerdictJustified

(* A set of naturals that is not empty has a least element. *)
LEMMA LeastNatural ==
  ASSUME NEW T \in SUBSET Nat, T # {}
  PROVE  \E x \in T : \A y \in T : x <= y
<1> DEFINE R == {ss \in Nat \X Nat : ss[1] < ss[2]}
<1>1. IsWellFoundedOn(R, Nat)
  <2>1. R = OpToRel(<, Nat) BY DEF OpToRel
  <2> QED BY <2>1, NatLessThanWellFounded
<1>2. \A x, y \in Nat : <<y, x>> \in R <=> y < x OBVIOUS
<1> HIDE DEF R
<1>3. PICK x \in T : \A y \in T : ~(<<y, x>> \in R) BY <1>1, WFMin
<1>4. \A y \in T : ~(y < x) BY <1>2, <1>3
<1> QED BY <1>4

(* An order of Evaluate lists every rule of the tenant, none above one of *)
(* higher priority.                                                       *)
LEMMA OrdersListAll ==
  ASSUME RulesOK, NEW t \in Owners, NEW o \in Orders(t)
  PROVE  /\ DOMAIN o \in SUBSET Nat
         /\ \A i \in DOMAIN o : o[i] \in DOMAIN rules[t]
         /\ \A id \in DOMAIN rules[t] : \E i \in DOMAIN o : o[i] = id
         /\ \A i, j \in DOMAIN o : i <= j => rules[t][o[i]].priority >= rules[t][o[j]].priority
<1> DEFINE ids == DOMAIN rules[t]
           n == Cardinality(ids)
<1>1. IsFiniteSet(ids) /\ n \in Nat BY FS_CardinalityType DEF RulesOK
<1>2. /\ o \in [1..n -> ids]
      /\ \A i, j \in DOMAIN o : o[i] = o[j] => i = j
      /\ \A i, j \in DOMAIN o : i < j => rules[t][o[i]].priority >= rules[t][o[j]].priority
  BY DEF Orders
<1> HIDE DEF n, ids
<1>3. IsFiniteSet(1..n) /\ Cardinality(1..n) = n BY <1>1, FS_Interval
<1>4. o \in Injection(1..n, ids) BY <1>2 DEF Injection, IsInjective
<1>5. o \in Surjection(1..n, ids) BY <1>1, <1>3, <1>4, FS_Injection DEF n
<1>6. \A id \in ids : \E i \in DOMAIN o : o[i] = id BY <1>2, <1>5 DEF Surjection
<1>7. \A i \in DOMAIN o : rules[t][o[i]].priority \in Int
  BY <1>2, BodiesAssumption DEF RulesOK, ids
<1>8. DOMAIN o \in SUBSET Nat /\ \A i, j \in DOMAIN o : i <= j => i < j \/ i = j BY <1>1, <1>2
<1>9. \A i, j \in DOMAIN o : i <= j => rules[t][o[i]].priority >= rules[t][o[j]].priority
  BY <1>2, <1>7, <1>8
<1> QED BY <1>2, <1>6, <1>8, <1>9 DEF ids

(* The walk ends at the first decisive rule, or allows if there is none. *)
LEMMA WalkFacts ==
  ASSUME RulesOK, NEW t \in Owners, NEW q, NEW o \in Orders(t)
  PROVE  \/ /\ Walk(t, q, o) = "allow"
            /\ \A id \in DOMAIN rules[t] : ~Decisive(t, id, q)
         \/ \E id \in DOMAIN rules[t] :
              /\ Decisive(t, id, q)
              /\ Walk(t, q, o) = rules[t][id].effect
              /\ \A j \in DOMAIN rules[t] :
                   Decisive(t, j, q) => rules[t][id].priority >= rules[t][j].priority
<1> DEFINE hits == {i \in DOMAIN o : Decisive(t, o[i], q)}
<1>1. CASE hits = {}
  <2>1. Walk(t, q, o) = "allow" BY <1>1 DEF Walk
  <2> QED BY <1>1, <2>1, OrdersListAll
<1>2. CASE hits # {}
  <2> DEFINE first == CHOOSE i \in hits : \A j \in hits : i <= j
  <2>1. first \in hits /\ \A j \in hits : first <= j
    <3>1. \E i \in hits : \A j \in hits : i <= j BY <1>2, OrdersListAll, LeastNatural
    <3> QED BY <3>1
  <2>2. Walk(t, q, o) = rules[t][o[first]].effect BY <1>2, Zenon DEF Walk
  <2> HIDE DEF first
  <2>3. o[first] \in DOMAIN rules[t] /\ Decisive(t, o[first], q) BY <2>1, OrdersListAll
  <2>4. ASSUME NEW j \in DOMAIN rules[t], Decisive(t, j, q)
        PROVE  rules[t][o[first]].priority >= rules[t][j].priority
    <3>1. PICK k \in DOMAIN o : o[k] = j BY OrdersListAll
    <3>2. k \in hits /\ first <= k BY <2>1, <2>4, <3>1
    <3> QED BY <2>1, <3>1, <3>2, OrdersListAll
  <2> QED BY <2>2, <2>3, <2>4
<1> QED BY <1>1, <1>2

\* VerdictJustified of an evaluation, as a predicate of its arguments.
Justified(t, q, v) ==
  LET Hit(e) == {i \in DOMAIN rules[t] : rules[t][i].effect = e /\ Matches(rules[t][i], q)}
      Outranked(i, e) == \E j \in Hit(e) : rules[t][j].priority > rules[t][i].priority
  IN  IF v = "deny"
      THEN \E i \in Hit("deny") : ~Outranked(i, "allow")
      ELSE \/ Hit("deny") = {}
           \/ \E i \in Hit("allow") : ~Outranked(i, "deny")

(* Whatever order the rules are walked in, the verdict is justified. *)
LEMMA WalkJustified ==
  ASSUME RulesOK, NEW t \in Owners, NEW q, NEW o \in Orders(t)
  PROVE  Justified(t, q, Walk(t, q, o))
<1> DEFINE Hit(e) == {i \in DOMAIN rules[t] : rules[t][i].effect = e /\ Matches(rules[t][i], q)}
<1>1. CASE Walk(t, q, o) = "allow" /\ \A id \in DOMAIN rules[t] : ~Decisive(t, id, q)
  <2>1. Hit("deny") = {} BY <1>1 DEF Decisive
  <2> QED BY <1>1, <2>1 DEF Justified
<1>2. ASSUME NEW id \in DOMAIN rules[t], Decisive(t, id, q), Walk(t, q, o) = rules[t][id].effect,
             \A j \in DOMAIN rules[t] :
               Decisive(t, j, q) => rules[t][id].priority >= rules[t][j].priority
      PROVE  Justified(t, q, Walk(t, q, o))
  <2>1. rules[t][id].effect \in {"allow", "deny"} /\ Matches(rules[t][id], q) BY <1>2 DEF Decisive
  <2>2. \A j \in Hit("allow") \union Hit("deny") : ~(rules[t][j].priority > rules[t][id].priority)
    <3> TAKE j \in Hit("allow") \union Hit("deny")
    <3>1. j \in DOMAIN rules[t] /\ Decisive(t, j, q) BY DEF Decisive
    <3>2. rules[t][j].priority \in Int /\ rules[t][id].priority \in Int
      BY <3>1, BodiesAssumption DEF RulesOK
    <3> QED BY <1>2, <3>1, <3>2
  <2>3. CASE rules[t][id].effect = "deny"
    <3>1. id \in Hit("deny") BY <2>1, <2>3
    <3> QED BY <1>2, <2>2, <2>3, <3>1 DEF Justified
  <2>4. CASE rules[t][id].effect = "allow"
    <3>1. id \in Hit("allow") BY <2>1, <2>4
    <3> QED BY <1>2, <2>2, <2>4, <3>1 DEF Justified
  <2> QED BY <2>1, <2>3, <2>4
<1> QED BY <1>1, <1>2, WalkFacts

(* Removing and adding rules keeps them finitely many and as they were given. *)
LEMMA StepRulesOK == RulesOK /\ [Next]_vars => RulesOK'
<1> SUFFICES ASSUME RulesOK, [Next]_vars PROVE RulesOK'
  OBVIOUS
<1>1. CASE UNCHANGED rules BY <1>1 DEF RulesOK
<1>2. ASSUME NEW t \in Owners, NEW id \in RuleIDs, NEW b \in Bodies, AddRule(t, id, b) PROVE RulesOK'
  <2> DEFINE new == [i \in DOMAIN rules[t] \union {id} |-> IF i = id THEN b ELSE rules[t][i]]
  <2>1. rules' = [rules EXCEPT ![t] = new] BY <1>2 DEF AddRule
  <2>2. IsFiniteSet(DOMAIN new) BY FS_AddElement DEF RulesOK
  <2>3. \A i \in DOMAIN new : new[i] \in Bodies BY DEF RulesOK
  <2> HIDE DEF new
  <2>4. /\ DOMAIN rules' = Owners /\ rules'[t] = new
        /\ \A u \in Owners \ {t} : rules'[u] = rules[u]
    BY <2>1 DEF RulesOK
  <2> QED BY <2>2, <2>3, <2>4 DEF RulesOK
<1>3. ASSUME NEW id \in RuleIDs, RemoveRule(id) PROVE RulesOK'
  <2>1. PICK t \in Owners :
          id \in DOMAIN rules[t] /\ rules' = [rules EXCEPT ![t] = [i \in DOMAIN rules[t] \ {id} |-> rules[t][i]]]
    BY <1>3 DEF RemoveRule
  <2> DEFINE new == [i \in DOMAIN rules[t] \ {id} |-> rules[t][i]]
  <2>2. IsFiniteSet(DOMAIN new) BY FS_RemoveElement DEF RulesOK
  <2>3. \A i \in DOMAIN new : new[i] \in Bodies BY DEF RulesOK
  <2>4. rules' = [rules EXCEPT ![t] = new] BY <2>1
  <2> HIDE DEF new
  <2>5. /\ DOMAIN rules' = Owners /\ rules'[t] = new
        /\ \A u \in Owners \ {t} : rules'[u] = rules[u]
    BY <2>4 DEF RulesOK
  <2> QED BY <2>2, <2>3, <2>5 DEF RulesOK
<1> QED BY <1>1, <1>2, <1>3 DEF Next, vars, Evaluate, CallRefused

(* PolicyInv is inductive. *)
THEOREM PolicyInvariant == Spec => []PolicyInv
<1>1. Init => PolicyInv
  <2> SUFFICES ASSUME Init PROVE PolicyInv
    OBVIOUS
  <2>1. RulesOK BY FS_EmptySet DEF Init, RulesOK
  <2>2. VerdictJustified BY DEF Init, NoCall, VerdictJustified
  <2> QED BY <2>1, <2>2 DEF PolicyInv
<1>2. PolicyInv /\ [Next]_vars => PolicyInv'
  <2> SUFFICES ASSUME PolicyInv, [Next]_vars PROVE VerdictJustified'
    BY StepRulesOK DEF PolicyInv
  <2>1. CASE UNCHANGED vars BY <2>1 DEF vars, PolicyInv, VerdictJustified
  <2>2. CASE last' = NoCall BY <2>2 DEF NoCall, VerdictJustified
  <2>3. ASSUME NEW t \in Tenants, NEW q \in Requests, Evaluate(t, q) PROVE VerdictJustified'
    <3>1. PICK o \in Orders(t) : last' = [tenant |-> t, req |-> q, verdict |-> Walk(t, q, o)]
      BY <2>3 DEF Evaluate
    <3>2. Justified(t, q, Walk(t, q, o)) BY WalkJustified DEF PolicyInv, Owners
    <3>3. UNCHANGED rules /\ last'.tenant = t /\ last'.req = q /\ last'.verdict = Walk(t, q, o)
      BY <2>3, <3>1 DEF Evaluate
    <3> QED BY <3>2, <3>3 DEF VerdictJustified, Justified
  <2> QED BY <2>1, <2>2, <2>3 DEF Next, AddRule, RemoveRule, CallRefused
<1> QED BY <1>1, <1>2, PTL DEF Spec

(* Every verdict of Evaluate follows from the tenant's own rules and their *)
(* priorities (VerdictJustified), in whichever order the map iteration and *)
(* the unstable sort put rules of equal priority.                          *)
THEOREM Justification == Spec => []VerdictJustified
BY PolicyInvariant, PTL DEF PolicyInv

(* The two branches of matchTimeWindow are one arc of the clock. *)
LEMMA ArcFacts ==
  ASSUME NEW after \in Times, NEW before \in Times, NEW now \in Times
  PROVE  matchTimeWindow(after, before, now) <=> (now - after) % Day < (before - after) % Day
<1>0. after \in Int /\ before \in Int /\ now \in Int /\ 0 <= after /\ after < Day
      /\ 0 <= before /\ before < Day /\ 0 <= now /\ now < Day
  BY DayAssumption DEF Times
<1>1. \A x \in Int : 0 <= x /\ x < Day => x % Day = x BY DayAssumption
<1>2. \A x \in Int : 0 <= x + Day /\ x < 0 => x % Day = x + Day BY DayAssumption
<1>3. (now - after) % Day = IF now >= after THEN now - after ELSE now - after + Day
  BY <1>0, <1>1, <1>2, DayAssumption
<1>4. (before - after) % Day = IF before >= after THEN before - after ELSE before - after + Day
  BY <1>0, <1>1, <1>2, DayAssumption
<1> QED BY <1>0, <1>3, <1>4, DayAssumption DEF matchTimeWindow

(* Every window of every rule is the half-open arc from its start to its end, *)
(* overnight or not (WindowIsArc), for every length of the day.               *)
THEOREM Windows == Spec => []WindowIsArc
<1>1. PolicyInv => WindowIsArc
  <2> SUFFICES ASSUME PolicyInv, NEW t \in Owners, NEW i \in DOMAIN rules[t],
                      rules[t][i].conditions.after # None, rules[t][i].conditions.before # None,
                      NEW now \in Times
               PROVE  matchTimeWindow(rules[t][i].conditions.after, rules[t][i].conditions.before, now)
                        <=> (now - rules[t][i].conditions.after) % Day
                              < (rules[t][i].conditions.before - rules[t][i].conditions.after) % Day
    BY DEF WindowIsArc
  <2>1. rules[t][i].conditions.after \in Times /\ rules[t][i].conditions.before \in Times
    BY BodiesAssumption DEF PolicyInv, RulesOK
  <2> QED BY <2>1, ArcFacts
<1> QED BY <1>1, PolicyInvariant, PTL
=============================================================================
