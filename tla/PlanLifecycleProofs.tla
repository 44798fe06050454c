-------------------------- MODULE PlanLifecycleProofs --------------------------
(*****************************************************************************)
(* Proofs about PlanLifecycle, for every set of model answers, every limit   *)
(* and sessions of any length.  The limits are only tested when a plan is    *)
(* made, the IDs are written later and possibly in part: LifecycleInv says   *)
(* what a plan keeps between the two.                                        *)
(*****************************************************************************)
EXTENDS PlanLifecycle, SequenceTheorems, TLAPS

PlanRecord ==
  [id: Int, parent: Int, from: Nat, aid: BOOLEAN, steps: Seq(StepRecord), frozen: BOOLEAN, valid: BOOLEAN]

TypeOK == plans \in Seq(PlanRecord) /\ uuid \in Nat

\* A plan with steps passed Validator, whose verdict the IDs do not change.
LimitsInv == \A k \in 1..Len(plans) : Len(plans[k].steps) > 0 => WithinLimits(plans[k])

LifecycleInv == TypeOK /\ LimitsInv /\ FrozenWellFormed /\ LineageKept

-----------------------------------------------------------------------------
(* What ExecutionPlan.Validate does to a plan.                               *)

(* A function on 1..n is a sequence of length n. *)
LEMMA FunctionIsSeq ==
  ASSUME NEW S, NEW n \in Nat, NEW f \in [1..n -> S]
  PROVE  f \in Seq(S) /\ Len(f) = n
OBVIOUS

(* Filling in IDs keeps the type of a plan, its lineage, its names and types, *)
(* and every ID that is there; a plan it freezes is well formed.              *)
LEMMA FilledFacts ==
  ASSUME NEW p \in PlanRecord, uuid \in Nat
  PROVE  /\ Filled(p) \in PlanRecord
         /\ Filled(p).from = p.from /\ Filled(p).parent = p.parent /\ Filled(p).aid = p.aid
         /\ Filled(p).id # 0
         /\ p.id # 0 => Filled(p).id = p.id
         /\ Filled(p).frozen = WellFormed(p) /\ Filled(p).valid = WellFormed(p)
         /\ Len(Filled(p).steps) = Len(p.steps)
         /\ \A i \in 1..Len(p.steps) :
              /\ Filled(p).steps[i].name = p.steps[i].name
              /\ Filled(p).steps[i].type = p.steps[i].type
              /\ p.steps[i].sid # 0 => Filled(p).steps[i] = p.steps[i]
              /\ WellFormed(p) => Filled(p).steps[i].sid # 0
<1> DEFINE St == [i \in 1..Len(p.steps) |->
               IF Reached(p, i) /\ p.steps[i].sid = 0
               THEN [p.steps[i] EXCEPT !.sid = uuid + 1 + i] ELSE p.steps[i]]
<1>0. p.steps \in Seq(StepRecord) /\ Len(p.steps) \in Nat BY DEF PlanRecord
<1>1. ASSUME NEW i \in 1..Len(p.steps)
      PROVE  /\ St[i] \in StepRecord
             /\ St[i].name = p.steps[i].name
             /\ St[i].type = p.steps[i].type
             /\ p.steps[i].sid # 0 => St[i] = p.steps[i]
             /\ Reached(p, i) => St[i].sid # 0
  <2>1. p.steps[i] \in StepRecord /\ i \in Nat BY <1>0, ElementOfSeq
  <2> HIDE DEF PlanRecord
  <2> QED BY <2>1 DEF StepRecord
<1>2. St \in Seq(StepRecord) /\ Len(St) = Len(p.steps)
  <2>1. DOMAIN St = 1..Len(p.steps) /\ St = [i \in 1..Len(p.steps) |-> St[i]] OBVIOUS
  <2> HIDE DEF St
  <2>2. St \in [1..Len(p.steps) -> StepRecord] BY <1>1, <2>1
  <2> QED BY <1>0, <2>2, FunctionIsSeq
<1>3. \A i \in 1..Len(p.steps) : WellFormed(p) => Reached(p, i)
  BY <1>0 DEF WellFormed, Reached
<1>4. WellFormed(p) \in BOOLEAN BY DEF WellFormed, Reached
<1> HIDE DEF St
<1>5. Filled(p) = [p EXCEPT !.id = IF p.id = 0 THEN uuid + 1 ELSE p.id, !.steps = St,
                            !.frozen = WellFormed(p), !.valid = WellFormed(p)]
  BY DEF Filled, St
<1>6. /\ Filled(p).from = p.from /\ Filled(p).parent = p.parent /\ Filled(p).aid = p.aid
      /\ Filled(p).steps = St
      /\ Filled(p).frozen = WellFormed(p) /\ Filled(p).valid = WellFormed(p)
      /\ Filled(p).id = IF p.id = 0 THEN uuid + 1 ELSE p.id
  BY <1>5 DEF PlanRecord
<1>7. Filled(p) \in PlanRecord
  <2>1. \A q \in PlanRecord, v \in Int : [q EXCEPT !.id = v] \in PlanRecord BY DEF PlanRecord
  <2>2. \A q \in PlanRecord, v \in Seq(StepRecord) : [q EXCEPT !.steps = v] \in PlanRecord
    BY DEF PlanRecord
  <2>3. \A q \in PlanRecord, v \in BOOLEAN : [q EXCEPT !.frozen = v] \in PlanRecord
    BY DEF PlanRecord
  <2>4. \A q \in PlanRecord, v \in BOOLEAN : [q EXCEPT !.valid = v] \in PlanRecord
    BY DEF PlanRecord
  <2>5. (IF p.id = 0 THEN uuid + 1 ELSE p.id) \in Int BY DEF PlanRecord
  <2> QED BY <1>2, <1>4, <1>5, <2>1, <2>2, <2>3, <2>4, <2>5, ZenonT(30)
<1>8. Filled(p).id # 0 /\ (p.id # 0 => Filled(p).id = p.id) BY <1>6 DEF PlanRecord
<1> QED BY <1>1, <1>2, <1>3, <1>6, <1>7, <1>8

(* The IDs do not change the verdict of Validator. *)
LEMMA FilledLimits ==
  ASSUME NEW p \in PlanRecord, uuid \in Nat, WithinLimits(p)
  PROVE  WithinLimits(Filled(p))
<1> DEFINE q == Filled(p)
<1>1. /\ q.aid = p.aid /\ Len(q.steps) = Len(p.steps)
      /\ \A i \in 1..Len(p.steps) : q.steps[i].name = p.steps[i].name
                                  /\ q.steps[i].type = p.steps[i].type
  BY FilledFacts
<1> HIDE DEF q
<1>2. ToolCount(q.steps) = ToolCount(p.steps)
  <2>1. {i \in 1..Len(q.steps) : q.steps[i].type \in {"skill", "tool"}}
          = {i \in 1..Len(p.steps) : p.steps[i].type \in {"skill", "tool"}}
    BY <1>1, Zenon
  <2> QED BY <2>1 DEF ToolCount
<1>3. WithinLimits(q) BY <1>1, <1>2 DEF WithinLimits
<1> QED BY <1>3 DEF q

(* A call of Validate on a plan: nothing, or the plan filled in. *)
LEMMA AfterValidateFacts ==
  ASSUME NEW p \in PlanRecord, uuid \in Nat
  PROVE  /\ AfterValidate(p) \in PlanRecord
         /\ AfterValidate(p).from = p.from
         /\ AfterValidate(p).parent = p.parent
         /\ p.id # 0 => AfterValidate(p).id = p.id
         /\ p.frozen => AfterValidate(p) = p
         /\ Len(AfterValidate(p).steps) = Len(p.steps)
         /\ \A i \in 1..Len(p.steps) :
              p.steps[i].sid # 0 => AfterValidate(p).steps[i] = p.steps[i]
         /\ WithinLimits(p) => WithinLimits(AfterValidate(p))
         /\ UUIDsAfter(p) \in Nat
<1>1. CASE Refuses(p)
  <2>1. AfterValidate(p) = p /\ UUIDsAfter(p) = uuid BY <1>1 DEF AfterValidate, UUIDsAfter
  <2> QED BY <2>1
<1>2. CASE ~Refuses(p)
  <2>1. AfterValidate(p) = Filled(p) /\ ~p.frozen BY <1>2 DEF AfterValidate, Refuses
  <2>2. UUIDsAfter(p) \in Nat
    <3>1. Len(p.steps) \in Nat BY DEF PlanRecord
    <3>2. UUIDsAfter(p) \in {uuid, uuid + 1 + Len(p.steps)} BY DEF UUIDsAfter
    <3>3. \A m \in Nat : uuid + 1 + m \in Nat OBVIOUS
    <3> QED BY <3>1, <3>2, <3>3, Zenon
  <2> QED BY <2>1, <2>2, FilledFacts, FilledLimits
<1> QED BY <1>1, <1>2

\* What FrozenWellFormed says of one plan.
Traceable(p) ==
  /\ p.frozen
  /\ p.id # 0
  /\ Len(p.steps) > 0
  /\ \A i \in 1..Len(p.steps) :
       /\ p.steps[i].sid # 0
       /\ \A j \in 1..i - 1 : p.steps[j].name # p.steps[i].name

(* Validate passes only what can be run and traced. *)
LEMMA ValidTraceable ==
  ASSUME NEW p \in PlanRecord, uuid \in Nat, p.valid => Traceable(p), AfterValidate(p).valid
  PROVE  Traceable(AfterValidate(p))
<1>0. Len(p.steps) \in Nat BY DEF PlanRecord
<1>1. CASE Refuses(p) BY <1>1 DEF AfterValidate
<1>2. CASE ~Refuses(p)
  <2> DEFINE q == Filled(p)
  <2>1. AfterValidate(p) = q /\ Len(p.steps) > 0 BY <1>0, <1>2 DEF AfterValidate, Refuses
  <2>2. WellFormed(p) BY <2>1, FilledFacts
  <2>3. /\ q.frozen /\ q.id # 0 /\ Len(q.steps) = Len(p.steps)
        /\ \A i \in 1..Len(p.steps) : q.steps[i].sid # 0 /\ q.steps[i].name = p.steps[i].name
    BY <2>2, FilledFacts
  <2>4. ASSUME NEW i \in 1..Len(p.steps), NEW j \in 1..i - 1 PROVE p.steps[j].name # p.steps[i].name
    BY <1>0, <2>2 DEF WellFormed, Reached, BadStep
  <2> HIDE DEF q
  <2>5. \A i \in 1..Len(p.steps) : \A j \in 1..i - 1 : j \in 1..Len(p.steps) BY <1>0
  <2> QED BY <2>1, <2>3, <2>4, <2>5 DEF Traceable
<1> QED BY <1>1, <1>2

(* An answer of the model is an unfrozen plan that replaces none. *)
LEMMA AnswerFacts ==
  ASSUME NEW a \in Answers
  PROVE  a \in PlanRecord /\ ~a.frozen /\ ~a.valid /\ a.from = 0
<1>1. a.steps \in Seq(StepRecord)
  <2>1. PICK k \in 0..MaxDraftLen : a.steps \in [1..k -> DraftSteps] BY DEF Answers
  <2>2. k \in Nat BY DraftAssumption
  <2>3. a.steps \in [1..k -> StepRecord] BY <2>1, DraftAssumption
  <2> QED BY <2>2, <2>3, FunctionIsSeq
<1>2. a.id \in Int /\ a.parent \in Int /\ a.from = 0 /\ a.aid \in BOOLEAN /\ a.frozen = FALSE
      /\ a.valid = FALSE
  BY DraftAssumption DEF Answers
<1>3. a = [id |-> a.id, parent |-> a.parent, from |-> a.from, aid |-> a.aid, steps |-> a.steps,
           frozen |-> a.frozen, valid |-> a.valid]
  BY DEF Answers
<1>4. \A i, j \in Int, v \in BOOLEAN, s \in Seq(StepRecord) :
        [id |-> i, parent |-> j, from |-> 0, aid |-> v, steps |-> s, frozen |-> FALSE,
         valid |-> FALSE] \in PlanRecord
  BY DEF PlanRecord
<1>5. a \in PlanRecord BY <1>1, <1>2, <1>3, <1>4, Zenon
<1> QED BY <1>2, <1>5

-----------------------------------------------------------------------------
(* The invariant.                                                            *)

(* A session starts without plans. *)
LEMMA InitLifecycleInv == Init => LifecycleInv
BY DEF Init, LifecycleInv, TypeOK, LimitsInv, FrozenWellFormed, LineageKept

\* The facts of LifecycleInv about one plan, given the list it is or will be in.
Sound(p) == (Len(p.steps) > 0 => WithinLimits(p)) /\ (p.valid => Traceable(p))

(* The invariant is Sound of every plan, and the lineage. *)
LEMMA LifecycleInvSound ==
  LifecycleInv <=> TypeOK /\ (\A j \in 1..Len(plans) : Sound(plans[j])) /\ LineageKept
BY DEF LifecycleInv, LimitsInv, FrozenWellFormed, Sound, Traceable

(* The same of the next state, as the proofs of the steps use it. *)
LEMMA SoundLifecycleInv ==
  (TypeOK /\ (\A j \in 1..Len(plans) : Sound(plans[j])) /\ LineageKept)' => LifecycleInv'
BY LifecycleInvSound, PTL

(* A new plan keeps the invariant if it is sound and its parent is the plan it *)
(* was made from.                                                              *)
LEMMA AppendKeeps ==
  ASSUME LifecycleInv, uuid' \in Nat,
         NEW q \in PlanRecord, plans' = Append(plans, q),
         Sound(q),
         q.from # 0 => q.from \in 1..Len(plans) /\ q.parent = plans[q.from].id
  PROVE  LifecycleInv'
<1>0. plans \in Seq(PlanRecord) BY DEF LifecycleInv, TypeOK
<1>1. /\ plans' \in Seq(PlanRecord)
      /\ Len(plans') = Len(plans) + 1
      /\ plans'[Len(plans) + 1] = q
      /\ \A k \in 1..Len(plans) : plans'[k] = plans[k]
  BY <1>0
<1>2. Len(plans) \in Nat BY <1>0
<1>3. \A k \in 1..Len(plans') : k \in 1..Len(plans) \/ k = Len(plans) + 1 BY <1>1, <1>2
<1>4. \A k \in 1..Len(plans') : Sound(plans'[k]) BY <1>1, <1>3, LifecycleInvSound
<1>5. LineageKept'
  <2> SUFFICES ASSUME NEW k \in 1..Len(plans'), plans'[k].from # 0
               PROVE  /\ plans'[k].from < k
                      /\ plans'[k].parent # 0 => plans'[k].parent = plans'[plans'[k].from].id
    BY DEF LineageKept
  <2>1. CASE k \in 1..Len(plans)
    <3>1. /\ plans[k].from < k
          /\ plans[k].parent # 0 => plans[k].parent = plans[plans[k].from].id
      BY <1>1, <2>1 DEF LifecycleInv, LineageKept
    <3>2. plans[k].from \in 1..Len(plans)
      <4>1. plans[k] \in PlanRecord BY <1>0, <2>1, ElementOfSeq
      <4>2. plans[k].from \in Nat /\ plans[k].from # 0 BY <1>1, <2>1, <4>1 DEF PlanRecord
      <4> QED BY <1>2, <2>1, <3>1, <4>2
    <3> QED BY <1>1, <2>1, <3>1, <3>2
  <2>2. CASE k = Len(plans) + 1
    <3>1. q.from \in 1..Len(plans) BY <1>1, <2>2
    <3>2. q.from < Len(plans) + 1 BY <1>2, <3>1
    <3> QED BY <1>1, <2>2, <3>1, <3>2
  <2> QED BY <1>3, <2>1, <2>2
<1>6. TypeOK' BY <1>1 DEF TypeOK
<1> QED BY <1>4, <1>5, <1>6, SoundLifecycleInv

(* Plan: the answer as the model wrote it, within the limits or empty. *)
LEMMA PlanKeeps ==
  ASSUME LifecycleInv, NEW a \in Answers, Plan(a)
  PROVE  LifecycleInv'
<1>0. a \in PlanRecord /\ ~a.valid /\ a.from = 0 /\ Len(a.steps) \in Nat
  BY AnswerFacts DEF PlanRecord
<1>1. uuid' \in Nat BY DEF Plan, LifecycleInv, TypeOK
<1>2. CASE Len(a.steps) = 0 \/ WithinLimits(a)
  <2>1. Sound(a) BY <1>0, <1>2 DEF Sound
  <2>2. plans' = Append(plans, a) BY <1>2 DEF Plan
  <2> QED BY <1>0, <1>1, <2>1, <2>2, AppendKeeps
<1>3. CASE ~(Len(a.steps) = 0 \/ WithinLimits(a))
  <2>1. UNCHANGED <<plans, uuid>> BY <1>3 DEF Plan
  <2> QED BY <2>1 DEF LifecycleInv, TypeOK, LimitsInv, FrozenWellFormed, LineageKept
<1> QED BY <1>2, <1>3

(* Replan: the lineage, then the limits, then the IDs. *)
LEMMA ReplanKeeps ==
  ASSUME LifecycleInv, NEW a \in Answers, NEW k \in 1..Len(plans), Replan(k, a)
  PROVE  LifecycleInv'
<1> DEFINE p == [a EXCEPT !.parent = plans[k].id, !.from = k]
<1>0. a \in PlanRecord /\ ~a.valid BY AnswerFacts
<1>1. plans[k] \in PlanRecord /\ plans[k].id \in Int /\ k \in Nat
  <2>1. plans[k] \in PlanRecord BY ElementOfSeq DEF LifecycleInv, TypeOK
  <2>2. Len(plans) \in Nat BY DEF LifecycleInv, TypeOK
  <2> QED BY <2>1, <2>2 DEF PlanRecord
<1>2. p \in PlanRecord
  <2>1. \A q \in PlanRecord, v \in Int : [q EXCEPT !.parent = v] \in PlanRecord BY DEF PlanRecord
  <2>2. \A q \in PlanRecord, v \in Nat : [q EXCEPT !.from = v] \in PlanRecord BY DEF PlanRecord
  <2> QED BY <1>0, <1>1, <2>1, <2>2, Zenon
<1>3. p.from = k /\ p.parent = plans[k].id /\ ~p.valid BY <1>0 DEF PlanRecord
<1>4. uuid \in Nat BY DEF LifecycleInv, TypeOK
<1>5. \/ Len(p.steps) = 0 /\ plans' = Append(plans, p) /\ UNCHANGED uuid
      \/ UNCHANGED <<plans, uuid>>
      \/ WithinLimits(p) /\ plans' = Append(plans, AfterValidate(p)) /\ uuid' = UUIDsAfter(p)
  BY DEF Replan
<1> HIDE DEF p
<1>6. CASE Len(p.steps) = 0 /\ plans' = Append(plans, p) /\ UNCHANGED uuid
  <2>1. Sound(p) BY <1>3, <1>6 DEF Sound
  <2> QED BY <1>2, <1>3, <1>4, <1>6, <2>1, AppendKeeps
<1>7. CASE UNCHANGED <<plans, uuid>>
  BY <1>7 DEF LifecycleInv, TypeOK, LimitsInv, FrozenWellFormed, LineageKept
<1>8. CASE WithinLimits(p) /\ plans' = Append(plans, AfterValidate(p)) /\ uuid' = UUIDsAfter(p)
  <2> DEFINE q == AfterValidate(p)
  <2>1. q \in PlanRecord /\ q.from = k /\ q.parent = plans[k].id /\ WithinLimits(q) /\ uuid' \in Nat
    BY <1>2, <1>3, <1>4, <1>8, AfterValidateFacts
  <2>2. q.valid => Traceable(q) BY <1>2, <1>3, <1>4, ValidTraceable
  <2>3. Sound(q) BY <2>1, <2>2 DEF Sound
  <2>4. plans' = Append(plans, q) BY <1>8
  <2> HIDE DEF q
  <2> QED BY <2>1, <2>3, <2>4, AppendKeeps
<1> QED BY <1>5, <1>6, <1>7, <1>8

(* Freezing keeps everything else of a plan. *)
LEMMA FreezeFacts ==
  ASSUME NEW p \in PlanRecord
  PROVE  LET q == [p EXCEPT !.frozen = TRUE]
         IN  /\ q \in PlanRecord /\ q.frozen
             /\ q.from = p.from /\ q.parent = p.parent /\ q.id = p.id /\ q.steps = p.steps
             /\ q.aid = p.aid /\ q.valid = p.valid
             /\ p.frozen => q = p
<1>1. p.frozen => [p EXCEPT !.frozen = TRUE] = p
  <2>1. ASSUME p.frozen PROVE p.frozen = TRUE BY <2>1 DEF PlanRecord
  <2> QED BY <2>1 DEF PlanRecord
<1> QED BY <1>1 DEF PlanRecord

(* Validate and Freeze change one plan: a sound one of the same lineage, ID *)
(* and limits takes its place.                                              *)
LEMMA ReplaceKeeps ==
  ASSUME LifecycleInv, NEW k \in 1..Len(plans), NEW q \in PlanRecord, uuid' \in Nat,
         plans' = [plans EXCEPT ![k] = q],
         q.from = plans[k].from, q.parent = plans[k].parent,
         plans[k].id # 0 => q.id = plans[k].id,
         Sound(q)
  PROVE  LifecycleInv'
<1> DEFINE p == plans[k]
<1>0. plans \in Seq(PlanRecord) /\ p \in PlanRecord
  BY ElementOfSeq DEF LifecycleInv, TypeOK
<1> HIDE DEF p
<1>1. /\ plans' \in Seq(PlanRecord) /\ Len(plans') = Len(plans)
      /\ plans'[k] = q
      /\ \A j \in 1..Len(plans) : j # k => plans'[j] = plans[j]
  BY <1>0, ExceptSeq
<1>2. \A j \in 1..Len(plans') : Sound(plans'[j]) BY <1>1, LifecycleInvSound
<1>3. LineageKept'
  <2>1. \A j \in 1..Len(plans) : /\ plans'[j].from = plans[j].from
                                 /\ plans'[j].parent = plans[j].parent
                                 /\ plans[j].id # 0 => plans'[j].id = plans[j].id
    BY <1>1
  <2>2. ASSUME NEW j \in 1..Len(plans), plans[j].from # 0 PROVE plans[j].from \in 1..Len(plans)
    <3>1. plans[j] \in PlanRecord /\ Len(plans) \in Nat BY <1>0, ElementOfSeq
    <3>2. plans[j].from \in Nat /\ plans[j].from # 0 /\ plans[j].from < j
      BY <2>2, <3>1 DEF PlanRecord, LifecycleInv, LineageKept
    <3> QED BY <3>1, <3>2
  <2> QED BY <1>1, <2>1, <2>2 DEF LineageKept, LifecycleInv
<1>4. TypeOK' BY <1>1 DEF TypeOK
<1> QED BY <1>2, <1>3, <1>4, SoundLifecycleInv

(* Validate: one plan is filled in, or nothing happens. *)
LEMMA ValidateKeeps ==
  ASSUME LifecycleInv, NEW k \in 1..Len(plans), Validate(k)
  PROVE  LifecycleInv'
<1> DEFINE p == plans[k]
           q == AfterValidate(p)
<1>0. plans \in Seq(PlanRecord) /\ uuid \in Nat /\ p \in PlanRecord
  BY ElementOfSeq DEF LifecycleInv, TypeOK
<1>1. Sound(p) BY LifecycleInvSound
<1>2. /\ q \in PlanRecord /\ q.from = p.from /\ q.parent = p.parent
      /\ p.id # 0 => q.id = p.id
      /\ Len(q.steps) = Len(p.steps)
      /\ WithinLimits(p) => WithinLimits(q)
      /\ UUIDsAfter(p) \in Nat
  BY <1>0, AfterValidateFacts
<1>3. Sound(q)
  <2>1. q.valid => Traceable(q) BY <1>0, <1>1, ValidTraceable DEF Sound
  <2> QED BY <1>1, <1>2, <2>1 DEF Sound
<1>4. plans' = [plans EXCEPT ![k] = q] /\ uuid' = UUIDsAfter(p) BY DEF Validate
<1> QED BY <1>0, <1>2, <1>3, <1>4, ReplaceKeeps

(* Freeze: one plan is marked. *)
LEMMA FreezeKeeps ==
  ASSUME LifecycleInv, NEW k \in 1..Len(plans), Freeze(k)
  PROVE  LifecycleInv'
<1> DEFINE p == plans[k]
           q == [p EXCEPT !.frozen = TRUE]
<1>0. plans \in Seq(PlanRecord) /\ uuid' \in Nat /\ p \in PlanRecord
  BY ElementOfSeq DEF LifecycleInv, TypeOK, Freeze
<1>1. plans' = [plans EXCEPT ![k] = q] BY DEF Freeze
<1>2. /\ q \in PlanRecord /\ q.frozen /\ q.from = p.from /\ q.parent = p.parent /\ q.id = p.id
      /\ q.steps = p.steps /\ q.aid = p.aid /\ q.valid = p.valid
  BY <1>0, FreezeFacts
<1>3. Sound(p) BY LifecycleInvSound
<1> HIDE DEF q
<1>4. Sound(q) BY <1>2, <1>3 DEF Sound, Traceable, WithinLimits
<1> QED BY <1>0, <1>1, <1>2, <1>4, ReplaceKeeps

(* LifecycleInv holds throughout a session. *)
THEOREM LifecycleInvariant == Spec => []LifecycleInv
<1>1. LifecycleInv /\ [Next]_vars => LifecycleInv'
  <2> SUFFICES ASSUME LifecycleInv, [Next]_vars PROVE LifecycleInv'
    OBVIOUS
  <2>1. CASE RoundFails \/ UNCHANGED vars
    BY <2>1, SMTT(20) DEF RoundFails, vars, LifecycleInv, TypeOK, LimitsInv, FrozenWellFormed, LineageKept
  <2>2. ASSUME NEW a \in Answers, Plan(a) PROVE LifecycleInv' BY <2>2, PlanKeeps
  <2>3. ASSUME NEW a \in Answers, NEW k \in 1..Len(plans), Replan(k, a) PROVE LifecycleInv'
    BY <2>3, ReplanKeeps
  <2>4. ASSUME NEW k \in 1..Len(plans), Validate(k) PROVE LifecycleInv' BY <2>4, ValidateKeeps
  <2>5. ASSUME NEW k \in 1..Len(plans), Freeze(k) PROVE LifecycleInv' BY <2>5, FreezeKeeps
  <2> QED BY <2>1, <2>2, <2>3, <2>4, <2>5 DEF Next
<1> QED BY <1>1, InitLifecycleInv, PTL DEF Spec

(* However long a session, a plan with steps that the caller has is within the *)
(* limits of Validator, also after its IDs were filled in (PlansWithinLimits). *)
THEOREM Limits == Spec => []PlansWithinLimits
<1>1. LifecycleInv => PlansWithinLimits
  <2> SUFFICES ASSUME LifecycleInv, NEW k \in 1..Len(plans), Len(plans[k].steps) > 0
               PROVE  /\ plans[k].aid
                      /\ Len(plans[k].steps) <= MaxSteps
                      /\ Cardinality({i \in 1..Len(plans[k].steps) : plans[k].steps[i].type # "llm"})
                           <= MaxToolCalls
    BY DEF PlansWithinLimits
  <2>1. WithinLimits(plans[k]) BY DEF LifecycleInv, LimitsInv
  <2>2. {i \in 1..Len(plans[k].steps) : plans[k].steps[i].type # "llm"}
          = {i \in 1..Len(plans[k].steps) : plans[k].steps[i].type \in {"skill", "tool"}}
    BY <2>1 DEF WithinLimits, Known
  <2> QED BY <2>1, <2>2 DEF WithinLimits, ToolCount
<1> QED BY <1>1, LifecycleInvariant, PTL

(* A plan that passed Validate is frozen, has an ID, IDs on all of its steps *)
(* and no two steps of one name (FrozenWellFormed), whatever IDs the model   *)
(* wrote and whichever validations failed before.                            *)
THEOREM Frozen == Spec => []FrozenWellFormed
BY LifecycleInvariant, PTL DEF LifecycleInv

(* A plan that Replan made points to the plan it replaces for good *)
(* (LineageKept).                                                  *)
THEOREM Lineage == Spec => []LineageKept
BY LifecycleInvariant, PTL DEF LifecycleInv

(* A frozen plan never changes, and no ID is ever replaced (PlansStable). *)
THEOREM Stable == Spec => PlansStable
<1> DEFINE Kept ==
      \A k \in 1..Len(plans) :
       /\ k <= Len(plans') /\ plans'[k].from = plans[k].from
       /\ plans[k].frozen => plans'[k] = plans[k]
       /\ plans[k].id # 0 => plans'[k].id = plans[k].id
       /\ \A i \in 1..Len(plans[k].steps) :
            plans[k].steps[i].sid # 0 => plans'[k].steps[i] = plans[k].steps[i]
<1>1. LifecycleInv /\ [Next]_vars => [Kept]_vars
  <2> SUFFICES ASSUME LifecycleInv, Next PROVE Kept
    OBVIOUS
  <2>0. plans \in Seq(PlanRecord) /\ Len(plans) \in Nat /\ uuid \in Nat BY DEF LifecycleInv, TypeOK
  <2>1. CASE UNCHANGED plans BY <2>0, <2>1
  <2>2. ASSUME NEW q, plans' = Append(plans, q) PROVE Kept
    <3>1. Len(plans') = Len(plans) + 1 /\ \A k \in 1..Len(plans) : plans'[k] = plans[k]
      BY <2>0, <2>2
    <3> QED BY <2>0, <3>1
  <2>3. ASSUME NEW k \in 1..Len(plans), Validate(k) PROVE Kept
    <3>0. plans[k] \in PlanRecord BY <2>0, ElementOfSeq
    <3>1. /\ Len(plans') = Len(plans) /\ plans'[k] = AfterValidate(plans[k])
          /\ \A j \in 1..Len(plans) : j # k => plans'[j] = plans[j]
      BY <2>0, <2>3 DEF Validate
    <3>2. ASSUME NEW j \in 1..Len(plans), j # k PROVE plans'[j] = plans[j] BY <3>1, <3>2
    <3>3. \A j \in 1..Len(plans) : j <= Len(plans') BY <2>0, <3>1
    <3>4. /\ plans'[k].from = plans[k].from
          /\ plans[k].frozen => plans'[k] = plans[k]
          /\ plans[k].id # 0 => plans'[k].id = plans[k].id
          /\ \A i \in 1..Len(plans[k].steps) :
               plans[k].steps[i].sid # 0 => plans'[k].steps[i] = plans[k].steps[i]
      BY <2>0, <3>0, <3>1, AfterValidateFacts
    <3> QED BY <3>2, <3>3, <3>4
  <2>4. ASSUME NEW k \in 1..Len(plans), Freeze(k) PROVE Kept
    <3>0. plans[k] \in PlanRecord BY <2>0, ElementOfSeq
    <3> DEFINE q == [plans[k] EXCEPT !.frozen = TRUE]
    <3>1. plans' = [plans EXCEPT ![k] = q] BY <2>4 DEF Freeze
    <3>2. /\ q \in PlanRecord /\ q.from = plans[k].from /\ q.id = plans[k].id /\ q.steps = plans[k].steps
          /\ plans[k].frozen => q = plans[k]
      BY <3>0, FreezeFacts
    <3> HIDE DEF q
    <3>3. /\ Len(plans') = Len(plans) /\ plans'[k] = q
          /\ \A j \in 1..Len(plans) : j # k => plans'[j] = plans[j]
      BY <2>0, <3>2, <3>1, ExceptSeq
    <3>4. \A j \in 1..Len(plans) : j <= Len(plans') BY <2>0, <3>3
    <3>5. ASSUME NEW j \in 1..Len(plans), j # k PROVE plans'[j] = plans[j] BY <3>3, <3>5
    <3> QED BY <3>3, <3>2, <3>4, <3>5
  <2>5. \/ UNCHANGED plans \/ \E q : plans' = Append(plans, q)
        \/ \E k \in 1..Len(plans) : Validate(k) \/ Freeze(k)
    BY DEF Next, RoundFails, Plan, Replan
  <2> QED BY <2>1, <2>2, <2>3, <2>4, <2>5
<1> QED BY <1>1, LifecycleInvariant, PTL DEF Spec, PlansStable
=============================================================================
