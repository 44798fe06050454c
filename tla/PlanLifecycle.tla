----------------------------- MODULE PlanLifecycle -----------------------------
(*****************************************************************************)
(* The life of execution plans: LLMPlanner.Plan and Replan turn what the     *)
(* model answered into a plan, Validator bounds it, ExecutionPlan.Validate   *)
(* gives it IDs and freezes it, Replan links it to the plan it replaces.     *)
(*                                                                           *)
(* The model's answer is any plan: it may name its own IDs, repeat names and *)
(* exceed every limit.  Identifiers are integers: 0 is the empty string, a   *)
(* negative one was written by the model, a positive one is a fresh UUID.    *)
(*****************************************************************************)
EXTENDS Integers, Sequences, FiniteSets

CONSTANTS
  DraftSteps,    \* the steps a model's answer is made of
  MaxDraftLen,   \* bound on the steps of an answer
  DraftIDs,      \* plan IDs an answer may carry (0 or negative)
  MaxSteps, MaxToolCalls,     \* ExecutionLimits
  MaxPlans       \* bound on the plans of a session

StepRecord == [name: Nat, type: {"skill", "tool", "llm", "other"}, sid: Int]

ASSUME DraftAssumption ==
  /\ DraftSteps \subseteq StepRecord
  /\ \A s \in DraftSteps : s.sid <= 0
  /\ DraftIDs \subseteq {i \in Int : i <= 0}
  /\ MaxDraftLen \in Nat
ASSUME LimitsAssumption == MaxSteps \in Nat /\ MaxToolCalls \in Nat /\ MaxPlans \in Nat

VARIABLES
  plans,    \* every plan handed to the caller, in the order it was made; from is
            \* the plan it replaces, valid that Validate has passed it (history)
  uuid,     \* the last UUID generated
  outcome   \* how the last call ended

vars == <<plans, uuid, outcome>>

Init == plans = <<>> /\ uuid = 0 /\ outcome = "none"

-----------------------------------------------------------------------------
(* Validator.Validate: the limits.  Skill and tool steps both use the tool   *)
(* budget, llm steps do not.                                                 *)

Known(type) == type \in {"skill", "tool", "llm"}
\* Faulty: skill steps do not use the tool budget.
ToolCountNoSkills(steps) == Cardinality({i \in 1..Len(steps) : steps[i].type = "tool"})

ToolCount(steps) == Cardinality({i \in 1..Len(steps) : steps[i].type \in {"skill", "tool"}})

WithinLimits(p) ==
  /\ p.aid
  /\ Len(p.steps) > 0
  /\ Len(p.steps) <= MaxSteps
  /\ \A i \in 1..Len(p.steps) : p.steps[i].name # 0 /\ Known(p.steps[i].type)
  /\ ToolCount(p.steps) <= MaxToolCalls

-----------------------------------------------------------------------------
(* ExecutionPlan.Validate: IDs are filled in as the loop goes, so a plan that*)
(* fails at step b keeps the plan ID and the step IDs before b.              *)

\* Faulty: names are not compared.
BadStepNoDuplicates(p, i) == p.steps[i].name = 0 \/ ~Known(p.steps[i].type)

BadStep(p, i) ==
  \/ p.steps[i].name = 0
  \/ ~Known(p.steps[i].type)
  \/ \E j \in 1..i - 1 : p.steps[j].name = p.steps[i].name

\* The loop reaches step i: no earlier step stopped it.
Reached(p, i) == \A j \in 1..i : ~BadStep(p, j)
WellFormed(p) == Reached(p, Len(p.steps))

\* Faulty: a step ID is generated even if there is one.
FilledAgain(p) ==
  [p EXCEPT !.id = IF p.id = 0 THEN uuid + 1 ELSE p.id,
            !.steps = [i \in 1..Len(p.steps) |->
               IF Reached(p, i) THEN [p.steps[i] EXCEPT !.sid = uuid + 1 + i] ELSE p.steps[i]],
            !.frozen = WellFormed(p), !.valid = WellFormed(p)]

Filled(p) ==
  [p EXCEPT !.id = IF p.id = 0 THEN uuid + 1 ELSE p.id,
            !.steps = [i \in 1..Len(p.steps) |->
               IF Reached(p, i) /\ p.steps[i].sid = 0
               THEN [p.steps[i] EXCEPT !.sid = uuid + 1 + i] ELSE p.steps[i]],
            !.frozen = WellFormed(p), !.valid = WellFormed(p)]

Refuses(p) == p.frozen \/ Len(p.steps) = 0
AfterValidate(p) == IF Refuses(p) THEN p ELSE Filled(p)

\* UUIDs that no plan keeps need not be told apart from later ones.
UUIDsAfter(p) == IF AfterValidate(p) \in {p, [p EXCEPT !.frozen = TRUE, !.valid = TRUE]} THEN uuid
                 ELSE uuid + 1 + Len(p.steps)

-----------------------------------------------------------------------------
(* The planner.  llmPlanRound yields a parsed answer whose AssistantID was   *)
(* backfilled from the planner context, which may itself have none.          *)

Answers ==
  [id: DraftIDs, parent: DraftIDs, from: {0}, aid: BOOLEAN,
   steps: UNION {[1..k -> DraftSteps] : k \in 0..MaxDraftLen}, frozen: {FALSE}, valid: {FALSE}]

More == Len(plans) < MaxPlans

\* No skills, a routing failure, a failed model call or an unparsable answer.
RoundFails ==
  /\ outcome' = "failed"
  /\ UNCHANGED <<plans, uuid>>

\* Plan: an empty plan is the stop signal and is returned as it is; any other is
\* returned unfrozen, as the model wrote it, once it is within the limits.
Plan(a) ==
  /\ More
  /\ IF Len(a.steps) = 0 \/ WithinLimits(a)
     THEN /\ plans' = Append(plans, a)
          /\ outcome' = IF Len(a.steps) = 0 THEN "stop" ELSE "plan"
     ELSE /\ outcome' = "invalid"
          /\ UNCHANGED plans
  /\ UNCHANGED uuid

\* Faulty: a parent the model wrote is kept, and the limits come after it.
ReplanKeepsParent(k, a) ==
  LET p == [a EXCEPT !.parent = IF a.parent = 0 THEN plans[k].id ELSE a.parent, !.from = k]
  IN  /\ More
      /\ WithinLimits(p) /\ WellFormed(p)
      /\ plans' = Append(plans, AfterValidate(p))
      /\ uuid' = UUIDsAfter(p)
      /\ outcome' = "plan"

\* Replan of plan k: lineage is set first, then limits, then IDs and freezing.
Replan(k, a) ==
  LET p == [a EXCEPT !.parent = plans[k].id, !.from = k]
  IN  /\ More
      /\ IF Len(p.steps) = 0
         THEN plans' = Append(plans, p) /\ outcome' = "stop" /\ UNCHANGED uuid
         ELSE IF ~WithinLimits(p)
         THEN outcome' = "invalid" /\ UNCHANGED <<plans, uuid>>
         ELSE IF ~WellFormed(p)
         THEN outcome' = "freezeFailed" /\ UNCHANGED <<plans, uuid>>
         ELSE /\ plans' = Append(plans, AfterValidate(p))
              /\ uuid' = UUIDsAfter(p)
              /\ outcome' = "plan"

\* The caller validates plan k before running it; it may do so again.
Validate(k) ==
  /\ plans' = [plans EXCEPT ![k] = AfterValidate(plans[k])]
  /\ uuid' = UUIDsAfter(plans[k])
  /\ outcome' = IF Refuses(plans[k]) \/ ~WellFormed(plans[k]) THEN "refused" ELSE "validated"

\* Freeze, which anyone may call, freezes plan k as it is.
Freeze(k) ==
  /\ plans' = [plans EXCEPT ![k].frozen = TRUE]
  /\ UNCHANGED <<uuid, outcome>>

Next ==
  \/ RoundFails
  \/ \E a \in Answers : Plan(a) \/ \E k \in 1..Len(plans) : Replan(k, a)
  \/ \E k \in 1..Len(plans) : Validate(k) \/ Freeze(k)

Spec == Init /\ [][Next]_vars

-----------------------------------------------------------------------------
(* Properties.                                                               *)

\* Whatever the model answers and whatever is validated later, a plan with steps
\* that reached the caller belongs to an assistant and costs at most MaxSteps
\* steps, of which at most MaxToolCalls invoke anything outside the model.
PlansWithinLimits ==
  \A k \in 1..Len(plans) : Len(plans[k].steps) > 0 =>
    /\ plans[k].aid
    /\ Len(plans[k].steps) <= MaxSteps
    /\ Cardinality({i \in 1..Len(plans[k].steps) : plans[k].steps[i].type # "llm"}) <= MaxToolCalls

\* A plan that passed Validate, then or after attempts that failed half-way, is
\* frozen and can be run and traced: it has an ID, step names that results can be
\* keyed by without collision, and an ID on every step.  A plan that was frozen by a
\* call of Freeze alone has none of this, and IsFrozen does not tell the two apart.
FrozenWellFormed ==
  \A k \in 1..Len(plans) : plans[k].valid =>
    /\ plans[k].frozen
    /\ plans[k].id # 0
    /\ Len(plans[k].steps) > 0
    /\ \A i \in 1..Len(plans[k].steps) :
         /\ plans[k].steps[i].sid # 0
         /\ \A j \in 1..i - 1 : plans[k].steps[j].name # plans[k].steps[i].name

\* "Once validated and frozen, the plan is immutable" (ExecutionPlan), and an ID
\* once given, by a validation that failed half-way too, is never replaced.
PlansStable ==
  [][\A k \in 1..Len(plans) :
       /\ k <= Len(plans') /\ plans'[k].from = plans[k].from
       /\ plans[k].frozen => plans'[k] = plans[k]
       /\ plans[k].id # 0 => plans'[k].id = plans[k].id
       /\ \A i \in 1..Len(plans[k].steps) :
            plans[k].steps[i].sid # 0 => plans'[k].steps[i] = plans[k].steps[i]]_vars

\* The planner writes no parent other than the ID the replaced plan has: a plan
\* made by Replan from a plan that had an ID points to it for good.
LineageKept ==
  \A k \in 1..Len(plans) : plans[k].from # 0 =>
    /\ plans[k].from < k
    /\ plans[k].parent # 0 => plans[k].parent = plans[plans[k].from].id
=============================================================================
