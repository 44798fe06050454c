---------------------------- MODULE MCPlanLifecycle ----------------------------
(* Instances of PlanLifecycle for TLC.                                       *)
EXTENDS PlanLifecycle

step(n, t, s) == [name |-> n, type |-> t, sid |-> s]

\* Two good names, one ID written by the model, a nameless and an unknown step.
MCDraftSteps ==
  {step(1, "tool", 0), step(2, "llm", -1), step(2, "skill", 0), step(0, "tool", 0), step(1, "other", 0)}

\* Steps that only differ in who wrote their ID.
MCFewSteps == {step(1, "tool", -1), step(2, "llm", -1), step(2, "llm", 0)}

MCDraftIDs == {0, -1}
=============================================================================
