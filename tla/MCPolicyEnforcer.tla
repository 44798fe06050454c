---------------------------- MODULE MCPolicyEnforcer ----------------------------
(* Instances of PolicyEnforcer for TLC.                                      *)
EXTENDS PolicyEnforcer

any == [kind |-> "any", path |-> <<>>]
allSkills == [kind |-> "prefix", path |-> <<"skill">>]
oneSkill == [kind |-> "exact", path |-> <<"skill", "summarize">>]

free == [after |-> None, before |-> None, role |-> None]
night == [after |-> 3, before |-> 1, role |-> None]
day == [after |-> 1, before |-> 3, role |-> None]
empty == [after |-> 2, before |-> 2, role |-> None]
half == [after |-> 1, before |-> None, role |-> "admin"]
nightAdmin == [after |-> 3, before |-> 1, role |-> "admin"]

rule(e, p, a, r, c) == [effect |-> e, priority |-> p, action |-> a, resource |-> r, conditions |-> c]

MCBodies ==
  {rule("deny", 1, "*", any, free), rule("allow", 1, "exec", allSkills, free),
   rule("deny", 2, "exec", oneSkill, night), rule("allow", 2, "*", any, half),
   rule("other", 3, "*", any, free), rule("deny", 0, "exec", any, day),
   rule("deny", 3, "exec", allSkills, empty)}

MCConditionBodies == {rule("deny", 1, "*", any, nightAdmin), rule("allow", 2, "*", any, half)}

MCRequests ==
  [action: {"exec", "list"}, resource: {<<"skill", "summarize">>, <<"model", "m">>},
   time: {0, 2, None}, role: {"admin", "user"}]

MCFewRequests == [action: {"exec"}, resource: {<<"skill">>}, time: {0, 2, None}, role: {"admin", "user"}]
=============================================================================
