----------------------------- MODULE StepExecution -----------------------------
(*****************************************************************************)
(* Running the steps of a frozen plan: GroupParallelSteps cuts the plan into *)
(* batches, Prepare makes a step ready (clone, coerce, resolve templates     *)
(* against the results so far).  The harness that drives them is outside     *)
(* this repository (external): it takes the batches in order, runs the steps *)
(* of one batch in any order and keys the results by step name.              *)
(*                                                                           *)
(* A step name is a sequence of segments ("mcp.his.query" has three), a      *)
(* result is a scalar or a map.  A string argument is a numeral, other text, *)
(* or a template, that is a string with "{{": refs are the references that   *)
(* the regular expression finds in it, rest says that it also has a "{{"     *)
(* which the expression does not match, as in "{{ prev }}".  An argument     *)
(* that is no string (a list, a map) is "nested", with the references in the *)
(* strings inside it.                                                        *)
(*****************************************************************************)
EXTENDS Integers, Sequences, FiniteSets, SequencesExt

CONSTANTS
  Plans,     \* the plans: sequences of steps
  Outputs,   \* what a step may return
  Fail       \* the error value

Scalar == [k |-> "scalar"]

Path == Seq(STRING)
Argument ==
  [k: {"numeral", "text"}] \union [k: {"template"}, refs: Seq(Path), rest: BOOLEAN]
    \union [k: {"nested"}, refs: Seq(Path)]
StepRecord == [name: Path, args: Seq(Argument), parallelizable: BOOLEAN, group: STRING]

ASSUME PlansAssumption ==
  /\ Plans \subseteq Seq(StepRecord)
  /\ \A p \in Plans : \A i, j \in 1..Len(p) : p[i].name = p[j].name => i = j

VARIABLES
  plan,     \* the frozen plan
  state,    \* of each step: "waiting", "running", "done", "failed"
  sent,     \* of each step: the arguments it was dispatched with
  results   \* step name -> output, what templates are resolved against

vars == <<plan, state, sent, results>>

Steps == 1..Len(plan)

Init ==
  /\ plan \in Plans
  /\ state = [i \in Steps |-> "waiting"]
  /\ sent = [i \in Steps |-> <<>>]
  /\ results = [s \in {} |-> Scalar]

-----------------------------------------------------------------------------
(* template.Resolve                                                          *)

\* Faulty: the first segment is the step name.
resolveFirstSegment(path, known) ==
  IF path \in known \/ Len(path) = 1 THEN [step |-> path, field |-> <<>>]
  ELSE [step |-> <<path[1]>>, field |-> Tail(path)]

\* The whole content is a step name, or else its longest prefix that is one, and
\* the rest a field path; if there is none, the whole content again.
resolveTemplateContent(path, known) ==
  LET cuts == {m \in 1..Len(path) - 1 : SubSeq(path, 1, m) \in known}
      cut == CHOOSE m \in cuts : \A l \in cuts : l <= m
  IN  IF path \in known \/ cuts = {} THEN [step |-> path, field |-> <<>>]
      ELSE [step |-> SubSeq(path, 1, cut), field |-> SubSeq(path, cut + 1, Len(path))]

\* Walks a field path into nested maps.
extractField(value, field) ==
  FoldLeft(LAMBDA cur, f : IF cur = Fail THEN Fail
                           ELSE IF cur.k = "map" /\ f \in DOMAIN cur.m THEN cur.m[f] ELSE Fail,
           value, field)

\* One reference: the step it reads and the value it finds there.
Lookup(path, res) ==
  LET at == resolveTemplateContent(path, DOMAIN res)
  IN  [path |-> path, step |-> at.step,
       value |-> IF at.step \in DOMAIN res THEN extractField(res[at.step], at.field) ELSE Fail]

\* stringifyComplex, stringifyValue: a string, whatever the values are; what the
\* expression did not match stays in it.
stringify(reads, rest) == [k |-> "string", reads |-> reads, rest |-> rest]

\* Faulty: a reference that is not found is left in place, its error dropped.
ResolveWhatIsFound(arg, res) ==
  LET reads == [i \in 1..Len(arg.refs) |-> Lookup(arg.refs[i], res)]
  IN  IF DOMAIN res = {} \/ Len(arg.refs) = 0 THEN arg
      ELSE IF \E i \in 1..Len(reads) : reads[i].value = Fail THEN arg
      ELSE stringify(reads, arg.rest)

\* Without results, or without a match of the expression, the string is returned
\* as it is.
Resolve(arg, res) ==
  LET reads == [i \in 1..Len(arg.refs) |-> Lookup(arg.refs[i], res)]
  IN  IF DOMAIN res = {} \/ Len(arg.refs) = 0 THEN arg
      ELSE IF \E i \in 1..Len(reads) : reads[i].value = Fail THEN Fail
      ELSE stringify(reads, arg.rest)

\* tryParseInt, tryParseFloat or tryParseBool succeeds.
tryParse(arg) == arg.k = "numeral"

\* template.CoerceStringNumbers
Coerce(arg) == IF tryParse(arg) THEN [k |-> "native"] ELSE arg

\* ExecutionStep.Prepare: a clone, coerced and then resolved; an error of any
\* argument is the step's.  An argument that is no string is skipped by both.
Prepare(step, res) ==
  LET coerced == [i \in 1..Len(step.args) |-> Coerce(step.args[i])]
      resolved == [i \in 1..Len(coerced) |-> IF coerced[i].k = "template"
                                             THEN Resolve(coerced[i], res) ELSE coerced[i]]
  IN  IF \E i \in 1..Len(resolved) : resolved[i] = Fail THEN Fail ELSE resolved

\* template.ExtractReferencedSteps: the known steps an argument refers to.
ExtractReferencedSteps(arg, known) ==
  {resolveTemplateContent(arg.refs[i], known).step : i \in 1..Len(arg.refs)} \intersect known

-----------------------------------------------------------------------------
(* GroupParallelSteps: consecutive parallelizable steps of one group share a *)
(* batch.                                                                    *)

\* Faulty: the group alone decides.
SameGroup(i, j) == plan[i].group # "" /\ plan[j].group = plan[i].group

Together(i, j) ==
  /\ plan[i].parallelizable /\ plan[i].group # ""
  /\ plan[j].parallelizable /\ plan[j].group = plan[i].group

Batch(i) == Cardinality({j \in 1..i : j = 1 \/ ~Together(j - 1, j)})

Ended(i) == state[i] \in {"done", "failed"}
BatchReached(i) == \A j \in Steps : Batch(j) < Batch(i) => Ended(j)

-----------------------------------------------------------------------------
(* The harness.                                                              *)

Dispatch(i) ==
  /\ state[i] = "waiting" /\ BatchReached(i)
  /\ Prepare(plan[i], results) # Fail
  /\ state' = [state EXCEPT ![i] = "running"]
  /\ sent' = [sent EXCEPT ![i] = Prepare(plan[i], results)]
  /\ UNCHANGED <<plan, results>>

\* A step that cannot be prepared is failed.
Unprepared(i) ==
  /\ state[i] = "waiting" /\ BatchReached(i)
  /\ Prepare(plan[i], results) = Fail
  /\ state' = [state EXCEPT ![i] = "failed"]
  /\ UNCHANGED <<plan, sent, results>>

\* The step succeeded, or failed and has no result.
Finish(i, out) ==
  /\ state[i] = "running"
  /\ IF out = Fail
     THEN state' = [state EXCEPT ![i] = "failed"] /\ UNCHANGED results
     ELSE /\ state' = [state EXCEPT ![i] = "done"]
          /\ results' = [s \in DOMAIN results \union {plan[i].name} |->
                           IF s = plan[i].name THEN out ELSE results[s]]
  /\ UNCHANGED <<plan, sent>>

Over == (\A i \in Steps : Ended(i)) /\ UNCHANGED vars

Next ==
  \/ \E i \in Steps : Dispatch(i) \/ Unprepared(i) \/ \E out \in Outputs \union {Fail} : Finish(i, out)
  \/ Over

Spec == Init /\ [][Next]_vars

-----------------------------------------------------------------------------
(* Properties.                                                               *)

\* Once a step has succeeded, every reference that the regular expression finds in a
\* string argument is either replaced or fails the step (Resolve, ResolveArguments):
\* none is dispatched as it is written.  The comment of ResolveArguments promises
\* more ("rather than dispatch it with a literal {{...}} string"): what the
\* expression does not match ("{{ prev }}") and templates inside an argument that is
\* no string reach the step as they are, and so does everything before the first
\* success.
LiteralOnlyAtFirst ==
  [][\A i \in Steps : state'[i] = "running" /\ state[i] = "waiting" /\ DOMAIN results # {} =>
       \A a \in 1..Len(sent'[i]) : sent'[i][a].k = "template" => Len(sent'[i][a].refs) = 0]_vars

\* Evidence follows the data: every value in a running step's arguments comes from
\* a step that had succeeded, namely the one with the longest name that the
\* reference begins with, and ExtractReferencedSteps names exactly these steps.
EvidenceFollowsData ==
  [][\A i \in Steps : state'[i] = "running" /\ state[i] = "waiting" =>
       \A a \in 1..Len(sent'[i]) : sent'[i][a].k = "string" =>
         LET reads == sent'[i][a].reads
         IN  /\ {reads[r].step : r \in 1..Len(reads)} = ExtractReferencedSteps(plan[i].args[a], DOMAIN results)
             /\ \A r \in 1..Len(reads) :
                  /\ reads[r].step \in DOMAIN results
                  /\ IsPrefix(reads[r].step, reads[r].path)
                  /\ \A s \in DOMAIN results : IsPrefix(s, reads[r].path) => Len(s) <= Len(reads[r].step)]_vars

\* Steps run at the same time only if the plan says they may: both parallelizable,
\* in one group and with only such steps between them; all others run in order.
OnlyGroupsOverlap ==
  \A i, j \in Steps : i < j /\ state[i] \in {"waiting", "running"} /\ state[j] # "waiting" =>
    \A m \in i..j : plan[m].parallelizable /\ plan[m].group # "" /\ plan[m].group = plan[i].group
=============================================================================
