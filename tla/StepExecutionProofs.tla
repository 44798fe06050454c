-------------------------- MODULE StepExecutionProofs --------------------------
(*****************************************************************************)
(* Proofs about StepExecution, for plans of any length with any groups,      *)
(* names, templates and outputs.  A step only starts when all earlier        *)
(* batches have ended, and steps never un-end, so two steps that overlap are *)
(* of one batch; that a batch is one run of one group is a counting argument *)
(* about GroupParallelSteps.                                                 *)
(*****************************************************************************)
EXTENDS StepExecution, SequenceTheorems, FiniteSetTheorems, WellFoundedInduction, TLAPS

TypeOK ==
  /\ plan \in Plans
  /\ state \in [Steps -> {"waiting", "running", "done", "failed"}]
  /\ DOMAIN sent = Steps
  /\ DOMAIN results \subseteq Path

ExecInv == TypeOK /\ \A j \in Steps : state[j] # "waiting" => BatchReached(j)

(* A set of naturals that is not empty has a least element. *)
LEMMA LeastNatural ==
  ASSUME NEW T \in SUBSET Nat, T # {}
  PROVE  \E x \in T : \A y \in T : x <= y
<1> DEFINE R == {ss \in Nat \X Nat : ss[1] < ss[2]}
<1>1. IsWellFoundedOn(R, Nat)
  <2>1. R = OpToRel(<, Nat) BY DEF OpToRel
  <2> QED BY <2>1, NatLessThanWellFounded
<1>2. \A x, y \in Nat : <<y, x>> \in R <=> y < x OBVIOUS
<1> HIDE DEF R
<1>3. PICK x \in T : \A y \in T : ~(<<y, x>> \in R) BY <1>1, WFMin
<1>4. \A y \in T : ~(y < x) BY <1>2, <1>3
<1> QED BY <1>4

(* A bounded one also has a greatest. *)
LEMMA GreatestNatural ==
  ASSUME NEW n \in Nat, NEW T \in SUBSET 1..n, T # {}
  PROVE  \E x \in T : \A y \in T : y <= x
<1> DEFINE U == {n - x : x \in T}
<1>1. U \in SUBSET Nat /\ U # {}
  <2>1. \A x \in 1..n : n - x \in Nat OBVIOUS
  <2> QED BY <2>1
<1>2. PICK u \in U : \A v \in U : u <= v BY <1>1, LeastNatural
<1>3. PICK x \in T : u = n - x BY <1>2
<1>4. ASSUME NEW y \in T PROVE y <= x
  <2>1. n - y \in U /\ y \in Int /\ x \in Int OBVIOUS
  <2>2. n - x <= n - y BY <1>2, <1>3, <2>1
  <2> QED BY <2>1, <2>2
<1> QED BY <1>4

-----------------------------------------------------------------------------
(* Batches.                                                                  *)

\* The steps up to i that begin a batch.
Starts(i) == {j \in 1..i : j = 1 \/ ~Together(j - 1, j)}

(* A later step is in the same batch or a later one, and all steps from the *)
(* first to the second of one batch are parallelizable in one group.        *)
LEMMA SameBatch ==
  ASSUME plan \in Plans, NEW i \in Steps, NEW j \in Steps, i < j, ~(Batch(i) < Batch(j))
  PROVE  \A m \in i..j : plan[m].parallelizable /\ plan[m].group # "" /\ plan[m].group = plan[i].group
<1>0. Len(plan) \in Nat /\ i \in Nat /\ j \in Nat /\ 1 <= i BY PlansAssumption DEF Steps
<1>1. IsFiniteSet(Starts(j)) /\ Starts(i) \in SUBSET Starts(j)
  <2>1. IsFiniteSet(1..j) BY <1>0, FS_Interval
  <2>2. Starts(j) \in SUBSET (1..j) BY DEF Starts
  <2>3. IsFiniteSet(Starts(j)) BY <2>1, <2>2, FS_Subset
  <2>4. 1..i \subseteq 1..j BY <1>0
  <2>5. Starts(i) \subseteq Starts(j) BY <2>4 DEF Starts
  <2> QED BY <2>3, <2>5
<1>2. Starts(i) = Starts(j)
  <2>1. /\ IsFiniteSet(Starts(i)) /\ Cardinality(Starts(i)) <= Cardinality(Starts(j))
        /\ Cardinality(Starts(j)) = Cardinality(Starts(i)) => Starts(j) = Starts(i)
    BY <1>1, FS_Subset
  <2>2. Cardinality(Starts(i)) \in Nat /\ Cardinality(Starts(j)) \in Nat
    BY <1>1, <2>1, FS_CardinalityType
  <2>3. ~(Cardinality(Starts(i)) < Cardinality(Starts(j))) BY DEF Batch, Starts
  <2> QED BY <2>1, <2>2, <2>3
<1>3. \A m \in i + 1..j : Together(m - 1, m)
  <2> TAKE m \in i + 1..j
  <2>1. m \in 1..j /\ m \notin 1..i /\ m # 1 BY <1>0
  <2>2. m \notin Starts(j) BY <1>2, <2>1 DEF Starts
  <2> QED BY <2>1, <2>2 DEF Starts
<1> DEFINE Good(m) == plan[m].parallelizable /\ plan[m].group # "" /\ plan[m].group = plan[i].group
           bad == {m \in i..j : ~Good(m)}
<1>4. Good(i)
  <2>1. \E m \in i + 1..j : m - 1 = i BY <1>0
  <2>2. PICK m \in i + 1..j : Together(i, m) BY <1>3, <2>1
  <2> QED BY <2>2 DEF Together
<1>5. \A m \in i + 1..j : Good(m - 1) => Good(m) BY <1>3 DEF Together
<1>6. \A m \in i..j : m \in bad <=> ~Good(m) OBVIOUS
<1>7. bad \subseteq i..j OBVIOUS
<1> HIDE DEF Good, bad
<1>8. bad = {}
  <2> SUFFICES ASSUME bad # {} PROVE FALSE
    OBVIOUS
  <2>1. bad \in SUBSET Nat
    <3>1. i..j \subseteq Nat BY <1>0
    <3> QED BY <1>7, <3>1
  <2>2. PICK m \in bad : \A l \in bad : m <= l BY <2>1, LeastNatural
  <2>3. m \in i + 1..j /\ m - 1 \in i..j /\ ~(m <= m - 1)
    <3>1. m \in i..j /\ m # i BY <1>4, <1>6, <1>7
    <3> QED BY <1>0, <3>1
  <2> QED BY <1>5, <1>6, <1>7, <2>2, <2>3
<1> QED BY <1>6, <1>8 DEF Good

-----------------------------------------------------------------------------
(* The invariant.                                                            *)

(* A step's batch does not change, and an ended step stays ended. *)
LEMMA EndedStays ==
  ASSUME TypeOK, [Next]_vars
  PROVE  /\ UNCHANGED plan /\ Steps' = Steps
         /\ \A i \in Steps : Batch(i)' = Batch(i)
         /\ \A i \in Steps : Ended(i) => Ended(i)'
         /\ \A i \in Steps : state[i] = "waiting" /\ state'[i] # "waiting" => BatchReached(i)
<1>1. UNCHANGED plan BY DEF Next, vars, Dispatch, Unprepared, Finish, Over
<1>2. Steps' = Steps /\ \A i \in Steps : Batch(i)' = Batch(i) BY <1>1 DEF Steps, Batch, Together
<1>3. ASSUME NEW i \in Steps
      PROVE  /\ Ended(i) => Ended(i)'
             /\ state[i] = "waiting" /\ state'[i] # "waiting" => BatchReached(i)
  <2>1. ASSUME NEW k \in Steps, Dispatch(k) \/ Unprepared(k)
        PROVE  /\ Ended(i) => Ended(i)'
               /\ state[i] = "waiting" /\ state'[i] # "waiting" => BatchReached(i)
    BY <2>1 DEF TypeOK, Dispatch, Unprepared, Ended
  <2>2. ASSUME NEW k \in Steps, NEW out, Finish(k, out)
        PROVE  /\ Ended(i) => Ended(i)'
               /\ state[i] = "waiting" /\ state'[i] # "waiting" => BatchReached(i)
    BY <2>2 DEF TypeOK, Finish, Ended
  <2>3. CASE UNCHANGED vars BY <2>3 DEF vars, Ended
  <2> QED BY <2>1, <2>2, <2>3 DEF Next, Over
<1> QED BY <1>1, <1>2, <1>3

(* Every variable keeps its type. *)
LEMMA StepTypeOK == TypeOK /\ [Next]_vars => TypeOK'
<1> SUFFICES ASSUME TypeOK, [Next]_vars PROVE TypeOK'
  OBVIOUS
<1>1. UNCHANGED plan /\ Steps' = Steps BY EndedStays
<1>2. ASSUME NEW k \in Steps, Dispatch(k) \/ Unprepared(k) PROVE TypeOK'
  BY <1>1, <1>2 DEF TypeOK, Dispatch, Unprepared
<1>3. ASSUME NEW k \in Steps, NEW out, Finish(k, out) PROVE TypeOK'
  <2>1. plan[k].name \in Path
    <3>1. plan \in Seq(StepRecord) BY PlansAssumption DEF TypeOK
    <3>2. plan[k] \in StepRecord BY <3>1, ElementOfSeq DEF Steps
    <3> QED BY <3>2 DEF StepRecord
  <2>2. DOMAIN results' \subseteq Path BY <1>3, <2>1 DEF TypeOK, Finish
  <2> QED BY <1>1, <1>3, <2>2 DEF TypeOK, Finish
<1>4. CASE UNCHANGED vars BY <1>1, <1>4 DEF vars, TypeOK
<1> QED BY <1>2, <1>3, <1>4 DEF Next, Over

(* ExecInv holds throughout a run of a plan. *)
THEOREM ExecInvariant == Spec => []ExecInv
<1>1. Init => ExecInv
  BY DEF Init, ExecInv, TypeOK, Steps
<1>2. ExecInv /\ [Next]_vars => ExecInv'
  <2> SUFFICES ASSUME ExecInv, [Next]_vars PROVE ExecInv'
    OBVIOUS
  <2>1. TypeOK' BY StepTypeOK DEF ExecInv
  <2>2. ASSUME NEW j \in Steps, state'[j] # "waiting" PROVE BatchReached(j)'
    <3>1. BatchReached(j) BY <2>2, EndedStays DEF ExecInv
    <3> QED BY <3>1, EndedStays DEF ExecInv, BatchReached
  <2>3. Steps' = Steps BY EndedStays DEF ExecInv
  <2> QED BY <2>1, <2>2, <2>3 DEF ExecInv
<1> QED BY <1>1, <1>2, PTL DEF Spec

(* Steps overlap only within one run of parallelizable steps of one group *)
(* (OnlyGroupsOverlap), for plans of any length.                          *)
THEOREM Overlap == Spec => []OnlyGroupsOverlap
<1>1. ExecInv => OnlyGroupsOverlap
  <2> SUFFICES ASSUME ExecInv, NEW i \in Steps, NEW j \in Steps, i < j,
                      state[i] \in {"waiting", "running"}, state[j] # "waiting"
               PROVE  \A m \in i..j : plan[m].parallelizable /\ plan[m].group # ""
                                        /\ plan[m].group = plan[i].group
    BY DEF OnlyGroupsOverlap
  <2>1. ~(Batch(i) < Batch(j)) BY DEF ExecInv, BatchReached, Ended
  <2> QED BY <2>1, SameBatch DEF ExecInv, TypeOK
<1> QED BY <1>1, ExecInvariant, PTL

-----------------------------------------------------------------------------
(* Templates.                                                                *)

(* Facts about sub-sequences that the resolution of a reference needs. *)
LEMMA PrefixFacts ==
  ASSUME NEW s \in Path, NEW m \in 0..Len(s)
  PROVE  /\ SubSeq(s, 1, m) \in Path /\ Len(SubSeq(s, 1, m)) = m
         /\ IsPrefix(SubSeq(s, 1, m), s)
         /\ SubSeq(s, 1, Len(s)) = s
<1>1. SubSeq(s, 1, m) \in Path /\ Len(SubSeq(s, 1, m)) = m
  BY DEF Path
<1>2. SubSeq(s, 1, Len(s)) = s BY DEF Path
<1>3. SubSeq(SubSeq(s, 1, m), 1, m) = SubSeq(s, 1, m)
  <2> DEFINE u == SubSeq(s, 1, m)
  <2>1. u \in Seq(STRING) /\ Len(u) = m BY <1>1 DEF Path
  <2> HIDE DEF u
  <2>2. SubSeq(u, 1, Len(u)) = u BY <2>1
  <2> QED BY <2>1, <2>2 DEF u
<1>4. m <= Len(s) BY DEF Path
<1> QED BY <1>1, <1>2, <1>3, <1>4 DEF IsPrefix

(* A reference that finds a known step finds the one with the longest name *)
(* that it begins with.                                                    *)
LEMMA LongestStep ==
  ASSUME NEW path \in Path, NEW known \in SUBSET Path,
         resolveTemplateContent(path, known).step \in known
  PROVE  LET step == resolveTemplateContent(path, known).step
         IN  /\ IsPrefix(step, path)
             /\ \A s \in known : IsPrefix(s, path) => Len(s) <= Len(step)
<1> DEFINE cuts == {m \in 1..Len(path) - 1 : SubSeq(path, 1, m) \in known}
           cut == CHOOSE m \in cuts : \A l \in cuts : l <= m
           step == resolveTemplateContent(path, known).step
<1>0. Len(path) \in Nat BY DEF Path
<1>1. CASE path \in known
  <2>1. step = path BY <1>1, Zenon DEF resolveTemplateContent
  <2>2. IsPrefix(path, path) BY <1>0 DEF IsPrefix
  <2>3. \A s \in known : IsPrefix(s, path) => Len(s) <= Len(path) BY DEF IsPrefix
  <2> QED BY <2>1, <2>2, <2>3
<1>2. CASE path \notin known /\ cuts = {}
  <2>1. step = path BY <1>2, Zenon DEF resolveTemplateContent
  <2> QED BY <1>2, <2>1
<1>3. CASE path \notin known /\ cuts # {}
  <2>1. step = SubSeq(path, 1, cut) BY <1>3, Zenon DEF resolveTemplateContent
  <2>2. cut \in cuts /\ \A l \in cuts : l <= cut
    <3>1. cuts \in SUBSET (1..Len(path)) BY <1>0
    <3>2. \E m \in cuts : \A l \in cuts : l <= m BY <1>0, <1>3, <3>1, GreatestNatural
    <3> QED BY <3>2
  <2> HIDE DEF cut
  <2>3. cut \in 0..Len(path) /\ cut \in Nat BY <1>0, <2>2
  <2>4. IsPrefix(step, path) /\ Len(step) = cut BY <2>1, <2>3, PrefixFacts
  <2>5. ASSUME NEW s \in known, IsPrefix(s, path) PROVE Len(s) <= cut
    <3>1. s \in Seq(STRING) /\ Len(s) \in Nat BY DEF Path
    <3>2. SubSeq(s, 1, Len(s)) = s BY <3>1
    <3>3. Len(s) <= Len(path) /\ s = SubSeq(path, 1, Len(s)) BY <2>5, <3>2 DEF IsPrefix
    <3>4. Len(s) # Len(path)
      <4>1. SubSeq(path, 1, Len(path)) = path BY DEF Path
      <4> QED BY <1>3, <3>3, <4>1
    <3>5. CASE Len(s) = 0 BY <2>3, <3>5
    <3>6. CASE Len(s) # 0
      <4>1. Len(s) \in 1..Len(path) - 1 BY <1>0, <3>1, <3>3, <3>4, <3>6
      <4>2. Len(s) \in cuts BY <3>3, <4>1
      <4> QED BY <2>2, <4>2
    <3> QED BY <3>5, <3>6
  <2> QED BY <2>4, <2>5
<1> QED BY <1>1, <1>2, <1>3

(* What a prepared step's arguments are, one by one. *)
LEMMA PrepareFacts ==
  ASSUME NEW step \in StepRecord, NEW res, Prepare(step, res) # Fail
  PROVE  LET sentArgs == Prepare(step, res)
         IN  /\ Len(sentArgs) = Len(step.args)
             /\ \A a \in 1..Len(step.args) :
                  /\ step.args[a] \in Argument
                  /\ sentArgs[a] # Fail
                  /\ sentArgs[a] = LET c == Coerce(step.args[a])
                                   IN  IF c.k = "template" THEN Resolve(c, res) ELSE c
<1> DEFINE coerced == [i \in 1..Len(step.args) |-> Coerce(step.args[i])]
           resolved == [i \in 1..Len(coerced) |-> IF coerced[i].k = "template"
                                                  THEN Resolve(coerced[i], res) ELSE coerced[i]]
<1>0. step.args \in Seq(Argument) /\ Len(step.args) \in Nat BY DEF StepRecord
<1>1. Prepare(step, res) = resolved /\ ~\E i \in 1..Len(resolved) : resolved[i] = Fail
  BY Zenon DEF Prepare
<1>2. \A n \in Nat : \A f : DOMAIN f = 1..n /\ f = [x \in 1..n |-> f[x]] => Len(f) = n OBVIOUS
<1>3. Len(coerced) = Len(step.args) BY <1>0, <1>2
<1>4. \A a \in 1..Len(step.args) : coerced[a] = Coerce(step.args[a]) OBVIOUS
<1> HIDE DEF coerced
<1>5. Len(resolved) = Len(step.args) BY <1>0, <1>2, <1>3
<1>6. \A a \in 1..Len(step.args) :
        resolved[a] = IF coerced[a].k = "template" THEN Resolve(coerced[a], res) ELSE coerced[a]
  BY <1>3
<1> HIDE DEF resolved
<1>7. \A a \in 1..Len(step.args) : step.args[a] \in Argument BY <1>0, ElementOfSeq
<1> QED BY <1>1, <1>4, <1>5, <1>6, <1>7

(* A template with references that resolves against some results becomes a    *)
(* string of looked-up values, each found in a step that succeeded.           *)
LEMMA ResolveFacts ==
  ASSUME NEW arg \in Argument, arg.k = "template", NEW res, DOMAIN res \subseteq Path,
         DOMAIN res # {}, Len(arg.refs) # 0, Resolve(arg, res) # Fail
  PROVE  LET out == Resolve(arg, res)
         IN  /\ out.k = "string"
             /\ arg.refs \in Seq(Path)
             /\ Len(out.reads) = Len(arg.refs)
             /\ \A r \in 1..Len(arg.refs) :
                  /\ out.reads[r].path = arg.refs[r]
                  /\ out.reads[r].step = resolveTemplateContent(arg.refs[r], DOMAIN res).step
                  /\ out.reads[r].step \in DOMAIN res
<1> DEFINE reads == [i \in 1..Len(arg.refs) |-> Lookup(arg.refs[i], res)]
<1>0. arg.refs \in Seq(Path) /\ Len(arg.refs) \in Nat BY DEF Argument
<1>1. Resolve(arg, res) = stringify(reads, arg.rest) /\ ~\E i \in 1..Len(reads) : reads[i].value = Fail
  BY Zenon DEF Resolve
<1>2. \A n \in Nat : \A f : DOMAIN f = 1..n /\ f = [x \in 1..n |-> f[x]] => Len(f) = n OBVIOUS
<1>3. Len(reads) = Len(arg.refs) BY <1>0, <1>2
<1>4. \A r \in 1..Len(arg.refs) : reads[r] = Lookup(arg.refs[r], res) OBVIOUS
<1> HIDE DEF reads
<1>5. Resolve(arg, res).k = "string" /\ Resolve(arg, res).reads = reads BY <1>1 DEF stringify
<1>6. ASSUME NEW r \in 1..Len(arg.refs)
      PROVE  /\ reads[r].path = arg.refs[r]
             /\ reads[r].step = resolveTemplateContent(arg.refs[r], DOMAIN res).step
             /\ reads[r].step \in DOMAIN res
  <2>1. reads[r] = Lookup(arg.refs[r], res) /\ reads[r].value # Fail BY <1>1, <1>3, <1>4
  <2> QED BY <2>1 DEF Lookup
<1> QED BY <1>0, <1>3, <1>5, <1>6

(* What a step that has just been dispatched was given. *)
LEMMA DispatchFacts ==
  ASSUME TypeOK, [Next]_vars, NEW i \in Steps, state'[i] = "running", state[i] = "waiting"
  PROVE  /\ plan[i] \in StepRecord /\ Prepare(plan[i], results) # Fail
         /\ sent'[i] = Prepare(plan[i], results)
<1>1. Dispatch(i)
  <2>1. ASSUME NEW k \in Steps, Dispatch(k) \/ Unprepared(k), ~Dispatch(i) PROVE FALSE
    BY <2>1 DEF TypeOK, Dispatch, Unprepared
  <2>2. ASSUME NEW k \in Steps, NEW out, Finish(k, out) PROVE FALSE
    BY <2>2 DEF TypeOK, Finish
  <2>3. ~UNCHANGED vars BY DEF vars
  <2> QED BY <2>1, <2>2, <2>3 DEF Next, Over
<1>2. plan[i] \in StepRecord BY PlansAssumption, ElementOfSeq DEF TypeOK, Steps
<1> QED BY <1>1, <1>2 DEF Dispatch, TypeOK

(* Once a step has succeeded, no step is dispatched with a reference that the *)
(* regular expression finds in a string argument (LiteralOnlyAtFirst).        *)
THEOREM NoLiteral == Spec => LiteralOnlyAtFirst
<1> DEFINE A == \A i \in Steps : state'[i] = "running" /\ state[i] = "waiting" /\ DOMAIN results # {} =>
                  \A a \in 1..Len(sent'[i]) : sent'[i][a].k = "template" => Len(sent'[i][a].refs) = 0
<1>1. ExecInv /\ [Next]_vars => [A]_vars
  <2> SUFFICES ASSUME ExecInv, [Next]_vars, NEW i \in Steps, state'[i] = "running",
                      state[i] = "waiting", DOMAIN results # {}, NEW a \in 1..Len(sent'[i])
               PROVE  sent'[i][a].k = "template" => Len(sent'[i][a].refs) = 0
    OBVIOUS
  <2>0. TypeOK BY DEF ExecInv
  <2>1. plan[i] \in StepRecord /\ Prepare(plan[i], results) # Fail /\ sent'[i] = Prepare(plan[i], results)
    BY <2>0, DispatchFacts
  <2> DEFINE c == Coerce(plan[i].args[a])
  <2>2. /\ plan[i].args[a] \in Argument /\ sent'[i][a] # Fail
        /\ sent'[i][a] = IF c.k = "template" THEN Resolve(c, results) ELSE c
    BY <2>1, PrepareFacts
  <2>3. CASE c.k = "template"
    <3>1. c = plan[i].args[a]
      <4>1. [k |-> "native"].k # "template" OBVIOUS
      <4> QED BY <2>3, <4>1 DEF Coerce
    <3>2. CASE Len(c.refs) = 0
      <4>1. Resolve(c, results) = c BY <3>2, Zenon DEF Resolve
      <4> QED BY <2>2, <2>3, <3>2, <4>1
    <3>3. CASE Len(c.refs) # 0
      <4>1. Resolve(c, results).k = "string"
        BY <2>0, <2>2, <2>3, <3>1, <3>3, ResolveFacts DEF TypeOK
      <4> QED BY <2>2, <2>3, <4>1
    <3> QED BY <3>2, <3>3
  <2>4. CASE c.k # "template" BY <2>2, <2>4
  <2> QED BY <2>3, <2>4
<1> QED BY <1>1, ExecInvariant, PTL DEF Spec, LiteralOnlyAtFirst

(* Every value given to a step comes from the step that ExtractReferencedSteps *)
(* names as its evidence, the one with the longest name that the reference     *)
(* begins with (EvidenceFollowsData), for names and references of any length.  *)
THEOREM Evidence == Spec => EvidenceFollowsData
<1> DEFINE A ==
      \A i \in Steps : state'[i] = "running" /\ state[i] = "waiting" =>
       \A a \in 1..Len(sent'[i]) : sent'[i][a].k = "string" =>
         LET reads == sent'[i][a].reads
         IN  /\ {reads[r].step : r \in 1..Len(reads)} = ExtractReferencedSteps(plan[i].args[a], DOMAIN results)
             /\ \A r \in 1..Len(reads) :
                  /\ reads[r].step \in DOMAIN results
                  /\ IsPrefix(reads[r].step, reads[r].path)
                  /\ \A s \in DOMAIN results : IsPrefix(s, reads[r].path) => Len(s) <= Len(reads[r].step)
<1>1. ExecInv /\ [Next]_vars => [A]_vars
  <2> SUFFICES ASSUME ExecInv, [Next]_vars, NEW i \in Steps, state'[i] = "running",
                      state[i] = "waiting", NEW a \in 1..Len(sent'[i]), sent'[i][a].k = "string"
               PROVE  LET reads == sent'[i][a].reads
                      IN  /\ {reads[r].step : r \in 1..Len(reads)}
                               = ExtractReferencedSteps(plan[i].args[a], DOMAIN results)
                          /\ \A r \in 1..Len(reads) :
                               /\ reads[r].step \in DOMAIN results
                               /\ IsPrefix(reads[r].step, reads[r].path)
                               /\ \A s \in DOMAIN results :
                                    IsPrefix(s, reads[r].path) => Len(s) <= Len(reads[r].step)
    OBVIOUS
  <2>0. TypeOK BY DEF ExecInv
  <2>1. plan[i] \in StepRecord /\ Prepare(plan[i], results) # Fail /\ sent'[i] = Prepare(plan[i], results)
    BY <2>0, DispatchFacts
  <2> DEFINE arg == plan[i].args[a]
             c == Coerce(arg)
             known == DOMAIN results
             reads == sent'[i][a].reads
  <2>2. /\ arg \in Argument /\ sent'[i][a] # Fail
        /\ sent'[i][a] = IF c.k = "template" THEN Resolve(c, results) ELSE c
    BY <2>1, PrepareFacts
  <2>3. arg.k \in {"numeral", "text", "template", "nested"} BY <2>2 DEF Argument
  <2>4. arg.k = "template" /\ c = arg
    <3>1. CASE arg.k = "numeral"
      <4>1. c = [k |-> "native"] BY <3>1 DEF Coerce, tryParse
      <4>2. c.k = "native" BY <4>1
      <4>3. sent'[i][a] = c BY <2>2, <4>2
      <4> QED BY <4>2, <4>3
    <3>2. CASE arg.k # "numeral"
      <4>1. c = arg BY <3>2 DEF Coerce, tryParse
      <4> QED BY <2>2, <2>3, <3>2, <4>1
    <3> QED BY <3>1, <3>2
  <2>5. sent'[i][a] = Resolve(arg, results) BY <2>2, <2>4
  <2> HIDE DEF arg, c
  <2>6. known # {} /\ Len(arg.refs) # 0
    <3>1. known = {} \/ Len(arg.refs) = 0 => Resolve(arg, results) = arg BY Zenon DEF Resolve
    <3> QED BY <2>4, <2>5, <3>1
  <2>7. /\ arg.refs \in Seq(Path) /\ Len(reads) = Len(arg.refs)
        /\ \A r \in 1..Len(arg.refs) :
             /\ reads[r].path = arg.refs[r]
             /\ reads[r].step = resolveTemplateContent(arg.refs[r], known).step
             /\ reads[r].step \in known
    BY <2>0, <2>2, <2>4, <2>5, <2>6, ResolveFacts DEF TypeOK
  <2>8. {reads[r].step : r \in 1..Len(reads)} = ExtractReferencedSteps(arg, known)
    BY <2>7, ZenonT(30) DEF ExtractReferencedSteps
  <2>9. ASSUME NEW r \in 1..Len(reads)
        PROVE  /\ reads[r].step \in known /\ IsPrefix(reads[r].step, reads[r].path)
               /\ \A s \in known : IsPrefix(s, reads[r].path) => Len(s) <= Len(reads[r].step)
    <3>1. arg.refs[r] \in Path BY <2>7, ElementOfSeq
    <3>2. known \in SUBSET Path BY <2>0 DEF TypeOK
    <3> QED BY <2>7, <3>1, <3>2, LongestStep
  <2> QED BY <2>8, <2>9 DEF arg
<1> QED BY <1>1, ExecInvariant, PTL DEF Spec, EvidenceFollowsData
=============================================================================
