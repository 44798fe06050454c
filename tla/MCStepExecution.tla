---------------------------- MODULE MCStepExecution ----------------------------
(* Instances of StepExecution for TLC.                                       *)
EXTENDS StepExecution

text == [k |-> "text"]
numeral == [k |-> "numeral"]
tmpl(refs) == [k |-> "template", refs |-> refs, rest |-> FALSE]
odd(refs) == [k |-> "template", refs |-> refs, rest |-> TRUE]
nested(refs) == [k |-> "nested", refs |-> refs]
step(name, args, par, group) == [name |-> name, args |-> args, parallelizable |-> par, group |-> group]

\* "a", and "a.b", whose name is also a path into a result of "a".
A == <<"a">>
AB == <<"a", "b">>
C == <<"c">>

Args ==
  {<<numeral, text>>, <<tmpl(<<A>>), odd(<<>>)>>, <<odd(<<AB>>), nested(<<A>>)>>,
   <<tmpl(<<A, <<"a", "b", "b">>>>), numeral>>}
\* Parallelizable in a group or in another, sequential in a group, parallelizable
\* without a group; a run of one group, one cut by a sequential step, and so on.
G == [par |-> TRUE, group |-> "g"]
H == [par |-> TRUE, group |-> "h"]
Q == [par |-> FALSE, group |-> "g"]
E == [par |-> TRUE, group |-> ""]
Modes == {<<G, G, G>>, <<G, G, H>>, <<G, Q, G>>, <<H, G, G>>, <<E, E, Q>>}

MCPlans ==
  {<<step(A, x, m[1].par, m[1].group), step(AB, y, m[2].par, m[2].group), step(C, z, m[3].par, m[3].group)>> :
     x \in {<<numeral, text>>, <<tmpl(<<C>>)>>}, y \in Args, z \in Args, m \in Modes}

\* A map deep enough for "a.b.b" to be found in "a" as well as in "a.b".
Nest(v) == [k |-> "map", m |-> [f \in {"b"} |-> v]]
MCOutputs == {Scalar, Nest(Nest(Scalar))}
=============================================================================
