------------------------------ MODULE MCSSEDecode ------------------------------
(* Instances of SSEDecode for TLC.                                           *)
EXTENDS SSEDecode

\* An OpenAI line carries up to two deltas, so few lines give every order of three
\* calls; an Anthropic call takes a start, its fragments and a stop.
MCToolIdx == [d \in Drivers |-> IF d = "openai" THEN {0, 1, 2} ELSE {0, 1}]
MCMaxLines == [d \in Drivers |-> IF d = "openai" THEN 3 ELSE 7]
=============================================================================
