------------------------------ MODULE ChunkChannel ------------------------------
(*****************************************************************************)
(* What ai/providers/provider.go promises of the channel that GenerateStream *)
(* returns, with the one weakening the code makes: a stream that fails ends  *)
(* with an error chunk only if the channel has room for one.                 *)
(*                                                                           *)
(* The channel is a bounded queue of data and error marks.  It streams, then *)
(* ends, then is closed; nothing is queued once it is ending, except the     *)
(* single error mark with which a failing stream ends.                       *)
(*****************************************************************************)
EXTENDS Naturals, Sequences

CONSTANT Cap

VARIABLES queue, phase

chVars == <<queue, phase>>

Marks == {"data", "error"}

ChInit == queue = <<>> /\ phase = "streaming"

ChSend ==
  /\ phase = "streaming"
  /\ Len(queue) < Cap
  /\ queue' = Append(queue, "data")
  /\ UNCHANGED phase

\* The stream is over and said why: nothing went wrong, or the error mark fits.
ChEnd ==
  /\ phase = "streaming"
  /\ phase' = "ending"
  /\ \/ queue' = queue
     \/ Len(queue) < Cap /\ queue' = Append(queue, "error")

ChClose ==
  /\ phase = "ending"
  /\ phase' = "closed"
  /\ UNCHANGED queue

ChReceive ==
  /\ queue # <<>>
  /\ queue' = Tail(queue)
  /\ UNCHANGED phase

ChNext == ChSend \/ ChEnd \/ ChClose \/ ChReceive

ChSpec == ChInit /\ [][ChNext]_chVars
=============================================================================
