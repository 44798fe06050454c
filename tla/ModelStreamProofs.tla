--------------------------- MODULE ModelStreamProofs ---------------------------
(*****************************************************************************)
(* Proofs about ModelStream, for every channel capacity, every number of     *)
(* lines and both drivers.  StreamInv is inductive; TypeOK, DeliveredInOrder,*)
(* ErrorIsLast and ResponseWhole follow from it.  Every step of the stream   *)
(* is a step of the channel contract ChunkChannel, or leaves it unchanged.   *)
(*****************************************************************************)
EXTENDS ModelStream, SequenceTheorems, TLAPS

(* The initial states satisfy the inductive invariant. *)
LEMMA InitStreamInv == Init => StreamInv
<1> SUFFICES ASSUME Init PROVE StreamInv
  OBVIOUS
<1>1. TypeOK
  <2>1. body \in {"open", "closed", "empty"} BY Zenon DEF Init, StartBodies
  <2>2. NoChunk \in Chunk BY DEF NoChunk, Chunk, Errs
  <2>3. chan \in Seq(Chunk) /\ Len(chan) <= Cap /\ buf \in Seq(Nat) /\ produced \in Seq(Nat)
    BY CapAssumption DEF Init
  <2> QED BY <2>1, <2>2, <2>3 DEF Init, TypeOK, ReaderStates, Endings
<1>2. ControlInv /\ ErrorIsLast /\ ErrorInv /\ CountInv /\ ContentInv /\ DeliveredInOrder
  BY CapAssumption DEF Init, ControlInv, ErrorIsLast, ErrorInv, CountInv, ContentInv,
       DeliveredInOrder, Past, HasError, InChannel, NoChunk
<1> QED BY <1>1, <1>2 DEF StreamInv

(* Every step keeps every variable in its type. *)
LEMMA StepTypeOK == StreamInv /\ [Next]_vars => TypeOK'
<1> SUFFICES ASSUME StreamInv, [Next]_vars PROVE TypeOK'
  OBVIOUS
<1> USE CapAssumption, MaxLinesAssumption DEF TypeOK, Chunk, Errs, ReaderStates, Endings
<1>0. TypeOK BY DEF StreamInv
<1>1. CASE ScanSkip BY <1>0, <1>1 DEF ScanSkip, CanScan
<1>2. CASE ScanChunk BY <1>0, <1>2 DEF ScanChunk, CanScan
<1>3. CASE ScanMarker BY <1>0, <1>3 DEF ScanMarker, CanScan
<1>4. CASE ScanEOF BY <1>0, <1>4 DEF ScanEOF
<1>5. CASE ScanError BY <1>0, <1>5 DEF ScanError
<1>6. CASE Send BY <1>0, <1>6 DEF Send
<1>7. CASE SendCancelled BY <1>0, <1>7 DEF SendCancelled
<1>8. CASE SendError
  <2>1. ending \in {"read", "cancelled"} BY <1>8 DEF SendError, StreamInv, ControlInv
  <2>2. ErrorChunk(ending) \in Chunk BY <2>1 DEF ErrorChunk
  <2>3. CASE Len(chan) < Cap /\ chan' = Append(chan, ErrorChunk(ending)) /\ UNCHANGED dropped
    BY <1>0, <1>8, <2>2, <2>3 DEF SendError
  <2>4. CASE dropped' = TRUE /\ UNCHANGED chan
    BY <1>0, <1>8, <2>4 DEF SendError
  <2> QED BY <1>8, <2>3, <2>4 DEF SendError
<1>9. CASE CloseChan BY <1>0, <1>9 DEF CloseChan
<1>10. CASE CloseBody BY <1>0, <1>10 DEF CloseBody
<1>11. CASE ReceiveChunk
  <2>1. chan # <<>> /\ chan \in Seq(Chunk) BY <1>0, <1>11 DEF ReceiveChunk
  <2>2. Head(chan) \in Chunk /\ Tail(chan) \in Seq(Chunk) /\ Len(Tail(chan)) = Len(chan) - 1
    BY <2>1, HeadTailProperties
  <2>3. CASE UNCHANGED <<cpc, ctxDone>> BY <1>0, <1>11, <2>2, <2>3 DEF ReceiveChunk
  <2>4. CASE cpc' = "panicked" /\ ctxDone' = TRUE BY <1>0, <1>11, <2>2, <2>4 DEF ReceiveChunk
  <2> QED BY <1>11, <2>3, <2>4 DEF ReceiveChunk
<1>12. CASE ReceiveError
  <2>1. chan # <<>> /\ chan \in Seq(Chunk) BY <1>0, <1>12 DEF ReceiveError
  <2>2. Tail(chan) \in Seq(Chunk) /\ Len(Tail(chan)) = Len(chan) - 1
    BY <2>1, HeadTailProperties
  <2> QED BY <1>0, <1>12, <2>2 DEF ReceiveError
<1>13. CASE RangeEnds BY <1>0, <1>13 DEF RangeEnds
<1>14. CASE Expire BY <1>0, <1>14 DEF Expire
<1>15. CASE UNCHANGED vars BY <1>0, <1>15 DEF vars
<1> QED BY <1>1, <1>2, <1>3, <1>4, <1>5, <1>6, <1>7, <1>8, <1>9, <1>10, <1>11, <1>12,
           <1>13, <1>14, <1>15 DEF Next, Scan, Finish, Consume, Done

(* Receiving drops the first chunk and shifts the others down by one; sending *)
(* leaves them where they are.                                                *)
LEMMA TailOfChan ==
  ASSUME NEW s \in Seq(Chunk), s # <<>>
  PROVE  /\ Len(s) \in Nat \ {0}
         /\ Head(s) = s[1]
         /\ Tail(s) \in Seq(Chunk)
         /\ Len(Tail(s)) = Len(s) - 1
         /\ \A i \in 1..Len(s) - 1 : Tail(s)[i] = s[i + 1]
         /\ Tail(s) = <<>> <=> Len(s) = 1
<1>1. Len(s) \in Nat \ {0} BY EmptySeq
<1>2. /\ Tail(s) \in Seq(Chunk)
      /\ Len(Tail(s)) = Len(s) - 1
      /\ \A i \in 1..Len(Tail(s)) : Tail(s)[i] = s[i + 1]
  BY HeadTailProperties
<1>3. Tail(s) = <<>> <=> Len(s) = 1
  BY <1>1, <1>2, EmptySeq
<1>4. Head(s) = s[1] OBVIOUS
<1> QED BY <1>1, <1>2, <1>3, <1>4

(* The reader's control state, why it ended and whether it closed the channel agree. *)
LEMMA StepControlInv == StreamInv /\ [Next]_vars => ControlInv'
<1> SUFFICES ASSUME StreamInv, [Next]_vars PROVE ControlInv'
  OBVIOUS
<1> USE DEF ControlInv, Past
<1>0. TypeOK /\ ControlInv BY DEF StreamInv
<1>1. CASE ScanSkip BY <1>1, <1>0 DEF ScanSkip, CanScan
<1>2. CASE ScanChunk BY <1>2, <1>0 DEF ScanChunk, CanScan
<1>3. CASE ScanMarker BY <1>3, <1>0 DEF ScanMarker, CanScan
<1>4. CASE ScanEOF BY <1>4, <1>0 DEF ScanEOF
<1>5. CASE ScanError BY <1>5, <1>0 DEF ScanError
<1>6. CASE Send BY <1>6, <1>0 DEF Send
<1>7. CASE SendCancelled BY <1>7, <1>0 DEF SendCancelled
<1>8. CASE SendError BY <1>8, <1>0 DEF SendError
<1>9. CASE CloseChan BY <1>9, <1>0 DEF CloseChan
<1>10. CASE CloseBody BY <1>10, <1>0 DEF CloseBody
<1>11. CASE ReceiveChunk BY <1>11, <1>0 DEF ReceiveChunk
<1>12. CASE ReceiveError BY <1>12, <1>0 DEF ReceiveError
<1>13. CASE RangeEnds BY <1>13, <1>0 DEF RangeEnds
<1>14. CASE Expire BY <1>14, <1>0 DEF Expire
<1>15. CASE UNCHANGED vars BY <1>15, <1>0 DEF vars
<1> QED BY <1>1, <1>2, <1>3, <1>4, <1>5, <1>6, <1>7, <1>8, <1>9,
           <1>10, <1>11, <1>12, <1>13, <1>14, <1>15
       DEF Next, Scan, Finish, Consume, Done

(* An error chunk stays the last one. *)
LEMMA StepErrorIsLast == StreamInv /\ [Next]_vars => ErrorIsLast'
<1> SUFFICES ASSUME StreamInv, [Next]_vars PROVE ErrorIsLast'
  OBVIOUS
<1> USE DEF ErrorIsLast
<1>0. TypeOK /\ ControlInv /\ ErrorIsLast BY DEF StreamInv
<1>1. CASE ScanSkip BY <1>1, <1>0 DEF ScanSkip, CanScan
<1>2. CASE ScanChunk BY <1>2, <1>0 DEF ScanChunk, CanScan
<1>3. CASE ScanMarker BY <1>3, <1>0 DEF ScanMarker, CanScan
<1>4. CASE ScanEOF BY <1>4, <1>0 DEF ScanEOF
<1>5. CASE ScanError BY <1>5, <1>0 DEF ScanError
<1>6. CASE Send
  <2>1. chan \in Seq(Chunk) /\ pend \in Chunk /\ pend.err = "none" BY <1>0 DEF TypeOK, ControlInv
  <2>2. \A i \in 1..Len(chan) : chan[i].err = "none" BY <1>6, <1>0 DEF Send
  <2> QED BY <1>6, <2>1, <2>2 DEF Send
<1>7. CASE SendCancelled BY <1>7, <1>0 DEF SendCancelled
<1>8. CASE SendError
  <2>1. chan \in Seq(Chunk) BY <1>0 DEF TypeOK
  <2>2. \A i \in 1..Len(chan) : chan[i].err = "none" BY <1>8, <1>0 DEF SendError
  <2>3. rpc' = "close" BY <1>8 DEF SendError
  <2>4. CASE chan' = Append(chan, ErrorChunk(ending)) BY <2>1, <2>2, <2>3, <2>4
  <2>5. CASE chan' = chan BY <2>2, <2>5
  <2> QED BY <1>8, <2>4, <2>5 DEF SendError
<1>9. CASE CloseChan BY <1>9, <1>0 DEF CloseChan
<1>10. CASE CloseBody BY <1>10, <1>0 DEF CloseBody
<1>11. CASE ReceiveChunk
  <2>1. chan \in Seq(Chunk) /\ chan # <<>> /\ chan' = Tail(chan) /\ rpc' = rpc
    BY <1>11, <1>0 DEF ReceiveChunk, TypeOK
  <2> QED BY <1>0, <2>1, TailOfChan
<1>12. CASE ReceiveError
  <2>1. chan \in Seq(Chunk) /\ chan # <<>> /\ chan' = Tail(chan) /\ rpc' = rpc
    BY <1>12, <1>0 DEF ReceiveError, TypeOK
  <2> QED BY <1>0, <2>1, TailOfChan
<1>13. CASE RangeEnds BY <1>13, <1>0 DEF RangeEnds
<1>14. CASE Expire BY <1>14, <1>0 DEF Expire
<1>15. CASE UNCHANGED vars BY <1>15, <1>0 DEF vars
<1> QED BY <1>1, <1>2, <1>3, <1>4, <1>5, <1>6, <1>7, <1>8, <1>9,
           <1>10, <1>11, <1>12, <1>13, <1>14, <1>15
       DEF Next, Scan, Finish, Consume, Done

(* While the reader may still send, no error chunk is in the channel. *)
LEMMA NoErrorBefore == StreamInv /\ ~Past => ~HasError
<1> SUFFICES ASSUME StreamInv, ~Past, HasError PROVE FALSE
  OBVIOUS
<1>1. chan \in Seq(Chunk) /\ ErrorIsLast BY DEF StreamInv, TypeOK
<1>2. chan # <<>> /\ Len(chan) \in 1..Len(chan) BY <1>1, EmptySeq DEF HasError
<1> QED BY <1>1, <1>2 DEF ErrorIsLast, Past, HasError

(* Appending to the channel puts the new chunk last and leaves the others. *)
LEMMA AppendError ==
  ASSUME NEW s \in Seq(Chunk), NEW c \in Chunk
  PROVE  /\ Append(s, c) # <<>>
         /\ Append(s, c) \in Seq(Chunk)
         /\ Len(Append(s, c)) = Len(s) + 1
         /\ Append(s, c)[Len(Append(s, c))] = c
         /\ \A i \in 1..Len(s) : Append(s, c)[i] = s[i]
OBVIOUS

(* Receiving a data chunk leaves an error chunk that is in the channel there;  *)
(* receiving an error chunk empties the channel.                               *)
LEMMA ReceiveHasError ==
  ASSUME StreamInv, chan # <<>>, chan' = Tail(chan)
  PROVE  /\ chan[1].err = "none" => HasError' <=> HasError
         /\ chan[1].err # "none" => chan' = <<>> /\ Past /\ Len(chan) = 1 /\ HasError
<1>1. chan \in Seq(Chunk) /\ ErrorIsLast BY DEF StreamInv, TypeOK
<1>2. /\ Len(chan) \in Nat \ {0}
      /\ Len(chan') = Len(chan) - 1
      /\ \A i \in 1..Len(chan) - 1 : chan'[i] = chan[i + 1]
      /\ chan' = <<>> <=> Len(chan) = 1
  BY <1>1, TailOfChan
<1>3. CASE Len(chan) = 1
  BY <1>1, <1>2, <1>3 DEF HasError, ErrorIsLast, Past
<1>4. CASE Len(chan) > 1
  <2>0. 1 \in 1..Len(chan) /\ 1 # Len(chan) BY <1>2, <1>4
  <2>1. chan[1].err = "none" BY <1>1, <2>0, Zenon DEF ErrorIsLast
  <2>2. chan'[Len(chan')] = chan[Len(chan)] BY <1>2, <1>4
  <2> QED BY <1>2, <1>4, <2>1, <2>2 DEF HasError
<1> QED BY <1>2, <1>3, <1>4

(* A stream that failed has its error chunk in the channel, or lost it, or *)
(* the planner has returned with it.                                       *)
LEMMA StepErrorInv == StreamInv /\ [Next]_vars => ErrorInv'
<1> SUFFICES ASSUME StreamInv, [Next]_vars PROVE ErrorInv'
  OBVIOUS
<1>0. TypeOK /\ ControlInv /\ ErrorInv BY DEF StreamInv
<1> USE DEF ErrorInv, ControlInv, Past
<1>1. CASE ScanSkip BY <1>1, <1>0, NoErrorBefore DEF ScanSkip, CanScan, HasError
<1>2. CASE ScanChunk BY <1>2, <1>0, NoErrorBefore DEF ScanChunk, CanScan, HasError
<1>3. CASE ScanMarker BY <1>3, <1>0, NoErrorBefore DEF ScanMarker, CanScan, HasError
<1>4. CASE ScanEOF BY <1>4, <1>0, NoErrorBefore DEF ScanEOF, HasError
<1>5. CASE ScanError BY <1>5, <1>0, NoErrorBefore DEF ScanError, HasError
<1>6. CASE Send
  <2>1. chan \in Seq(Chunk) /\ pend \in Chunk /\ pend.err = "none" BY <1>0 DEF TypeOK
  <2>2. ~HasError' BY <1>6, <2>1, AppendError DEF Send, HasError
  <2> QED BY <1>6, <1>0, <2>2, NoErrorBefore DEF Send
<1>7. CASE SendCancelled BY <1>7, <1>0, NoErrorBefore DEF SendCancelled, HasError
<1>8. CASE SendError
  <2>1. chan \in Seq(Chunk) /\ ending \in {"read", "cancelled"} BY <1>8, <1>0 DEF SendError, TypeOK
  <2>2. ErrorChunk(ending) \in Chunk /\ ErrorChunk(ending).err # "none"
    BY <2>1 DEF ErrorChunk, Chunk, Errs
  <2>3. ~HasError BY <1>8, NoErrorBefore DEF SendError
  <2>4. CASE chan' = Append(chan, ErrorChunk(ending)) /\ dropped' = dropped
    <3>1. HasError' BY <2>1, <2>2, <2>4, AppendError DEF HasError
    <3> QED BY <1>8, <1>0, <2>1, <2>4, <3>1 DEF SendError
  <2>5. CASE dropped' = TRUE /\ chan' = chan
    <3>1. ~HasError' BY <2>3, <2>5 DEF HasError
    <3> QED BY <1>8, <1>0, <2>1, <2>5, <3>1 DEF SendError
  <2> QED BY <1>8, <2>4, <2>5 DEF SendError
<1>9. CASE CloseChan BY <1>9, <1>0, NoErrorBefore DEF CloseChan, HasError
<1>10. CASE CloseBody BY <1>10, <1>0, NoErrorBefore DEF CloseBody, HasError
<1>11. CASE ReceiveChunk
  <2>1. chan \in Seq(Chunk) /\ chan # <<>> /\ chan' = Tail(chan) /\ UNCHANGED <<rpc, closed, ending, dropped, produced>>
    BY <1>11, <1>0 DEF ReceiveChunk, TypeOK
  <2>2. HasError' <=> HasError BY <1>11, <2>1, ReceiveHasError DEF ReceiveChunk
  <2> QED BY <1>11, <1>0, <2>1, <2>2 DEF ReceiveChunk
<1>12. CASE ReceiveError
  <2>1. chan \in Seq(Chunk) /\ chan # <<>> /\ chan' = Tail(chan) /\ UNCHANGED <<rpc, closed, ending, dropped, produced>>
    BY <1>12, <1>0 DEF ReceiveError, TypeOK
  <2>2. chan' = <<>> /\ Past /\ HasError BY <1>12, <2>1, ReceiveHasError DEF ReceiveError
  <2>3. ~HasError' BY <2>2 DEF HasError
  <2> QED BY <1>12, <1>0, <2>1, <2>2, <2>3 DEF ReceiveError
<1>13. CASE RangeEnds
  <2>1. ~HasError /\ ~HasError' BY <1>13 DEF RangeEnds, HasError
  <2> QED BY <1>13, <1>0, <2>1 DEF RangeEnds
<1>14. CASE Expire BY <1>14, <1>0, NoErrorBefore DEF Expire, HasError
<1>15. CASE UNCHANGED vars BY <1>15, <1>0, NoErrorBefore DEF vars, HasError
<1> QED BY <1>1, <1>2, <1>3, <1>4, <1>5, <1>6, <1>7, <1>8, <1>9,
           <1>10, <1>11, <1>12, <1>13, <1>14, <1>15
       DEF Next, Scan, Finish, Consume, Done

(* Every chunk is accounted for. *)
LEMMA StepCountInv == StreamInv /\ [Next]_vars => CountInv'
<1> SUFFICES ASSUME StreamInv, [Next]_vars PROVE CountInv'
  OBVIOUS
<1>0. /\ TypeOK /\ ControlInv /\ ErrorInv /\ CountInv
      /\ Len(buf) \in Nat /\ Len(chan) \in Nat /\ Len(produced) \in Nat
  BY DEF StreamInv, TypeOK
<1> USE CapAssumption DEF CountInv
<1>1. CASE ScanSkip BY <1>1, <1>0 DEF ScanSkip, CanScan, InChannel, HasError, ControlInv, ErrorInv, Past
<1>2. CASE ScanChunk
  <2>0. produced \in Seq(Nat) /\ n + 1 \in Nat /\ produced' = Append(produced, n + 1)
    BY <1>2, <1>0 DEF ScanChunk, TypeOK
  <2>1. Len(produced') = Len(produced) + 1 BY <2>0
  <2> QED BY <1>2, <1>0, <2>1 DEF ScanChunk, CanScan, InChannel, HasError, ControlInv
<1>3. CASE ScanMarker BY <1>3, <1>0 DEF ScanMarker, CanScan, InChannel, HasError, ControlInv, ErrorInv, Past
<1>4. CASE ScanEOF BY <1>4, <1>0 DEF ScanEOF, InChannel, HasError, ControlInv, ErrorInv, Past
<1>5. CASE ScanError BY <1>5, <1>0 DEF ScanError, InChannel, HasError, ControlInv, ErrorInv, Past
<1>6. CASE Send
  <2>1. ~HasError BY <1>6, NoErrorBefore DEF Send, Past
  <2>2. Len(chan') = Len(chan) + 1 /\ ~HasError'
    BY <1>6, <1>0, AppendError DEF Send, HasError, TypeOK, ControlInv
  <2> QED BY <1>6, <1>0, <2>1, <2>2 DEF Send, InChannel, ControlInv, ErrorInv, Past
<1>7. CASE SendCancelled BY <1>7, <1>0 DEF SendCancelled, InChannel, HasError, ControlInv, ErrorInv, Past
<1>8. CASE SendError
  <2>1. chan \in Seq(Chunk) /\ ending \in {"read", "cancelled"} /\ ~dropped
    BY <1>8, <1>0 DEF SendError, TypeOK, ControlInv, ErrorInv, Past
  <2>2. ErrorChunk(ending) \in Chunk /\ ErrorChunk(ending).err # "none"
    BY <2>1 DEF ErrorChunk, Chunk, Errs
  <2>3. ~HasError BY <1>8, NoErrorBefore DEF SendError, Past
  <2>4. CASE chan' = Append(chan, ErrorChunk(ending)) /\ dropped' = dropped
    <3>1. HasError' /\ Len(chan') = Len(chan) + 1
      BY <2>1, <2>2, <2>4, AppendError DEF HasError
    <3> QED BY <1>8, <1>0, <2>1, <2>3, <2>4, <3>1 DEF SendError, InChannel
  <2>5. CASE dropped' = TRUE /\ chan' = chan /\ Len(chan) = Cap
    <3>1. ~HasError' BY <2>3, <2>5 DEF HasError
    <3> QED BY <1>8, <1>0, <2>1, <2>3, <2>5, <3>1 DEF SendError, InChannel
  <2> QED BY <1>8, <2>4, <2>5 DEF SendError
<1>9. CASE CloseChan BY <1>9, <1>0 DEF CloseChan, InChannel, HasError, ControlInv, ErrorInv, Past
<1>10. CASE CloseBody BY <1>10, <1>0 DEF CloseBody, InChannel, HasError, ControlInv, ErrorInv, Past
<1>11. CASE ReceiveChunk
  <2>1. chan \in Seq(Chunk) /\ chan # <<>> /\ chan' = Tail(chan) /\ UNCHANGED <<rpc, closed, ending, dropped, produced>>
    BY <1>11, <1>0 DEF ReceiveChunk, TypeOK
  <2>2. HasError' <=> HasError BY <1>11, <2>1, ReceiveHasError DEF ReceiveChunk
  <2>3. Len(chan) \in Nat \ {0} /\ Len(chan') = Len(chan) - 1 BY <2>1, TailOfChan
  <2>4. Len(buf') = Len(buf) + 1
    <3>1. Head(chan) \in Chunk BY <2>1, HeadTailProperties
    <3> QED BY <1>11, <1>0, <3>1 DEF ReceiveChunk, TypeOK, Chunk
  <2>5. rpc' = rpc /\ ending' = ending /\ dropped' = dropped /\ produced' = produced BY <2>1
  <2>6. InChannel' = InChannel - 1 BY <2>2, <2>3 DEF InChannel
  <2>7. InChannel \in Int BY <2>3 DEF InChannel
  <2> QED BY <1>0, <2>3, <2>4, <2>5, <2>6, <2>7
<1>12. CASE ReceiveError
  <2>1. chan \in Seq(Chunk) /\ chan # <<>> /\ chan' = Tail(chan) /\ UNCHANGED <<rpc, closed, ending, dropped, produced>>
    BY <1>12, <1>0 DEF ReceiveError, TypeOK
  <2>2. chan' = <<>> /\ Past /\ HasError /\ Len(chan) = 1
    BY <1>12, <2>1, ReceiveHasError DEF ReceiveError
  <2>3. ~HasError' /\ Len(chan') = 0 BY <2>2 DEF HasError
  <2>4. ~dropped BY <1>0, <2>2 DEF ErrorInv
  <2>5. /\ rpc' = rpc /\ ending' = ending /\ dropped' = dropped /\ produced' = produced /\ buf' = buf
    BY <1>12, <2>1 DEF ReceiveError
  <2>6. InChannel = 0 /\ InChannel' = 0 BY <2>2, <2>3 DEF InChannel
  <2> QED BY <1>0, <2>4, <2>5, <2>6
<1>13. CASE RangeEnds BY <1>13, <1>0 DEF RangeEnds, InChannel, HasError, ControlInv, ErrorInv, Past
<1>14. CASE Expire BY <1>14, <1>0 DEF Expire, InChannel, HasError, ControlInv, ErrorInv, Past
<1>15. CASE UNCHANGED vars BY <1>15, <1>0 DEF vars, InChannel, HasError, ControlInv, ErrorInv, Past
<1> QED BY <1>1, <1>2, <1>3, <1>4, <1>5, <1>6, <1>7, <1>8, <1>9,
           <1>10, <1>11, <1>12, <1>13, <1>14, <1>15
       DEF Next, Scan, Finish, Consume, Done

(* A chunk in the channel, or in the reader's hand, carries the next fragment *)
(* that the planner has not received.                                         *)
LEMMA StepContentInv == StreamInv /\ [Next]_vars => ContentInv'
<1> SUFFICES ASSUME StreamInv, [Next]_vars PROVE ContentInv'
  OBVIOUS
<1>0. /\ TypeOK /\ ControlInv /\ ErrorIsLast /\ CountInv /\ ContentInv
      /\ Len(buf) \in Nat /\ Len(chan) \in Nat /\ Len(produced) \in Nat
  BY DEF StreamInv, TypeOK
<1> USE DEF ContentInv
<1>1. CASE ScanSkip BY <1>1, <1>0 DEF ScanSkip, CanScan
<1>2. CASE ScanChunk
  <2>1. ~HasError BY <1>2, NoErrorBefore DEF ScanChunk, CanScan, Past
  <2>2. Len(produced) = Len(buf) + Len(chan)
    BY <1>2, <1>0, <2>1 DEF ScanChunk, CanScan, CountInv, InChannel, ControlInv
  <2>3. /\ Len(produced') = Len(produced) + 1
        /\ produced'[Len(produced')] = n + 1
        /\ \A j \in 1..Len(produced) : produced'[j] = produced[j]
    BY <1>2, <1>0 DEF ScanChunk, TypeOK
  <2>4. \A i \in 1..Len(chan) : Len(buf) + i \in 1..Len(produced) BY <1>0, <2>2
  <2> QED BY <1>2, <1>0, <2>3, <2>4 DEF ScanChunk
<1>3. CASE ScanMarker BY <1>3, <1>0 DEF ScanMarker, CanScan
<1>4. CASE ScanEOF BY <1>4, <1>0 DEF ScanEOF
<1>5. CASE ScanError BY <1>5, <1>0 DEF ScanError
<1>6. CASE Send
  <2>1. ~HasError BY <1>6, NoErrorBefore DEF Send, Past
  <2>2. Len(produced) = Len(buf) + Len(chan) + 1
    BY <1>6, <1>0, <2>1 DEF Send, CountInv, InChannel
  <2>3. /\ Len(chan') = Len(chan) + 1
        /\ chan'[Len(chan')] = pend
        /\ \A i \in 1..Len(chan) : chan'[i] = chan[i]
    BY <1>6, <1>0, AppendError DEF Send, TypeOK
  <2>4. pend.text = produced[Len(buf) + (Len(chan) + 1)] BY <1>6, <1>0, <2>2 DEF Send
  <2> QED BY <1>6, <1>0, <2>3, <2>4, SMTT(20) DEF Send
<1>7. CASE SendCancelled BY <1>7, <1>0 DEF SendCancelled
<1>8. CASE SendError
  <2>1. chan \in Seq(Chunk) /\ ending \in {"read", "cancelled"}
    BY <1>8, <1>0 DEF SendError, TypeOK, ControlInv
  <2>2. ErrorChunk(ending) \in Chunk /\ ErrorChunk(ending).err # "none"
    BY <2>1 DEF ErrorChunk, Chunk, Errs
  <2>3. CASE chan' = Append(chan, ErrorChunk(ending))
    <3>1. /\ Len(chan') = Len(chan) + 1
          /\ chan'[Len(chan')] = ErrorChunk(ending)
          /\ \A i \in 1..Len(chan) : chan'[i] = chan[i]
      BY <2>1, <2>2, <2>3, AppendError
    <3> QED BY <1>8, <1>0, <2>2, <3>1 DEF SendError
  <2>4. CASE chan' = chan BY <1>8, <1>0, <2>4 DEF SendError
  <2> QED BY <1>8, <2>3, <2>4 DEF SendError
<1>9. CASE CloseChan BY <1>9, <1>0 DEF CloseChan
<1>10. CASE CloseBody BY <1>10, <1>0 DEF CloseBody
<1>11. CASE ReceiveChunk
  <2>1. chan \in Seq(Chunk) /\ chan # <<>> /\ chan' = Tail(chan) /\ UNCHANGED <<rpc, closed, ending, dropped, produced>>
    BY <1>11, <1>0 DEF ReceiveChunk, TypeOK
  <2>2. /\ Len(chan) \in Nat \ {0}
        /\ Len(chan') = Len(chan) - 1
        /\ \A i \in 1..Len(chan) - 1 : chan'[i] = chan[i + 1]
    BY <2>1, TailOfChan
  <2>3. Len(buf') = Len(buf) + 1
    <3>1. Head(chan) \in Chunk BY <2>1, HeadTailProperties
    <3> QED BY <1>11, <1>0, <3>1 DEF ReceiveChunk, TypeOK, Chunk
  <2>4. pend' = pend BY <1>11 DEF ReceiveChunk
  <2> QED BY <1>0, <2>1, <2>2, <2>3, <2>4
<1>12. CASE ReceiveError
  <2>1. chan \in Seq(Chunk) /\ chan # <<>> /\ chan' = Tail(chan) /\ UNCHANGED <<rpc, closed, ending, dropped, produced>>
    BY <1>12, <1>0 DEF ReceiveError, TypeOK
  <2>2. chan' = <<>> /\ Past BY <1>12, <2>1, ReceiveHasError DEF ReceiveError
  <2>3. Len(chan') = 0 /\ rpc' # "send" BY <2>1, <2>2 DEF Past
  <2> QED BY <2>3
<1>13. CASE RangeEnds BY <1>13, <1>0 DEF RangeEnds
<1>14. CASE Expire BY <1>14, <1>0 DEF Expire
<1>15. CASE UNCHANGED vars BY <1>15, <1>0 DEF vars
<1> QED BY <1>1, <1>2, <1>3, <1>4, <1>5, <1>6, <1>7, <1>8, <1>9,
           <1>10, <1>11, <1>12, <1>13, <1>14, <1>15
       DEF Next, Scan, Finish, Consume, Done

(* The planner's buffer stays the start of what the wire carried. *)
LEMMA StepDeliveredInOrder == StreamInv /\ [Next]_vars => DeliveredInOrder'
<1> SUFFICES ASSUME StreamInv, [Next]_vars PROVE DeliveredInOrder'
  OBVIOUS
<1>0. /\ TypeOK /\ DeliveredInOrder
      /\ Len(buf) \in Nat /\ Len(chan) \in Nat /\ Len(produced) \in Nat
  BY DEF StreamInv, TypeOK
<1> USE DEF DeliveredInOrder
<1>1. CASE ScanSkip BY <1>1, <1>0 DEF ScanSkip, CanScan
<1>2. CASE ScanChunk
  <2>1. /\ Len(produced') = Len(produced) + 1
        /\ \A j \in 1..Len(produced) : produced'[j] = produced[j]
        /\ buf' = buf
    BY <1>2, <1>0 DEF ScanChunk, TypeOK
  <2> QED BY <1>0, <2>1
<1>3. CASE ScanMarker BY <1>3, <1>0 DEF ScanMarker, CanScan
<1>4. CASE ScanEOF BY <1>4, <1>0 DEF ScanEOF
<1>5. CASE ScanError BY <1>5, <1>0 DEF ScanError
<1>6. CASE Send BY <1>6, <1>0 DEF Send
<1>7. CASE SendCancelled BY <1>7, <1>0 DEF SendCancelled
<1>8. CASE SendError BY <1>8, <1>0 DEF SendError
<1>9. CASE CloseChan BY <1>9, <1>0 DEF CloseChan
<1>10. CASE CloseBody BY <1>10, <1>0 DEF CloseBody
<1>11. CASE ReceiveChunk
  <2>1. chan \in Seq(Chunk) /\ chan # <<>> /\ chan' = Tail(chan) /\ UNCHANGED <<rpc, closed, ending, dropped, produced>>
    BY <1>11, <1>0 DEF ReceiveChunk, TypeOK
  <2>2. /\ Len(chan) \in Nat \ {0} /\ Head(chan) = chan[1] /\ 1 \in 1..Len(chan)
        /\ Head(chan).text \in Nat
    <3>1. Len(chan) \in Nat \ {0} /\ Head(chan) = chan[1] BY <2>1, TailOfChan
    <3>2. Head(chan) \in Chunk BY <2>1, HeadTailProperties
    <3> QED BY <3>1, <3>2 DEF Chunk
  <2>3. /\ Len(buf') = Len(buf) + 1
        /\ buf'[Len(buf) + 1] = chan[1].text
        /\ \A i \in 1..Len(buf) : buf'[i] = buf[i]
    BY <1>11, <1>0, <2>2 DEF ReceiveChunk, TypeOK
  <2>4. chan[1].text = produced[Len(buf) + 1]
    BY <1>11, <2>2 DEF ReceiveChunk, StreamInv, ContentInv
  <2>5. InChannel >= 1
    <3>1. CASE HasError
      <4>1. Len(chan) # 1 BY <1>11, <2>2, <3>1 DEF ReceiveChunk, HasError
      <4>2. InChannel = Len(chan) - 1 BY <3>1 DEF InChannel
      <4>3. Len(chan) > 1 BY <2>2, <4>1
      <4> QED BY <2>2, <4>2, <4>3
    <3>2. CASE ~HasError BY <2>2, <3>2 DEF InChannel, HasError
    <3> QED BY <3>1, <3>2
  <2>6. InChannel \in Int BY <1>0 DEF InChannel
  <2>7. Len(buf) + 1 <= Len(produced) BY <1>0, <2>5, <2>6 DEF StreamInv, CountInv
  <2> QED BY <1>0, <2>1, <2>3, <2>4, <2>7
<1>12. CASE ReceiveError BY <1>12, <1>0 DEF ReceiveError
<1>13. CASE RangeEnds BY <1>13, <1>0 DEF RangeEnds
<1>14. CASE Expire BY <1>14, <1>0 DEF Expire
<1>15. CASE UNCHANGED vars BY <1>15, <1>0 DEF vars
<1> QED BY <1>1, <1>2, <1>3, <1>4, <1>5, <1>6, <1>7, <1>8, <1>9,
           <1>10, <1>11, <1>12, <1>13, <1>14, <1>15
       DEF Next, Scan, Finish, Consume, Done

(* Every step keeps the whole invariant. *)
LEMMA StepStreamInv == StreamInv /\ [Next]_vars => StreamInv'
BY StepTypeOK, StepControlInv, StepErrorIsLast, StepErrorInv, StepCountInv,
   StepContentInv, StepDeliveredInOrder DEF StreamInv

(* StreamInv is an invariant of the specification: no interleaving of the      *)
(* reader goroutine, llmPlanRound and the context loses track of a chunk.      *)
THEOREM StreamInvariant == Spec => []StreamInv
BY InitStreamInv, StepStreamInv, PTL DEF Spec

(* Type correctness; the channel's buffer never exceeds its capacity. *)
THEOREM TypeCorrect == Spec => []TypeOK
<1>1. StreamInv => TypeOK BY DEF StreamInv
<1> QED BY <1>1, StreamInvariant, PTL

(* What the planner has accumulated is always a prefix of what the wire carried. *)
THEOREM InOrder == Spec => []DeliveredInOrder
<1>1. StreamInv => DeliveredInOrder BY DEF StreamInv
<1> QED BY <1>1, StreamInvariant, PTL

(* An error chunk is the last chunk of the channel. *)
THEOREM ErrorLast == Spec => []ErrorIsLast
<1>1. StreamInv => ErrorIsLast BY DEF StreamInv
<1> QED BY <1>1, StreamInvariant, PTL

(* A response that is taken as whole is accounted for by the invariant. *)
LEMMA InvWhole == StreamInv => ResponseWhole
<1> SUFFICES ASSUME StreamInv, cpc = "response" PROVE
      \/ ~dropped /\ ending \in {"marker", "eof"} /\ buf = produced
      \/ dropped /\ Len(buf) >= Cap /\ Len(buf) >= Len(produced) - 1
  BY DEF ResponseWhole
<1>1. /\ closed /\ chan = <<>> /\ Past /\ ~HasError /\ Len(chan) = 0 /\ InChannel = 0
  BY DEF StreamInv, ErrorInv, ControlInv, HasError, InChannel, Past
<1>2. /\ Len(buf) \in Nat /\ Len(produced) \in Nat /\ Cap \in Nat
      /\ buf \in Seq(Nat) /\ produced \in Seq(Nat)
      /\ ending \in Endings /\ dropped \in BOOLEAN
  BY CapAssumption DEF StreamInv, TypeOK
<1>3. Len(produced) = Len(buf) + (IF ending = "cancelled" THEN 1 ELSE 0)
  BY <1>1, <1>2 DEF StreamInv, CountInv, Past
<1>4. CASE dropped
  <2>1. Len(buf) >= Cap BY <1>1, <1>2, <1>4 DEF StreamInv, CountInv
  <2> QED BY <1>2, <1>3, <1>4, <2>1
<1>5. CASE ~dropped
  <2>1. ending \in {"marker", "eof"}
    BY <1>1, <1>2, <1>5 DEF StreamInv, ErrorInv, ControlInv, Endings
  <2>2. Len(buf) = Len(produced) BY <1>2, <1>3, <2>1
  <2>3. \A i \in 1..Len(buf) : buf[i] = produced[i] BY DEF StreamInv, DeliveredInOrder
  <2>4. buf = produced BY <1>2, <2>2, <2>3, SeqEqual
  <2> QED BY <1>5, <2>1, <2>4
<1> QED BY <1>2, <1>4, <1>5

(* A response that llmPlanRound goes on to parse is whole, unless the error    *)
(* chunk of a failed stream found the channel full.                            *)
THEOREM WholeResponse == Spec => []ResponseWhole
BY InvWhole, StreamInvariant, PTL

(* The contents of Queue, mark by mark. *)
LEMMA QueueSeq ==
  ASSUME TypeOK
  PROVE  /\ Queue \in Seq(Channel!Marks)
         /\ Len(Queue) = Len(chan)
         /\ \A i \in 1..Len(chan) : Queue[i] = IF chan[i].err = "none" THEN "data" ELSE "error"
<1>1. Len(chan) \in Nat BY DEF TypeOK
<1> QED BY <1>1 DEF Queue, Channel!Marks

(* Queueing a chunk queues its mark. *)
LEMMA QueueAppend ==
  ASSUME TypeOK, TypeOK', NEW c \in Chunk, chan' = Append(chan, c)
  PROVE  Queue' = Append(Queue, IF c.err = "none" THEN "data" ELSE "error")
<1> DEFINE m == IF c.err = "none" THEN "data" ELSE "error"
<1>1. /\ Queue \in Seq(Channel!Marks) /\ Len(Queue) = Len(chan) /\ Len(chan) \in Nat
      /\ \A i \in 1..Len(chan) : Queue[i] = IF chan[i].err = "none" THEN "data" ELSE "error"
  BY QueueSeq DEF TypeOK
<1>2. Len(chan') = Len(chan) + 1 /\ chan'[Len(chan) + 1] = c
      /\ \A i \in 1..Len(chan) : chan'[i] = chan[i]
  BY DEF TypeOK
<1>3. /\ Queue' = [i \in 1..Len(chan) + 1 |-> IF chan'[i].err = "none" THEN "data" ELSE "error"]
  BY <1>2 DEF Queue
<1>4. m \in Channel!Marks BY DEF Channel!Marks
<1>5. /\ Append(Queue, m) \in Seq(Channel!Marks)
      /\ Len(Append(Queue, m)) = Len(chan) + 1
      /\ \A i \in 1..Len(chan) : Append(Queue, m)[i] = Queue[i]
      /\ Append(Queue, m)[Len(chan) + 1] = m
  BY <1>1, <1>4
<1>6. Queue' \in Seq(Channel!Marks) /\ Len(Queue') = Len(chan) + 1
  BY <1>1, <1>3 DEF Channel!Marks
<1>7. \A i \in 1..Len(chan) + 1 : Queue'[i] = Append(Queue, m)[i]
  <2> TAKE i \in 1..Len(chan) + 1
  <2>1. CASE i \in 1..Len(chan) BY <1>1, <1>2, <1>3, <1>5, <2>1
  <2>2. CASE i = Len(chan) + 1 BY <1>1, <1>2, <1>3, <1>5, <2>2
  <2> QED BY <1>1, <2>1, <2>2
<1> HIDE DEF m
<1>8. Queue' = Append(Queue, m) BY <1>5, <1>6, <1>7, SeqEqual
<1> QED BY <1>8 DEF m

(* Receiving the first chunk receives its mark. *)
LEMMA QueueTail ==
  ASSUME TypeOK, chan # <<>>, chan' = Tail(chan)
  PROVE  Queue # <<>> /\ Queue' = Tail(Queue)
<1>1. /\ Queue \in Seq(Channel!Marks) /\ Len(Queue) = Len(chan)
      /\ \A i \in 1..Len(chan) : Queue[i] = IF chan[i].err = "none" THEN "data" ELSE "error"
  BY QueueSeq
<1>2. /\ Len(chan) \in Nat \ {0} /\ Len(chan') = Len(chan) - 1
      /\ \A i \in 1..Len(chan) - 1 : chan'[i] = chan[i + 1]
  BY TailOfChan DEF TypeOK
<1>3. Queue # <<>> BY <1>1, <1>2
<1>4. /\ Tail(Queue) \in Seq(Channel!Marks) /\ Len(Tail(Queue)) = Len(chan) - 1
      /\ \A i \in 1..Len(chan) - 1 : Tail(Queue)[i] = Queue[i + 1]
  BY <1>1, <1>2, <1>3, HeadTailProperties
<1>5. Queue' = [i \in 1..Len(chan) - 1 |-> IF chan'[i].err = "none" THEN "data" ELSE "error"]
  BY <1>2 DEF Queue
<1>6. Queue' \in Seq(Channel!Marks) /\ Len(Queue') = Len(chan) - 1
  BY <1>2, <1>5 DEF Channel!Marks
<1>7. \A i \in 1..Len(chan) - 1 : Queue'[i] = Tail(Queue)[i]
  BY <1>1, <1>2, <1>4, <1>5
<1> QED BY <1>3, <1>4, <1>6, <1>7, SeqEqual

(* The streams of both drivers implement the channel contract: they queue data, *)
(* then at most one error, close once, and send nothing after the close.        *)
THEOREM ImplementsChannel == Spec => ChannelContract
<1>1. Init => Channel!ChInit
  <2> SUFFICES ASSUME Init PROVE Channel!ChInit
    OBVIOUS
  <2>1. Phase = "streaming" BY DEF Init, Phase
  <2>2. Queue = <<>> BY DEF Init, Queue
  <2> QED BY <2>1, <2>2 DEF Channel!ChInit
<1>2. StreamInv /\ TypeOK' /\ [Next]_vars => [Channel!ChNext]_(Channel!chVars)
  <2> SUFFICES ASSUME StreamInv, TypeOK', [Next]_vars
               PROVE  [Channel!ChNext]_(Channel!chVars)
    OBVIOUS
  <2>0. TypeOK /\ ControlInv /\ Len(Queue) = Len(chan) BY QueueSeq DEF StreamInv
  <2>same. ASSUME chan' = chan, Phase' = Phase PROVE UNCHANGED Channel!chVars
    BY <2>same DEF Channel!chVars, Queue
  <2>1. CASE ScanSkip \/ ScanChunk \/ ScanError \/ SendCancelled \/ CloseBody
             \/ RangeEnds \/ Expire \/ UNCHANGED vars
    <3>1. chan' = chan
      BY <2>1 DEF ScanSkip, ScanChunk, ScanError, SendCancelled, CloseBody, RangeEnds, Expire, vars
    <3>2. Phase' = Phase
      BY <2>1 DEF ScanSkip, ScanChunk, ScanError, SendCancelled, CloseBody, RangeEnds, Expire,
                  vars, CanScan, Phase
    <3> QED BY <3>1, <3>2, <2>same
  <2>2. CASE ScanMarker \/ ScanEOF
    <3>1. Phase = "streaming" /\ Phase' = "ending" /\ chan' = chan
      BY <2>0, <2>2 DEF ScanMarker, ScanEOF, CanScan, Phase, ControlInv
    <3>2. Queue' = Queue BY <3>1 DEF Queue
    <3> QED BY <3>1, <3>2 DEF Channel!ChNext, Channel!ChEnd
  <2>3. CASE Send
    <3>1. Phase = "streaming" /\ Phase' = Phase /\ Len(Queue) < Cap
      BY <2>0, <2>3 DEF Send, Phase, ControlInv
    <3>2. Queue' = Append(Queue, "data")
      BY <2>0, <2>3, QueueAppend DEF Send, ControlInv, TypeOK
    <3> QED BY <3>1, <3>2 DEF Channel!ChNext, Channel!ChSend
  <2>4. CASE SendError
    <3>1. Phase = "streaming" /\ Phase' = "ending"
      BY <2>0, <2>4 DEF SendError, Phase, ControlInv
    <3>2. CASE Len(chan) < Cap /\ chan' = Append(chan, ErrorChunk(ending))
      <4>1. ending \in {"read", "cancelled"} BY <2>0, <2>4 DEF SendError, ControlInv
      <4>2. ErrorChunk(ending) \in Chunk /\ ErrorChunk(ending).err # "none"
        BY <4>1 DEF ErrorChunk, Chunk, Errs
      <4>3. Queue' = Append(Queue, "error") BY <2>0, <3>2, <4>2, QueueAppend
      <4> QED BY <2>0, <3>1, <3>2, <4>3 DEF Channel!ChNext, Channel!ChEnd
    <3>3. CASE chan' = chan
      <4>1. Queue' = Queue BY <3>3 DEF Queue
      <4> QED BY <3>1, <4>1 DEF Channel!ChNext, Channel!ChEnd
    <3> QED BY <2>4, <3>2, <3>3 DEF SendError
  <2>5. CASE CloseChan
    <3>1. Phase = "ending" /\ Phase' = "closed" /\ chan' = chan
      BY <2>0, <2>5 DEF CloseChan, Phase, ControlInv
    <3>2. Queue' = Queue BY <3>1 DEF Queue
    <3> QED BY <3>1, <3>2 DEF Channel!ChNext, Channel!ChClose
  <2>6. CASE ReceiveChunk \/ ReceiveError
    <3>1. chan # <<>> /\ chan' = Tail(chan) /\ Phase' = Phase
      BY <2>6 DEF ReceiveChunk, ReceiveError, Phase
    <3>2. Queue # <<>> /\ Queue' = Tail(Queue) BY <2>0, <3>1, QueueTail
    <3> QED BY <3>1, <3>2 DEF Channel!ChNext, Channel!ChReceive
  <2> QED BY <2>1, <2>2, <2>3, <2>4, <2>5, <2>6 DEF Next, Scan, Finish, Consume, Done
<1> QED BY <1>1, <1>2, StreamInvariant, TypeCorrect, PTL DEF Spec, ChannelContract, Channel!ChSpec
=============================================================================
