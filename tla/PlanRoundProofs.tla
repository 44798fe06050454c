---------------------------- MODULE PlanRoundProofs ----------------------------
(*****************************************************************************)
(* Proofs about ProviderCall and PlanRound, for every number of retries,     *)
(* every set of HTTP statuses and every channel capacity.  CallInv ties the  *)
(* place in the retry loop to the requests sent, the last answer and the     *)
(* response that is held; it is inductive both for the call alone and for    *)
(* the round.  RefusedInv follows the reader that openAICompatibleStream     *)
(* starts on a refused answer: it never has a chunk to send, and it ends     *)
(* with an error unless the answer had no content.                           *)
(*****************************************************************************)
EXTENDS PlanRound, SequenceTheorems, TLAPS

LoopStates == {"build", "post", "backoff", "readAll", "dispatch", "after", "returned"}

\* The types of a call's variables.
CallTypeOK ==
  /\ fn \in AllFunctions
  /\ maxRetries \in Int
  /\ pc \in LoopStates
  /\ attempt \in Nat
  /\ posts \in Nat
  /\ status \in {0} \cup 100..599
  /\ resp \in {"nil", "open", "closed", "empty"}
  /\ open \in Int
  /\ ctxDone \in BOOLEAN

\* The last answer allows another round of the loop.
MayRepeat == status = 0 \/ Retryable(status) \/ (lastErr = "read" /\ ~Streams)

\* What holds at each place of the loop.
LoopInv ==
  /\ pc = "build" => attempt = 0 /\ posts = 0 /\ status = 0 /\ resp = "nil"
  /\ pc \in {"post", "backoff"} =>
       posts = attempt /\ attempt < Attempts /\ resp # "open" /\ MayRepeat
         /\ (posts = 0 => status = 0)
  /\ pc \in {"readAll", "dispatch"} => posts = attempt + 1 /\ attempt < Attempts /\ status # 0
  /\ pc = "readAll" => resp \in {"open", "empty"} /\ ~Streams
  /\ pc = "dispatch" => resp \in {"empty", IF Streams THEN "open" ELSE "closed"}
  /\ pc = "after" =>
       \/ status = 200 /\ Streams /\ resp \in {"open", "empty"}
       \/ posts = Attempts /\ MayRepeat /\ lastErr \in Errors /\ resp # "open"
  /\ pc = "returned" =>
       (resp # "open" \/ result = "channel") /\ (result = "channel" => resp # "nil")

CallInv ==
  /\ CallTypeOK
  /\ open = IF resp = "open" THEN 1 ELSE 0
  /\ LoopInv
  /\ VerdictOfLastAnswer

(* A call starts in the invariant. *)
LEMMA InitCallInv == Init => CallInv
BY FunctionsAssumption, MaxRetriesAssumption
   DEF Init, CallInv, CallTypeOK, LoopStates, LoopInv, VerdictOfLastAnswer

(* Every step of the retry loop, with every answer of the server, keeps it. *)
LEMMA StepCallInv == CallInv /\ Step => CallInv'
<1> SUFFICES ASSUME CallInv, Step PROVE CallInv'
  OBVIOUS
<1> USE DEF CallInv, CallTypeOK, LoopInv, VerdictOfLastAnswer, LoopStates, MayRepeat,
            Attempts, Streams, Retryable, Rejected, call, Errors
<1>1. CASE KeyMissing BY <1>1 DEF KeyMissing, Return
<1>2. CASE RequestBuilt BY <1>2 DEF RequestBuilt
<1>3. CASE BuildFails BY <1>3 DEF BuildFails, Return
<1>4. CASE RequestFails BY <1>4 DEF RequestFails, Return
<1>5. CASE BackoffCancelled BY <1>5 DEF BackoffCancelled, Return
<1>6. CASE BackoffElapsed BY <1>6 DEF BackoffElapsed
<1>7. CASE PostFails BY <1>7 DEF PostFails, NextAttempt
<1>8. ASSUME NEW s \in Statuses, PostAnswered(s) PROVE CallInv'
  BY <1>8, StatusesAssumption DEF PostAnswered
<1>9. CASE ReadAllFails BY <1>9 DEF ReadAllFails, CloseBody, NextAttempt
<1>10. CASE ReadAll BY <1>10 DEF ReadAll, CloseBody
<1>11. CASE Decode BY <1>11 DEF Decode, Return
<1>12. CASE StreamOpens BY <1>12 DEF StreamOpens
<1>13. CASE Refuse BY <1>13 DEF Refuse, CloseBody, Return
<1>14. CASE Retry BY <1>14 DEF Retry, CloseBody, NextAttempt
<1>15. CASE AfterStream BY <1>15 DEF AfterStream, GotOK, Return
<1>16. CASE AfterGenerate BY <1>16 DEF AfterGenerate, Return
<1> QED BY <1>1, <1>2, <1>3, <1>4, <1>5, <1>6, <1>7, <1>8, <1>9, <1>10, <1>11, <1>12,
           <1>13, <1>14, <1>15, <1>16 DEF Step

(* The end of the context changes nothing else. *)
LEMMA CancelCallInv == CallInv /\ Cancel => CallInv'
BY DEF Cancel, CallInv, CallTypeOK, LoopInv, VerdictOfLastAnswer, LoopStates, MayRepeat,
       Attempts, Streams, Retryable, Rejected, call

(* The invariant is preserved by a step that leaves the call alone. *)
LEMMA StutterCallInv == CallInv /\ UNCHANGED vars => CallInv'
BY DEF vars, CallInv, CallTypeOK, LoopInv, VerdictOfLastAnswer, LoopStates, MayRepeat,
       Attempts, Streams, Retryable, Rejected

(* No response body is leaked in a state of the invariant. *)
LEMMA CallInvCloses == CallInv => BodiesClosed
BY DEF CallInv, CallTypeOK, LoopInv, BodiesClosed

(* A request is repeated only as the loop allows. *)
LEMMA StepRetries ==
  CallInv /\ Step /\ posts' # posts =>
    /\ posts' <= Attempts
    /\ posts > 0 => status = 0 \/ Retryable(status) \/ lastErr = "read"
<1> SUFFICES ASSUME CallInv, Step, posts' # posts
             PROVE  /\ posts' <= Attempts
                    /\ posts > 0 => status = 0 \/ Retryable(status) \/ lastErr = "read"
  OBVIOUS
<1>1. pc = "post" /\ posts' = posts + 1
  <2>1. CASE PostFails BY <2>1 DEF PostFails
  <2>2. ASSUME NEW s \in Statuses, PostAnswered(s) PROVE pc = "post" /\ posts' = posts + 1
    BY <2>2 DEF PostAnswered
  <2>3. PostFails \/ \E s \in Statuses : PostAnswered(s)
    BY DEF Step, KeyMissing, RequestBuilt, BuildFails, RequestFails, BackoffCancelled,
           BackoffElapsed, ReadAllFails, ReadAll, Decode, StreamOpens, Refuse, Retry,
           AfterStream, AfterGenerate
  <2> QED BY <2>1, <2>2, <2>3
<1> QED BY <1>1 DEF CallInv, CallTypeOK, LoopInv, MayRepeat, Attempts

(* CallInv holds throughout a call that nobody reads the channel of. *)
THEOREM CallInvariant == Spec => []CallInv
<1>1. CallInv /\ [Next]_vars => CallInv'
  BY StepCallInv, CancelCallInv, StutterCallInv DEF Next, Returned
<1> QED BY <1>1, InitCallInv, PTL DEF Spec

-----------------------------------------------------------------------------
(* The round.                                                                *)

ReaderPast == rpc \in {"close", "closeBody", "gone"}

\* Before the call returns there is no reader, and the reader owns the response.
ReaderInv ==
  /\ rpc \in {"none"} \cup Stream!ReaderStates
  /\ cpc \in {"call", "range", "response", "failed", "panicked"}
  /\ cpc = "call" => rpc = "none"
  /\ rpc = "none" => chan = <<>> /\ buf = <<>> /\ ~closed
  /\ rpc # "none" => body = resp /\ result = "channel"
  /\ cpc # "call" => pc = "returned"
  /\ cpc = "response" /\ rpc = "none" => result = "ok"

\* The last request was refused and a reader was started all the same: it stops
\* at its first read, and llmPlanRound gets the error and nothing else, or, if the
\* answer had no content, an empty channel.
RefusedInv ==
  rpc # "none" /\ status # 200 =>
    /\ fn = "openaiStream" /\ buf = <<>>
    /\ body \in {"closed", "empty"}
    /\ rpc \in {"scan", "failed", "close", "closeBody", "gone"}
    /\ cpc \in {"range", "failed"} \/ (body = "empty" /\ cpc = "response")
    /\ ~ReaderPast => chan = <<>> /\ ~closed /\ cpc = "range"
    /\ rpc = "failed" => ending = "read"
    /\ ReaderPast /\ cpc = "range" =>
         \/ chan = <<Stream!ErrorChunk("read")>>
         \/ body = "empty" /\ chan = <<>>

RoundInv == CallInv /\ ReaderInv /\ RefusedInv

(* A round starts in the invariant. *)
LEMMA InitRoundInv == RoundInit => RoundInv
BY InitCallInv DEF RoundInit, RoundInv, ReaderInv, RefusedInv, Stream!ReaderStates, Init

(* Steps that leave the call alone, but may end its context, keep CallInv. *)
LEMMA ContextCallInv ==
  CallInv /\ UNCHANGED <<theCall, response>> /\ ctxDone' \in BOOLEAN => CallInv'
BY DEF theCall, response, CallInv, CallTypeOK, LoopInv, VerdictOfLastAnswer, LoopStates,
       MayRepeat, Attempts, Streams, Retryable, Rejected

(* A step of the call happens before there is a reader. *)
LEMMA CallRoundInv == RoundInv /\ (Call \/ CallCancelled) => RoundInv'
<1> SUFFICES ASSUME RoundInv, Call \/ CallCancelled PROVE RoundInv'
  OBVIOUS
<1>1. CallInv' BY StepCallInv, CancelCallInv DEF RoundInv, Call, CallCancelled
<1>2. pc # "returned" /\ UNCHANGED stream
  BY DEF Call, CallCancelled, Cancel, Step, KeyMissing, RequestBuilt, BuildFails, RequestFails,
         BackoffCancelled, BackoffElapsed, PostFails, PostAnswered, ReadAllFails, ReadAll,
         Decode, StreamOpens, Refuse, Retry, AfterStream, AfterGenerate
<1>3. cpc = "call" /\ rpc = "none" BY <1>2 DEF RoundInv, ReaderInv
<1> QED BY <1>1, <1>2, <1>3 DEF RoundInv, ReaderInv, RefusedInv, stream

(* The two ways a returned call goes on. *)
LEMMA HandOverRoundInv == RoundInv /\ (RoundEnds \/ StartReader) => RoundInv'
<1> SUFFICES ASSUME RoundInv, RoundEnds \/ StartReader PROVE RoundInv'
  OBVIOUS
<1>1. CallInv' BY ContextCallInv DEF RoundInv, RoundEnds, StartReader, CallInv, CallTypeOK
<1>2. CASE RoundEnds
  BY <1>1, <1>2 DEF RoundInv, RoundEnds, ReaderInv, RefusedInv, theCall, response
<1>3. CASE StartReader
  <2>1. status # 200 => fn = "openaiStream" /\ resp \in {"closed", "empty"}
    BY <1>3 DEF StartReader, RoundInv, CallInv, VerdictOfLastAnswer
  <2> QED BY <1>1, <1>3, <2>1 DEF RoundInv, StartReader, ReaderInv, RefusedInv, theCall,
            response, Stream!ReaderStates, ReaderPast
<1> QED BY <1>2, <1>3

(* The reader's scan: on a closed body only its error is possible, on an empty *)
(* one only its end.                                                           *)
LEMMA ScanRoundInv == RoundInv /\ Scan => RoundInv'
<1> SUFFICES ASSUME RoundInv, Scan PROVE RoundInv'
  OBVIOUS
<1> USE DEF Scan, Started, RoundInv, ReaderInv, RefusedInv, ReaderPast, theCall, response,
            Stream!ReaderStates
<1>0. UNCHANGED ctxDone
  BY DEF Stream!Scan, Stream!ScanSkip, Stream!ScanChunk, Stream!ScanMarker, Stream!ScanEOF,
         Stream!ScanError
<1>1. CallInv' BY <1>0, ContextCallInv DEF CallInv, CallTypeOK
<1>2. CASE Stream!ScanSkip BY <1>1, <1>2 DEF Stream!ScanSkip, Stream!CanScan
<1>3. CASE Stream!ScanChunk BY <1>1, <1>3 DEF Stream!ScanChunk, Stream!CanScan
<1>4. CASE Stream!ScanMarker BY <1>1, <1>4 DEF Stream!ScanMarker, Stream!CanScan
<1>5. CASE Stream!ScanEOF BY <1>1, <1>5 DEF Stream!ScanEOF
<1>6. CASE Stream!ScanError BY <1>1, <1>6 DEF Stream!ScanError
<1> QED BY <1>2, <1>3, <1>4, <1>5, <1>6 DEF Stream!Scan

(* The range over the channel, and the end of the context. *)
LEMMA ConsumeRoundInv == RoundInv /\ (Consume \/ Expire) => RoundInv'
<1> SUFFICES ASSUME RoundInv, Consume \/ Expire PROVE RoundInv'
  OBVIOUS
<1> USE DEF Consume, Expire, Started, RoundInv, ReaderInv, RefusedInv, ReaderPast, theCall,
            response, Stream!ReaderStates, Stream!ErrorChunk
<1>0. ctxDone' \in BOOLEAN
  BY DEF Stream!Consume, Stream!ReceiveChunk, Stream!ReceiveError, Stream!RangeEnds,
         Stream!Expire, CallInv, CallTypeOK
<1>1. CallInv' BY <1>0, ContextCallInv
<1>2. CASE Stream!ReceiveChunk BY <1>1, <1>2 DEF Stream!ReceiveChunk
<1>3. CASE Stream!ReceiveError BY <1>1, <1>3 DEF Stream!ReceiveError
<1>4. CASE Stream!RangeEnds BY <1>1, <1>4 DEF Stream!RangeEnds
<1>5. CASE Stream!Expire BY <1>1, <1>5 DEF Stream!Expire
<1> QED BY <1>2, <1>3, <1>4, <1>5 DEF Stream!Consume

(* The reader's sends and its deferred calls: closing the body pays what the *)
(* call owed.                                                                *)
LEMMA FinishRoundInv == RoundInv /\ Finish => RoundInv'
<1> SUFFICES ASSUME RoundInv, Finish PROVE RoundInv'
  OBVIOUS
<1> USE DEF Finish, Started, RoundInv, ReaderInv, RefusedInv, ReaderPast, theCall,
            Stream!ReaderStates
<1>1. CASE Stream!Send \/ Stream!SendCancelled \/ Stream!SendError \/ Stream!CloseChan
  <2>1. UNCHANGED <<theCall, response, ctxDone>>
    BY <1>1 DEF Stream!Send, Stream!SendCancelled, Stream!SendError, Stream!CloseChan
  <2>2. CallInv' BY <2>1, ContextCallInv DEF CallInv, CallTypeOK
  <2>3. CASE Stream!Send BY <2>1, <2>2, <2>3 DEF Stream!Send, response
  <2>4. CASE Stream!SendCancelled BY <2>1, <2>2, <2>4 DEF Stream!SendCancelled, response
  <2>5. CASE Stream!SendError
    <3>1. chan = <<>> => Len(chan) < Cap /\ Len(chan) # Cap BY BufferAssumption
    <3>2. chan = <<>> => Append(chan, Stream!ErrorChunk(ending)) = <<Stream!ErrorChunk(ending)>>
      OBVIOUS
    <3> QED BY <2>1, <2>2, <2>5, <3>1, <3>2 DEF Stream!SendError, response
  <2>6. CASE Stream!CloseChan BY <2>1, <2>2, <2>6 DEF Stream!CloseChan, response
  <2> QED BY <1>1, <2>3, <2>4, <2>5, <2>6
<1>2. CASE Stream!CloseBody
  <2>1. pc = "returned" /\ result = "channel" /\ body = resp
    BY <1>2 DEF Stream!CloseBody
  <2>2. /\ UNCHANGED <<theCall, ctxDone>> /\ open' = 0 /\ resp' = body'
        /\ body' = IF body = "empty" THEN "empty" ELSE "closed"
    BY <1>2, <2>1 DEF Stream!CloseBody, CloseBody, CallInv, response
  <2>3. CallInv'
    BY <2>1, <2>2 DEF CallInv, CallTypeOK, LoopInv, VerdictOfLastAnswer, LoopStates, MayRepeat,
                      Attempts, Streams, Retryable, Rejected
  <2> QED BY <1>2, <2>1, <2>2, <2>3 DEF Stream!CloseBody
<1> QED BY <1>1, <1>2 DEF Stream!Finish

(* RoundInv holds throughout a planning round. *)
THEOREM RoundInvariant == RoundSpec => []RoundInv
<1>1. RoundInv /\ [RoundNext]_all => RoundInv'
  <2> SUFFICES ASSUME RoundInv, [RoundNext]_all PROVE RoundInv'
    OBVIOUS
  <2>1. CASE RoundNext /\ ~Done
    BY <2>1, CallRoundInv, HandOverRoundInv, ScanRoundInv, ConsumeRoundInv, FinishRoundInv
       DEF RoundNext
  <2>2. CASE Done \/ UNCHANGED all
    <3>1. UNCHANGED <<theCall, response, ctxDone, stream>> BY <2>2 DEF Done, all
    <3>2. CallInv' BY <3>1, ContextCallInv DEF RoundInv, CallInv, CallTypeOK
    <3> QED BY <3>1, <3>2
            DEF RoundInv, ReaderInv, RefusedInv, ReaderPast, theCall, response, stream
  <2> QED BY <2>1, <2>2
<1> QED BY <1>1, InitRoundInv, PTL DEF RoundSpec

(* No response body of any attempt outlives a planning round's call, except the *)
(* one the reader closes (BodiesClosed), for every bound on the retries.        *)
THEOREM RoundClosesBodies == RoundSpec => []BodiesClosed
BY RoundInvariant, CallInvCloses, PTL DEF RoundInv

(* The planner gets the verdict of the last request (VerdictOfLastAnswer), *)
(* whatever statuses the server answers with.                              *)
THEOREM RoundVerdict == RoundSpec => []VerdictOfLastAnswer
<1>1. RoundInv => VerdictOfLastAnswer BY DEF RoundInv, CallInv
<1> QED BY <1>1, RoundInvariant, PTL

(* A refused request gives no text: the reader that openAICompatibleStream     *)
(* starts on a refusal sends an error and nothing else, and only a refusal     *)
(* without content becomes a response, an empty one.                           *)
THEOREM RefusalIsNoSuccess == RoundSpec => []NoSuccessFromRefusal
<1>1. RoundInv => NoSuccessFromRefusal
  BY DEF RoundInv, ReaderInv, RefusedInv, CallInv, LoopInv, VerdictOfLastAnswer,
         NoSuccessFromRefusal
<1> QED BY <1>1, RoundInvariant, PTL

(* A planning round repeats a request only after no answer, an unreadable one, *)
(* 429 or 5xx, and at most max(maxRetries + 1, 1) times (RetriesBounded).      *)
THEOREM RoundRetriesBounded == RoundSpec => RetriesBounded
<1> DEFINE Bounded ==
      posts' # posts =>
        /\ posts' <= Attempts
        /\ posts > 0 => status = 0 \/ Retryable(status) \/ lastErr = "read"
<1>1. RoundInv /\ [RoundNext]_all => [Bounded]_vars
  <2> SUFFICES ASSUME RoundInv, [RoundNext]_all, posts' # posts PROVE Bounded
    BY DEF vars
  <2>1. CASE Call BY <2>1, StepRetries DEF Call, RoundInv
  <2>2. Call
    BY DEF RoundNext, all, theCall, CallCancelled, Cancel, RoundEnds, StartReader, Scan, Consume,
           Expire, Finish, Done
  <2> QED BY <2>1, <2>2
<1> QED BY <1>1, RoundInvariant, PTL DEF RoundSpec, RetriesBounded

-----------------------------------------------------------------------------
(* The reader of a round.  Its steps are those of ModelStream, from the      *)
(* moment it is started, so that StreamInv carries over.                     *)

Reader == INSTANCE ModelStreamProofs WITH Driver <- "openai"

\* Before there is a reader the stream is as it will start.
Unstarted ==
  /\ n = 0 /\ pend = Stream!NoChunk /\ chan = <<>> /\ closed = FALSE
  /\ ending = "none" /\ dropped = FALSE /\ buf = <<>> /\ produced = <<>>

RoundStreamInv == IF Started THEN Reader!StreamInv ELSE Unstarted

(* The steps of the round's reader and consumer are steps of the stream. *)
LEMMA ReaderSteps ==
  Stream!Scan \/ Stream!Finish \/ Stream!Consume \/ Stream!Expire => Reader!Next
<1>1. Stream!Scan => Reader!Scan
  BY Zenon DEF Stream!Scan, Stream!ScanSkip, Stream!ScanChunk, Stream!ScanMarker, Stream!ScanEOF,
     Stream!ScanError, Stream!CanScan, Reader!Scan, Reader!ScanSkip, Reader!ScanChunk,
     Reader!ScanMarker, Reader!ScanEOF, Reader!ScanError, Reader!CanScan
<1>2. Stream!Finish => Reader!Finish
  BY Zenon DEF Stream!Finish, Stream!Send, Stream!SendCancelled, Stream!SendError, Stream!CloseChan,
     Stream!CloseBody, Stream!ErrorChunk, Reader!Finish, Reader!Send, Reader!SendCancelled,
     Reader!SendError, Reader!CloseChan, Reader!CloseBody, Reader!ErrorChunk
<1>3. Stream!Consume => Reader!Consume
  BY Zenon DEF Stream!Consume, Stream!ReceiveChunk, Stream!ReceiveError, Stream!RangeEnds,
     Reader!Consume, Reader!ReceiveChunk, Reader!ReceiveError, Reader!RangeEnds
<1>4. Stream!Expire => Reader!Expire BY Zenon DEF Stream!Expire, Reader!Expire
<1> QED BY <1>1, <1>2, <1>3, <1>4, Zenon DEF Reader!Next

(* The reader starts as the stream does. *)
LEMMA ReaderStarts == RoundInv /\ Unstarted /\ StartReader => Reader!Init'
<1> SUFFICES ASSUME RoundInv, Unstarted, StartReader PROVE Reader!Init'
  OBVIOUS
<1>1. resp \in {"open", "closed", "empty"}
  BY DEF StartReader, RoundInv, CallInv, CallTypeOK, LoopInv
<1>2. ctxDone \in BOOLEAN BY DEF RoundInv, CallInv, CallTypeOK
<1> QED BY <1>1, <1>2
        DEF StartReader, Unstarted, Reader!Init, Reader!StartBodies, Reader!NoChunk, Stream!NoChunk

(* A stream begins in its invariant. *)
LEMMA ReaderBegins == Reader!Init => Reader!StreamInv
BY Reader!InitStreamInv, BufferAssumption, LinesAssumption

(* RoundStreamInv holds throughout a planning round: once the call has handed its *)
(* response over, every chunk is accounted for (llmPlanRound).                    *)
THEOREM RoundStreamInvariant == RoundSpec => []RoundStreamInv
<1>1. RoundInit => RoundStreamInv BY DEF RoundInit, RoundStreamInv, Started, Unstarted
<1>2. Reader!Init' => Reader!StreamInv' BY ReaderBegins, PTL
<1>3. RoundInv /\ RoundStreamInv /\ [RoundNext]_all => RoundStreamInv'
  <2> SUFFICES ASSUME RoundInv, RoundStreamInv, [RoundNext]_all PROVE RoundStreamInv'
    OBVIOUS
  <2>1. CASE StartReader
    <3>1. ~Started /\ Started' BY <2>1 DEF StartReader, Started, RoundInv, ReaderInv
    <3>2. Unstarted BY <3>1 DEF RoundStreamInv
    <3>3. Reader!StreamInv' BY <1>2, <2>1, <3>2, ReaderStarts
    <3> QED BY <3>1, <3>3 DEF RoundStreamInv
  <2>2. CASE Scan \/ Consume \/ Expire \/ Finish
    <3>1. Started BY <2>2 DEF Scan, Consume, Expire, Finish
    <3>2. Reader!Next BY <2>2, ReaderSteps DEF Scan, Consume, Expire, Finish
    <3>3. Reader!StreamInv /\ Reader!StreamInv'
      BY <3>1, <3>2, Reader!StepStreamInv, BufferAssumption, LinesAssumption DEF RoundStreamInv
    <3>4. Started'
      BY <3>3 DEF Reader!StreamInv, Reader!TypeOK, Reader!ReaderStates, Started
    <3> QED BY <3>3, <3>4 DEF RoundStreamInv
  <2>3. CASE UNCHANGED <<stream, ctxDone>>
    <3>1. UNCHANGED Reader!vars BY <2>3 DEF stream, Reader!vars
    <3>2. Reader!StreamInv => Reader!StreamInv' BY <3>1, Reader!StepStreamInv, BufferAssumption, LinesAssumption
    <3>3. Started' <=> Started BY <2>3 DEF stream, Started
    <3>4. Unstarted => Unstarted' BY <2>3 DEF stream, Unstarted, Stream!NoChunk
    <3> QED BY <3>2, <3>3, <3>4 DEF RoundStreamInv
  <2>4. CASE Call \/ CallCancelled \/ RoundEnds
    <3>1. cpc = "call" /\ ~Started
      BY <2>4 DEF Call, CallCancelled, RoundEnds, Cancel, Step, KeyMissing, RequestBuilt, BuildFails,
             RequestFails, BackoffCancelled, BackoffElapsed, PostFails, PostAnswered, ReadAllFails,
             ReadAll, Decode, StreamOpens, Refuse, Retry, AfterStream, AfterGenerate, RoundInv,
             ReaderInv, Started
    <3>2. rpc' = rpc /\ (Unstarted => Unstarted')
      BY <2>4 DEF Call, CallCancelled, RoundEnds, stream, Unstarted, Stream!NoChunk
    <3> QED BY <3>1, <3>2 DEF RoundStreamInv, Started
  <2> QED BY <2>1, <2>2, <2>3, <2>4 DEF RoundNext, Done, all
<1> QED BY <1>1, <1>3, RoundInvariant, PTL DEF RoundSpec

(* In a whole planning round, whatever attempts went before and however the  *)
(* call's context ends, the planner accumulates a prefix of what the wire    *)
(* carried, an error chunk is the last, and a text that it goes on to parse  *)
(* is whole unless the error chunk of a failed stream found the channel full *)
(* (llmPlanRound, openAICompatibleStream, anthropicMessagesStream).          *)
THEOREM RoundResponseWhole ==
  RoundSpec => [](Stream!DeliveredInOrder /\ Stream!ErrorIsLast /\ (Started => Stream!ResponseWhole))
<1>1. Reader!StreamInv => Stream!DeliveredInOrder
  BY Zenon DEF Reader!StreamInv, Reader!DeliveredInOrder, Stream!DeliveredInOrder
<1>2. Reader!StreamInv => Stream!ErrorIsLast
  BY Zenon DEF Reader!StreamInv, Reader!ErrorIsLast, Stream!ErrorIsLast
<1>3. Reader!StreamInv => Stream!ResponseWhole
  BY Reader!InvWhole, BufferAssumption, LinesAssumption DEF Reader!ResponseWhole, Stream!ResponseWhole
<1>4. Unstarted => Stream!DeliveredInOrder /\ Stream!ErrorIsLast
  BY DEF Unstarted, Stream!DeliveredInOrder, Stream!ErrorIsLast
<1>5. RoundStreamInv => Stream!DeliveredInOrder /\ Stream!ErrorIsLast /\ (Started => Stream!ResponseWhole)
  BY <1>1, <1>2, <1>3, <1>4, Zenon DEF RoundStreamInv
<1> QED BY <1>5, RoundStreamInvariant, PTL
=============================================================================
