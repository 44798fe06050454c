------------------------------ MODULE ModelStream ------------------------------
(*****************************************************************************)
(* One streamed model call, from the moment the provider has a response:     *)
(*                                                                           *)
(*   - the reader goroutine of openAICompatibleStream / anthropicMessages-   *)
(*     Stream, which scans SSE lines off the response body and sends chunks  *)
(*     into a channel of capacity Cap (64 in the code);                      *)
(*   - the planner's llmPlanRound, which ranges over the channel, stops at   *)
(*     the first error chunk and cancels the context when it returns;        *)
(*   - the context, which its deadline or the caller's parent may end.       *)
(*                                                                           *)
(* A line of the wire is abstracted to what the reader does with it: it is   *)
(* skipped, it is the end marker, or it becomes a chunk.  The content of a   *)
(* chunk is the number of the line it came from, so that order and loss are  *)
(* visible; buf is the list of the fragments written to the planner's        *)
(* strings.Builder (an empty fragment writes nothing and is not told apart). *)
(* How a line becomes a chunk, tool calls included, is module SSEDecode.     *)
(*****************************************************************************)
EXTENDS Integers, Sequences

CONSTANTS
  Driver,      \* "openai" or "anthropic"
  Cap,         \* capacity of the channel
  MaxLines     \* bound on the lines the server sends before the body ends

ASSUME DriverAssumption == Driver \in {"openai", "anthropic"}
ASSUME CapAssumption == Cap \in Nat \ {0}
ASSUME MaxLinesAssumption == MaxLines \in Nat

VARIABLES
  rpc,       \* where the reader goroutine is
  body,      \* the response body; "empty" is http.NoBody
  n,         \* lines scanned so far
  pend,      \* the chunk the reader is sending
  chan,      \* the channel's buffer
  closed,    \* close(ch) has happened
  ending,    \* why the reader stopped scanning
  dropped,   \* the reader's error chunk found the buffer full
  ctxDone,   \* planCtx is done
  cpc,       \* where llmPlanRound is
  buf,       \* the planner's strings.Builder
  produced   \* history: the content of every chunk the lines gave

vars == <<rpc, body, n, pend, chan, closed, ending, dropped, ctxDone, cpc, buf, produced>>

Errs == {"none", "cancelled", "read"}
Chunk == [text: Nat, err: Errs]
NoChunk == [text |-> 0, err |-> "none"]
ErrorChunk(e) == [text |-> 0, err |-> e]

\* An answer without content has http.NoBody, which reads as EOF even after its
\* Close.  openAICompatibleStream tests resp against nil only, so it also starts
\* a reader on the body it closed after a final 429 or 5xx, or that a failed
\* redirect closed (module ProviderCall); anthropicMessagesStream starts one
\* only on a 200.
StartBodies == {"open", "empty"} \cup (IF Driver = "openai" THEN {"closed"} ELSE {})

Init ==
  /\ rpc = "scan"
  /\ body \in StartBodies
  /\ n = 0
  /\ pend = NoChunk
  /\ chan = <<>>
  /\ closed = FALSE
  /\ ending = "none"
  /\ dropped = FALSE
  /\ ctxDone \in BOOLEAN      \* GenerateStream may return after the deadline
  /\ cpc = "range"
  /\ buf = <<>>
  /\ produced = <<>>

-----------------------------------------------------------------------------
(* The reader goroutine.                                                     *)

CanScan == rpc = "scan" /\ body = "open" /\ n < MaxLines

\* Blank lines, comments, other SSE fields, malformed JSON, events without a chunk.
ScanSkip ==
  /\ CanScan
  /\ n' = n + 1
  /\ UNCHANGED <<rpc, body, pend, chan, closed, ending, dropped, ctxDone, cpc, buf, produced>>

ScanChunk ==
  /\ CanScan
  /\ n' = n + 1
  /\ pend' = [text |-> n + 1, err |-> "none"]
  /\ produced' = Append(produced, n + 1)
  /\ rpc' = "send"
  /\ UNCHANGED <<body, chan, closed, ending, dropped, ctxDone, cpc, buf>>

\* "[DONE]" or message_stop: the goroutine returns.
ScanMarker ==
  /\ CanScan
  /\ n' = n + 1
  /\ rpc' = "close"
  /\ ending' = "marker"
  /\ UNCHANGED <<body, pend, chan, closed, dropped, ctxDone, cpc, buf, produced>>

\* scanner.Scan is false and scanner.Err is nil: the body ended without a marker.
ScanEOF ==
  /\ rpc = "scan" /\ body \in {"open", "empty"}
  /\ rpc' = "close"
  /\ ending' = "eof"
  /\ UNCHANGED <<body, n, pend, chan, closed, dropped, ctxDone, cpc, buf, produced>>

\* Faulty: scanner.Err is not looked at.
ScanErrorIgnored ==
  /\ rpc = "scan"
  /\ rpc' = "close"
  /\ ending' = "eof"
  /\ UNCHANGED <<body, n, pend, chan, closed, dropped, ctxDone, cpc, buf, produced>>

\* scanner.Err: a connection failure, the client's timeout, a line over the
\* scanner's limit, a context that is done, or a body that was already closed.
\* The empty body gives none of these: its Read is EOF whatever happened.
ScanError ==
  /\ rpc = "scan" /\ body # "empty"
  /\ rpc' = "failed"
  /\ ending' = "read"
  /\ UNCHANGED <<body, n, pend, chan, closed, dropped, ctxDone, cpc, buf, produced>>

\* select { case ch <- sc: ...
Send ==
  /\ rpc = "send"
  /\ Len(chan) < Cap
  /\ chan' = Append(chan, pend)
  /\ rpc' = "scan"
  /\ UNCHANGED <<body, n, pend, closed, ending, dropped, ctxDone, cpc, buf, produced>>

\* Faulty: the goroutine goes on scanning after ctx.Done.
SendCancelledNoReturn ==
  /\ rpc = "send" /\ ctxDone
  /\ rpc' = "scan"
  /\ UNCHANGED <<body, n, pend, chan, closed, ending, dropped, ctxDone, cpc, buf, produced>>

\* Faulty: returns on ctx.Done without the error chunk.
SendCancelledSilent ==
  /\ rpc = "send" /\ ctxDone
  /\ rpc' = "close" /\ ending' = "cancelled"
  /\ UNCHANGED <<body, n, pend, chan, closed, dropped, ctxDone, cpc, buf, produced>>

\* Faulty: a plain send, without the select on ctx.Done.
SendCancelledNever == rpc = "send" /\ ctxDone /\ FALSE /\ UNCHANGED vars

\* ... case <-ctx.Done(): either case may be taken when both are ready.
SendCancelled ==
  /\ rpc = "send"
  /\ ctxDone
  /\ rpc' = "failed"
  /\ ending' = "cancelled"
  /\ UNCHANGED <<body, n, pend, chan, closed, dropped, ctxDone, cpc, buf, produced>>

\* Faulty: the error chunk is queued whether or not it fits.
SendErrorUnbounded ==
  /\ rpc = "failed"
  /\ rpc' = "close"
  /\ chan' = Append(chan, ErrorChunk(ending))
  /\ UNCHANGED <<body, n, pend, closed, ending, dropped, ctxDone, cpc, buf, produced>>

\* Faulty: no return after the error chunk.
SendErrorNoReturn ==
  /\ rpc = "failed"
  /\ rpc' = "scan"
  /\ Len(chan) < Cap
  /\ chan' = Append(chan, ErrorChunk(ending))
  /\ UNCHANGED <<body, n, pend, closed, ending, dropped, ctxDone, cpc, buf, produced>>

\* The non-blocking send of the error chunk: a full buffer loses it.
SendError ==
  /\ rpc = "failed"
  /\ rpc' = "close"
  /\ \/ /\ Len(chan) < Cap
        /\ chan' = Append(chan, ErrorChunk(ending))
        /\ UNCHANGED dropped
     \/ /\ Len(chan) = Cap
        /\ dropped' = TRUE
        /\ UNCHANGED chan
  /\ UNCHANGED <<body, n, pend, closed, ending, ctxDone, cpc, buf, produced>>

\* Faulty: no deferred close(ch).
CloseChanForgotten ==
  /\ rpc = "close"
  /\ rpc' = "closeBody"
  /\ UNCHANGED <<body, n, pend, chan, closed, ending, dropped, ctxDone, cpc, buf, produced>>

\* The deferred calls, last deferred first: close(ch), then resp.Body.Close().
CloseChan ==
  /\ rpc = "close"
  /\ closed' = TRUE
  /\ rpc' = "closeBody"
  /\ UNCHANGED <<body, n, pend, chan, ending, dropped, ctxDone, cpc, buf, produced>>

CloseBody ==
  /\ rpc = "closeBody"
  /\ body' = IF body = "empty" THEN "empty" ELSE "closed"
  /\ rpc' = "gone"
  /\ UNCHANGED <<n, pend, chan, closed, ending, dropped, ctxDone, cpc, buf, produced>>

-----------------------------------------------------------------------------
(* llmPlanRound ranging over the channel; its deferred cancel ends planCtx,  *)
(* however it is left.                                                       *)

\* The caller's ProgressFn runs once per fragment, and may panic: the panic
\* unwinds llmPlanRound, and a caller that recovers it leaves the reader behind.
ReceiveChunk ==
  /\ cpc = "range"
  /\ chan # <<>>
  /\ Head(chan).err = "none"
  /\ chan' = Tail(chan)
  /\ buf' = Append(buf, Head(chan).text)
  /\ \/ UNCHANGED <<cpc, ctxDone>>
     \/ cpc' = "panicked" /\ ctxDone' = TRUE
  /\ UNCHANGED <<rpc, body, n, pend, closed, ending, dropped, produced>>

ReceiveError ==
  /\ cpc = "range"
  /\ chan # <<>>
  /\ Head(chan).err # "none"
  /\ chan' = Tail(chan)
  /\ cpc' = "failed"
  /\ ctxDone' = TRUE
  /\ UNCHANGED <<rpc, body, n, pend, closed, ending, dropped, buf, produced>>

\* The channel is closed and drained: buf is taken as the whole response.
RangeEnds ==
  /\ cpc = "range"
  /\ closed
  /\ chan = <<>>
  /\ cpc' = "response"
  /\ ctxDone' = TRUE
  /\ UNCHANGED <<rpc, body, n, pend, chan, closed, ending, dropped, buf, produced>>

\* The deadline of MaxExecutionTime passes, or the caller's context is cancelled.
Expire ==
  /\ ~ctxDone
  /\ ctxDone' = TRUE
  /\ UNCHANGED <<rpc, body, n, pend, chan, closed, ending, dropped, cpc, buf, produced>>

Done == rpc = "gone" /\ cpc # "range" /\ UNCHANGED vars

Scan == ScanSkip \/ ScanChunk \/ ScanMarker \/ ScanEOF \/ ScanError
Finish == Send \/ SendCancelled \/ SendError \/ CloseChan \/ CloseBody
Consume == ReceiveChunk \/ ReceiveError \/ RangeEnds

Next == Scan \/ Finish \/ Consume \/ Expire \/ Done

Spec == Init /\ [][Next]_vars

\* The Go scheduler runs both goroutines, the deadline passes, and a read does not
\* block on a body whose context is done, or that is closed or empty.  The server
\* owes nothing: no fairness on the other Scan steps.
ReadReturns ==
  \/ (ctxDone \/ body = "closed") /\ ScanError
  \/ body = "empty" /\ ScanEOF

Fairness ==
  /\ WF_vars(Finish)
  /\ WF_vars(Consume)
  /\ WF_vars(Expire)
  /\ WF_vars(ReadReturns)

FairSpec == Spec /\ Fairness

-----------------------------------------------------------------------------
(* Properties.                                                               *)

ReaderStates == {"scan", "send", "failed", "close", "closeBody", "gone"}
Endings == {"none", "marker", "eof", "read", "cancelled"}

\* Every variable has its type and the channel never holds more than Cap chunks.
TypeOK ==
  /\ rpc \in ReaderStates
  /\ body \in {"open", "closed", "empty"}
  /\ n \in Nat
  /\ pend \in Chunk
  /\ chan \in Seq(Chunk)
  /\ Len(chan) <= Cap
  /\ closed \in BOOLEAN
  /\ ending \in Endings
  /\ dropped \in BOOLEAN
  /\ ctxDone \in BOOLEAN
  /\ cpc \in {"range", "failed", "panicked", "response"}
  /\ buf \in Seq(Nat)
  /\ produced \in Seq(Nat)

\* What llmPlanRound has written to its buffer is, at every moment, the start of
\* what the wire's chunks carried: nothing is reordered, repeated or skipped in
\* the middle, whatever the interleaving of reader, planner and cancellation.
DeliveredInOrder ==
  /\ Len(buf) <= Len(produced)
  /\ \A i \in 1..Len(buf) : buf[i] = produced[i]

\* "Error is non-nil on stream error. This is the final chunk before channel
\* close" (StreamChunk): an error chunk is the last in the buffer, and the
\* reader will send nothing after it.
ErrorIsLast ==
  \A i \in 1..Len(chan) :
    chan[i].err # "none" => i = Len(chan) /\ rpc \in {"close", "closeBody", "gone"}

\* When llmPlanRound takes a closed, drained channel for a whole response, it
\* holds every fragment and the stream ended by itself; the only exception is an
\* error chunk lost to a full buffer, and then at least Cap fragments arrived
\* and at most the one being sent is missing.
ResponseWhole ==
  cpc = "response" =>
    \/ ~dropped /\ ending \in {"marker", "eof"} /\ buf = produced
    \/ dropped /\ Len(buf) >= Cap /\ Len(buf) >= Len(produced) - 1

-----------------------------------------------------------------------------
(* The inductive strengthening of the three invariants above: it accounts    *)
(* for every chunk, in the buffer, in the channel, in the reader's hand, or  *)
(* lost to cancellation.                                                     *)

Past == rpc \in {"close", "closeBody", "gone"}   \* the reader sends no more
HasError == chan # <<>> /\ chan[Len(chan)].err # "none"
InChannel == IF HasError THEN Len(chan) - 1 ELSE Len(chan)

ControlInv ==
  /\ rpc \in {"scan", "send"} => ending = "none"
  /\ rpc = "failed" => ending \in {"read", "cancelled"}
  /\ Past => ending # "none"
  /\ closed <=> rpc \in {"closeBody", "gone"}
  /\ pend.err = "none"

ErrorInv ==
  /\ dropped => Past /\ ending \in {"read", "cancelled"} /\ ~HasError
  /\ HasError => ending \in {"read", "cancelled"}
  /\ Past /\ ending \in {"read", "cancelled"} /\ ~dropped /\ cpc # "failed" => HasError
  /\ cpc = "failed" => Past /\ chan = <<>>
  /\ cpc = "response" => closed /\ chan = <<>>

CountInv ==
  /\ Len(produced) = Len(buf) + InChannel
                       + (IF rpc = "send" \/ ending = "cancelled" THEN 1 ELSE 0)
  /\ dropped => Len(buf) + Len(chan) >= Cap

ContentInv ==
  /\ rpc = "send" => pend.text = produced[Len(produced)]
  /\ \A i \in 1..Len(chan) : chan[i].err = "none" => chan[i].text = produced[Len(buf) + i]

StreamInv ==
  /\ TypeOK
  /\ ControlInv
  /\ ErrorIsLast
  /\ ErrorInv
  /\ CountInv
  /\ ContentInv
  /\ DeliveredInOrder

\* The reader goroutine ends and has closed the channel and the body, also when
\* nobody ranges over the channel any more because a callback panicked: a done
\* context frees a reader blocked on a full channel.
ReaderExits == <>(rpc = "gone" /\ closed /\ body # "open")

\* "Context cancellation closes the channel with an error chunk"
\* (StreamingModelProvider.GenerateStream): a stream that stopped because its
\* context was done is not taken for a whole response.
CancelGivesErrorChunk == ~(cpc = "response" /\ ending = "cancelled")

\* The channel contract of module ChunkChannel, which the reader and the planner
\* implement: data, then at most one error, then close, and never a send later.
Queue == [i \in 1..Len(chan) |-> IF chan[i].err = "none" THEN "data" ELSE "error"]
Phase == CASE closed -> "closed"
           [] ~closed /\ rpc \in {"scan", "send", "failed"} -> "streaming"
           [] OTHER -> "ending"
Channel == INSTANCE ChunkChannel WITH queue <- Queue, phase <- Phase
ChannelContract == Channel!ChSpec
=============================================================================
