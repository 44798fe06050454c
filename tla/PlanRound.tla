------------------------------- MODULE PlanRound -------------------------------
(*****************************************************************************)
(* llmPlanRound around one provider: the call of module ProviderCall, and,   *)
(* if it gave a channel, the reader goroutine and the range over the channel *)
(* of module ModelStream.  The two meet in three places: the reader starts   *)
(* on the response that the retry loop left, its deferred Close is the one   *)
(* that the call owes, and planCtx ends both.                                *)
(*                                                                           *)
(* Without a ProgressFn the planner uses Generate, with one GenerateStream.  *)
(*****************************************************************************)
EXTENDS ProviderCall, Sequences

CONSTANTS Cap, MaxLines

\* The channel is buffered: make(chan types.StreamChunk, 64).
ASSUME BufferAssumption == Cap \in Nat \ {0}
ASSUME LinesAssumption == MaxLines \in Nat

VARIABLES rpc, body, n, pend, chan, closed, ending, dropped, cpc, buf, produced

\* The driver only matters for the initial states of ModelStream, and StartReader
\* takes their place.
Stream == INSTANCE ModelStream WITH Driver <- "openai"

stream == <<rpc, body, n, pend, chan, closed, ending, dropped, cpc, buf, produced>>
theCall == <<fn, maxRetries, pc, attempt, posts, status, lastErr, result>>
response == <<resp, open>>

RoundInit ==
  /\ Init
  /\ rpc = "none" /\ body = "closed" /\ n = 0 /\ pend = Stream!NoChunk
  /\ chan = <<>> /\ closed = FALSE /\ ending = "none" /\ dropped = FALSE
  /\ cpc = "call" /\ buf = <<>> /\ produced = <<>>

Call == Step /\ UNCHANGED stream
CallCancelled == Cancel /\ UNCHANGED stream

\* A call without a channel ends the round, and the deferred cancel planCtx.
RoundEnds ==
  /\ pc = "returned" /\ result # "channel" /\ cpc = "call"
  /\ cpc' = IF result = "ok" THEN "response" ELSE "failed"
  /\ ctxDone' = TRUE
  /\ UNCHANGED <<theCall, response, rpc, body, n, pend, chan, closed, ending, dropped, buf, produced>>

\* The goroutine gets the response of the last attempt, whatever it was.
StartReader ==
  /\ pc = "returned" /\ result = "channel" /\ cpc = "call"
  /\ rpc' = "scan" /\ body' = resp
  /\ cpc' = "range"
  /\ UNCHANGED <<theCall, response, ctxDone, n, pend, chan, closed, ending, dropped, buf, produced>>

Started == rpc # "none"

Scan == Started /\ Stream!Scan /\ UNCHANGED <<theCall, response>>
Consume == Started /\ Stream!Consume /\ UNCHANGED <<theCall, response>>
Expire == Started /\ Stream!Expire /\ UNCHANGED <<theCall, response>>

\* The reader's send and its deferred calls; closing a closed body is no error.
Finish ==
  /\ Started /\ Stream!Finish
  /\ IF body' # body THEN CloseBody ELSE UNCHANGED response
  /\ UNCHANGED theCall

RoundOver == cpc \in {"response", "failed", "panicked"} /\ rpc \in {"none", "gone"}

Done == RoundOver /\ UNCHANGED <<theCall, response, ctxDone, stream>>

RoundNext ==
  Call \/ CallCancelled \/ RoundEnds \/ StartReader \/ Scan \/ Consume \/ Expire \/ Finish \/ Done

all == <<theCall, response, ctxDone, stream>>

\* Every blocking call of a step is bounded, since the http.Client has a timeout
\* and the backoff a timer; the rest is the fairness of ModelStream: the scheduler,
\* the deadline, and reads that return once the context is done or the body is
\* closed or empty.
RoundSpec ==
  /\ RoundInit /\ [][RoundNext]_all
  /\ WF_all(Call) /\ WF_all(RoundEnds \/ StartReader)
  /\ WF_all(Consume) /\ WF_all(Expire) /\ WF_all(Finish)
  /\ WF_all(Scan /\ Stream!ReadReturns)

-----------------------------------------------------------------------------
(* Properties.                                                               *)

\* The round ends and leaves nothing behind: llmPlanRound has returned or
\* panicked, the reader goroutine is gone, and every response body of every
\* attempt is closed, whatever the server does and whenever the context ends.
RoundEndsClean == <>[](RoundOver /\ open = 0)

\* Nothing that a refusal carried is handed to the parser: the channel that
\* openAICompatibleStream returns after a last 429, 5xx or failed redirect gives an
\* error before anything else.  Only a refusal without content passes for a
\* response, the empty text: no read of it fails, so no error chunk is sent.
NoSuccessFromRefusal ==
  cpc = "response" =>
    \/ status = 200
    \/ fn = "openaiStream" /\ resp = "empty" /\ buf = <<>>
=============================================================================
