------------------------------ MODULE ProviderCall ------------------------------
(*****************************************************************************)
(* The HTTP side of one model call, from Generate or GenerateStream of a     *)
(* provider on: the bounded retry loop shared in shape by openAICompatible-  *)
(* Generate, anthropicMessagesGenerate, openAICompatibleStream and anthropic-*)
(* MessagesStream.  The server answers each POST with a status or not at     *)
(* all; the caller's context may be done at any moment.                      *)
(*                                                                           *)
(* Errors are abstracted to what errors.Is tells apart; the content of       *)
(* requests and responses is data.                                           *)
(*****************************************************************************)
EXTENDS Integers

CONSTANTS
  Functions,    \* which of the four functions may be called
  MaxRetries,   \* bound on the maxRetries argument
  Statuses      \* the HTTP statuses the server answers with

AllFunctions ==
  {"openaiGenerate", "anthropicGenerate", "openaiStream", "anthropicStream"}

ASSUME FunctionsAssumption == Functions \subseteq AllFunctions /\ Functions # {}
ASSUME MaxRetriesAssumption == MaxRetries \in Nat
ASSUME StatusesAssumption == Statuses \subseteq 100..599

VARIABLES
  fn,          \* the function called
  maxRetries,  \* its argument
  pc,
  attempt,     \* the loop variable
  posts,       \* requests sent
  status,      \* the answer to the last POST, 0 if it got none or a failed redirect
  resp,        \* the response variable: "nil", or its body "open", "closed" or
               \* "empty" (http.NoBody, which holds no connection)
  open,        \* response bodies not yet closed
  lastErr,
  ctxDone,
  result       \* what the function returned

vars == <<fn, maxRetries, pc, attempt, posts, status, resp, open, lastErr, ctxDone, result>>
call == <<fn, maxRetries>>

Errors == {"transport", "read", "rate429", "unavailable", "status"}

Streams == fn \in {"openaiStream", "anthropicStream"}
Attempts == IF maxRetries + 1 < 1 THEN 1 ELSE maxRetries + 1
Rejected(s) == s \in {401, 403}
Retryable(s) == s = 429 \/ s >= 500

Init ==
  /\ fn \in Functions
  /\ maxRetries \in -1..MaxRetries
  /\ pc = "build"
  /\ attempt = 0
  /\ posts = 0
  /\ status = 0
  /\ resp = "nil"
  /\ open = 0
  /\ lastErr = "none"
  /\ ctxDone \in BOOLEAN
  /\ result = "none"

Return(r) == pc' = "returned" /\ result' = r

\* The provider has no API key.
KeyMissing ==
  /\ pc = "build"
  /\ Return("noKey")
  /\ UNCHANGED <<call, attempt, posts, status, resp, open, lastErr, ctxDone>>

\* The request body is marshalled once, before the loop...
RequestBuilt ==
  /\ pc = "build"
  /\ pc' = "post"
  /\ UNCHANGED <<call, attempt, posts, status, resp, open, lastErr, ctxDone, result>>

\* ... which may fail.
BuildFails ==
  /\ pc = "build"
  /\ Return("request")
  /\ UNCHANGED <<call, attempt, posts, status, resp, open, lastErr, ctxDone>>

\* http.NewRequestWithContext fails on the base URL: on the first attempt or never.
RequestFails ==
  /\ pc = "post" /\ posts = 0
  /\ Return("request")
  /\ UNCHANGED <<call, attempt, posts, status, resp, open, lastErr, ctxDone>>

\* Faulty: one attempt too many.
NextAttemptOffByOne(e) ==
  /\ lastErr' = e
  /\ attempt' = attempt + 1
  /\ pc' = IF attempt + 1 <= Attempts THEN "backoff" ELSE "after"
  /\ UNCHANGED result

\* continue: the loop condition decides between another round and the end.
NextAttempt(e) ==
  /\ lastErr' = e
  /\ attempt' = attempt + 1
  /\ pc' = IF attempt + 1 < Attempts THEN "backoff" ELSE "after"
  /\ UNCHANGED result

\* Closing the empty body changes nothing: it goes on reading as EOF.
CloseBody ==
  /\ resp' = IF resp = "empty" THEN "empty" ELSE "closed"
  /\ open' = IF resp = "open" THEN open - 1 ELSE open

\* select { case <-ctx.Done(): return ctx.Err() ...
BackoffCancelled ==
  /\ pc = "backoff" /\ ctxDone
  /\ Return("ctx")
  /\ UNCHANGED <<call, attempt, posts, status, resp, open, lastErr, ctxDone>>

\* ... case <-time.After(backoff): }
BackoffElapsed ==
  /\ pc = "backoff"
  /\ pc' = "post"
  /\ UNCHANGED <<call, attempt, posts, status, resp, open, lastErr, ctxDone, result>>

\* client.Do fails: no connection, the client's timeout, or the context is done.
\* After too many redirects it returns the last answer, its body closed, together
\* with the error.
PostFails ==
  /\ pc = "post"
  /\ posts' = posts + 1
  /\ status' = 0
  /\ resp' \in {"nil", "closed", "empty"}
  /\ NextAttempt("transport")
  /\ UNCHANGED <<call, open, ctxDone>>

PostAnswered(s) ==
  /\ pc = "post" /\ ~ctxDone
  /\ posts' = posts + 1
  /\ status' = s
  /\ \/ resp' = "open" /\ open' = open + 1
     \/ resp' = "empty" /\ UNCHANGED open
  /\ pc' = IF Streams THEN "dispatch" ELSE "readAll"
  /\ UNCHANGED <<call, attempt, lastErr, ctxDone, result>>

\* The non-streaming functions read the whole body and close it, whatever the
\* status.
ReadAllFails ==
  /\ pc = "readAll"
  /\ CloseBody
  /\ NextAttempt("read")
  /\ UNCHANGED <<call, posts, status, ctxDone>>

ReadAll ==
  /\ pc = "readAll"
  /\ CloseBody
  /\ pc' = "dispatch"
  /\ UNCHANGED <<call, attempt, posts, status, lastErr, ctxDone, result>>

\* 200: the body is decoded (or is not JSON, or carries an API error)...
Decode ==
  /\ pc = "dispatch" /\ ~Streams /\ status = 200
  /\ \E r \in {"ok", "unmarshal", "api"} : Return(r)
  /\ UNCHANGED <<call, attempt, posts, status, resp, open, lastErr, ctxDone>>

\* ... or the loop is left with the body not closed.
StreamOpens ==
  /\ pc = "dispatch" /\ Streams /\ status = 200
  /\ pc' = "after"
  /\ UNCHANGED <<call, attempt, posts, status, resp, open, lastErr, ctxDone, result>>

\* 401 and 403, and every other status below 500 except 429, end the call.
Refuse ==
  /\ pc = "dispatch" /\ status # 200 /\ ~Retryable(status)
  /\ IF Streams THEN CloseBody ELSE UNCHANGED <<resp, open>>
  /\ Return(IF Rejected(status) THEN "auth" ELSE "badRequest")
  /\ UNCHANGED <<call, attempt, posts, status, lastErr, ctxDone>>

\* Faulty: the body of a retryable answer is left open.
RetryLeaksBody ==
  /\ pc = "dispatch" /\ Retryable(status)
  /\ NextAttempt(IF Streams THEN "status" ELSE IF status = 429 THEN "rate429" ELSE "unavailable")
  /\ UNCHANGED <<call, posts, status, resp, open, ctxDone>>

\* 429 and 5xx go round again.
Retry ==
  /\ pc = "dispatch" /\ Retryable(status)
  /\ IF Streams THEN CloseBody ELSE UNCHANGED <<resp, open>>
  /\ NextAttempt(IF Streams THEN "status" ELSE IF status = 429 THEN "rate429" ELSE "unavailable")
  /\ UNCHANGED <<call, posts, status, ctxDone>>

\* gotOK of anthropicMessagesStream: the loop was left by its break.
GotOK == status = 200

\* Faulty: anthropicMessagesStream, too, only tests resp against nil.
AfterStreamNilTest ==
  /\ pc = "after" /\ Streams
  /\ Return(IF resp = "nil" THEN "unavailable" ELSE "channel")
  /\ UNCHANGED <<call, attempt, posts, status, resp, open, lastErr, ctxDone>>

\* The test after the loop that decides whether a reader is started.
AfterStream ==
  /\ pc = "after" /\ Streams
  /\ IF fn = "openaiStream"
     THEN Return(IF resp = "nil" THEN "unavailable" ELSE "channel")
     ELSE Return(IF GotOK THEN "channel" ELSE "unavailable")
  /\ UNCHANGED <<call, attempt, posts, status, resp, open, lastErr, ctxDone>>

\* "request failed after %d attempts: %w"
AfterGenerate ==
  /\ pc = "after" /\ ~Streams
  /\ Return(lastErr)
  /\ UNCHANGED <<call, attempt, posts, status, resp, open, lastErr, ctxDone>>

Cancel ==
  /\ ~ctxDone /\ pc # "returned"
  /\ ctxDone' = TRUE
  /\ UNCHANGED <<call, pc, attempt, posts, status, resp, open, lastErr, result>>

Returned == pc = "returned" /\ UNCHANGED vars

Step ==
  \/ KeyMissing \/ RequestBuilt \/ BuildFails \/ RequestFails
  \/ BackoffCancelled \/ BackoffElapsed
  \/ PostFails \/ \E s \in Statuses : PostAnswered(s)
  \/ ReadAllFails \/ ReadAll
  \/ Decode \/ StreamOpens \/ Refuse \/ Retry
  \/ AfterStream \/ AfterGenerate

Next == Step \/ Cancel \/ Returned

Spec == Init /\ [][Next]_vars

-----------------------------------------------------------------------------
(* Properties.                                                               *)

\* No response body outlives the call: at most one is open at a time, across all
\* retries, and on return the only one that may be is the one handed to the
\* stream's reader.
BodiesClosed ==
  /\ open \in 0..1
  /\ pc \in {"build", "post", "backoff"} => open = 0
  /\ pc = "returned" => open = IF result = "channel" /\ resp = "open" THEN 1 ELSE 0

\* The caller gets the verdict of the last request: a success is a 200, a
\* rejection whose body could be read is reported as such (an unreadable one is
\* retried), and a call that gives up on retryable failures has used all of its
\* attempts.  The one way a failed call yields a channel is openAICompatibleStream
\* after a last 429, 5xx or failed redirect, whose body is already closed or empty.
VerdictOfLastAnswer ==
  pc = "returned" =>
    /\ result \in {"ok", "unmarshal", "api"} => status = 200
    /\ result = "auth" => Rejected(status)
    /\ Rejected(status) => result = "auth" \/ lastErr = "read"
    /\ result = "badRequest" => status \notin {0, 200} /\ ~Retryable(status) /\ ~Rejected(status)
    /\ result \in Errors => posts = Attempts
    /\ result = "channel" =>
         \/ status = 200
         \/ /\ fn = "openaiStream" /\ posts = Attempts
            /\ status = 0 \/ Retryable(status)
            /\ resp \in {"closed", "empty"}

\* A request is repeated only after no answer, an unreadable one, 429 or 5xx, and
\* never beyond max(maxRetries + 1, 1) times.
RetriesBounded ==
  [][posts' # posts =>
       /\ posts' <= Attempts
       /\ posts > 0 => status = 0 \/ Retryable(status) \/ lastErr = "read"]_vars

\* "ErrProviderUnavailable indicates the LLM provider returned a server error
\* (5xx)": a stream call whose last answer is a server error returns that error,
\* unless its context ended while it waited to retry.
ServerErrorReported ==
  pc = "returned" /\ status >= 500 => result \in {"unavailable", "ctx"}
=============================================================================
