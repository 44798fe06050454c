------------------------------- MODULE Embedding -------------------------------
(*****************************************************************************)
(* ai/providers: Embed of OpenAICompatibleProvider and openAICompatibleEmbed,*)
(* one POST without a retry.  The server answers with a list of vectors, each*)
(* with the index of the text it belongs to, in any order.                   *)
(*                                                                           *)
(* A vector is the number of the text that the server computed it from; Nil  *)
(* is a slot of the result that nothing was stored in.  Errors are           *)
(* abstracted to the step that failed; a context that ends shows as a        *)
(* failing request or read.                                                  *)
(*****************************************************************************)
EXTENDS Integers, Sequences, Functions

CONSTANTS
  MaxTexts,   \* bound on the texts of a call
  Statuses,   \* the HTTP statuses the server answers with
  Replies     \* the lists a server may send: sequences of [index, vector]

VARIABLES
  pc,
  texts,      \* how many texts are to be embedded
  body,       \* the response body: "none", "open" or "closed"
  reply,      \* the list of the answer that was decoded
  results,    \* the vectors returned, on success
  err

vars == <<pc, texts, body, reply, results, err>>

Nil == 0

Init ==
  /\ pc = "idle"
  /\ texts = 0
  /\ body = "none"
  /\ reply = <<>>
  /\ results = <<>>
  /\ err = "none"

Fail(e) == pc' = "returned" /\ err' = e /\ UNCHANGED <<reply, results>>

\* The provider's two tests, then the function's own.
Embed(embedModel, apiKey, n) ==
  /\ pc = "idle"
  /\ texts' = n
  /\ CASE ~embedModel -> Fail("capabilityNotSupported")
       [] embedModel /\ ~apiKey -> Fail("noKey")
       [] embedModel /\ apiKey /\ n = 0 -> Fail("noTexts")
       [] OTHER -> pc' = "post" /\ UNCHANGED <<reply, results, err>>
  /\ UNCHANGED body

PostFails ==
  /\ pc = "post"
  /\ \E e \in {"request", "transport"} : Fail(e)
  /\ UNCHANGED <<texts, body>>

PostAnswered(s) ==
  /\ pc = "post"
  /\ body' = "open"
  /\ pc' = IF s = 200 THEN "read" ELSE "readRefusal"
  /\ UNCHANGED <<texts, reply, results, err>>

\* The deferred Close runs on every return from here on.
ReadFails ==
  /\ pc \in {"read", "readRefusal"}
  /\ body' = "closed"
  /\ Fail("read")
  /\ UNCHANGED texts

Refused ==
  /\ pc = "readRefusal"
  /\ body' = "closed"
  /\ Fail("status")
  /\ UNCHANGED texts

NotAList ==
  /\ pc = "read"
  /\ body' = "closed"
  /\ \E e \in {"unmarshal", "api"} : Fail(e)
  /\ UNCHANGED texts

\* Faulty: the vectors in the order of arrival.
PlacedAsReceived(data) == [i \in DOMAIN data |-> data[i].vector]

\* As many slots as the answer has entries; an index outside of them is skipped.
Placed(data) ==
  LET slots[m \in 0..Len(data)] ==
        IF m = 0 THEN [i \in DOMAIN data |-> Nil]
        ELSE IF data[m].index \in 0..Len(data) - 1
             THEN [slots[m - 1] EXCEPT ![data[m].index + 1] = data[m].vector]
             ELSE slots[m - 1]
  IN  slots[Len(data)]

Decoded(data) ==
  /\ pc = "read"
  /\ body' = "closed"
  /\ pc' = "returned"
  /\ reply' = data
  /\ results' = Placed(data)
  /\ UNCHANGED <<texts, err>>

Done == pc = "returned" /\ UNCHANGED vars

Next ==
  \/ \E m, k \in BOOLEAN, n \in 0..MaxTexts : Embed(m, k, n)
  \/ PostFails \/ \E s \in Statuses : PostAnswered(s)
  \/ ReadFails \/ Refused \/ NotAList
  \/ \E data \in Replies : Decoded(data)
  \/ Done

Spec == Init /\ [][Next]_vars

-----------------------------------------------------------------------------
(* Properties.                                                               *)

At(i) == {j \in DOMAIN reply : reply[j].index = i - 1}
Complete == Len(reply) = texts /\ {reply[j].index : j \in DOMAIN reply} = 0..texts - 1
Truthful == \A j \in DOMAIN reply : reply[j].vector = reply[j].index + 1

\* "Sort by index to ensure order matches input": a successful call gives text i
\* the vector that the server sent for it, or none.  With a server that answers
\* every text once, in whatever order, that is all of them; otherwise a slot is
\* empty, or the vectors are not as many as the texts, and the call still
\* succeeds.  No response body outlives the call.
VectorsInPlace ==
  pc = "returned" =>
    /\ body # "open"
    /\ err = "none" =>
         /\ Len(results) = Len(reply)
         /\ \A i \in DOMAIN results :
              IF At(i) = {} THEN results[i] = Nil
              ELSE results[i] = reply[CHOOSE j \in At(i) : \A k \in At(i) : k <= j].vector
         /\ Truthful => \A i \in DOMAIN results : results[i] \in {i, Nil}
         /\ Complete => Nil \notin Range(results)
         /\ ~Complete => Nil \in Range(results) \/ Len(results) # texts
=============================================================================
