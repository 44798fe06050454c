------------------------------- MODULE Retrieval -------------------------------
(*****************************************************************************)
(* ai/retrieval: Pipeline.  Retrieve ranges over the map of chunks document  *)
(* by document and Index writes that map, with no lock between them: a write *)
(* during the range is a data race, which Go may report by ending the        *)
(* process, and otherwise the range meets the new entry or not, or half of   *)
(* it: raced remembers that, and nothing is claimed of such a Retrieve.      *)
(*                                                                           *)
(* A text is the sequence of its words.  A word has its letters in lower     *)
(* case, its length, whether it ends with one of ". ! ?", which keeps the    *)
(* word from being the same token as the bare one, and whether a line ends   *)
(* behind it.  Calls refused for an empty argument change nothing.  Scores   *)
(* of one query have one denominator and are kept as their numerators.       *)
(*****************************************************************************)
EXTENDS Integers, Sequences, FiniteSets, Functions, SequencesExt, FiniteSetsExt

CONSTANTS
  DocIDs,
  Contents,     \* texts of documents: sequences of [lower, len, stop, newline]
  Queries,      \* texts of queries
  TopKs,        \* how many chunks are asked for
  Lengths,      \* maxLength of AssembleContext, 0 for no limit
  MaxIndexed    \* bound on the documents indexed

VARIABLES
  chunks,      \* document ID -> sequence of chunks
  pc,          \* where Retrieve is
  asked,       \* its arguments, and after how many calls of Index it began
  todo,        \* documents its range has still to meet
  allChunks,   \* what it has collected, while it runs
  result,      \* the chunks it returned, best first
  parts,       \* the parts of the context assembled from them
  ctxDone,
  raced,       \* Index wrote the map during the range
  log          \* history: the documents indexed

vars == <<chunks, pc, asked, todo, allChunks, result, parts, ctxDone, raced, log>>
retrieval == <<asked, result, parts>>

Init ==
  /\ chunks = [d \in {} |-> d]
  /\ pc = "idle"
  /\ asked = [query |-> <<>>, topK |-> 0, maxLength |-> 0, at |-> 0]
  /\ todo = {}
  /\ allChunks = {}
  /\ result = <<>>
  /\ parts = <<>>
  /\ ctxDone = FALSE
  /\ raced = FALSE
  /\ log = <<>>

-----------------------------------------------------------------------------

\* A sentence ends behind a word with a stop and at the end of a line; the rest of
\* the text is one, too.
splitSentences(text) ==
  LET ends == {i \in DOMAIN text : text[i].stop \/ text[i].newline \/ i = Len(text)}
      Start(i) == Max({0} \union {j \in ends : j < i}) + 1
      End(n) == CHOOSE i \in ends : Cardinality({j \in ends : j <= i}) = n
  IN  [n \in 1..Cardinality(ends) |-> SubSeq(text, Start(End(n)), End(n))]

splitIntoChunks(d, text) ==
  LET sentences == splitSentences(text)
  IN  [i \in DOMAIN sentences |-> [doc |-> d, n |-> i, content |-> sentences[i]]]

\* Words of one byte are no tokens.
tokenize(text) ==
  {[lower |-> text[i].lower, stop |-> text[i].stop] : i \in {j \in DOMAIN text : text[j].len > 1}}

overlapScore(query, chunk) == Cardinality(tokenize(query) \intersect tokenize(chunk.content))

Total(q) ==
  LET sum[i \in 0..Len(q)] == IF i = 0 THEN 0 ELSE sum[i - 1] + q[i]
  IN  sum[Len(q)]

\* The words and the spaces between them.
Length(text) == Max({0, Len(text) - 1}) + Total([i \in DOMAIN text |-> text[i].len])

-----------------------------------------------------------------------------

\* The index is written; if a Retrieve is ranging over it, the process may end.
Index(d, text) ==
  /\ pc # "fatal" /\ Len(log) < MaxIndexed
  /\ log' = Append(log, [doc |-> d, text |-> text])
  /\ chunks' = [x \in DOMAIN chunks \union {d} |-> IF x = d THEN splitIntoChunks(d, text) ELSE chunks[x]]
  /\ IF pc = "range"
     THEN /\ raced' = TRUE
          /\ pc' \in {"range", "fatal"}
          /\ todo' \in {todo, IF d \in DOMAIN chunks THEN todo ELSE todo \union {d}}
     ELSE UNCHANGED <<raced, pc, todo>>
  /\ UNCHANGED <<retrieval, allChunks, ctxDone>>

Retrieve(query, topK) ==
  /\ pc = "idle"
  /\ pc' = "range"
  /\ asked' = [asked EXCEPT !.query = query, !.topK = topK, !.at = Len(log)]
  /\ todo' = DOMAIN chunks
  /\ UNCHANGED <<chunks, allChunks, result, parts, ctxDone, raced, log>>

\* One document, in map order.
Visit(d) ==
  /\ pc = "range" /\ d \in todo /\ ~ctxDone
  /\ allChunks' = allChunks \union Range(chunks[d])
  /\ todo' = todo \ {d}
  /\ UNCHANGED <<chunks, pc, retrieval, ctxDone, raced, log>>

VisitCancelled ==
  /\ pc = "range" /\ todo # {} /\ ctxDone
  /\ pc' = "cancelled"
  /\ allChunks' = {} /\ todo' = {}
  /\ UNCHANGED <<chunks, retrieval, ctxDone, raced, log>>

\* Faulty: the list is cut before it is sorted.
RankingsCutFirst(cs, query, topK) ==
  UNION {{s \in SetToSeqs(best) : \A i, j \in DOMAIN s :
            i < j => overlapScore(query, s[i]) >= overlapScore(query, s[j])} :
          best \in kSubset(Min({topK, Cardinality(cs)}), cs)}

\* sort.Slice keeps no order among equal scores.
Rankings(cs, query, topK) ==
  {SubSeq(s, 1, Min({topK, Cardinality(cs)})) :
     s \in {t \in SetToSeqs(cs) : \A i, j \in DOMAIN t :
              i < j => overlapScore(query, t[i]) >= overlapScore(query, t[j])}}

RetrieveReturns ==
  /\ pc = "range" /\ todo = {}
  /\ result' \in Rankings(allChunks, asked.query, asked.topK)
  /\ allChunks' = {}
  /\ pc' = "retrieved"
  /\ UNCHANGED <<chunks, asked, todo, parts, ctxDone, raced, log>>

\* Whole chunks while they fit, then the start of the next if there is room; the
\* separators between the parts do not count.
Assembled(cs, maxLength) ==
  LET Before(i) == Total([j \in 1..i - 1 |-> Length(cs[j].content)])
      Over(i) == maxLength > 0 /\ Before(i) + Length(cs[i].content) > maxLength
      cut == {i \in DOMAIN cs : Over(i)}
      first == Min(cut)
      Whole(k) == [i \in 1..k |-> [chunk |-> cs[i], len |-> Length(cs[i].content)]]
  IN  IF cut = {} THEN Whole(Len(cs))
      ELSE IF maxLength - Before(first) > 0
           THEN Append(Whole(first - 1), [chunk |-> cs[first], len |-> maxLength - Before(first)])
           ELSE Whole(first - 1)

AssembleContext(maxLength) ==
  /\ pc = "retrieved"
  /\ pc' = "assembled"
  /\ asked' = [asked EXCEPT !.maxLength = maxLength]
  /\ parts' = Assembled(result, maxLength)
  /\ UNCHANGED <<chunks, todo, allChunks, result, ctxDone, raced, log>>

Cancel ==
  /\ pc = "range" /\ ~ctxDone
  /\ ctxDone' = TRUE
  /\ UNCHANGED <<chunks, pc, retrieval, todo, allChunks, raced, log>>

Done == pc \in {"cancelled", "assembled", "fatal"} /\ UNCHANGED vars

Next ==
  \/ \E d \in DocIDs, text \in Contents : Index(d, text)
  \/ \E query \in Queries, topK \in TopKs : Retrieve(query, topK)
  \/ \E d \in DocIDs : Visit(d)
  \/ VisitCancelled \/ RetrieveReturns \/ Cancel
  \/ \E n \in Lengths : AssembleContext(n)
  \/ Done

Spec == Init /\ [][Next]_vars

-----------------------------------------------------------------------------
(* Properties.                                                               *)

\* The documents as the first n calls of Index left them, and their chunks.
LatestAt(n) == {i \in 1..n : \A j \in i + 1..n : log[j].doc # log[i].doc}
ChunksOf(is) == UNION {Range(splitIntoChunks(log[i].doc, log[i].text)) : i \in is}

\* A Retrieve that no Index interrupts returns the topK best chunks of the
\* documents as they were last indexed, no chunk twice, better ones first.
\* The context made of what it returned is the texts in that order, cut once, at
\* the end, when maxLength is used up; only separators exceed it.
BestChunksInContext ==
  LET returned == Range(result)
      Score(c) == overlapScore(asked.query, c)
      Sum(seq) == Total([i \in DOMAIN seq |-> seq[i].len])
  IN  /\ pc = "retrieved" /\ ~raced =>
           LET index == ChunksOf(LatestAt(asked.at))
           IN  /\ \A i, j \in DOMAIN result : i < j =>
                    result[i] # result[j] /\ Score(result[i]) >= Score(result[j])
               /\ returned \subseteq index
               /\ Len(result) = Min({asked.topK, Cardinality(index)})
               /\ \A c \in index \ returned, d \in returned : Score(c) <= Score(d)
      /\ pc = "assembled" =>
           /\ \A i \in DOMAIN parts :
                /\ parts[i].chunk = result[i]
                /\ i < Len(parts) => parts[i].len = Length(result[i].content)
           /\ asked.maxLength = 0 => Len(parts) = Len(result)
           /\ asked.maxLength > 0 =>
                /\ Sum(parts) <= asked.maxLength
                /\ Sum(parts) < asked.maxLength =>
                     /\ Len(parts) = Len(result)
                     /\ \A i \in DOMAIN parts : parts[i].len = Length(result[i].content)
=============================================================================
