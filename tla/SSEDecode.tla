------------------------------- MODULE SSEDecode -------------------------------
(*****************************************************************************)
(* How the two stream readers turn the lines of an SSE response into chunks, *)
(* and in particular how they piece tool calls together: openAICompatible-   *)
(* Stream merges deltas by index and sends the merged state with every chunk,*)
(* anthropicMessagesStream registers a call when its content block starts and*)
(* appends partial JSON to it.                                               *)
(*                                                                           *)
(* A fragment (an ID, a piece of arguments) is where it came from: its line  *)
(* and its place on the line.  Channel, cancellation and consumer are module *)
(* ModelStream.                                                              *)
(*****************************************************************************)
EXTENDS Integers, Sequences, FiniteSets

CONSTANTS
  Drivers,     \* which of the two readers: "openai", "anthropic"
  ToolIdx,     \* for each, the call or block indices the server uses
  MaxLines,    \* for each, the bound on the lines of a response
  MaxDeltas    \* bound on the tool call deltas of an OpenAI line

ASSUME DecodeAssumption ==
  /\ Drivers \subseteq {"openai", "anthropic"}
  /\ ToolIdx \in [Drivers -> SUBSET Nat]
  /\ MaxLines \in [Drivers -> Nat]
  /\ MaxDeltas \in Nat

VARIABLES
  driver,         \* the reader at work
  wire,           \* history: the lines scanned
  accum,          \* toolCallAccum / toolAccum: index -> call so far
  toolCallCount,  \* openAI: one more than the largest index seen
  toolOrder,      \* anthropic: indices in the order their blocks started
  chunk,          \* the tool calls of the chunk sent for the last line, if one was
  kept,           \* the tool calls of the last chunk that brought any
  ended           \* the end marker was read

vars == <<driver, wire, accum, toolCallCount, toolOrder, chunk, kept, ended>>

Line == Len(wire) + 1       \* the number of the line being scanned
NoFragment == <<0, 0>>
NoChunk == [sent |-> FALSE, tools |-> <<>>]
Extend(f, i, v) == [j \in DOMAIN f \union {i} |-> IF j = i THEN v ELSE f[j]]

Init ==
  /\ driver \in Drivers
  /\ wire = <<>>
  /\ accum = [i \in {} |-> 0]
  /\ toolCallCount = 0
  /\ toolOrder = <<>>
  /\ chunk = NoChunk
  /\ kept = <<>>
  /\ ended = FALSE

Scanning == ~ended /\ Len(wire) < MaxLines[driver]

\* A chunk is sent; its consumer keeps the tool calls it brings.
Emit(tools) ==
  /\ chunk' = [sent |-> TRUE, tools |-> tools]
  /\ kept' = IF tools = <<>> THEN kept ELSE tools
  /\ UNCHANGED driver
Quiet == chunk' = NoChunk /\ UNCHANGED <<kept, driver>>

\* Blank and foreign lines, malformed JSON, message_start, ping.
Skip ==
  /\ Scanning
  /\ wire' = Append(wire, [k |-> "skip"])
  /\ Quiet
  /\ UNCHANGED <<accum, toolCallCount, toolOrder, ended>>

-----------------------------------------------------------------------------
(* OpenAI-compatible chunks.  A delta updates the call at its index: an ID   *)
(* (or a name) replaces the previous one if it is not empty, arguments are   *)
(* appended; an index not seen yet makes a new call.                         *)

Merge(acc, d, fragment) ==
  LET old == IF d.idx \in DOMAIN acc THEN acc[d.idx] ELSE [id |-> NoFragment, args |-> <<>>]
  IN  Extend(acc, d.idx, [id   |-> IF d.named THEN fragment ELSE old.id,
                          args |-> Append(old.args, fragment)])

\* Faulty: counts the calls instead of tracking the largest index.
CountCalls(c, d) == IF d.idx \notin DOMAIN accum /\ d.idx >= c THEN c + 1 ELSE c

CountWith(c, d) == IF d.idx \notin DOMAIN accum /\ d.idx >= c THEN d.idx + 1 ELSE c

\* The loop over the deltas of a line.
MergeAll(deltas) ==
  LET acc[m \in 0..Len(deltas)] ==
        IF m = 0 THEN accum ELSE Merge(acc[m - 1], deltas[m], <<Line, m>>)
  IN  acc[Len(deltas)]
CountAll(deltas) ==
  LET count[m \in 0..Len(deltas)] ==
        IF m = 0 THEN toolCallCount ELSE CountWith(count[m - 1], deltas[m])
  IN  count[Len(deltas)]

\* The loop over the indices below count, which keeps the calls present.
CallsUpTo(acc, count) ==
  LET calls[n \in 0..count] ==
        IF n = 0 THEN <<>>
        ELSE IF n - 1 \in DOMAIN acc THEN Append(calls[n - 1], acc[n - 1]) ELSE calls[n - 1]
  IN  calls[count]

Deltas == [idx: ToolIdx[driver], named: BOOLEAN]

\* A chunk with choices, and the tool call deltas of its first choice.
OpenAIChunk(deltas) ==
  /\ driver = "openai" /\ Scanning
  /\ wire' = Append(wire, [k |-> "delta", deltas |-> deltas])
  /\ accum' = MergeAll(deltas)
  /\ toolCallCount' = CountAll(deltas)
  /\ Emit(CallsUpTo(accum', toolCallCount'))
  /\ UNCHANGED <<toolOrder, ended>>

\* A chunk without choices (the usage chunk that stream_options asks for): it is
\* sent without tool calls.
OpenAIUsage ==
  /\ driver = "openai" /\ Scanning
  /\ wire' = Append(wire, [k |-> "usage"])
  /\ Emit(<<>>)
  /\ UNCHANGED <<accum, toolCallCount, toolOrder, ended>>

OpenAIDone ==
  /\ driver = "openai" /\ Scanning
  /\ wire' = Append(wire, [k |-> "end"])
  /\ ended' = TRUE
  /\ Quiet
  /\ UNCHANGED <<accum, toolCallCount, toolOrder>>

-----------------------------------------------------------------------------
(* Anthropic events.  The server's own protocol (external): a block index    *)
(* starts once, has deltas while it is open, and the message stops when no   *)
(* block is open.                                                            *)

Indices(k, w) == {w[j].idx : j \in {j \in 1..Len(w) : w[j].k = k}}
OpenBlocks == Indices("start", wire) \ Indices("stop", wire)

\* buildToolCalls
BuildToolCalls == [j \in 1..Len(toolOrder) |-> accum[toolOrder[j]]]

\* content_block_start; tool says whether the block is a well-formed tool_use.
BlockStart(i, tool) ==
  /\ driver = "anthropic" /\ Scanning
  /\ i \notin Indices("start", wire)
  /\ wire' = Append(wire, [k |-> "start", idx |-> i, tool |-> tool])
  /\ IF tool
     THEN /\ accum' = Extend(accum, i, [id |-> <<Line, 1>>, args |-> <<>>])
          /\ toolOrder' = Append(toolOrder, i)
     ELSE UNCHANGED <<accum, toolOrder>>
  /\ Quiet
  /\ UNCHANGED <<toolCallCount, ended>>

\* content_block_delta with input_json_delta: accumulated, no chunk; the partial
\* JSON of a block that was not registered is dropped.
JSONDelta(i) ==
  /\ driver = "anthropic" /\ Scanning
  /\ i \in OpenBlocks
  /\ wire' = Append(wire, [k |-> "json", idx |-> i])
  /\ accum' = IF i \in DOMAIN accum
              THEN [accum EXCEPT ![i].args = Append(@, <<Line, 1>>)] ELSE accum
  /\ Quiet
  /\ UNCHANGED <<toolCallCount, toolOrder, ended>>

\* Faulty: the end of a block sends nothing.
BlockStopQuiet(i) ==
  /\ driver = "anthropic" /\ Scanning
  /\ i \in OpenBlocks
  /\ wire' = Append(wire, [k |-> "stop", idx |-> i])
  /\ Quiet
  /\ UNCHANGED <<accum, toolCallCount, toolOrder, ended>>

\* content_block_stop: the calls so far are sent, if there are any.
BlockStop(i) ==
  /\ driver = "anthropic" /\ Scanning
  /\ i \in OpenBlocks
  /\ wire' = Append(wire, [k |-> "stop", idx |-> i])
  /\ IF toolOrder # <<>>
     THEN Emit(BuildToolCalls)
     ELSE Quiet
  /\ UNCHANGED <<accum, toolCallCount, toolOrder, ended>>

\* content_block_delta with text (or a delta type the code does not know), and
\* message_delta: a chunk with the calls so far.
TextOrMessageDelta ==
  /\ driver = "anthropic" /\ Scanning
  /\ wire' = Append(wire, [k |-> "text"])
  /\ Emit(BuildToolCalls)
  /\ UNCHANGED <<accum, toolCallCount, toolOrder, ended>>

MessageStop ==
  /\ driver = "anthropic" /\ Scanning
  /\ OpenBlocks = {}
  /\ wire' = Append(wire, [k |-> "end"])
  /\ ended' = TRUE
  /\ Quiet
  /\ UNCHANGED <<accum, toolCallCount, toolOrder>>

Stopped == ~Scanning /\ UNCHANGED vars

OpenAINext ==
  \/ \E n \in 0..MaxDeltas : \E deltas \in [1..n -> Deltas] : OpenAIChunk(deltas)
  \/ OpenAIUsage
  \/ OpenAIDone

AnthropicNext ==
  \/ \E i \in ToolIdx[driver] : JSONDelta(i) \/ BlockStop(i) \/ \E t \in BOOLEAN : BlockStart(i, t)
  \/ TextOrMessageDelta
  \/ MessageStop

Next == Skip \/ OpenAINext \/ AnthropicNext \/ Stopped

Spec == Init /\ [][Next]_vars

-----------------------------------------------------------------------------
(* Properties, against what the whole wire says.                             *)

\* Fragments in the order of their lines and their places.
NotAfter(f, g) == f[1] < g[1] \/ (f[1] = g[1] /\ f[2] <= g[2])

Rank(f, S) == Cardinality({g \in S : NotAfter(g, f)})

\* q is the fragments S, each once, in order.
Lists(q, S) == Len(q) = Cardinality(S) /\ \A f \in S : q[Rank(f, S)] = f

\* A call has all of the argument fragments and the last of the IDs given to it.
IsCall(call, fragments, ids) ==
  /\ Lists(call.args, fragments)
  /\ IF ids = {} THEN call.id = NoFragment
     ELSE call.id \in ids /\ \A f \in ids : NotAfter(f, call.id)

\* The deltas for index i on the lines w, and those that give an ID.
DeltasOf(i, w) ==
  {f \in (1..Len(w)) \X (1..MaxDeltas) :
     w[f[1]].k = "delta" /\ f[2] \in DOMAIN w[f[1]].deltas /\ w[f[1]].deltas[f[2]].idx = i}
NamesOf(i, w) == {f \in DeltasOf(i, w) : w[f[1]].deltas[f[2]].named}

OpenAIComplete(tools, w) ==
  LET seen == {i \in ToolIdx["openai"] : DeltasOf(i, w) # {}}
  IN  /\ Len(tools) = Cardinality(seen)
      /\ \A i \in seen : IsCall(tools[Cardinality({k \in seen : k <= i})], DeltasOf(i, w), NamesOf(i, w))

\* The blocks of tool calls that started, and the fragments of one.
Starts(w) == {f \in (1..Len(w)) \X {1} : w[f[1]].k = "start" /\ w[f[1]].tool}
JSONOf(i, w) == {f \in (1..Len(w)) \X {1} : w[f[1]].k = "json" /\ w[f[1]].idx = i}

AnthropicComplete(tools, w) ==
  /\ Len(tools) = Cardinality(Starts(w))
  /\ \A f \in Starts(w) : IsCall(tools[Rank(f, Starts(w))], JSONOf(w[f[1]].idx, w), {f})

\* The tool calls are those that the lines have begun, in order.
Complete(tools) ==
  IF driver = "openai" THEN OpenAIComplete(tools, wire) ELSE AnthropicComplete(tools, wire)

\* A chunk that carries tool state carries all of it: every call the lines have
\* begun, in order and once, each with its last ID and all of its argument
\* fragments in order, however the server interleaves the calls and even if a
\* higher index comes first.
ToolStateComplete ==
  chunk.sent /\ wire[Len(wire)].k # "usage" => Complete(chunk.tools)

\* When the stream ends, a consumer that kept the last tool calls it was brought
\* has all of them.  It must look for the last chunk that brings some: the comment
\* of StreamChunk, "On final chunk, ToolCalls is complete and ready to use", is not
\* true of the usage chunk, which ends an OpenAI stream and brings none.
KeptStateComplete == ended => Complete(kept)
=============================================================================
