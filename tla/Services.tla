-------------------------------- MODULE Services --------------------------------
(*****************************************************************************)
(* The in-process services that the runtime shares between its goroutines:   *)
(* the skill registry, the audit emitter, the model router, the capability   *)
(* registry, the embedding call, the meter, the retrieval pipeline and the   *)
(* coercion of numerals.  They share no state and do not call each other, so *)
(* a behaviour is a behaviour of one of them, which part names, and the      *)
(* others stay as they began.                                                *)
(*****************************************************************************)
EXTENDS SkillRegistry

CONSTANTS
  MaxOps,                                                 \* bound on the operations of a map
  Emitters, Subscribers, MaxEvents,                       \* audit emitter
  Providers, Requirements,                                \* model router
  CapabilitySet,                                          \* capability registry
  Names, LabelSets, Amounts,                              \* meter
  MaxTexts, Statuses, Replies,                            \* embedding call
  DocIDs, Contents, Queries, TopKs, Lengths, MaxIndexed,  \* retrieval pipeline
  W, Precision, MaxExp, Chars, MaxLen                     \* coercion of numerals

\* A provider's ID is its vendor and a model name of at least one segment.
ASSUME ProvidersAssumption ==
  \A p \in Providers : p.vendor \in STRING /\ p.model \in Seq(STRING) \ {<<>>}

\* A list that a server sends; a vector that was sent is not Nil.
ASSUME RepliesAssumption ==
  /\ MaxTexts \in Nat
  /\ \A data \in Replies : data \in Seq([index: Int, vector: Nat \ {0}])

\* Texts are sequences of words; topK is positive.
ASSUME TextsAssumption ==
  /\ \A text \in Contents \union Queries :
       text \in Seq([lower: STRING, len: Nat, stop: BOOLEAN, newline: BOOLEAN])
  /\ TopKs \subseteq Nat \ {0} /\ Lengths \subseteq Nat

\* An integer has a sign bit at least.
ASSUME WidthAssumption == W \in Nat \ {0} /\ Precision \in Nat /\ MaxExp \in Nat

VARIABLES
  part,
  eSubscribers, ePc, eSubs, eEvent, eLog, eHeard, eChanges,
  providers, route, rLog,
  cStore, cLog,
  vPc, texts, body, reply, results, err,
  series, labelKeys, mLog,
  chunks, tPc, asked, todo, allChunks, result, parts, ctxDone, raced, tLog,
  string

-----------------------------------------------------------------------------

Emitter == INSTANCE AuditEmitter WITH
  subscribers <- eSubscribers, pc <- ePc, subs <- eSubs, event <- eEvent, log <- eLog,
  heard <- eHeard, changes <- eChanges
Router == INSTANCE ModelRouter WITH log <- rLog
Capability == INSTANCE CapabilityRegistry WITH store <- cStore, log <- cLog
Vectors == INSTANCE Embedding WITH pc <- vPc
Meter == INSTANCE MemoryMeter WITH log <- mLog
Pipeline == INSTANCE Retrieval WITH pc <- tPc, log <- tLog
Coercion == INSTANCE Numerals WITH s <- string

\* Labels have keys that the meter allows, or "request_id", which stands for all others.
ASSUME LabelsAssumption ==
  (\A labels \in LabelSets : DOMAIN labels \subseteq Meter!Range(Meter!Sorted)) /\ Amounts \subseteq Int

emitter == <<eSubscribers, ePc, eSubs, eEvent, eLog, eHeard, eChanges>>
router == <<providers, route, rLog>>
capability == <<cStore, cLog>>
vectors == <<vPc, texts, body, reply, results, err>>
meter == <<series, labelKeys, mLog>>
pipeline == <<chunks, tPc, asked, todo, allChunks, result, parts, ctxDone, raced, tLog>>

ServicesInit ==
  /\ part \in {"skills", "emitter", "router", "capability", "vectors", "meter", "pipeline", "coercion"}
  /\ Init /\ Emitter!Init /\ Router!Init /\ Capability!Init /\ Vectors!Init /\ Meter!Init
  /\ Pipeline!Init /\ Coercion!Init

ServicesNext ==
  /\ UNCHANGED part
  /\ IF part = "skills" THEN Next ELSE UNCHANGED vars
  /\ IF part = "emitter" THEN Emitter!Next ELSE UNCHANGED emitter
  /\ IF part = "router" THEN Router!Next ELSE UNCHANGED router
  /\ IF part = "capability" THEN Capability!Next ELSE UNCHANGED capability
  /\ IF part = "vectors" THEN Vectors!Next ELSE UNCHANGED vectors
  /\ IF part = "meter" THEN Meter!Next ELSE UNCHANGED meter
  /\ IF part = "pipeline" THEN Pipeline!Next ELSE UNCHANGED pipeline
  /\ IF part = "coercion" THEN Coercion!Next ELSE UNCHANGED string

\* The fairness is the skill registry's.
ServicesSpec ==
  /\ ServicesInit
  /\ [][ServicesNext]_<<part, vars, emitter, router, capability, vectors, meter, pipeline, string>>
  /\ Fairness

-----------------------------------------------------------------------------
(* Properties, each stated in the module of its component.                   *)

\* Emit reaches every subscriber registered throughout, once (audit emitter).
HeardBySubscribed == Emitter!HeardBySubscribed

\* Route gives only what is in service, and refuses only if nothing is (router).
RouteInService == Router!RouteInService

\* A source finds what it registered unless another used its ID (capabilities).
SourceFindsItsOwn == Capability!SourceFindsItsOwn

\* Every text gets the vector that the server sent for it (embedding).
VectorsInPlace == Vectors!VectorsInPlace

\* A snapshot says what was recorded, under the labels used (meter).
SeriesTruthful == Meter!SeriesTruthful

\* Retrieve and AssembleContext give the best chunks in order (retrieval).
BestChunksInContext == Pipeline!BestChunksInContext

\* A string argument is coerced exactly if it is a numeral, an integer that fits to
\* its value (templates).
CoercedAsWritten == Coercion!CoercedAsWritten
=============================================================================
