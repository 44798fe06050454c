SPECIFICATION ServicesSpec
CONSTANTS
  Callers = {c1, c2}
  SkillIDs = {x, y}
  MaxSubs = 2
  MaxChanges = 3
  MaxEvents = 2
  MaxOps = 3
  MaxTexts = 2
  MaxIndexed = 3
  W = 8
  Precision = 5
  MaxExp = 4
  MaxLen = 5
  Emitters <- MCEmitters
  Subscribers <- MCSubscribers
  Providers <- MCProviders
  Requirements <- MCRequirements
  CapabilitySet <- MCCapabilities
  Statuses <- MCStatuses
  Replies <- MCReplies
  Names <- MCNames
  LabelSets <- MCLabelSets
  Amounts <- MCAmounts
  DocIDs <- MCDocIDs
  Contents <- MCContents
  Queries <- MCQueries
  TopKs <- MCTopKs
  Lengths <- MCLengths
  Chars <- MCChars
INVARIANTS AnnouncedOnce ChangesAlternate MirrorUnlessOverlap
INVARIANTS HeardBySubscribed RouteInService SourceFindsItsOwn VectorsInPlace
INVARIANTS SeriesTruthful BestChunksInContext CoercedAsWritten
PROPERTIES CallsReturn
