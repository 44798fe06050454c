SPECIFICATION FairSpec
CONSTANTS
  Driver = "openai"
  Cap = 2
  MaxLines = 6
INVARIANTS TypeOK DeliveredInOrder ErrorIsLast ResponseWhole
PROPERTIES ReaderExits ChannelContract
