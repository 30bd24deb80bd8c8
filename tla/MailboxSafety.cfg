SPECIFICATION Spec
CONSTANTS
  Kinds = {"query", "raw", "command"}
  Answered = {"query", "raw", "command"}
  MaxRequests = 3
  QueueCapacity = 2
  MaxLost = 2
  Dropouts = TRUE
  OtherErrors = TRUE
INVARIANTS TypeOK BuffersExclusive
PROPERTIES UnreadKept SentInOrder
