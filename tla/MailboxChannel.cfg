SPECIFICATION FairSpec
CONSTANTS
  Kinds = {"query", "raw", "command"}
  Answered = {"query", "raw"}
  MaxRequests = 3
  QueueCapacity = 2
  MaxLost = 0
  Dropouts = FALSE
  OtherErrors = FALSE
INVARIANTS RawReadIsNoError
PROPERTIES ImplementsChannel EveryQueryAnswered
