SPECIFICATION Spec
CONSTANTS
  Kinds = {"raw"}
  Answered = {"raw"}
  MaxRequests = 2
  QueueCapacity = 2
  MaxLost = 0
  Dropouts = TRUE
  OtherErrors = FALSE
INVARIANTS UnreadIsMessage
