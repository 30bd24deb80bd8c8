SPECIFICATION FairSpec
CONSTANTS
  HomingVelocity = TRUE
  HomingCurrent = TRUE
  Firmware = "2"
  Status = {"SUCCESS", "error"}
  Inputs <- MCInputs
  QueueCapacity = 8
  MaxConfigures = 1
INVARIANTS TypeOK ReplyIsAwaited MovesWhenConfigured
PROPERTIES WritesCommandMode ImplementsAxisStartup StartupEnds
