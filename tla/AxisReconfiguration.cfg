SPECIFICATION Spec
CONSTANTS
  HomingVelocity = TRUE
  HomingCurrent = TRUE
  Firmware = "2"
  Status = {"SUCCESS"}
  Inputs <- FewInputs
  QueueCapacity = 8
  MaxConfigures = 2
INVARIANTS ConfiguredForOperation
