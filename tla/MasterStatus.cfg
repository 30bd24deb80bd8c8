SPECIFICATION FairSpec
CONSTANTS
  Byte = {b1}
  Value = {0}
  Zero = 0
  Output <- MCFrames
  Input <- MCFrames
  Fault = {"tx", "rx", "other"}
  Serialised = TRUE
INVARIANTS TypeOK SingleStatusWriter StoppedIsClean RunningIsHealthy
PROPERTIES CallsReturn CallbacksReturn
