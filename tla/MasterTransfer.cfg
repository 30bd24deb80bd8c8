SPECIFICATION Spec
CONSTANTS
  Byte = {b1, b2}
  Value = {0, 1}
  Zero = 0
  Output <- MCFrames
  Input <- MCFrames
  Fault = {"tx"}
  Serialised = TRUE
INVARIANTS TransferExclusive NoOrphanWait
PROPERTIES WholeFrameReleased ImplementsProcessImage
