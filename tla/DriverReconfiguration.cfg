SPECIFICATION Spec
CONSTANTS
  drive = drive
  gripper = gripper
  Name = {drive, gripper}
  Nobody = Nobody
  Transmitted = {drive}
  MaxSlaves = 3
  MaxScans = 2
  Hardware <- MCHardware
  Buses <- MCBuses
  Layouts <- OneLayoutEach
INVARIANTS AssignsPDOs
