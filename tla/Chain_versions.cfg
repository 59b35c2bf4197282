\* Twelve cells are asked for their firmware version.
SPECIFICATION Spec
CONSTANTS
  kMaxPacketLen = 200
  kMaxPacketFieldLen = 20
  kMaxNumValues = 20
  IdSpace = 1
  N = 12
  Commands <- VersionCommand
  Currents <- NoCurrent
  MasterTimeout = FALSE
  FaultKinds <- NoFaults
  MaxCommands = 1
  MaxFaults = 0
CHECK_DEADLOCK FALSE
INVARIANT
  ReadFromAll
