\* A sentence whose start token is damaged and whose checksum reads 0.
SPECIFICATION Spec
CONSTANTS
  kMaxPacketLen = 200
  kMaxPacketFieldLen = 20
  kMaxNumValues = 20
  IdSpace = 3
  N = 1
  Commands <- MixedCommands
  Currents <- NoCurrent
  MasterTimeout = FALSE
  FaultKinds <- AllFaults
  MaxCommands = 1
  MaxFaults = 1
CHECK_DEADLOCK FALSE
PROPERTY
  StartTokenChecked
