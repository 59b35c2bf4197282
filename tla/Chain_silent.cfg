\* One sentence is damaged; the master waits as long as it takes.
SPECIFICATION FairSpec
CONSTANTS
  kMaxPacketLen = 200
  kMaxPacketFieldLen = 20
  kMaxNumValues = 20
  IdSpace = 3
  N = 2
  Commands <- MixedCommands
  Currents <- NoCurrent
  MasterTimeout = FALSE
  FaultKinds <- Garbling
  MaxCommands = 1
  MaxFaults = 1
CHECK_DEADLOCK FALSE
PROPERTY
  AllAnswered
