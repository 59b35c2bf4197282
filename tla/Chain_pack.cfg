\* A healthy chain, pipelined by a master that gives up early: is it a pack?
\* A packet has room for the versions of three cells, and none to spare.
SPECIFICATION FairSpec
CONSTANTS
  kMaxPacketLen = 67
  kMaxPacketFieldLen = 20
  kMaxNumValues = 3
  IdSpace = 3
  N = 3
  Commands <- MixedCommands
  Currents <- NoCurrent
  MasterTimeout = TRUE
  FaultKinds <- NoFaults
  MaxCommands = 2
  MaxFaults = 0
CHECK_DEADLOCK FALSE
INVARIANTS
  NothingLost
  ReadFromAll
PROPERTIES
  ImplementsPack
  AllAnswered
