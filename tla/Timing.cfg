\* Both programs on rings of up to 21 cells, with the real limits and timeouts.
SPECIFICATION Spec
CONSTANTS
  kMaxPacketLen = 200
  kMaxPacketFieldLen = 20
  kMaxNumValues = 20
  IdSpace = 65536
  Sizes <- MCSizes
  UtilsRequests <- MCRequests
  Readings <- MCReadings
  kMaxUARTBufLen = 200
  FifoDepth = 32
  MaxRepeats = 4
CHECK_DEADLOCK FALSE
INVARIANTS
  TypeOK
  InTime
  NotDeaf
  NoOverrun
  ReadsComplete
PROPERTY
  WholeLines
