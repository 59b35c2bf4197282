\* All settings, one after any other.
SPECIFICATION Spec
CONSTANTS
  kMaxPacketLen = 200
  kMaxPacketFieldLen = 20
  kMaxNumValues = 20
  IdSpace = 1
  Requests <- EveryRequest
INVARIANTS
  TypeOK
  NotFullScale
PROPERTIES
  Monotone
  Resolved
