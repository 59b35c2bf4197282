\* A setting that strtof reads as not-a-number.
SPECIFICATION Spec
CONSTANTS
  kMaxPacketLen = 200
  kMaxPacketFieldLen = 20
  kMaxNumValues = 20
  IdSpace = 1
  Requests <- EveryRequest
INVARIANT
  OnRails
