\* Writes over links that damage and lose sentences, and cells that lose power.
SPECIFICATION Spec
CONSTANTS
  kMaxPacketLen = 200
  kMaxPacketFieldLen = 20
  kMaxNumValues = 20
  IdSpace = 3
  N = 3
  Commands <- WriteCommands
  Currents <- NoCurrent
  MasterTimeout = TRUE
  FaultKinds <- AllFaults
  MaxCommands = 2
  MaxFaults = 2
CHECK_DEADLOCK FALSE
INVARIANTS
  TypeOK
  InOrder
  AnswersLag
  WritesFormPrefix
  EchoMeansWritten
  SingleWriteOnce
  OkMeansWritten
  ErrorMeansUntouched
  Discovery
