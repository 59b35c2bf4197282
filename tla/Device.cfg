\* A cell from power-up on: a timer that wraps, replies of up to 3 ticks.
SPECIFICATION Spec
CONSTANTS
  kMaxPacketLen = 200
  kMaxPacketFieldLen = 20
  kMaxNumValues = 20
  IdSpace = 1
  Lines <- MCLines
  kPacketReceivedBlinkTimeMs = 1
  kRegisterReadBlinkTimeMs = 2
  kRegisterWriteBlinkTimeMs = 6
  SelfTest = 2
  MaxTransmit = 3
  TimerSpace = 16
  MaxAge = 12
INVARIANTS
  TypeOK
  LevelFollows
  FreshCurrent
  BootWindow
  BlinkEnds
PROPERTY
  NeverShort
