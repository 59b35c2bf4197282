\* An Update() at every tick: no instant at which the LED is due is missed.
SPECIFICATION FairSpec
CONSTANTS
  TimerSpace = 16
  Blinks = {2, 5}
  MaxGap = 1
  MaxAge = 20
PROPERTY
  TurnsOff
