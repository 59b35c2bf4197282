--------------------------- MODULE SCBSStatusLed ----------------------------
(***************************************************************************)
(* The status LED of a cell: TurnOnStatusLED() and the end of Update() of  *)
(* scbs.cc, against the 32 bit microsecond timer.                          *)
(*                                                                         *)
(* The time the LED goes off is computed in double precision,              *)
(*                                                                         *)
(*   status_led_off_timestamp_ = time_us_32() + 1e3*on_time_ms             *)
(*                                                                         *)
(* and converted to uint32_t, where the conversion of a number that does   *)
(* not fit is undefined; the pico_double library the firmware is linked    *)
(* with clamps it to the largest uint32_t (d2fix_a, after the SDK's        *)
(* double_v1_rom_shim.S).                                                  *)
(***************************************************************************)
EXTENDS Integers

CONSTANTS
  TimerSpace,  \* 2^32
  Blinks,      \* the blink times, in ticks of the timer
  MaxGap,      \* the longest time between two Update() calls, in ticks
  MaxAge       \* bound: how long the age of a blink is counted, beyond its end

\* What is assumed of the constants (SCBSDevice assumes it).
LedAssumption ==
  /\ TimerSpace \in Nat \ {0}
  /\ Blinks \subseteq Nat \ {0}
  /\ MaxGap \in Nat \ {0}
  /\ MaxAge \in Nat
  /\ \A b \in Blinks : b < MaxAge

VARIABLES
  now,    \* time_us_32()
  on,     \* status_led_on_, and the level of the LED pin
  off,    \* status_led_off_timestamp_
  gap,    \* time since the last Update()
  age,    \* history: time since the LED was last turned on
  blink,  \* history: for how long it was turned on then
  late    \* history: its end was beyond, or just before, the end of the timer

vars == <<now, on, off, gap, age, blink, late>>

Init ==
  /\ now = 0
  /\ on = FALSE
  /\ off = 0
  /\ gap = 0
  /\ age = 0
  /\ blink = 0
  /\ late = FALSE

\* The timer runs, and wraps.
Tick ==
  /\ gap < MaxGap
  /\ gap' = gap + 1
  /\ now' = (now + 1) % TimerSpace
  /\ age' = IF age < MaxAge THEN age + 1 ELSE age
  /\ UNCHANGED <<on, off, blink, late>>

ToUint32_NoClamp(x) == x \* mutant: a wider timestamp

ToUint32_Wrap(x) == x % TimerSpace \* mutant: arithmetic in uint32_t

\* The conversion of a double to uint32_t.
ToUint32(x) == IF x < TimerSpace THEN x ELSE TimerSpace - 1

UpdateIdle_Exact == \* mutant: = for >
  /\ gap' = 0
  /\ on' = (on /\ now # off)
  /\ UNCHANGED <<now, off, age, blink, late>>

\* An Update() that received no packet: is it time to turn the LED off?
UpdateIdle ==
  /\ gap' = 0
  /\ on' = (on /\ ~ (now > off))
  /\ UNCHANGED <<now, off, age, blink, late>>

\* An Update() that did.  Every packet blinks, a register access blinks after
\* that and sets the time again: b is the last.  Then the LED is checked.
UpdatePacket(b) ==
  /\ gap' = 0
  /\ off' = ToUint32(now + b)
  /\ on' = ~ (now > off')
  /\ age' = 0
  /\ blink' = b
  /\ late' = (now + b + MaxGap >= TimerSpace)
  /\ UNCHANGED now

Next ==
  \/ Tick
  \/ UpdateIdle
  \/ \E b \in Blinks : UpdatePacket(b)

Spec == Init /\ [][Next]_vars

\* The timer is hardware, and main() calls Update() in an endless loop.
FairSpec == Spec /\ WF_vars(Tick) /\ WF_vars(UpdateIdle)

-----------------------------------------------------------------------------
(***************************************************************************)
(* Properties.                                                             *)
(***************************************************************************)

TypeOK ==
  /\ now \in 0 .. TimerSpace - 1
  /\ on \in BOOLEAN
  /\ off \in 0 .. TimerSpace - 1
  /\ gap \in 0 .. MaxGap
  /\ age \in 0 .. MaxAge
  /\ blink \in Blinks \cup {0}
  /\ late \in BOOLEAN

\* No blink is cut short by the timer, not even when it wraps: what the LED
\* turns off for is the end of the blink of the last packet.
NeverShort == [][on /\ ~ on' => age > blink]_vars

\* A blink that ends well before the timer wraps is over at the first Update()
\* after its end.
BlinkEnds == on => age <= blink + MaxGap \/ late

\* Once no more packets come the LED is turned off for good.
Quiet    == <>[][\A b \in Blinks : ~ UpdatePacket(b)]_vars
TurnsOff == Quiet => <>[](~ on)

=============================================================================
