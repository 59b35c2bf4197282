----------------------------- MODULE SCBSDevice -----------------------------
(***************************************************************************)
(* One whole cell: SCBS::Init() and the stages of SCBS::Update() in their  *)
(* order, with the hardware that runs beside them (the link, the timer,    *)
(* the PWM, the ADC).  It composes the handlers (SCBSCell), the output     *)
(* (SCBSOutput) and the status LED (SCBSStatusLed): an Update() with a     *)
(* sentence turns the LED on, handles the sentence, waits in uart_puts()   *)
(* and only then sets the output, samples the current and looks at the LED.*)
(*                                                                         *)
(* The chain (SCBSChain) has all this as one step.                         *)
(***************************************************************************)
EXTENDS SCBSCell

CONSTANTS
  Lines,                       \* sentences that may arrive
  kPacketReceivedBlinkTimeMs,  \* 10 ms, in ticks of the timer
  kRegisterReadBlinkTimeMs,    \* 100 ms
  kRegisterWriteBlinkTimeMs,   \* 500 ms
  SelfTest,                    \* 100 ms, the blink of Init()
  MaxTransmit,                 \* the longest wait in uart_puts()
  TimerSpace,                  \* 2^32
  MaxAge                       \* bound: how long the age of a blink is counted

VARIABLES
  phase,    \* "init": in Init(); "receive": at the start of Update();
            \* "transmit": the handlers are done or in uart_puts()
  cell,     \* the state the handlers use
  inbox,    \* a sentence that is complete in the receive FIFO
  level,    \* the level of the PWM channel
  driven,   \* history: SetOutputVoltage() has been called
  sampled,  \* history: the level when the ADC was read last, or None
  up,       \* history: time since power-up, as long as ~ driven
  now, on, off, gap, age, blink, late  \* the LED (SCBSStatusLed)

led  == <<now, on, off, gap, age, blink, late>>
vars == <<phase, cell, inbox, level, driven, sampled, up, led>>

None == -1

Led == INSTANCE SCBSStatusLed WITH
  Blinks <- {kPacketReceivedBlinkTimeMs, kRegisterReadBlinkTimeMs,
             kRegisterWriteBlinkTimeMs},
  MaxGap <- MaxTransmit

ASSUME DeviceAssumption ==
  /\ Lines \subseteq {l \in Line : WellFormed(l)}
  /\ SelfTest \in Nat
  /\ SelfTest <= MaxTransmit
  /\ Led!LedAssumption

Output == INSTANCE SCBSOutput WITH
  volt <- cell.volt, running <- driven, Requests <- {}

Init ==
  /\ phase = "init"
  /\ cell \in BootCells
  /\ inbox = <<>>
  /\ level = Output!kPWMDefaultDuty
  /\ driven = FALSE
  /\ sampled = None
  /\ up = 0
  /\ Led!Init

\* Time passes in the sleep_ms() of Init(), in uart_puts(), and hardly elsewhere:
\* with nothing to handle, Update() is called at least once in a tick.
Tick ==
  /\ phase = "init" => up < SelfTest
  /\ phase = "receive" => gap = 0
  /\ Led!Tick
  /\ up' = IF driven THEN up ELSE up + 1
  /\ UNCHANGED <<phase, cell, inbox, level, driven, sampled>>

\* The UART receives from Init() on.
Arrive(line) ==
  /\ inbox = <<>>
  /\ inbox' = <<line>>
  /\ UNCHANGED <<phase, cell, level, driven, sampled, up, led>>

EndInit ==
  /\ phase = "init"
  /\ up = SelfTest
  /\ phase' = "receive"
  /\ gap' = 0
  /\ UNCHANGED <<cell, inbox, level, driven, sampled, up,
                 now, on, off, age, blink, late>>

\* Does ReadRegister() succeed for a handler of cell c?
ReadsRegister(c, line) ==
  LET p == Decode(line)
  IN  /\ IsValid(line) /\ p.valid /\ p.addr \in Readable
      /\ \/ p.type = "MRD" /\ Len(p.vals) < kMaxNumValues
         \/ p.type = "SRD" /\ p.id = c.id

\* The blink that is left on the LED when the handlers are done.
BlinkTime(c, line) ==
  IF Process(c, line).did = "write" THEN kRegisterWriteBlinkTimeMs
  ELSE IF ReadsRegister(c, line) THEN kRegisterReadBlinkTimeMs
  ELSE kPacketReceivedBlinkTimeMs

\* The blinks, the handler and, if it writes the register, SetOutputVoltage(volt).
HandleSentence(line, volt, next) ==
  /\ phase = "receive"
  /\ inbox = <<line>>
  /\ inbox' = <<>>
  /\ phase' = next
  /\ cell' = Process(cell, line).cell
  /\ IF Process(cell, line).did = "write"
       THEN level' \in Output!Levels(volt) /\ driven' = TRUE
       ELSE UNCHANGED <<level, driven>>
  /\ Led!UpdatePacket(BlinkTime(cell, line))
  /\ UNCHANGED <<sampled, up>>

UpdatePacket_Return(line) == \* mutant: returns from Update() after a sentence
  HandleSentence(line, Process(cell, line).cell.volt, "receive")

UpdatePacket_OldSetting(line) == \* mutant: SetOutputVoltage(output_voltage_)
  HandleSentence(line, cell.volt, "transmit")

\* ReceivePacket() returns a sentence: it is handled and the reply started.
UpdatePacket(line) == HandleSentence(line, Process(cell, line).cell.volt, "transmit")

UpdateRest_SampleFirst == \* mutant: samples the current before it sets the output
  /\ phase = "transmit" \/ (phase = "receive" /\ inbox = <<>>)
  /\ phase' = "receive"
  /\ level' \in Output!Levels(cell.volt)
  /\ driven' = TRUE
  /\ sampled' = level
  /\ Led!UpdateIdle
  /\ UNCHANGED <<cell, inbox, up>>

\* The rest of Update(): set the output, sample the current, look at the LED.  An
\* Update() that receives nothing is only this.
UpdateRest ==
  /\ phase = "transmit" \/ (phase = "receive" /\ inbox = <<>>)
  /\ phase' = "receive"
  /\ level' \in Output!Levels(cell.volt)
  /\ driven' = TRUE
  /\ sampled' = level'
  /\ Led!UpdateIdle
  /\ UNCHANGED <<cell, inbox, up>>

Next ==
  \/ Tick
  \/ \E l \in Lines : Arrive(l)
  \/ EndInit
  \/ \E l \in Lines : UpdatePacket(l)
  \/ UpdateRest

Spec == Init /\ [][Next]_vars

-----------------------------------------------------------------------------
(***************************************************************************)
(* Properties.                                                             *)
(***************************************************************************)

TypeOK ==
  /\ phase \in {"init", "receive", "transmit"}
  /\ cell \in Cell
  /\ inbox \in {<<>>} \cup {<<l>> : l \in Lines}
  /\ level \in 0 .. Output!kMaxPWMCount + 1
  /\ driven \in BOOLEAN
  /\ sampled \in 0 .. Output!kMaxPWMCount + 1 \cup {None}
  /\ up \in 0 .. SelfTest + MaxTransmit + 1
  /\ Led!TypeOK

\* From the first SetOutputVoltage() on the output follows the setting, at every
\* instant: also between a write and the rest of its Update().
LevelFollows == driven => level \in Output!Levels(cell.volt)

\* Whenever a handler may report the current, the last sample was taken at the
\* output that is driven now.  Before the first Update() has ended there is none,
\* and a sentence that came in during Init() is answered with 0.00 mA.
FreshCurrent == phase = "receive" /\ sampled # None => sampled = level

\* At power-up the output is driven with the full supply (a level of 0).  This is
\* over after the blink of Init() and one Update(), even if that Update() finds a
\* sentence and waits for its reply to be transmitted first.
BootWindow == ~ driven => up <= SelfTest + 1 + MaxTransmit

\* A blink is over at the first look after its end: no later than the longest
\* reply takes, whatever is received.
BlinkEnds == Led!BlinkEnds

\* No blink is cut short by the timer, only by the next sentence.
NeverShort == Led!NeverShort

=============================================================================
