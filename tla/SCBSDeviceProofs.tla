-------------------------- MODULE SCBSDeviceProofs --------------------------
(***************************************************************************)
(* Theorems about one whole cell, for every set of sentences, every blink  *)
(* time and every length of a transmission: the output follows the         *)
(* setting, the current is sampled at the output that is driven, the       *)
(* output stage is at full supply for a bounded time at power-up, and a    *)
(* blink is neither too short nor too long, though the timer wraps.        *)
(***************************************************************************)
EXTENDS SCBSDevice, SCBSCellProofs

-----------------------------------------------------------------------------
(***************************************************************************)
(* The output and the handlers.                                            *)
(***************************************************************************)

\* What SetOutputVoltage() gives the PWM for not-a-number, in 16 bits.
LEMMA NaNLevel == (1000 - 65535) % 65536 = 1001
<1> DEFINE S == 65536
           x == 1000 - 65535
<1>1. /\ S \in Nat \ {0} /\ -1 \in Int /\ 1001 \in Nat /\ 1001 < S
      /\ x = (-1) * S + 1001
  BY SMT
<1>2. x % S = 1001
  <2>. HIDE DEF S, x
  <2>. QED
    BY <1>1, Division, SMT
<1>. QED
  BY <1>2, SMT

\* The rails keep the duty in the counts of the PWM, whatever the calibration is.
LEMMA DutyType ==
  ASSUME NEW p \in Int, 0 <= p, p <= 50000000
  PROVE  Output!Duty(p) \in 0 .. 1000
<1> DEFINE S == 50000000 \div 1000
           d == p \div S
           r == p % S
<1>1. S = 50000
  <2>1. 50000000 = 50000 * 1000 + 0 /\ 1000 \in Nat \ {0} /\ 50000 \in Int
        /\ 0 \in Nat /\ 0 < 1000
    BY SMT
  <2>. QED
    BY <2>1, Division, SMT
<1>. HIDE DEF S
<1>2. d \in Int /\ p = d * S + r /\ r \in Int /\ 0 <= r /\ r < S
  BY <1>1, Divided, SMT
<1>. HIDE DEF d, r
<1>3. d \in 0 .. 1000
  BY <1>1, <1>2, SMT
<1>4. Output!Duty(p) = 1000 - d
  BY SMT DEF Output!Duty, Output!kMaxPWMCount, Output!kPowerSupplyVoltage5V, d, S
<1>. QED
  BY <1>3, <1>4, SMT

\* The levels of a setting are counts of the PWM, or one more for not-a-number.
LEMMA LevelsType ==
  ASSUME NEW v \in Setting
  PROVE  Output!Levels(v) \subseteq 0 .. Output!kMaxPWMCount + 1
<1>1. CASE v = NotANumber
  <2>1. Output!Levels(v) = {1000, (1000 - 65535) % 65536}
    BY <1>1, SMT
    DEF Output!Levels, Output!kMaxPWMCount, Output!NotANumber, NotANumber
  <2>. QED
    BY <2>1, NaNLevel, SMT DEF Output!kMaxPWMCount
<1>2. CASE v # NotANumber
  <2> DEFINE p == Output!PwmVoltage(v)
             q == v * 100000 - Output!EstimatedOffset(v)
  <2>1. v \in Int
    BY SMT DEF Setting, Voltage, NotANumber, kMaxOutputVoltage, kMinOutputVoltage
  <2>2. Output!EstimatedOffset(v) \in Int
    <3> DEFINE a == (Output!kOutputVoltageCalCoeffX3 * v) \div 100
                    + Output!kOutputVoltageCalCoeffX2
               b == (a * v) \div 100 + Output!kOutputVoltageCalCoeffX
    <3>1. a \in Int
      BY <2>1, SMT DEF Output!kOutputVoltageCalCoeffX3, Output!kOutputVoltageCalCoeffX2
    <3>2. b \in Int
      <4>. HIDE DEF a
      <4>. QED
        BY <2>1, <3>1, SMT DEF Output!kOutputVoltageCalCoeffX
    <3>3. (b * v) \div 100 + Output!kOutputVoltageCalCoeffConst \in Int
      <4>. HIDE DEF b
      <4>. QED
        BY <2>1, <3>2, SMT DEF Output!kOutputVoltageCalCoeffConst
    <3>. QED
      BY <3>3, SMT DEF Output!EstimatedOffset
  <2>3. q \in Int
    BY <2>1, <2>2, SMT
  <2>4. p = IF q > 50000000 THEN 50000000 ELSE IF q < 0 THEN 0 ELSE q
    BY SMT DEF Output!PwmVoltage, Output!kPowerSupplyVoltage5V
  <2>. HIDE DEF p, q
  <2>5. p \in Int /\ 0 <= p /\ p <= 50000000
    BY <2>3, <2>4, SMT
  <2>6. Output!Duty(p) \in 0 .. 1000
    BY <2>5, DutyType, SMTT(30)
  <2>7. Output!Levels(v) = {Output!Duty(p)}
    BY <1>2, SMT DEF p, Output!Levels, Output!NotANumber, NotANumber
  <2>. QED
    BY <2>6, <2>7, SMT DEF Output!kMaxPWMCount
<1>. QED
  BY <1>1, <1>2

\* Only a write of the register changes the setting.
LEMMA SettingKept ==
  ASSUME NEW c \in Cell, NEW line \in GoodLine, Process(c, line).did # "write"
  PROVE  Process(c, line).cell.volt = c.volt
<1>1. \A addr, text : /\ WriteRegister(c, addr, text).did # "write" =>
                           WriteRegister(c, addr, text).cell = c
  BY DEF WriteRegister
<1>2. \A id : [c EXCEPT !.id = id].volt = c.volt
  BY DEF Cell
<1>3. CASE ~ IsValid(line)
  BY <1>3 DEF Process
<1>4. CASE IsValid(line)
  <2> DEFINE p == Decode(line)
  <2>1. p.type \in PacketTypes /\ p.valid \in BOOLEAN
    BY <1>4, DecodeType DEF Packet
  <2>2. /\ Process(c, line).cell = Handle(c, p).cell
        /\ Handle(c, p).did # "write"
    BY <1>4 DEF Process
  <2>. HIDE DEF p
  <2>3. Handle(c, p).cell.volt = c.volt
    BY <1>1, <1>2, <2>1, <2>2
    DEF Handle, Result, DISPacketHandler, MWRPacketHandler, MRDPacketHandler,
        SWRPacketHandler, SRDPacketHandler, SRSPacketHandler, PacketTypes
  <2>. QED
    BY <2>2, <2>3
<1>. QED
  BY <1>3, <1>4

-----------------------------------------------------------------------------
(***************************************************************************)
(* Types.                                                                  *)
(***************************************************************************)

\* The constants, as the steps use them.
LEMMA DeviceConstants ==
  /\ SelfTest \in Nat /\ MaxTransmit \in Nat \ {0} /\ SelfTest <= MaxTransmit
  /\ TimerSpace \in Nat \ {0} /\ MaxAge \in Nat
  /\ \A c, l : /\ BlinkTime(c, l) \in Nat \ {0} /\ BlinkTime(c, l) < MaxAge
               /\ BlinkTime(c, l) \in {kPacketReceivedBlinkTimeMs, kRegisterReadBlinkTimeMs,
                                       kRegisterWriteBlinkTimeMs}
<1>1. Led!LedAssumption /\ SelfTest \in Nat /\ SelfTest <= MaxTransmit
  BY DeviceAssumption
<1>2. \A c, l : BlinkTime(c, l) \in {kPacketReceivedBlinkTimeMs, kRegisterReadBlinkTimeMs,
                                     kRegisterWriteBlinkTimeMs}
  BY DEF BlinkTime
<1>. QED
  BY <1>1, <1>2 DEF Led!LedAssumption

\* A timer that wraps.
LEMMA TimerTick ==
  ASSUME NEW t \in 0 .. TimerSpace - 1
  PROVE  (t + 1) % TimerSpace = IF t + 1 = TimerSpace THEN 0 ELSE t + 1
<1>1. TimerSpace \in Nat \ {0}
  BY DeviceConstants
<1>2. CASE t + 1 = TimerSpace
  <2>1. t + 1 = 1 * TimerSpace + 0 /\ t + 1 \in Int /\ 0 < TimerSpace
    BY <1>1, <1>2
  <2>. QED
    BY <1>1, <1>2, <2>1, Division
<1>3. CASE t + 1 # TimerSpace
  <2>1. t + 1 = 0 * TimerSpace + (t + 1) /\ t + 1 \in Nat /\ t + 1 < TimerSpace
    BY <1>1, <1>3
  <2>. QED
    <3>1. \A x \in Nat : x < TimerSpace => x % TimerSpace = x
      BY <1>1
    <3>. QED
      BY <1>3, <2>1, <3>1
<1>. QED
  BY <1>2, <1>3

\* How long a cell has been up when its output is driven for the first time: no
\* longer than Init() and one tick when Update() looks for a sentence, and the
\* transmission of a reply after that.
Boot ==
  ~ driven =>
    /\ phase = "init" => up <= SelfTest
    /\ phase = "receive" => up <= SelfTest + gap /\ gap <= 1
    /\ phase = "transmit" => up <= SelfTest + 1 + gap

\* What the hardware and the handlers of a cell are between its steps.
LEMMA TypeStep ==
  ASSUME TypeOK, Boot, [Next]_vars
  PROVE  TypeOK'
<1>. USE DeviceConstants
<1>1. /\ cell \in Cell /\ now \in 0 .. TimerSpace - 1 /\ gap \in 0 .. MaxTransmit
      /\ age \in 0 .. MaxAge /\ up \in 0 .. SelfTest + MaxTransmit + 1
  BY DEF TypeOK, Led!TypeOK
<1>2. CASE UNCHANGED vars
  BY <1>2 DEF vars, led, TypeOK, Led!TypeOK
<1>3. CASE Tick
  <2>1. /\ gap < MaxTransmit /\ gap' = gap + 1 /\ now' = (now + 1) % TimerSpace
        /\ age' = IF age < MaxAge THEN age + 1 ELSE age
        /\ UNCHANGED <<on, off, blink, late>>
        /\ up' = IF driven THEN up ELSE up + 1
        /\ UNCHANGED <<phase, cell, inbox, level, driven, sampled>>
    BY <1>3 DEF Tick, Led!Tick
  <2>2. now' \in 0 .. TimerSpace - 1
    BY <1>1, <2>1, TimerTick
  <2>3. gap' \in 0 .. MaxTransmit /\ age' \in 0 .. MaxAge
    BY <1>1, <2>1
  <2>4. up' \in 0 .. SelfTest + MaxTransmit + 1
    BY <1>1, <1>3, <2>1 DEF Tick, Boot, TypeOK
  <2>. QED
    BY <2>1, <2>2, <2>3, <2>4 DEF TypeOK, Led!TypeOK
<1>4. ASSUME NEW l \in Lines, Arrive(l)
      PROVE  TypeOK'
  BY <1>4 DEF Arrive, led, TypeOK, Led!TypeOK
<1>5. CASE EndInit
  BY <1>5 DEF EndInit, TypeOK, Led!TypeOK
<1>6. ASSUME NEW l \in Lines, UpdatePacket(l)
      PROVE  TypeOK'
  <2> DEFINE r == Process(cell, l)
             b == BlinkTime(cell, l)
  <2>1. l \in GoodLine
    BY DeviceAssumption DEF GoodLine
  <2>2. r.cell \in Cell
    BY <1>1, <2>1, ProcessPost DEF SentencePost
  <2>3. r.cell.volt \in Setting
    BY <2>2 DEF Cell
  <2>4. /\ inbox' = <<>> /\ phase' = "transmit" /\ cell' = r.cell
        /\ IF r.did = "write" THEN level' \in Output!Levels(r.cell.volt) /\ driven' = TRUE
                              ELSE UNCHANGED <<level, driven>>
        /\ gap' = 0 /\ off' = Led!ToUint32(now + b) /\ on' = ~ (now > off') /\ age' = 0
        /\ blink' = b /\ late' = (now + b + MaxTransmit >= TimerSpace)
        /\ UNCHANGED <<sampled, up, now>>
    BY <1>6 DEF UpdatePacket, HandleSentence, Led!UpdatePacket
  <2>5. /\ b \in Nat \ {0}
        /\ b \in {kPacketReceivedBlinkTimeMs, kRegisterReadBlinkTimeMs,
                  kRegisterWriteBlinkTimeMs}
    OBVIOUS
  <2>6. Output!Levels(r.cell.volt) \subseteq 0 .. Output!kMaxPWMCount + 1
    BY <2>3, LevelsType
  <2>. HIDE DEF r, b
  <2>7. off' \in 0 .. TimerSpace - 1
    BY <1>1, <2>4, <2>5 DEF Led!ToUint32
  <2>8. level' \in 0 .. Output!kMaxPWMCount + 1
    BY <2>4, <2>6 DEF TypeOK
  <2>9. driven' \in BOOLEAN /\ on' \in BOOLEAN /\ late' \in BOOLEAN
    <3>1. CASE r.did = "write"
      BY <2>4, <3>1
    <3>2. CASE r.did # "write"
      BY <2>4, <3>2 DEF TypeOK
    <3>. QED
      BY <3>1, <3>2
  <2>10. gap' \in 0 .. MaxTransmit /\ age' \in 0 .. MaxAge
    BY <2>4
  <2>. QED
    BY <2>2, <2>4, <2>5, <2>7, <2>8, <2>9, <2>10 DEF TypeOK, Led!TypeOK
<1>7. CASE UpdateRest
  <2>1. /\ phase' = "receive" /\ level' \in Output!Levels(cell.volt) /\ driven' = TRUE
        /\ sampled' = level' /\ gap' = 0 /\ on' = (on /\ ~ (now > off))
        /\ UNCHANGED <<now, off, age, blink, late, cell, inbox, up>>
    BY <1>7 DEF UpdateRest, Led!UpdateIdle
  <2>2. level' \in 0 .. Output!kMaxPWMCount + 1
    <3>1. cell.volt \in Setting
      BY <1>1 DEF Cell
    <3>. QED
      BY <2>1, <3>1, LevelsType
  <2>3. driven' \in BOOLEAN /\ on' \in BOOLEAN
    BY <2>1
  <2>4. gap' \in 0 .. MaxTransmit
    BY <2>1
  <2>. QED
    BY <2>1, <2>2, <2>3, <2>4 DEF TypeOK, Led!TypeOK
<1>. QED
  BY <1>2, <1>3, <1>4, <1>5, <1>6, <1>7 DEF Next

LEMMA TypeInit == Init => TypeOK
<1>. SUFFICES ASSUME Init PROVE TypeOK
  OBVIOUS
<1>1. cell \in Cell
  <2>1. 0 \in Setting /\ 0 \in Current
    BY DEF Setting, Voltage, Current, kMinOutputVoltage, kMaxOutputVoltage
  <2>. QED
    BY <2>1 DEF Init, BootCells, Cell
<1>2. level \in 0 .. Output!kMaxPWMCount + 1
  BY DEF Init, Output!kPWMDefaultDuty, Output!kMaxPWMCount
<1>3. /\ now \in 0 .. TimerSpace - 1 /\ off \in 0 .. TimerSpace - 1
      /\ gap \in 0 .. MaxTransmit /\ age \in 0 .. MaxAge
      /\ up \in 0 .. SelfTest + MaxTransmit + 1 /\ blink = 0
  BY DeviceConstants DEF Init, Led!Init
<1>4. on \in BOOLEAN /\ late \in BOOLEAN /\ driven \in BOOLEAN
  BY DEF Init, Led!Init
<1>5. phase = "init" /\ inbox = <<>> /\ sampled = None
  BY DEF Init
<1>. QED
  BY <1>1, <1>2, <1>3, <1>4, <1>5 DEF TypeOK, Led!TypeOK

LEMMA BootStep ==
  ASSUME TypeOK, Boot, [Next]_vars
  PROVE  Boot'
<1>. USE DeviceConstants
<1>1. up \in Nat /\ gap \in 0 .. MaxTransmit
  BY DEF TypeOK, Led!TypeOK
<1>2. CASE UNCHANGED vars
  BY <1>2 DEF vars, led, Boot
<1>3. CASE Tick
  <2>1. /\ phase = "init" => up < SelfTest
        /\ phase = "receive" => gap = 0
        /\ gap' = gap + 1 /\ up' = IF driven THEN up ELSE up + 1
        /\ phase' = phase /\ driven' = driven
    BY <1>3 DEF Tick, Led!Tick
  <2>. QED
    BY <1>1, <2>1 DEF Boot
<1>4. ASSUME NEW l \in Lines, Arrive(l)
      PROVE  Boot'
  BY <1>4 DEF Arrive, led, Boot
<1>5. CASE EndInit
  BY <1>1, <1>5 DEF EndInit, Boot
<1>6. ASSUME NEW l \in Lines, UpdatePacket(l)
      PROVE  Boot'
  <2>1. /\ phase = "receive" /\ phase' = "transmit" /\ gap' = 0 /\ up' = up
        /\ driven' = driven \/ driven' = TRUE
    BY <1>6 DEF UpdatePacket, HandleSentence, Led!UpdatePacket
  <2>. QED
    BY <1>1, <2>1 DEF Boot
<1>7. CASE UpdateRest
  BY <1>7 DEF UpdateRest, Boot
<1>. QED
  BY <1>2, <1>3, <1>4, <1>5, <1>6, <1>7 DEF Next

LEMMA TypeBoot == Spec => [](TypeOK /\ Boot)
<1>1. Init => TypeOK /\ Boot
  BY TypeInit, DeviceConstants DEF Init, Boot
<1>2. TypeOK /\ Boot /\ [Next]_vars => TypeOK' /\ Boot'
  BY TypeStep, BootStep
<1>. QED
  BY <1>1, <1>2, PTL DEF Spec

\* The types of the hardware and of what the handlers store.
THEOREM TypeCorrect == Spec => []TypeOK
  BY TypeBoot, PTL

\* The output stage is driven with the full supply no longer than the blink of
\* Init(), a tick and one transmission.
THEOREM BootCorrect == Spec => []BootWindow
<1>1. TypeOK /\ Boot => BootWindow
  BY DeviceConstants DEF TypeOK, Led!TypeOK, Boot, BootWindow
<1>. QED
  BY <1>1, TypeBoot, PTL

-----------------------------------------------------------------------------
(***************************************************************************)
(* The output.                                                             *)
(***************************************************************************)

\* The output follows the setting: UpdatePacket sets it with what the handler has
\* just stored, and nothing else changes the setting.
THEOREM LevelCorrect == Spec => []LevelFollows
<1>1. Init => LevelFollows
  BY DEF Init, LevelFollows
<1>2. TypeOK /\ LevelFollows /\ [Next]_vars => LevelFollows'
  <2>. SUFFICES ASSUME TypeOK, LevelFollows, [Next]_vars PROVE LevelFollows'
    OBVIOUS
  <2>1. CASE UNCHANGED <<cell, level, driven>>
    BY <2>1 DEF LevelFollows
  <2>2. ASSUME NEW l \in Lines, UpdatePacket(l)
        PROVE  LevelFollows'
    <3> DEFINE r == Process(cell, l)
    <3>1. /\ cell' = r.cell
          /\ IF r.did = "write"
               THEN level' \in Output!Levels(r.cell.volt) /\ driven' = TRUE
               ELSE UNCHANGED <<level, driven>>
      BY <2>2 DEF UpdatePacket, HandleSentence
    <3>2. cell \in Cell /\ l \in GoodLine
      BY DeviceAssumption DEF TypeOK, GoodLine
    <3>3. r.did # "write" => r.cell.volt = cell.volt
      BY <3>2, SettingKept
    <3>. HIDE DEF r
    <3>. QED
      BY <3>1, <3>3 DEF LevelFollows
  <2>3. CASE UpdateRest
    BY <2>3 DEF UpdateRest, LevelFollows
  <2>. QED
    BY <2>1, <2>2, <2>3 DEF Next, vars, Tick, Arrive, EndInit
<1>. QED
  BY <1>1, <1>2, TypeCorrect, PTL DEF Spec

\* A handler that reports the current reports a sample that was taken at the output
\* that is driven now: a sentence that is handled ends the state in which it may.
THEOREM FreshCorrect == Spec => []FreshCurrent
<1> DEFINE Fresh == FreshCurrent /\ (phase = "init" => sampled = None)
<1>1. Init => Fresh
  BY DEF Init, FreshCurrent
<1>2. Fresh /\ [Next]_vars => Fresh'
  <2>. SUFFICES ASSUME Fresh, [Next]_vars PROVE Fresh'
    OBVIOUS
  <2>1. CASE UNCHANGED <<phase, level, sampled>>
    BY <2>1 DEF FreshCurrent
  <2>2. CASE EndInit
    BY <2>2 DEF EndInit, FreshCurrent
  <2>3. ASSUME NEW l \in Lines, UpdatePacket(l)
        PROVE  Fresh'
    BY <2>3 DEF UpdatePacket, HandleSentence, FreshCurrent
  <2>4. CASE UpdateRest
    BY <2>4 DEF UpdateRest, FreshCurrent
  <2>. QED
    BY <2>1, <2>2, <2>3, <2>4 DEF Next, vars, Tick, Arrive
<1>. QED
  BY <1>1, <1>2, PTL DEF Spec

-----------------------------------------------------------------------------
(***************************************************************************)
(* The status LED.                                                         *)
(***************************************************************************)

\* While the LED is on: unless its end is late, the timer has passed the end by no
\* more than the time since the last Update() and has counted the age of the blink
\* with it, so that it does not wrap; and, late or not, it is not ahead of the age,
\* unless the end was clamped (then it is never passed).
Lit ==
  /\ phase = "init" => ~ on
  /\ on => blink < MaxAge
  /\ on /\ ~ late => /\ off + MaxTransmit < TimerSpace
                     /\ now <= off + gap
                     /\ age + off <= now + blink
  /\ on => off = TimerSpace - 1 \/ age = MaxAge \/ now + blink <= off + age

LEMMA LitStep ==
  ASSUME TypeOK, Lit, [Next]_vars
  PROVE  /\ Lit'
         /\ on /\ ~ on' => age > blink
<1>. USE DeviceConstants
<1>1. /\ now \in 0 .. TimerSpace - 1 /\ off \in 0 .. TimerSpace - 1
      /\ gap \in 0 .. MaxTransmit /\ age \in 0 .. MaxAge /\ blink \in Nat
  <2>1. /\ now \in 0 .. TimerSpace - 1 /\ off \in 0 .. TimerSpace - 1
        /\ gap \in 0 .. MaxTransmit /\ age \in 0 .. MaxAge
        /\ blink \in {kPacketReceivedBlinkTimeMs, kRegisterReadBlinkTimeMs,
                      kRegisterWriteBlinkTimeMs} \cup {0}
    BY DEF TypeOK, Led!TypeOK
  <2>2. {kPacketReceivedBlinkTimeMs, kRegisterReadBlinkTimeMs,
         kRegisterWriteBlinkTimeMs} \subseteq Nat
    BY DeviceAssumption DEF Led!LedAssumption
  <2>. QED
    BY <2>1, <2>2
<1>2. CASE UNCHANGED <<phase, led>>
  BY <1>2 DEF led, Lit
<1>3. CASE Tick
  <2>1. /\ gap < MaxTransmit /\ gap' = gap + 1 /\ now' = (now + 1) % TimerSpace
        /\ age' = IF age < MaxAge THEN age + 1 ELSE age
        /\ on' = on /\ off' = off /\ blink' = blink /\ late' = late /\ phase' = phase
    BY <1>3 DEF Tick, Led!Tick
  <2>2. now' = IF now + 1 = TimerSpace THEN 0 ELSE now + 1
    BY <1>1, <2>1, TimerTick
  <2>3. on /\ ~ late => /\ off + MaxTransmit < TimerSpace
                        /\ now' <= off + gap'
                        /\ age' + off <= now' + blink
    BY <1>1, <2>1, <2>2 DEF Lit
  <2>4. on => off = TimerSpace - 1 \/ age' = MaxAge \/ now' + blink <= off + age'
    BY <1>1, <2>1, <2>2 DEF Lit
  <2>. QED
    BY <2>1, <2>3, <2>4 DEF Lit
<1>4. CASE EndInit
  BY <1>4 DEF EndInit, Lit
<1>5. ASSUME NEW l \in Lines, UpdatePacket(l)
      PROVE  Lit' /\ (on /\ ~ on' => age > blink)
  <2> DEFINE b == BlinkTime(cell, l)
  <2>1. /\ phase' = "transmit" /\ now' = now
        /\ gap' = 0 /\ off' = Led!ToUint32(now + b) /\ age' = 0 /\ blink' = b
        /\ on' <=> ~ (now > off')
        /\ late' <=> now + b + MaxTransmit >= TimerSpace
    BY <1>5 DEF UpdatePacket, HandleSentence, Led!UpdatePacket
  <2>2. b \in Nat \ {0} /\ b < MaxAge
    OBVIOUS
  <2>. HIDE DEF b
  <2>3. off' = IF now + b < TimerSpace THEN now + b ELSE TimerSpace - 1
    BY <2>1 DEF Led!ToUint32
  <2>4. on'
    BY <1>1, <2>1, <2>2, <2>3
  <2>5. ~ late' => off' = now + b /\ now + b + MaxTransmit < TimerSpace
    BY <1>1, <2>1, <2>2, <2>3
  <2>. QED
    BY <1>1, <2>1, <2>2, <2>3, <2>4, <2>5 DEF Lit
<1>6. CASE UpdateRest
  <2>1. /\ phase' = "receive" /\ gap' = 0 /\ (on' <=> on /\ ~ (now > off))
        /\ now' = now /\ off' = off /\ age' = age /\ blink' = blink /\ late' = late
    BY <1>6 DEF UpdateRest, Led!UpdateIdle
  <2>2. on /\ ~ on' => age > blink
    BY <1>1, <2>1 DEF Lit
  <2>3. on' => on /\ now <= off
    BY <1>1, <2>1
  <2>. QED
    BY <1>1, <2>1, <2>2, <2>3 DEF Lit
<1>. QED
  BY <1>2, <1>3, <1>4, <1>5, <1>6 DEF Next, vars, Arrive, Tick, Led!Tick, EndInit, led

LEMMA LitHolds == Spec => []Lit
<1>1. Init => Lit
  BY DEF Init, Led!Init, Lit
<1>2. TypeOK /\ Lit /\ [Next]_vars => Lit'
  BY LitStep
<1>. QED
  BY <1>1, <1>2, TypeCorrect, PTL DEF Spec

\* A blink ends at the first Update() after its end, whatever is received.
THEOREM BlinkCorrect == Spec => []BlinkEnds
<1>1. TypeOK /\ Lit => BlinkEnds
  <2>. SUFFICES ASSUME TypeOK, Lit, on, ~ late PROVE age <= blink + MaxTransmit
    BY DEF BlinkEnds, Led!BlinkEnds
  <2>1. /\ now \in Int /\ off \in Int /\ gap \in 0 .. MaxTransmit /\ age \in Int
        /\ blink \in Int
    <3>1. \A b \in {kPacketReceivedBlinkTimeMs, kRegisterReadBlinkTimeMs,
                    kRegisterWriteBlinkTimeMs} : b \in Nat
      BY DeviceAssumption DEF Led!LedAssumption
    <3>2. /\ now \in 0 .. TimerSpace - 1 /\ off \in 0 .. TimerSpace - 1
          /\ gap \in 0 .. MaxTransmit /\ age \in 0 .. MaxAge
          /\ blink \in {kPacketReceivedBlinkTimeMs, kRegisterReadBlinkTimeMs,
                        kRegisterWriteBlinkTimeMs} \cup {0}
      BY DEF TypeOK, Led!TypeOK
    <3>3. blink \in Nat
      BY <3>1, <3>2
    <3>. QED
      BY <3>2, <3>3, DeviceConstants
  <2>2. now <= off + gap /\ age + off <= now + blink
    BY DEF Lit
  <2>. QED
    BY <2>1, <2>2, DeviceConstants
<1>. QED
  BY <1>1, TypeCorrect, LitHolds, PTL

\* No blink is cut short, not even by the wrap of the timer.
THEOREM NeverShortCorrect == Spec => NeverShort
<1>1. TypeOK /\ Lit /\ [Next]_vars => [on /\ ~ on' => age > blink]_led
  BY LitStep
<1>2. Spec => [][on /\ ~ on' => age > blink]_led
  BY <1>1, TypeCorrect, LitHolds, PTL DEF Spec
<1>. QED
  BY <1>2 DEF NeverShort, Led!NeverShort, Led!vars, led

=============================================================================
