----------------------------- MODULE SCBSOutput -----------------------------
(***************************************************************************)
(* The voltage output of a cell: SetOutputVoltage() of scbs.cc with its    *)
(* calibration, and the PWM from Init() on.  The PWM drives the output     *)
(* stage inverted: a level of kMaxPWMCount asks for 0 V, a level of 0 for  *)
(* the full 5 V of the supply.                                             *)
(*                                                                         *)
(* The calibration is a cubic in single precision floats.  Here it is      *)
(* evaluated in steps of 0.1 uV, Horner's way, which is closer to its      *)
(* exact value than the floats are: the level can differ by one count (5   *)
(* mV) where the voltage is at the edge of a count.                        *)
(***************************************************************************)
EXTENDS SCBSCell

CONSTANT Requests  \* hundredths of a volt that the master may ask for

ASSUME OutputAssumption == Requests \subseteq Int

kMaxPWMCount == 1000
kPWMDefaultDuty == 0

\* In 0.1 uV: the supply, and the coefficients of the calibration.
kPowerSupplyVoltage5V       == 50000000
kOutputVoltageCalCoeffX3    == -66247
kOutputVoltageCalCoeffX2    == 721865
kOutputVoltageCalCoeffX     == -2782786
kOutputVoltageCalCoeffConst == 795860

VARIABLES
  volt,    \* output_voltage_
  level,   \* the level of the PWM channel
  running  \* has Init() returned, and the first Update() been made

vars == <<volt, level, running>>

EstimatedOffset_NoSquare(v) == \* mutant: a term of the sum forgotten
  LET a == (kOutputVoltageCalCoeffX3 * v) \div 100
      b == (a * v) \div 100 + kOutputVoltageCalCoeffX
  IN  (b * v) \div 100 + kOutputVoltageCalCoeffConst

EstimatedOffset(v) ==
  LET a == (kOutputVoltageCalCoeffX3 * v) \div 100 + kOutputVoltageCalCoeffX2
      b == (a * v) \div 100 + kOutputVoltageCalCoeffX
  IN  (b * v) \div 100 + kOutputVoltageCalCoeffConst

PwmVoltage_NoRails(v) == v * 100000 - EstimatedOffset(v) \* mutant

\* The calibrated voltage, railed by the supply.
PwmVoltage(v) ==
  LET p == v * 100000 - EstimatedOffset(v)
  IN  IF p > kPowerSupplyVoltage5V THEN kPowerSupplyVoltage5V
      ELSE IF p < 0 THEN 0 ELSE p

Duty_NotInverted(p) == p \div (kPowerSupplyVoltage5V \div kMaxPWMCount) \* mutant

Duty_Coarse(p) == \* mutant: the resolution of an 8 bit PWM
  kMaxPWMCount - 4 * (p \div (4 * (kPowerSupplyVoltage5V \div kMaxPWMCount)))

Duty(p) == kMaxPWMCount - p \div (kPowerSupplyVoltage5V \div kMaxPWMCount)

\* The level for a setting.  Not-a-number passes every comparison, and what the
\* conversion to uint16_t makes of it is 0 or 65535, subtracted in uint16_t.
Levels(v) ==
  IF v = NotANumber
    THEN {kMaxPWMCount, (kMaxPWMCount - 65535) % 65536}
    ELSE {Duty(PwmVoltage(v))}

Init ==
  /\ volt = 0
  /\ level = kPWMDefaultDuty
  /\ running = FALSE

Text1(n) == [k |-> "num", n |-> n, len |-> 4]
NaNText  == [k |-> "nan", n |-> 0, len |-> 3]

\* An Update() without a write to the output voltage register.
Update ==
  /\ level' \in Levels(volt)
  /\ running' = TRUE
  /\ UNCHANGED volt

\* An Update() with one: SetOutputVoltage() of what was asked for, and then once
\* more of what it returned.
UpdateWrite(text) ==
  /\ volt' = SettingOf(text)
  /\ level' \in Levels(volt')
  /\ running' = TRUE

Next ==
  \/ Update
  \/ \E n \in Requests : UpdateWrite(Text1(n))
  \/ UpdateWrite(NaNText)

Spec == Init /\ [][Next]_vars

-----------------------------------------------------------------------------
(***************************************************************************)
(* Properties.                                                             *)
(***************************************************************************)

TypeOK ==
  /\ volt \in Setting
  /\ level \in 0 .. kMaxPWMCount + 1
  /\ running \in BOOLEAN

\* The output follows the setting: a higher one never gives a lower voltage, the
\* calibration and the rails included.
Monotone ==
  [][running /\ volt # NotANumber /\ volt' > volt => level' <= level]_vars

\* Below this setting the calibration asks for less than 0 V, and gets 0 V.
DeadBand == 7

\* Above the dead band no two settings of 10 mV difference or more give the same
\* output: none is lost to the resolution of the PWM or to the upper rail.
Resolved ==
  [][running /\ volt >= DeadBand /\ volt' >= DeadBand /\ volt' # volt
       => level' # level]_vars

\* Once it runs, a cell never drives its output with the full supply.
NotFullScale == running => level > 0

\* The setting is on the rails.
OnRails == volt \in Voltage

=============================================================================
