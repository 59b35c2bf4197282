-------------------------- MODULE SCBSOutputProofs --------------------------
(***************************************************************************)
(* Theorems about the voltage output, for every set of requests: the level *)
(* is that of the setting, never the full supply, a higher setting never   *)
(* gives a lower voltage, and above the dead band no two settings share a  *)
(* level.                                                                  *)
(*                                                                         *)
(* All of it rests on how steep the calibrated voltage is (RawSlope): 5    *)
(* mV, one count of the PWM, or more for every 10 mV of the setting.       *)
(***************************************************************************)
EXTENDS SCBSOutput, SCBSCellProofs

-----------------------------------------------------------------------------
(***************************************************************************)
(* The calibration.                                                        *)
(***************************************************************************)

\* The calibrated voltage before the rails, and the cubic step by step.
Slope(v)   == (-66247 * v) \div 100 + 721865
Parabola(v) == (Slope(v) * v) \div 100 - 2782786
Raw(v)     == v * 100000 - ((Parabola(v) * v) \div 100 + 795860)

\* The same with the names of the code.
Unrailed(v) == v * 100000 - EstimatedOffset(v)

LEMMA RawOf ==
  ASSUME NEW v \in Int
  PROVE  /\ Slope(v) \in Int /\ Parabola(v) \in Int /\ Raw(v) \in Int
         /\ Raw(v) = Unrailed(v)
<1>1. Slope(v) \in Int
  BY SMT DEF Slope
<1>2. Parabola(v) \in Int
  <2> DEFINE a == Slope(v)
  <2>1. a \in Int
    BY <1>1
  <2>. HIDE DEF a
  <2>2. (a * v) \div 100 - 2782786 \in Int
    BY <2>1, SMT
  <2>. QED
    BY <2>2, SMT DEF Parabola, a
<1>3. Raw(v) \in Int
  <2> DEFINE b == Parabola(v)
  <2>1. b \in Int
    BY <1>2
  <2>. HIDE DEF b
  <2>2. v * 100000 - ((b * v) \div 100 + 795860) \in Int
    BY <2>1, SMT
  <2>. QED
    BY <2>2, SMT DEF Raw, b
<1>4. EstimatedOffset(v) = (Parabola(v) * v) \div 100 + 795860
  BY SMT DEF EstimatedOffset, Parabola, Slope, kOutputVoltageCalCoeffX3,
             kOutputVoltageCalCoeffX2, kOutputVoltageCalCoeffX,
             kOutputVoltageCalCoeffConst
<1>5. Raw(v) = Unrailed(v)
  BY <1>4, SMT DEF Raw, Unrailed
<1>. QED
  BY <1>1, <1>2, <1>3, <1>5, SMT

\* Multiplication by a natural number is monotone.
LEMMA Scaled ==
  ASSUME NEW k \in Nat, NEW x \in Int, NEW y \in Int, x <= y
  PROVE  x * k <= y * k
<1>1. y * k - x * k = (y - x) * k
  BY SMT
<1>2. (y - x) \in Nat
  BY SMT
<1>3. (y - x) * k \in Nat
  BY <1>2, SMT
<1>. QED
  BY <1>1, <1>3, SMT

\* The coefficient of the square stays positive, and falls.
LEMMA SlopeBounds ==
  ASSUME NEW v \in 0 .. 450, NEW w \in 0 .. 450, v <= w
  PROVE  /\ 0 <= Slope(w) /\ Slope(w) <= Slope(v) /\ Slope(v) <= kOutputVoltageCalCoeffX2
<1> DEFINE x == -66247 * v
           y == -66247 * w
<1>1. /\ x \in Int /\ y \in Int /\ -66247 * 450 <= y /\ y <= x /\ x <= 0
  BY SMT
<1>2. Slope(v) = x \div 100 + 721865 /\ Slope(w) = y \div 100 + 721865
  BY SMT DEF Slope
<1>. HIDE DEF x, y
<1>. QED
  BY <1>1, <1>2, SMT DEF kOutputVoltageCalCoeffX2

\* Two products whose factors differ.
LEMMA ProductDifference ==
  ASSUME NEW x \in Int, NEW y \in Int, NEW v \in Int, NEW w \in Int
  PROVE  /\ y * w = x * v + (y * (w - v) + (y - x) * v)
         /\ y * w \in Int /\ x * v \in Int
  BY SMT

\* What one count of the PWM makes: 5 mV.
Count == 50000

\* Before the rails the calibrated voltage rises by one count of the PWM, or more,
\* with every 10 mV of the setting.
LEMMA RawSlope ==
  ASSUME NEW v \in 0 .. 450, NEW w \in 0 .. 450, v < w
  PROVE  Raw(v) + Count * (w - v) <= Raw(w)
<1> DEFINE h == w - v
           a == Slope(v)
           c == Slope(w)
           b == Parabola(v)
           d == Parabola(w)
<1>1. h \in 1 .. 450 /\ v \in Nat /\ w \in Nat /\ w <= 450 /\ v <= 450
  BY SMT
<1>2. /\ a \in Int /\ c \in Int /\ b \in Int /\ d \in Int
      /\ Raw(v) \in Int /\ Raw(w) \in Int
  BY <1>1, RawOf, SMT
<1>3. 0 <= c /\ c <= 721865 /\ c <= a
  <2>1. v <= w
    BY <1>1, SMT
  <2>2. 0 <= Slope(w) /\ Slope(w) <= Slope(v) /\ Slope(v) <= kOutputVoltageCalCoeffX2
    BY <2>1, SlopeBounds, Zenon
  <2>. QED
    BY <1>2, <2>2, SMT DEF kOutputVoltageCalCoeffX2
<1>4. b = (a * v) \div 100 - 2782786 /\ d = (c * w) \div 100 - 2782786
  BY SMT DEF Parabola
<1>5. /\ Raw(v) = v * 100000 - ((b * v) \div 100 + 795860)
      /\ Raw(w) = w * 100000 - ((d * w) \div 100 + 795860)
  BY SMT DEF Raw
<1>. HIDE DEF a, c, b, d
<1>6. c * w <= a * v + 721865 * h /\ c * w \in Int /\ a * v \in Int
  <2>1. c * w = a * v + (c * h + (c - a) * v) /\ c * w \in Int /\ a * v \in Int
    BY <1>1, <1>2, ProductDifference, SMT
  <2>. HIDE DEF h
  <2>2. c * h <= 721865 * h
    BY <1>1, <1>2, <1>3, Scaled, SMT
  <2>3. (c - a) * v <= 0 * v
    BY <1>1, <1>2, <1>3, Scaled, SMT
  <2>. QED
    <3> DEFINE p == c * h
               q == (c - a) * v
               x == a * v
               y == c * w
    <3>1. /\ x \in Int /\ y \in Int /\ y = x + (p + q)
          /\ p <= 721865 * h /\ q <= 0 * v
      BY <2>1, <2>2, <2>3, SMT
    <3>2. p \in Int /\ q \in Int
      BY <1>1, <1>2, SMT
    <3>. HIDE DEF p, q, x, y
    <3>3. y <= x + 721865 * h
      BY <1>1, <3>1, <3>2, SMT
    <3>. QED
      BY <3>1, <3>3, SMT DEF x, y
<1>7. c * w <= 721865 * 450
  <2>1. c * w <= 721865 * w
    BY <1>1, <1>2, <1>3, Scaled, SMT
  <2>. QED
    BY <1>1, <1>6, <2>1, SMT
<1>. HIDE DEF h
<1>8. d - b <= 7220 * h /\ d <= 465606
  <2> DEFINE x == a * v
             y == c * w
  <2>1. /\ x \in Int /\ y \in Int /\ y <= x + 721865 * h /\ y <= 721865 * 450
    BY <1>6, <1>7, SMT
  <2>2. b = x \div 100 - 2782786 /\ d = y \div 100 - 2782786
    BY <1>4, SMT
  <2>. HIDE DEF x, y
  <2>. QED
    BY <1>1, <2>1, <2>2, SMT
<1>9. d * w <= b * v + 3714606 * h /\ d * w \in Int /\ b * v \in Int
  <2>1. d * w = b * v + (d * h + (d - b) * v) /\ d * w \in Int /\ b * v \in Int
    BY <1>1, <1>2, ProductDifference, SMT DEF h
  <2>2. d * h <= 465606 * h
    BY <1>1, <1>2, <1>8, Scaled, SMT
  <2>3. (d - b) * v <= (7220 * h) * v
    BY <1>1, <1>2, <1>8, Scaled, SMT
  <2>4. v * h <= 450 * h
    BY <1>1, Scaled, SMT
  <2>5. (7220 * h) * v = 7220 * (v * h)
    BY <1>1, SMT
  <2>6. d * h \in Int /\ (d - b) * v \in Int /\ v * h \in Int
    BY <1>1, <1>2, SMT
  <2>7. (d - b) * v <= 7220 * (450 * h)
    BY <1>1, <2>3, <2>4, <2>5, <2>6, SMT
  <2>. QED
    <3> DEFINE p == d * h
               q == (d - b) * v
    <3>1. /\ p \in Int /\ q \in Int /\ p <= 465606 * h /\ q <= 7220 * (450 * h)
          /\ d * w = b * v + (p + q)
      BY <2>1, <2>2, <2>6, <2>7, SMT
    <3>. HIDE DEF p, q
    <3>. QED
      BY <1>1, <2>1, <3>1, SMT
<1>10. Raw(v) + 50000 * h <= Raw(w)
  <2> DEFINE x == b * v
             y == d * w
  <2>1. x \in Int /\ y \in Int /\ y <= x + 3714606 * h
    BY <1>9, SMT
  <2>2. /\ Raw(v) = v * 100000 - (x \div 100 + 795860)
        /\ Raw(w) = w * 100000 - (y \div 100 + 795860)
    BY <1>5, SMT
  <2>. HIDE DEF x, y
  <2>3. w = v + h
    BY <1>1, SMT DEF h
  <2>. QED
    BY <1>1, <2>1, <2>2, <2>3, SMT
<1>. QED
  BY <1>1, <1>2, <1>10, SMT DEF h, Count

\* The calibration in whole steps: each quotient by its bounds.
Steps(v, a, b, c) ==
  /\ 100 * (a - 721865) <= -66247 * v /\ -66247 * v <= 100 * (a - 721865) + 99
  /\ 100 * (b + 2782786) <= a * v /\ a * v <= 100 * (b + 2782786) + 99
  /\ 100 * (c - 795860) <= b * v /\ b * v <= 100 * (c - 795860) + 99

LEMMA RawSteps ==
  ASSUME NEW v \in Int, NEW a \in Int, NEW b \in Int, NEW c \in Int,
         Steps(v, a, b, c)
  PROVE  Raw(v) = v * 100000 - c
<1> DEFINE x == -66247 * v
           y == a * v
           z == b * v
<1>1. /\ x \in Int /\ y \in Int /\ z \in Int
      /\ 100 * (a - 721865) <= x /\ x <= 100 * (a - 721865) + 99
      /\ 100 * (b + 2782786) <= y /\ y <= 100 * (b + 2782786) + 99
      /\ 100 * (c - 795860) <= z /\ z <= 100 * (c - 795860) + 99
  BY SMT DEF Steps
<1>2. Slope(v) = x \div 100 + 721865
  BY SMT DEF Slope
<1>3. Parabola(v) = (Slope(v) * v) \div 100 - 2782786
  BY SMT DEF Parabola
<1>4. Raw(v) = v * 100000 - ((Parabola(v) * v) \div 100 + 795860)
  BY SMT DEF Raw
<1>5. Slope(v) = a
  <2>. HIDE DEF x
  <2>. QED
    BY <1>1, <1>2, SMT
<1>6. Parabola(v) = b
  <2>1. Parabola(v) = y \div 100 - 2782786
    BY <1>3, <1>5, SMT
  <2>. HIDE DEF y
  <2>. QED
    BY <1>1, <2>1, SMT
<1>7. Raw(v) = v * 100000 - (z \div 100 + 795860)
  BY <1>4, <1>6, SMT
<1>. HIDE DEF z
<1>. QED
  BY <1>1, <1>7, SMT

\* At the end of the dead band the calibration asks for 0 V or more.
LEMMA RawDead == Raw(7) = 95421
<1> DEFINE v == 7
           a == 717227
           b == -2732581
           c == 604579
<1>1. v \in Int /\ a \in Int /\ b \in Int /\ c \in Int /\ Steps(v, a, b, c)
  BY SMT DEF Steps
<1>2. v * 100000 - c = 95421
  BY SMT
<1>. HIDE DEF v, a, b, c
<1>3. Raw(v) = v * 100000 - c
  BY <1>1, RawSteps
<1>4. Raw(v) = 95421
  BY <1>2, <1>3, SMT
<1>. QED
  BY <1>4, SMT DEF v

\* At the highest setting it asks for less than the supply.
Ceiling == 48145681

LEMMA RawTop == Raw(450) = Ceiling
<1> DEFINE v == 450
           a == 423753
           b == -875898
           c == -3145681
<1>1. v \in Int /\ a \in Int /\ b \in Int /\ c \in Int /\ Steps(v, a, b, c)
  BY SMT DEF Steps
<1>2. v * 100000 - c = 48145681
  BY SMT
<1>. HIDE DEF v, a, b, c
<1>3. Raw(v) = v * 100000 - c
  BY <1>1, RawSteps
<1>4. Raw(v) = 48145681
  BY <1>2, <1>3, SMT
<1>. QED
  BY <1>4, SMT DEF v, Ceiling

\* The voltage that is asked of the PWM: the rails only ever raise it, and only in
\* the dead band.
LEMMA PwmVoltageOf ==
  ASSUME NEW v \in 0 .. 450
  PROVE  /\ PwmVoltage(v) \in Nat /\ PwmVoltage(v) <= Ceiling
         /\ PwmVoltage(v) = IF Raw(v) < 0 THEN 0 ELSE Raw(v)
         /\ 7 <= v => 0 <= Raw(v)
<1> DEFINE r == Raw(v)
<1>1. v \in Int /\ 0 <= v /\ v <= 450
  BY SMT
<1>2. r \in Int /\ r = Unrailed(v)
  BY <1>1, RawOf
<1>3. 7 \in 0 .. 450 /\ 450 \in 0 .. 450
  BY SMT
<1>4. v < 450 => r + Count * (450 - v) <= Ceiling
  <2>1. \A w \in 0 .. 450 : v < w => Raw(v) + Count * (w - v) <= Raw(w)
    BY RawSlope, ZenonT(30)
  <2>. HIDE DEF r
  <2>2. v < 450 => Raw(v) + Count * (450 - v) <= Raw(450)
    BY <1>3, <2>1
  <2>. QED
    BY <2>2, RawTop DEF r
<1>5. 7 < v => Raw(7) + Count * (v - 7) <= r
  BY <1>3, RawSlope
<1>6. v = 450 => r = Ceiling
  BY RawTop
<1>7. v = 7 => r = Raw(7)
  OBVIOUS
<1>8. PwmVoltage(v) = IF r > 50000000 THEN 50000000 ELSE IF r < 0 THEN 0 ELSE r
  BY <1>2, SMT DEF Unrailed, PwmVoltage, kPowerSupplyVoltage5V
<1>. HIDE DEF r
<1>9. r <= Ceiling
  BY <1>1, <1>2, <1>4, <1>6, SMT DEF Count, Ceiling
<1>10. 7 <= v => 0 <= r
  BY <1>1, <1>2, <1>5, <1>7, RawDead, SMT DEF Count
<1>11. PwmVoltage(v) = IF r < 0 THEN 0 ELSE r
  BY <1>2, <1>8, <1>9, SMT DEF Ceiling
<1>12. PwmVoltage(v) \in Nat /\ PwmVoltage(v) <= Ceiling
  BY <1>2, <1>9, <1>11, SMT DEF Ceiling
<1>. QED
  BY <1>10, <1>11, <1>12, Zenon DEF r

-----------------------------------------------------------------------------
(***************************************************************************)
(* The level of the PWM.                                                   *)
(***************************************************************************)

\* More voltage is never a higher level, and by a count of 5 mV a lower one.
LEMMA DutyFalls ==
  ASSUME NEW p \in Nat, NEW q \in Nat, p <= q, q <= Ceiling
  PROVE  /\ Duty(p) \in 1 .. kMaxPWMCount /\ Duty(q) \in 1 .. kMaxPWMCount
         /\ Duty(q) <= Duty(p)
         /\ p + Count <= q => Duty(q) < Duty(p)
<1> DEFINE S == 50000000 \div 1000
<1>1. S = 50000
  <2>1. 50000000 = 50000 * 1000 + 0 /\ 1000 \in Nat \ {0} /\ 50000 \in Int
        /\ 0 \in Nat /\ 0 < 1000
    BY SMT
  <2>. QED
    BY <2>1, Division, SMT
<1>2. Duty(p) = 1000 - p \div S /\ Duty(q) = 1000 - q \div S
  BY SMT DEF Duty, kMaxPWMCount, kPowerSupplyVoltage5V
<1>. HIDE DEF S
<1>3. \A x \in Nat : x \div S \in Nat /\ (x \div S) * Count <= x
                     /\ x < (x \div S) * Count + Count
  BY <1>1, SMT DEF Count
<1> DEFINE d == p \div S
           e == q \div S
<1>4. /\ d \in Nat /\ d * Count <= p /\ p < d * Count + Count
      /\ e \in Nat /\ e * Count <= q /\ q < e * Count + Count
  <2>1. /\ d \in Nat /\ d * Count <= p /\ p < d * Count + Count
    BY <1>3, Zenon
  <2>2. /\ e \in Nat /\ e * Count <= q /\ q < e * Count + Count
    BY <1>3, Zenon
  <2>. QED
    BY <2>1, <2>2, Zenon
<1>. HIDE DEF d, e
<1>5. d <= 999 /\ e <= 999 /\ d <= e /\ (p + Count <= q => d < e)
  BY <1>4, SMT DEF Ceiling, Count
<1>6. Duty(p) = 1000 - d /\ Duty(q) = 1000 - e
  BY <1>2, SMT DEF d, e
<1>. QED
  BY <1>4, <1>5, <1>6, SMT DEF kMaxPWMCount

\* What SetOutputVoltage() gives the PWM for not-a-number, in 16 bits.
LEMMA NaNLevel == (1000 - 65535) % 65536 = 1001
<1> DEFINE S == 65536
           x == 1000 - 65535
<1>1. /\ S \in Nat \ {0} /\ -1 \in Int /\ 1001 \in Nat /\ 1001 < S
      /\ x = (-1) * S + 1001
  BY SMT
<1>2. x % S = 1001
  <2>. HIDE DEF S, x
  <2>. QED
    BY <1>1, Division, SMT
<1>. QED
  BY <1>2, SMT

\* A setting is a voltage or not a number.
LEMMA SettingCases ==
  ASSUME NEW v \in Setting
  PROVE  \/ v = NotANumber
         \/ v # NotANumber /\ v \in 0 .. 450
  BY SMT DEF Setting, Voltage, NotANumber, kMinOutputVoltage, kMaxOutputVoltage

\* No level of any setting is 0, which is the full supply.
LEMMA LevelsOf ==
  ASSUME NEW v \in Setting
  PROVE  /\ Levels(v) \subseteq 1 .. kMaxPWMCount + 1
         /\ v # NotANumber => Levels(v) = {Duty(PwmVoltage(v))}
<1>1. CASE v = NotANumber
  <2>1. Levels(v) = {1000, (1000 - 65535) % 65536}
    BY <1>1, SMT DEF Levels, kMaxPWMCount
  <2>. QED
    BY <1>1, <2>1, NaNLevel, SMT DEF kMaxPWMCount
<1>2. CASE v # NotANumber
  <2> DEFINE p == PwmVoltage(v)
  <2>1. v \in 0 .. 450
    BY <1>2, SettingCases
  <2>2. p \in Nat /\ p <= Ceiling
    BY <2>1, PwmVoltageOf, Zenon
  <2>. HIDE DEF p
  <2>3. p <= p
    BY <2>2, SMT
  <2>4. Duty(p) \in 1 .. kMaxPWMCount
    BY <2>2, <2>3, DutyFalls, Zenon
  <2>5. Levels(v) = {Duty(p)}
    BY <1>2 DEF Levels, p
  <2>6. kMaxPWMCount \in Nat
    BY SMT DEF kMaxPWMCount
  <2>. QED
    BY <2>4, <2>5, <2>6, SMT DEF p
<1>. QED
  BY <1>1, <1>2

\* A higher setting has no higher level, and above the dead band a lower one.
LEMMA LevelFalls ==
  ASSUME NEW v \in 0 .. 450, NEW w \in 0 .. 450, v < w
  PROVE  /\ Duty(PwmVoltage(w)) \in Int /\ Duty(PwmVoltage(v)) \in Int
         /\ Duty(PwmVoltage(w)) <= Duty(PwmVoltage(v))
         /\ 7 <= v => Duty(PwmVoltage(w)) < Duty(PwmVoltage(v))
<1> DEFINE p == PwmVoltage(v)
           q == PwmVoltage(w)
<1>1. v \in Int /\ w \in Int
  BY SMT
<1>2. Raw(v) \in Int /\ Raw(w) \in Int
  BY <1>1, RawOf, Zenon
<1>3. Raw(v) + Count * (w - v) <= Raw(w)
  BY RawSlope, Zenon
<1>4. /\ p \in Nat /\ p <= Ceiling /\ p = (IF Raw(v) < 0 THEN 0 ELSE Raw(v))
      /\ 7 <= v => 0 <= Raw(v)
  BY PwmVoltageOf, Zenon
<1>5. q \in Nat /\ q <= Ceiling /\ q = (IF Raw(w) < 0 THEN 0 ELSE Raw(w))
  BY PwmVoltageOf, Zenon
<1>. HIDE DEF p, q
<1>6. p <= q /\ (7 <= v => p + Count <= q)
  BY <1>1, <1>2, <1>3, <1>4, <1>5, SMT DEF Count
<1>7. /\ Duty(p) \in 1 .. kMaxPWMCount /\ Duty(q) \in 1 .. kMaxPWMCount
      /\ Duty(q) <= Duty(p)
      /\ p + Count <= q => Duty(q) < Duty(p)
  BY <1>4, <1>5, <1>6, DutyFalls, Zenon
<1>. QED
  BY <1>6, <1>7, SMTT(30) DEF p, q, kMaxPWMCount

-----------------------------------------------------------------------------
(***************************************************************************)
(* The theorems.                                                           *)
(***************************************************************************)

\* From the first Update() on the level is that of the setting.
LevelSet == running => level \in Levels(volt)

\* Whatever is asked for, the setting is a voltage of the specifications, or not a
\* number.
LEMMA SettingType ==
  /\ \A n \in Requests : SettingOf(Text1(n)) \in Setting
  /\ SettingOf(NaNText) \in Setting
<1>1. ASSUME NEW n \in Requests
      PROVE  SettingOf(Text1(n)) \in Setting
  <2>1. n \in Int
    BY OutputAssumption
  <2>. QED
    BY <2>1, SMT DEF Text1, SettingOf, ToNum, Rail, Setting, Voltage,
                     kMinOutputVoltage, kMaxOutputVoltage
<1>2. SettingOf(NaNText) \in Setting
  BY DEF NaNText, SettingOf, Setting
<1>. QED
  BY <1>1, <1>2

\* An Update() sets the level of the setting that it leaves.
LEMMA LevelStep ==
  ASSUME volt \in Setting, Next
  PROVE  volt' \in Setting /\ level' \in Levels(volt') /\ running' = TRUE
<1>1. CASE Update
  BY <1>1 DEF Update
<1>2. ASSUME NEW n \in Requests, UpdateWrite(Text1(n))
      PROVE  volt' \in Setting /\ level' \in Levels(volt') /\ running' = TRUE
  BY <1>2, SettingType DEF UpdateWrite
<1>3. CASE UpdateWrite(NaNText)
  BY <1>3, SettingType DEF UpdateWrite
<1>. QED
  BY <1>1, <1>2, <1>3 DEF Next

LEMMA OutputInvariant == Spec => [](TypeOK /\ LevelSet)
<1>1. Init => TypeOK /\ LevelSet
  <2>1. 0 \in Setting
    BY SMT DEF Setting, Voltage, kMinOutputVoltage, kMaxOutputVoltage
  <2>2. 0 \in 0 .. kMaxPWMCount + 1
    BY SMT DEF kMaxPWMCount
  <2>. QED
    BY <2>1, <2>2, Zenon DEF Init, TypeOK, LevelSet, kPWMDefaultDuty
<1>2. TypeOK /\ LevelSet /\ [Next]_vars => TypeOK' /\ LevelSet'
  <2>. SUFFICES ASSUME TypeOK, LevelSet, [Next]_vars
                PROVE  TypeOK' /\ LevelSet'
    OBVIOUS
  <2>1. CASE UNCHANGED vars
    BY <2>1 DEF vars, TypeOK, LevelSet
  <2>2. CASE Next
    <3>1. volt' \in Setting /\ level' \in Levels(volt') /\ running' = TRUE
      BY <2>2, LevelStep DEF TypeOK
    <3>2. Levels(volt') \subseteq 1 .. kMaxPWMCount + 1
      BY <3>1, LevelsOf
    <3>3. 1 .. kMaxPWMCount + 1 \subseteq 0 .. kMaxPWMCount + 1
      BY SMT DEF kMaxPWMCount
    <3>. QED
      BY <3>1, <3>2, <3>3, Zenon DEF TypeOK, LevelSet
  <2>. QED
    BY <2>1, <2>2
<1>. QED
  BY <1>1, <1>2, PTL DEF Spec

\* The types of the setting and of the level.
THEOREM TypeCorrect == Spec => []TypeOK
  BY OutputInvariant, PTL

\* A cell that runs never drives its output with the full supply: the highest
\* setting asks for less, and not-a-number for next to nothing.
THEOREM NotFullScaleCorrect == Spec => []NotFullScale
<1>1. TypeOK /\ LevelSet => NotFullScale
  <2>. SUFFICES ASSUME volt \in Setting, level \in Levels(volt)
                PROVE  level > 0
    BY DEF TypeOK, LevelSet, NotFullScale
  <2>1. level \in 1 .. kMaxPWMCount + 1
    BY LevelsOf, Zenon
  <2>. QED
    BY <2>1, SMT DEF kMaxPWMCount
<1>. QED
  BY <1>1, OutputInvariant, PTL

\* Two settings that a step leads from and to, with their levels.
LEMMA LevelOrder ==
  ASSUME NEW v \in Setting, NEW w \in Setting, v # NotANumber, w # NotANumber,
         NEW a \in Levels(v), NEW b \in Levels(w), v < w
  PROVE  a \in Int /\ b \in Int /\ b <= a /\ (7 <= v => b < a)
<1>1. v \in 0 .. 450 /\ w \in 0 .. 450
  BY SettingCases
<1>2. a = Duty(PwmVoltage(v)) /\ b = Duty(PwmVoltage(w))
  BY LevelsOf
<1>. QED
  BY <1>1, <1>2, LevelFalls, ZenonT(30)

\* A higher setting never gives a lower voltage, whatever was set before.
THEOREM MonotoneCorrect == Spec => Monotone
<1> DEFINE Follows ==
      running /\ volt # NotANumber /\ volt' > volt => level' <= level
<1>1. TypeOK /\ LevelSet /\ [Next]_vars => [Follows]_vars
  <2>. SUFFICES ASSUME TypeOK, LevelSet, Next,
                       running, volt # NotANumber, volt' > volt
                PROVE  level' <= level
    OBVIOUS
  <2>1. volt \in Setting /\ level \in Levels(volt)
    BY DEF TypeOK, LevelSet
  <2>2. volt' \in Setting /\ level' \in Levels(volt')
    BY <2>1, LevelStep
  <2>3. volt \in 0 .. 450 /\ volt < volt'
    <3>1. volt \in 0 .. 450
      BY <2>1, SettingCases
    <3>2. volt' \in Int
      BY <2>2, SMT DEF Setting, Voltage, NotANumber, kMinOutputVoltage,
                       kMaxOutputVoltage
    <3>. QED
      BY <3>1, <3>2, SMT
  <2>4. volt' # NotANumber
    <3>1. volt' # -1
      BY <2>3, SMT
    <3>. QED
      BY <3>1 DEF NotANumber
  <2>. QED
    BY <2>1, <2>2, <2>3, <2>4, LevelOrder
<1>. QED
  BY <1>1, OutputInvariant, PTL DEF Spec, Monotone

\* Above the dead band no two settings share a level: neither the resolution of the
\* PWM nor the upper rail takes a setting from the master.
THEOREM ResolvedCorrect == Spec => Resolved
<1> DEFINE Apart ==
      running /\ volt >= DeadBand /\ volt' >= DeadBand /\ volt' # volt
        => level' # level
<1>1. TypeOK /\ LevelSet /\ [Next]_vars => [Apart]_vars
  <2>. SUFFICES ASSUME TypeOK, LevelSet, Next, running, volt >= DeadBand,
                       volt' >= DeadBand, volt' # volt
                PROVE  level' # level
    OBVIOUS
  <2>1. volt \in Setting /\ level \in Levels(volt)
    BY DEF TypeOK, LevelSet
  <2>2. volt' \in Setting /\ level' \in Levels(volt')
    BY <2>1, LevelStep
  <2>3. \A v \in Setting : v \in Int
    BY SMT DEF Setting, Voltage, NotANumber, kMinOutputVoltage, kMaxOutputVoltage
  <2>4. 7 <= volt /\ 7 <= volt' /\ (volt < volt' \/ volt' < volt)
    BY <2>1, <2>2, <2>3, SMT DEF DeadBand
  <2>5. volt # NotANumber /\ volt' # NotANumber
    BY <2>4, SMT DEF NotANumber
  <2>6. CASE volt < volt'
    <3>1. level \in Int /\ level' \in Int /\ level' < level
      BY <2>1, <2>2, <2>4, <2>5, <2>6, LevelOrder, Zenon
    <3>. QED
      BY <3>1, SMT
  <2>7. CASE volt' < volt
    <3>1. level \in Int /\ level' \in Int /\ level < level'
      BY <2>1, <2>2, <2>4, <2>5, <2>7, LevelOrder, Zenon
    <3>. QED
      BY <3>1, SMT
  <2>. QED
    BY <2>4, <2>6, <2>7
<1>. QED
  BY <1>1, OutputInvariant, PTL DEF Spec, Resolved

=============================================================================
