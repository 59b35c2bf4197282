-------------------------- MODULE SCBSTimingProofs --------------------------
(***************************************************************************)
(* Proofs about the ring in real time (SCBSTiming), for every number of    *)
(* cells, every depth of the FIFOs and every number of rounds: which lines *)
(* each link can carry, that readline() never returns a part of an answer, *)
(* that no cell gets stuck in front of a full receive buffer, that no      *)
(* receive FIFO overruns before a readline has timed out, and what a       *)
(* multiple read brings back.                                              *)
(***************************************************************************)
EXTENDS SCBSTiming, SCBSCellProofs

\* A character that ends one of the lines L, or none.
CharOf(L) == {<<>>} \cup {<<l>> : l \in L}

(***************************************************************************)
(* Sequences of characters.                                                *)
(***************************************************************************)

\* The contents of a sentence are a comma short of those of its fields.
LEMMA ContentsLower ==
  ASSUME NEW s \in Seq(Text)
  PROVE  ContentsLen(s) \in Int /\ ContentsLen(s) >= -1
<1>1. Len(s) \in Nat /\ \A k \in 1 .. Len(s) : s[k].len \in Nat
  <2>1. \A k \in 1 .. Len(s) : s[k] \in Text
    BY ElementOfSeq
  <2>. QED
    BY <2>1, LenProperties DEF Text
<1>2. PICK f \in [0 .. Len(s) -> Int] : Sums(f, s) /\ ContentsLen(s) = f[Len(s)]
  BY <1>1, SumsExist
<1> DEFINE S == {n \in Nat : n <= Len(s) => f[n] >= -1}
<1>3. \A k \in 0 .. Len(s) : f[k] = IF k = 0 THEN -1 ELSE f[k-1] + 1 + s[k].len
  BY <1>2 DEF Sums
<1>4. 0 \in S
  BY <1>1, <1>3
<1>5. ASSUME NEW n \in Nat, n \in S
      PROVE  n + 1 \in S
  <2>. SUFFICES ASSUME n + 1 <= Len(s) PROVE f[n+1] >= -1
    OBVIOUS
  <2>1. /\ n + 1 \in 0 .. Len(s) /\ n + 1 \in 1 .. Len(s) /\ n + 1 # 0
        /\ (n + 1) - 1 = n /\ n \in 0 .. Len(s)
    BY <1>1
  <2>2. f[n+1] = f[n] + 1 + s[n+1].len
    BY <1>3, <2>1
  <2>3. f[n] \in Int /\ f[n] >= -1 /\ s[n+1].len \in Nat
    BY <1>1, <1>2, <1>5, <2>1
  <2>. QED
    BY <2>2, <2>3
<1>6. Nat \subseteq S
  <2>. HIDE DEF S
  <2>. QED
    BY <1>4, <1>5, NatSetInduction
<1>. QED
  BY <1>1, <1>2, <1>6

\* A sentence has at least one character, and only its last ends it.
LEMMA CharsPost ==
  ASSUME NEW L \in SUBSET GoodLine, NEW line \in L
  PROVE  /\ Chars(line) \in Seq(CharOf(L)) /\ Chars(line) # <<>>
         /\ Len(Chars(line)) = LineLen(line)
         /\ Ends(Chars(line)) = {Len(Chars(line))}
<1>1. LineLen(line) \in Nat \ {0}
  <2>1. line.fields \in Seq(Text)
    BY DEF GoodLine, Line
  <2>2. ContentsLen(line.fields) \in Int /\ ContentsLen(line.fields) >= -1
    BY <2>1, ContentsLower
  <2>. QED
    BY <2>2 DEF LineLen, kPacketHeaderLen
<1> DEFINE n == LineLen(line)
           s == Chars(line)
<1>2. s = [k \in 1 .. n |-> IF k = n THEN <<line>> ELSE <<>>]
  BY DEF Chars
<1>. HIDE DEF n, s
<1>3. n \in Nat \ {0}
  BY <1>1 DEF n
<1>4. s \in Seq(CharOf(L)) /\ Len(s) = n /\ DOMAIN s = 1 .. n
  BY <1>2, <1>3 DEF CharOf
<1>5. Ends(s) = {n}
  BY <1>2, <1>3, <1>4 DEF Ends
<1>. QED
  BY <1>3, <1>4, <1>5 DEF n, s

\* What is left of a sequence without its first m elements.
LEMMA Dropped ==
  ASSUME NEW T, NEW s \in Seq(T), NEW m \in 0 .. Len(s)
  PROVE  LET u == SubSeq(s, m + 1, Len(s))
         IN  /\ u \in Seq(T) /\ Len(u) = Len(s) - m
             /\ \A k \in 1 .. Len(u) : u[k] = s[k + m]
  OBVIOUS

\* Its first m elements.
LEMMA Prefix ==
  ASSUME NEW T, NEW s \in Seq(T), NEW m \in 0 .. Len(s)
  PROVE  LET u == SubSeq(s, 1, m)
         IN  u \in Seq(T) /\ Len(u) = m /\ \A k \in 1 .. m : u[k] = s[k]
  OBVIOUS

\* SubSeq(s, 2, Len(s)) of the transmitters, also of an empty one.
LEMMA DroppedFirst ==
  ASSUME NEW T, NEW s \in Seq(T)
  PROVE  LET u == SubSeq(s, 2, Len(s))
         IN  /\ u \in Seq(T) /\ Len(u) = IF s = <<>> THEN 0 ELSE Len(s) - 1
             /\ s = <<>> => u = <<>>
             /\ \A k \in 1 .. Len(u) : u[k] = s[k + 1]
<1>1. CASE s = <<>>
  BY <1>1
<1>2. CASE s # <<>>
  <2>1. Len(s) \in Nat \ {0}
    BY <1>2, EmptySeq, LenProperties
  <2> DEFINE u == SubSeq(s, 2, Len(s))
  <2>2. /\ u \in Seq(T) /\ Len(u) = Len(s) - 1
        /\ \A k \in 1 .. Len(u) : u[k] = s[k + 1]
    <3>1. \A i \in 2 .. Len(s) : s[i] \in T
      BY ElementOfSeq
    <3>2. /\ u \in Seq(T) /\ Len(u) = IF 2 <= Len(s) THEN Len(s) - 2 + 1 ELSE 0
          /\ \A i \in 1 .. Len(s) - 2 + 1 : u[i] = s[2 + i - 1]
      BY <2>1, <3>1, SubSeqProperties
    <3>. HIDE DEF u
    <3>3. \A n, m : n \in Nat \ {0} /\ m = (IF 2 <= n THEN n - 2 + 1 ELSE 0) => m = n - 1
      OBVIOUS
    <3>4. Len(u) = Len(s) - 1
      BY <2>1, <3>2, <3>3, Zenon
    <3>5. \A n \in Nat \ {0} : \A k \in 1 .. n - 1 : 2 + k - 1 = k + 1 /\ k \in 1 .. n - 2 + 1
      OBVIOUS
    <3>. QED
      BY <2>1, <3>2, <3>4, <3>5
  <2>. HIDE DEF u
  <2>3. /\ u \in Seq(T) /\ Len(u) = IF s = <<>> THEN 0 ELSE Len(s) - 1
        /\ s = <<>> => u = <<>>
        /\ \A k \in 1 .. Len(u) : u[k] = s[k + 1]
    BY <1>2, <2>2, Zenon
  <2>. QED
    BY <2>3 DEF u
<1>. QED
  BY <1>1, <1>2

\* Where the sentences of two sequences of characters end, one behind the other.
LEMMA EndsConcat ==
  ASSUME NEW T, NEW s \in Seq(T), NEW u \in Seq(T)
  PROVE  /\ s \o u \in Seq(T) /\ Len(s \o u) = Len(s) + Len(u)
         /\ \A k \in Ends(s) : k \in Ends(s \o u) /\ (s \o u)[k] = s[k]
         /\ \A k \in Ends(u) : k + Len(s) \in Ends(s \o u)
         /\ \A k \in Ends(s \o u) : k \in Ends(s) \/ k - Len(s) \in Ends(u)
  BY DEF Ends

\* The end of the first sentence is an end.
LEMMA FirstEndPost ==
  ASSUME NEW T, NEW s \in Seq(T), Ends(s) # {}
  PROVE  FirstEnd(s) \in Ends(s) /\ \A l \in Ends(s) : FirstEnd(s) <= l
<1>1. Ends(s) \in SUBSET Nat
  BY DEF Ends
<1>2. \E k \in Ends(s) : \A l \in Ends(s) : k <= l
  BY <1>1, LeastNat
<1>. QED
  BY <1>2 DEF FirstEnd

(***************************************************************************)
(* What the links carry.                                                   *)
(***************************************************************************)

RingType ==
  /\ size \in Nat \ {0} /\ program \in Programs
  /\ cell \in [Cells -> Cell] /\ DOMAIN fifo = Cells /\ DOMAIN tx = 0 .. size
  /\ held \in [Cells -> 0 .. kMaxUARTBufLen - 1]
  /\ master \in [reading : BOOLEAN, silent : Nat, sent : Nat, missed : Nat]
  /\ overrun \in BOOLEAN

\* L[i] are lines that cell i (0: the master) may send.
Streams(L) ==
  /\ \A i \in Cells : fifo[i] \in Seq(CharOf(L[i-1]))
  /\ \A i \in 0 .. size : tx[i] \in Seq(CharOf(L[i]))
  /\ inbox \in Seq(CharOf(L[size]))

\* ReceivePacket() takes the first characters of the FIFO that fit the buffer, none
\* behind the end of a sentence.
LEMMA TakenPost ==
  ASSUME NEW T, NEW i \in Cells, fifo[i] \in Seq(T), held[i] \in 0 .. kMaxUARTBufLen - 1
  PROVE  LET t == Taken(i)
         IN  /\ t \in Seq(T) /\ Len(t) \in 0 .. Len(fifo[i])
             /\ held[i] + Len(t) \in 0 .. kMaxUARTBufLen - 1
             /\ \A k \in 1 .. Len(t) : t[k] = fifo[i][k]
             /\ Ends(t) \subseteq {Len(t)}
<1> DEFINE s == fifo[i]
           n == IF Len(s) <= Room(i) THEN Len(s) ELSE Room(i)
           u == Fitting(i)
           t == Taken(i)
<1>1. n \in 0 .. Len(s) /\ held[i] + n \in 0 .. kMaxUARTBufLen - 1
  BY LenProperties, TimingAssumption DEF Room
<1>2. u \in Seq(T) /\ Len(u) = n /\ \A k \in 1 .. n : u[k] = s[k]
  <2>1. u = SubSeq(s, 1, n)
    BY DEF Fitting
  <2>. HIDE DEF n, s, u
  <2>2. s \in Seq(T)
    BY DEF s
  <2>. QED
    BY <1>1, <2>1, <2>2, Prefix
<1>. HIDE DEF n
<1>3. CASE Blocked(i)
  <2>1. t = <<>>
    BY <1>3 DEF Taken
  <2>2. Len(<<>>) = 0 /\ Ends(<<>>) = {} /\ <<>> \in Seq(T)
    BY DEF Ends
  <2>3. Len(s) \in Nat /\ held[i] \in Int
    BY LenProperties, TimingAssumption
  <2>. QED
    BY <2>1, <2>2, <2>3
<1>4. CASE ~ Blocked(i) /\ Ends(u) = {}
  <2>1. t = u
    BY <1>4 DEF Taken
  <2>. QED
    BY <1>1, <1>2, <1>4, <2>1
<1>5. CASE ~ Blocked(i) /\ Ends(u) # {}
  <2> DEFINE m == FirstEnd(u)
  <2>1. m \in Ends(u) /\ \A l \in Ends(u) : m <= l
    BY <1>2, <1>5, FirstEndPost
  <2>2. DOMAIN u = 1 .. n
    BY <1>2, LenProperties
  <2>3. m \in 1 .. n
    BY <2>1, <2>2 DEF Ends
  <2>4. t = SubSeq(u, 1, m)
    BY <1>5 DEF Taken
  <2>. HIDE DEF m, u, t, s
  <2>5. m \in 0 .. Len(u) /\ n \in Int /\ Len(s) \in Int
    BY <1>1, <1>2, <2>3
  <2>6. t \in Seq(T) /\ Len(t) = m /\ \A k \in 1 .. m : t[k] = u[k]
    BY <1>2, <2>4, <2>5, Prefix
  <2>7. \A k \in 1 .. m : k \in 1 .. n
    BY <2>3, <2>5
  <2>8. \A k \in 1 .. m : t[k] = s[k]
    BY <1>2, <2>6, <2>7
  <2>9. DOMAIN t = 1 .. m
    BY <2>6, LenProperties
  <2>10. Ends(t) \subseteq {m}
    <3>. SUFFICES ASSUME NEW k \in 1 .. m, t[k] # <<>> PROVE k = m
      BY <2>9 DEF Ends
    <3>1. k \in Ends(u)
      BY <2>2, <2>6, <2>7 DEF Ends
    <3>. QED
      BY <2>1, <2>3, <3>1
  <2>11. m \in 0 .. Len(s) /\ held[i] + m \in 0 .. kMaxUARTBufLen - 1
    BY <1>1, <2>3, TimingAssumption
  <2>. QED
    BY <2>6, <2>8, <2>10, <2>11 DEF s, t
<1>. QED
  BY <1>3, <1>4, <1>5

\* With the end of a sentence Update() processes that sentence and flushes the buffer.
LEMMA UpdatedPost ==
  ASSUME NEW L \in SUBSET GoodLine, NEW i \in Cells, held[i] \in 0 .. kMaxUARTBufLen - 1,
         cell[i] \in Cell, fifo[i] \in Seq(CharOf(L))
  PROVE  /\ Left(i) \in Seq(CharOf(L)) /\ Updated(i).cell \in Cell
         /\ Updated(i).held \in 0 .. kMaxUARTBufLen - 1
         /\ \/ /\ Ends(Taken(i)) = {} /\ Updated(i).out = <<>>
               /\ Updated(i).held = held[i] + Len(Taken(i))
            \/ /\ Ends(Taken(i)) # {} /\ Updated(i).held = 0
               /\ \E l \in L : /\ Updated(i).out = Process(cell[i], l).out
                               /\ Ends(fifo[i]) # {}
         /\ Updated(i).out = <<>> \/ \E m \in GoodLine : Updated(i).out = <<m>>
<1> DEFINE T == CharOf(L)
           s == fifo[i]
           t == Taken(i)
<1>1. /\ t \in Seq(T) /\ Len(t) \in 0 .. Len(s) /\ \A k \in 1 .. Len(t) : t[k] = s[k]
      /\ held[i] + Len(t) \in 0 .. kMaxUARTBufLen - 1
      /\ Ends(t) \subseteq {Len(t)}
  BY TakenPost
<1>2. Left(i) \in Seq(T)
  <2>1. Left(i) = SubSeq(s, Len(t) + 1, Len(s))
    BY DEF Left
  <2>. HIDE DEF s, t, T
  <2>. QED
    BY <1>1, <2>1, Dropped DEF s, T
<1>3. CASE Ends(t) = {}
  <2>1. Updated(i) = [cell |-> cell[i], out |-> <<>>, held |-> held[i] + Len(t)]
    BY <1>3 DEF Updated
  <2>. QED
    BY <1>1, <1>2, <1>3, <2>1
<1>4. CASE Ends(t) # {}
  <2>. HIDE DEF t, s, T
  <2>1. DOMAIN t = 1 .. Len(t) /\ DOMAIN s = 1 .. Len(s) /\ Len(s) \in Nat
    BY <1>1, LenProperties DEF s, T
  <2>2. Len(t) \in Ends(t)
    BY <1>1, <1>4
  <2>3. Len(t) \in 1 .. Len(t) /\ t[Len(t)] # <<>>
    BY <2>1, <2>2 DEF Ends
  <2>4. Len(t) \in 1 .. Len(s) /\ s[Len(t)] # <<>>
    BY <1>1, <2>1, <2>3
  <2>5. Ends(s) # {}
    BY <2>1, <2>4 DEF Ends
  <2>6. t[Len(t)] \in T
    BY <1>1, <2>3, ElementOfSeq
  <2>7. PICK l \in L : t[Len(t)] = <<l>>
    BY <2>3, <2>6 DEF CharOf, T
  <2> DEFINE r == Process(cell[i], l)
  <2>8. Updated(i) = [cell |-> r.cell, out |-> r.out, held |-> 0]
    BY <1>4, <2>7 DEF Updated, t
  <2>9. SentencePost(l, r)
    BY ProcessPost
  <2>10. 0 \in 0 .. kMaxUARTBufLen - 1
    BY TimingAssumption
  <2>. HIDE DEF r
  <2>11. /\ Updated(i).cell = r.cell /\ Updated(i).out = r.out /\ Updated(i).held = 0
    BY <2>8
  <2>12. r.cell \in Cell /\ (r.out = <<>> \/ \E m \in GoodLine : r.out = <<m>>)
    BY <2>9 DEF SentencePost
  <2>. QED
    BY <1>2, <1>4, <2>5, <2>10, <2>11, <2>12 DEF s, t, T, r
<1>. QED
  BY <1>3, <1>4

LEMMA RequestsPost == UtilsRequests \cup {SpammerRequest} \subseteq Request
<1>1. 0 \in Id /\ <<>> \in Seq(Text) /\ Len(<<>>) = 0
  BY PacketAssumption DEF Id
<1>2. kRegAddrReadOutputCurrent \in Nat
  BY SMT DEF kRegAddrReadOutputCurrent
<1>3. SpammerRequest \in Request
  BY <1>1, <1>2 DEF SpammerRequest, Request, PacketTypes, HasValue
<1>. QED
  BY <1>3, TimingAssumption

LEMMA ProgramPost ==
  ASSUME program \in Programs
  PROVE  /\ program.requests \subseteq Request
         /\ program.requests \subseteq UtilsRequests \cup {SpammerRequest}
         /\ program.timeout \in Nat \ {0} /\ program.rounds \in Nat
<1>2. UtilsTimeout \in Nat \ {0} /\ SpammerTimeout \in Nat \ {0}
  BY SMT DEF UtilsTimeout, SpammerTimeout, CharsPerSecond
<1>3. program.requests \subseteq UtilsRequests \cup {SpammerRequest}
  BY DEF Programs
<1>4. program.timeout \in {UtilsTimeout, SpammerTimeout} /\ program.rounds \in {1, MaxRepeats}
  BY DEF Programs
<1>. QED
  BY <1>2, <1>3, <1>4, RequestsPost, TimingAssumption

LEMMA ArrivingPost ==
  ASSUME NEW T, NEW i \in 1 .. size + 1, tx[i-1] \in Seq(T)
  PROVE  /\ Arriving(i) \in Seq(T)
         /\ tx[i-1] = <<>> => Arriving(i) = <<>>
         /\ tx[i-1] # <<>> => Arriving(i) = <<tx[i-1][1]>> /\ Arriving(i) # <<>>
<1>1. CASE tx[i-1] = <<>>
  BY <1>1 DEF Arriving
<1>2. CASE tx[i-1] # <<>>
  <2>1. Head(tx[i-1]) = tx[i-1][1] /\ Head(tx[i-1]) \in T
    BY <1>2, HeadTailProperties
  <2>2. Arriving(i) = <<Head(tx[i-1])>>
    BY <1>2 DEF Arriving
  <2>. QED
    BY <1>2, <2>1, <2>2
<1>. QED
  BY <1>1, <1>2

\* What a cell adds to its transmit FIFO.
Reply(i) == IF i = 0 \/ Updated(i).out = <<>> THEN <<>> ELSE Chars(Updated(i).out[1])

\* L is closed: a cell makes lines of L[i] from lines of L[i-1], the master sends
\* lines of L[0].
Closed(L) ==
  /\ \A n \in Nat : L[n] \in SUBSET GoodLine
  /\ \A r \in UtilsRequests \cup {SpammerRequest} : Packetize(r) \in L[0]
  /\ \A i \in 1 .. size : \A c \in Cell : \A l \in L[i-1] : \A m :
       Process(c, l).out = <<m>> => m \in L[i]

LEMMA ReplyPost ==
  ASSUME NEW L, Closed(L), RingType, Streams(L), NEW i \in 0 .. size
  PROVE  \/ Reply(i) = <<>>
         \/ /\ i > 0 /\ Ends(fifo[i]) # {}
            /\ \E m \in L[i] : Reply(i) = Chars(m)
<1>1. CASE i = 0
  BY <1>1 DEF Reply
<1>2. CASE i # 0
  <2>1. i \in 1 .. size /\ i \in Nat /\ i - 1 \in Nat /\ i > 0
    BY <1>2 DEF RingType
  <2>2. /\ L[i-1] \in SUBSET GoodLine /\ cell[i] \in Cell
        /\ fifo[i] \in Seq(CharOf(L[i-1])) /\ i \in Cells
        /\ held[i] \in 0 .. kMaxUARTBufLen - 1
    BY <2>1 DEF Closed, RingType, Streams, Cells
  <2>3. \/ Updated(i).out = <<>>
        \/ \E l \in L[i-1] : /\ Updated(i).out = Process(cell[i], l).out
                             /\ Ends(fifo[i]) # {}
    BY <2>2, UpdatedPost
  <2>4. Updated(i).out = <<>> \/ \E m \in GoodLine : Updated(i).out = <<m>>
    BY <2>2, UpdatedPost
  <2>5. CASE Updated(i).out = <<>>
    BY <2>5 DEF Reply
  <2>6. CASE Updated(i).out # <<>>
    <3>1. PICK m \in GoodLine : Updated(i).out = <<m>>
      BY <2>4, <2>6
    <3>2. PICK l \in L[i-1] : Updated(i).out = Process(cell[i], l).out /\ Ends(fifo[i]) # {}
      BY <2>3, <2>6
    <3>3. Process(cell[i], l).out = <<m>>
      BY <3>1, <3>2
    <3>4. m \in L[i]
      BY <2>1, <2>2, <3>3 DEF Closed
    <3>5. Reply(i) = Chars(m)
      BY <1>2, <2>6, <3>1 DEF Reply
    <3>. QED
      BY <2>1, <3>2, <3>4, <3>5
  <2>. QED
    BY <2>5, <2>6
<1>. QED
  BY <1>1, <1>2

LEMMA InitStreams ==
  ASSUME NEW L, Closed(L), Init
  PROVE  RingType /\ Streams(L)
<1>1. size \in Nat \ {0} /\ size \in Id /\ program \in Programs
  BY TimingAssumption, PacketAssumption DEF Init, Id
<1>2. cell \in [Cells -> Cell]
  <2>1. PICK a \in Readings : cell = [i \in Cells |-> [id |-> i, volt |-> 0, amp |-> a]]
    BY DEF Init
  <2>2. a \in Current /\ 0 \in Setting
    BY TimingAssumption DEF Setting, Voltage, kMaxOutputVoltage, kMinOutputVoltage
  <2>3. \A i \in Cells : i \in Id
    BY <1>1, PacketAssumption DEF Cells, Id
  <2>. QED
    BY <2>1, <2>2, <2>3 DEF Cell
<1>3. /\ DOMAIN fifo = Cells /\ DOMAIN tx = 0 .. size /\ overrun \in BOOLEAN
      /\ held \in [Cells -> 0 .. kMaxUARTBufLen - 1]
  <2>1. DOMAIN fifo = Cells /\ DOMAIN tx = 0 .. size /\ overrun \in BOOLEAN
    BY DEF Init
  <2>2. 0 \in 0 .. kMaxUARTBufLen - 1
    BY TimingAssumption
  <2>. QED
    BY <2>1, <2>2 DEF Init
<1>4. master \in [reading : BOOLEAN, silent : Nat, sent : Nat, missed : Nat]
  BY DEF Init
<1>5. Streams(L)
  <2>1. \A i \in Cells : fifo[i] = <<>>
    BY DEF Init
  <2>2. \A i \in 0 .. size : tx[i] = <<>>
    BY DEF Init
  <2>3. inbox = <<>>
    BY DEF Init
  <2>4. \A T : <<>> \in Seq(T)
    OBVIOUS
  <2>. QED
    BY <2>1, <2>2, <2>3, <2>4, Zenon DEF Streams
<1>. QED
  BY <1>1, <1>2, <1>3, <1>4, <1>5 DEF RingType

LEMMA TransmitStreams ==
  ASSUME NEW L, Closed(L), RingType, Streams(L), NEW r \in program.requests, Transmit(r)
  PROVE  RingType' /\ Streams(L)' /\ tx' = [tx EXCEPT ![0] = @ \o Chars(Packetize(r))]
         /\ Packetize(r) \in L[0]
<1> DEFINE s == Chars(Packetize(r))
<1>1. L[0] \in SUBSET GoodLine /\ Packetize(r) \in L[0]
  BY ProgramPost DEF Closed, RingType
<1>2. s \in Seq(CharOf(L[0]))
  BY <1>1, CharsPost
<1>. HIDE DEF s
<1>3. tx' = [tx EXCEPT ![0] = tx[0] \o s] /\ tx' = [tx EXCEPT ![0] = @ \o s]
  BY DEF Transmit, s
<1>4. 0 \in 0 .. size /\ tx[0] \in Seq(CharOf(L[0]))
  BY DEF RingType, Streams
<1>5. tx[0] \o s \in Seq(CharOf(L[0]))
  BY <1>2, <1>4
<1>6. DOMAIN tx' = 0 .. size /\ \A i \in 0 .. size : tx'[i] \in Seq(CharOf(L[i]))
  <2>1. tx'[0] \in Seq(CharOf(L[0])) /\ \A i \in 0 .. size : i # 0 => tx'[i] = tx[i]
    BY <1>3, <1>4, <1>5 DEF RingType
  <2>2. DOMAIN tx' = 0 .. size
    BY <1>3 DEF RingType
  <2>3. \A i \in 0 .. size : tx[i] \in Seq(CharOf(L[i]))
    BY DEF Streams
  <2>. QED
    BY <2>1, <2>2, <2>3, Zenon
<1>7. Streams(L)'
  BY <1>6 DEF Streams, Transmit, Cells
<1>8. RingType'
  <2>1. master' \in [reading : BOOLEAN, silent : Nat, sent : Nat, missed : Nat]
    <3>1. master' = [reading |-> TRUE, silent |-> 0, sent |-> master.sent + 1,
                     missed |-> master.missed]
      BY DEF RingType, Transmit
    <3>2. master.sent + 1 \in Nat /\ master.missed \in Nat
      BY DEF RingType
    <3>. QED
      BY <3>1, <3>2
  <2>. QED
    BY <1>6, <2>1 DEF RingType, Transmit, Cells
<1>. QED
  BY <1>1, <1>3, <1>7, <1>8 DEF s

LEMMA ReadLineStreams ==
  ASSUME NEW L, RingType, Streams(L), ReadLine
  PROVE  RingType' /\ Streams(L)'
<1>1. inbox \in Seq(CharOf(L[size]))
  BY DEF Streams
<1>2. FirstEnd(inbox) \in 0 .. Len(inbox)
  BY <1>1, FirstEndPost DEF ReadLine, Ends
<1>3. inbox' \in Seq(CharOf(L[size]))
  BY <1>1, <1>2, Dropped DEF ReadLine
<1>4. Streams(L)'
  BY <1>3 DEF Streams, ReadLine, Cells
<1>5. RingType'
  <2>1. master' \in [reading : BOOLEAN, silent : Nat, sent : Nat, missed : Nat]
    BY DEF RingType, ReadLine
  <2>. QED
    BY <2>1 DEF RingType, ReadLine, Cells
<1>. QED
  BY <1>4, <1>5

LEMMA ReadTimeoutStreams ==
  ASSUME NEW L, RingType, Streams(L), ReadTimeout
  PROVE  RingType' /\ Streams(L)'
<1>1. inbox' \in Seq(CharOf(L[size]))
  BY DEF ReadTimeout
<1>2. Streams(L)'
  BY <1>1 DEF Streams, ReadTimeout, Cells
<1>3. RingType'
  <2>1. master' \in [reading : BOOLEAN, silent : Nat, sent : Nat, missed : Nat]
    <3>1. master' = [reading |-> FALSE, silent |-> master.silent, sent |-> master.sent,
                     missed |-> master.missed + 1]
      BY DEF RingType, ReadTimeout
    <3>2. master.silent \in Nat /\ master.sent \in Nat /\ master.missed + 1 \in Nat
      BY DEF RingType
    <3>. QED
      BY <3>1, <3>2
  <2>. QED
    BY <2>1 DEF RingType, ReadTimeout, Cells
<1>. QED
  BY <1>2, <1>3

\* Every sequence of characters after a Tick.
LEMMA TickStreams ==
  ASSUME NEW L, Closed(L), RingType, Streams(L), Tick
  PROVE  /\ RingType' /\ Streams(L)'
         /\ \A i \in 0 .. size : tx'[i] = SubSeq(tx[i], 2, Len(tx[i])) \o Reply(i)
         /\ inbox' = inbox \o Arriving(size + 1)
<1>1. /\ size' = size /\ program' = program /\ size \in Nat \ {0}
      /\ size + 1 \in 1 .. size + 1 /\ (size + 1) - 1 = size /\ size \in 0 .. size
  <2>1. size' = size /\ program' = program
    BY DEF Tick
  <2>2. size \in Nat \ {0}
    BY DEF RingType
  <2>3. \A n \in Nat \ {0} : n + 1 \in 1 .. n + 1 /\ (n + 1) - 1 = n /\ n \in 0 .. n
    OBVIOUS
  <2>. QED
    BY <2>1, <2>2, <2>3, Zenon
<1>2. inbox' = inbox \o Arriving(size + 1) /\ inbox' \in Seq(CharOf(L[size]))
  <2>1. inbox' = inbox \o Arriving(size + 1)
    BY DEF Tick
  <2>2. tx[size] \in Seq(CharOf(L[size])) /\ inbox \in Seq(CharOf(L[size]))
    BY <1>1 DEF Streams
  <2>3. Arriving(size + 1) \in Seq(CharOf(L[size]))
    BY <1>1, <2>2, ArrivingPost
  <2>. QED
    BY <2>1, <2>2, <2>3
<1>3. \A i \in 0 .. size : tx'[i] = SubSeq(tx[i], 2, Len(tx[i])) \o Reply(i)
  BY DEF Tick, Reply
<1>4. ASSUME NEW i \in 0 .. size
      PROVE  tx'[i] \in Seq(CharOf(L[i]))
  <2>1. tx[i] \in Seq(CharOf(L[i])) /\ L[i] \in SUBSET GoodLine
    BY <1>1 DEF Streams, Closed
  <2>2. Reply(i) \in Seq(CharOf(L[i]))
    <3>1. Reply(i) = <<>> \/ \E m \in L[i] : Reply(i) = Chars(m)
      BY ReplyPost
    <3>2. \A m \in L[i] : Chars(m) \in Seq(CharOf(L[i]))
      BY <2>1, CharsPost
    <3>3. <<>> \in Seq(CharOf(L[i]))
      OBVIOUS
    <3>. QED
      BY <3>1, <3>2, <3>3, Zenon
  <2>3. SubSeq(tx[i], 2, Len(tx[i])) \in Seq(CharOf(L[i]))
    BY <2>1, DroppedFirst
  <2>4. SubSeq(tx[i], 2, Len(tx[i])) \o Reply(i) \in Seq(CharOf(L[i]))
    BY <2>2, <2>3, ConcatProperties, Zenon
  <2>. QED
    BY <1>3, <2>4
<1>5. ASSUME NEW i \in Cells
      PROVE  /\ fifo'[i] \in Seq(CharOf(L[i-1])) /\ Updated(i).cell \in Cell
             /\ Updated(i).held \in 0 .. kMaxUARTBufLen - 1
  <2>1. i \in 1 .. size + 1 /\ i - 1 \in 0 .. size /\ i - 1 \in Nat
    BY <1>1 DEF Cells
  <2>2. /\ tx[i-1] \in Seq(CharOf(L[i-1])) /\ L[i-1] \in SUBSET GoodLine
        /\ fifo[i] \in Seq(CharOf(L[i-1])) /\ cell[i] \in Cell
        /\ held[i] \in 0 .. kMaxUARTBufLen - 1
    BY <2>1 DEF Streams, Closed, RingType
  <2>3. /\ Left(i) \in Seq(CharOf(L[i-1])) /\ Updated(i).cell \in Cell
        /\ Updated(i).held \in 0 .. kMaxUARTBufLen - 1
    BY <2>2, UpdatedPost
  <2>4. Arriving(i) \in Seq(CharOf(L[i-1]))
    BY <2>1, <2>2, ArrivingPost
  <2>5. fifo'[i] \in {Left(i) \o Arriving(i), Left(i)}
    BY DEF Tick
  <2>6. Left(i) \o Arriving(i) \in Seq(CharOf(L[i-1]))
    BY <2>3, <2>4, ConcatProperties, Zenon
  <2>. QED
    BY <2>3, <2>5, <2>6
<1>6. Streams(L)'
  BY <1>1, <1>2, <1>4, <1>5 DEF Streams, Cells
<1>7. RingType'
  <2>1. /\ cell' = [i \in Cells |-> Updated(i).cell]
        /\ held' = [i \in Cells |-> Updated(i).held]
    BY DEF Tick
  <2>2. cell' \in [Cells -> Cell] /\ held' \in [Cells -> 0 .. kMaxUARTBufLen - 1]
    BY <1>5, <2>1
  <2>3. DOMAIN fifo' = Cells /\ DOMAIN tx' = 0 .. size
    BY DEF Tick
  <2>4. overrun' \in BOOLEAN
    BY DEF Tick
  <2>5. master' \in [reading : BOOLEAN, silent : Nat, sent : Nat, missed : Nat]
    <3>1. Silence(master) \in Nat
      BY DEF Silence, RingType
    <3>. QED
      BY <3>1 DEF Tick, RingType
  <2>6. Cells' = Cells
    BY <1>1 DEF Cells
  <2>. QED
    BY <1>1, <2>2, <2>3, <2>4, <2>5, <2>6 DEF RingType
<1>. QED
  BY <1>2, <1>3, <1>6, <1>7

\* Every line a link carries has the fields a FromString takes.
GoodLines == [n \in Nat |-> GoodLine]

LEMMA GoodLinesClosed ==
  ASSUME size \in Nat
  PROVE  Closed(GoodLines)
<1>1. \A n \in Nat : GoodLines[n] = GoodLine
  BY DEF GoodLines
<1>2. \A r \in UtilsRequests \cup {SpammerRequest} : Packetize(r) \in GoodLine
  <2>1. \A r \in Request : Packetize(r) \in GoodLine
    BY PacketizeType
  <2>. QED
    BY <2>1, RequestsPost
<1>3. ASSUME NEW c \in Cell, NEW l \in GoodLine, NEW m, Process(c, l).out = <<m>>
      PROVE  m \in GoodLine
  BY <1>3, ProcessGood
<1>4. \A i \in 1 .. size : i \in Nat /\ i - 1 \in Nat
  OBVIOUS
<1>. QED
  BY <1>1, <1>2, <1>3, <1>4 DEF Closed

RingInv == RingType /\ Streams(GoodLines)

LEMMA RingInvStep ==
  ASSUME RingInv, [Next]_vars
  PROVE  RingInv'
<1>0. Closed(GoodLines)
  BY GoodLinesClosed DEF RingInv, RingType
<1>1. ASSUME NEW r \in program.requests, Transmit(r)
      PROVE  RingInv'
  BY <1>0, <1>1, TransmitStreams DEF RingInv
<1>2. CASE ReadLine
  BY <1>2, ReadLineStreams DEF RingInv
<1>3. CASE ReadTimeout
  BY <1>3, ReadTimeoutStreams DEF RingInv
<1>4. CASE Tick
  BY <1>0, <1>4, TickStreams DEF RingInv
<1>5. CASE UNCHANGED vars
  BY <1>5 DEF vars, RingInv, RingType, Streams, Cells
<1>. QED
  BY <1>1, <1>2, <1>3, <1>4, <1>5 DEF Next

LEMMA RingInvInit ==
  ASSUME Init
  PROVE  RingInv
<1>1. size \in Nat
  BY TimingAssumption, PacketAssumption DEF Init, Id
<1>. QED
  BY <1>1, GoodLinesClosed, InitStreams DEF RingInv

(***************************************************************************)
(* readline() never returns a part of an answer: a transmitter that sends  *)
(* a sentence goes on until its end, one character in each character time. *)
(***************************************************************************)

\* With its last character a sentence ends.
Closing(s) == s # <<>> => Len(s) \in Ends(s)

LEMMA ClosingDropped ==
  ASSUME NEW T, NEW s \in Seq(T), Closing(s), NEW m \in 0 .. Len(s)
  PROVE  Closing(SubSeq(s, m + 1, Len(s)))
<1> DEFINE u == SubSeq(s, m + 1, Len(s))
<1>1. /\ u \in Seq(T) /\ Len(u) = Len(s) - m
      /\ \A k \in 1 .. Len(u) : u[k] = s[k + m]
  BY Dropped
<1>. HIDE DEF u
<1>2. SUFFICES ASSUME u # <<>> PROVE Len(u) \in Ends(u)
  BY DEF Closing, u
<1>3. Len(u) \in Nat \ {0} /\ DOMAIN u = 1 .. Len(u)
  BY <1>1, <1>2, EmptySeq, LenProperties
<1>4. Len(s) \in Nat /\ Len(s) # 0
  BY <1>1, <1>3, LenProperties
<1>5. s[Len(s)] # <<>>
  BY <1>4 DEF Closing, Ends
<1>6. \A n, a, b : n \in Nat \ {0} /\ a \in Nat /\ b \in 0 .. a /\ n = a - b
                     => n + b = a /\ n \in 1 .. n
  OBVIOUS
<1>7. Len(u) + m = Len(s) /\ Len(u) \in 1 .. Len(u)
  BY <1>1, <1>3, <1>4, <1>6, Zenon
<1>8. u[Len(u)] = s[Len(s)]
  BY <1>1, <1>7
<1>. QED
  BY <1>3, <1>5, <1>7, <1>8 DEF Ends

LEMMA ClosingConcat ==
  ASSUME NEW T, NEW s \in Seq(T), NEW u \in Seq(T), Closing(u), u = <<>> => Closing(s)
  PROVE  Closing(s \o u)
<1>1. CASE u = <<>>
  <2>1. s \o u = s
    BY <1>1, ConcatEmptySeq
  <2>. QED
    BY <1>1, <2>1
<1>2. CASE u # <<>>
  <2>1. Len(u) \in Ends(u)
    BY <1>2 DEF Closing
  <2>2. Len(u) + Len(s) \in Ends(s \o u) /\ Len(s \o u) = Len(s) + Len(u)
    BY <2>1, EndsConcat
  <2>3. Len(u) + Len(s) = Len(s) + Len(u)
    BY LenProperties
  <2>. QED
    BY <2>2, <2>3 DEF Closing
<1>. QED
  BY <1>1, <1>2

WholeInv ==
  /\ Closing(tx[size])
  /\ tx[size] = <<>> => Closing(inbox)
  /\ master.reading /\ inbox # <<>> /\ Ends(inbox) = {} => master.silent = 0

\* A cell's replies close.
LEMMA ReplyClosing ==
  ASSUME RingInv, NEW i \in 0 .. size
  PROVE  Reply(i) \in Seq(CharOf(GoodLine)) /\ Closing(Reply(i))
<1>1. GoodLines[i] = GoodLine /\ Closed(GoodLines)
  BY GoodLinesClosed DEF GoodLines, RingInv, RingType
<1>2. Reply(i) = <<>> \/ \E m \in GoodLine : Reply(i) = Chars(m)
  BY <1>1, ReplyPost DEF RingInv
<1>3. CASE Reply(i) = <<>>
  BY <1>3 DEF Closing
<1>4. ASSUME NEW m \in GoodLine, Reply(i) = Chars(m)
      PROVE  Reply(i) \in Seq(CharOf(GoodLine)) /\ Closing(Reply(i))
  BY <1>4, CharsPost DEF Closing
<1>. QED
  BY <1>2, <1>3, <1>4

LEMMA WholeTick ==
  ASSUME RingInv, WholeInv, Tick
  PROVE  WholeInv'
<1> DEFINE T == CharOf(GoodLine)
           a == tx[size]
           u == SubSeq(a, 2, Len(a))
           x == Arriving(size + 1)
<1>0. size' = size /\ size \in 0 .. size /\ GoodLines[size] = GoodLine /\ Closed(GoodLines)
  BY GoodLinesClosed DEF Tick, GoodLines, RingInv, RingType
<1>1. a \in Seq(T) /\ inbox \in Seq(T)
  BY <1>0 DEF RingInv, Streams
<1>2. tx'[size] = u \o Reply(size) /\ inbox' = inbox \o x
  BY <1>0, TickStreams DEF RingInv
<1>3. Reply(size) \in Seq(T) /\ Closing(Reply(size))
  BY <1>0, ReplyClosing
<1>4. /\ x \in Seq(T)
      /\ a = <<>> => x = <<>>
      /\ a # <<>> => x = <<a[1]>> /\ x # <<>>
  <2>1. size + 1 \in 1 .. size + 1 /\ (size + 1) - 1 = size
    BY DEF RingInv, RingType
  <2>. QED
    BY <1>1, <2>1, ArrivingPost
<1>5. u \in Seq(T) /\ (a = <<>> => u = <<>>) /\ (a # <<>> => Len(u) = Len(a) - 1)
  BY <1>1, DroppedFirst
<1>6. Closing(u)
  <2>1. CASE a = <<>>
    BY <1>5, <2>1 DEF Closing
  <2>2. CASE a # <<>>
    <3>1. 1 \in 0 .. Len(a) /\ 1 + 1 = 2
      BY <1>1, <2>2, EmptySeq, LenProperties
    <3>2. Closing(SubSeq(a, 1 + 1, Len(a)))
      <4>. HIDE DEF a
      <4>. QED
        BY <1>1, <3>1, ClosingDropped DEF WholeInv, a
    <3>. QED
      BY <3>1, <3>2
  <2>. QED
    BY <2>1, <2>2
<1>. HIDE DEF a, u, x, T
<1>7. Closing(tx'[size])
  BY <1>2, <1>3, <1>5, <1>6, ClosingConcat
<1>8. ASSUME tx'[size] = <<>>
      PROVE  Closing(inbox')
  <2>1. CASE a = <<>>
    <3>1. inbox' = inbox
      BY <1>1, <1>2, <1>4, <2>1, ConcatEmptySeq
    <3>2. Closing(inbox)
      BY <2>1 DEF WholeInv, a
    <3>. QED
      BY <3>1, <3>2
  <2>2. CASE a # <<>>
    <3>1. Len(u) = 0
      <4>1. Len(u \o Reply(size)) = Len(u) + Len(Reply(size)) /\ Len(u \o Reply(size)) = 0
        <5>1. Len(u \o Reply(size)) = Len(u) + Len(Reply(size))
          BY <1>3, <1>5, ConcatProperties, Zenon
        <5>2. u \o Reply(size) = <<>>
          BY <1>2, <1>8
        <5>. QED
          BY <5>1, <5>2
      <4>2. Len(u) \in Nat /\ Len(Reply(size)) \in Nat
        BY <1>3, <1>5, LenProperties
      <4>. HIDE DEF Reply
      <4>. QED
        BY <4>1, <4>2
    <3>2. Len(a) = 1
      <4>1. Len(a) \in Nat /\ Len(a) - 1 = 0
        BY <1>1, <1>5, <2>2, <3>1, LenProperties
      <4>. QED
        BY <4>1
    <3>3. a[1] # <<>>
      BY <2>2, <3>2 DEF WholeInv, Closing, Ends, a
    <3>4. Closing(x)
      BY <1>4, <2>2, <3>3 DEF Closing, Ends
    <3>. QED
      BY <1>1, <1>2, <1>4, <2>2, <3>4, ClosingConcat
  <2>. QED
    BY <2>1, <2>2
<1>9. ASSUME master'.reading, inbox' # <<>>, Ends(inbox') = {}
      PROVE  master'.silent = 0
  <2>1. master' = [master EXCEPT !.silent = Silence(master)]
    BY DEF Tick
  <2>2. CASE a = <<>>
    <3>1. inbox' = inbox
      BY <1>1, <1>2, <1>4, <2>2, ConcatEmptySeq
    <3>2. Closing(inbox)
      BY <2>2 DEF WholeInv, a
    <3>. QED
      BY <1>9, <3>1, <3>2 DEF Closing
  <2>3. CASE a # <<>>
    <3>1. Silence(master) = 0
      BY <1>4, <2>3 DEF Silence, x
    <3>. QED
      BY <2>1, <3>1 DEF RingInv, RingType
  <2>. QED
    BY <2>2, <2>3
<1>. QED
  BY <1>0, <1>7, <1>8, <1>9 DEF WholeInv

LEMMA WholeStep ==
  ASSUME RingInv, WholeInv, [Next]_vars
  PROVE  WholeInv' /\ (ReadTimeout => inbox = <<>>)
<1>1. ASSUME ReadTimeout
      PROVE  inbox = <<>>
  <2>1. program.timeout # 0
    BY ProgramPost DEF RingInv, RingType
  <2>. QED
    BY <1>1, <2>1 DEF ReadTimeout, WholeInv
<1>2. ASSUME NEW r \in program.requests, Transmit(r)
      PROVE  WholeInv'
  <2>1. tx' = [tx EXCEPT ![0] = tx[0] \o Chars(Packetize(r))] /\ size' = size /\ inbox' = inbox
    BY <1>2 DEF Transmit
  <2>2. tx'[size] = tx[size]
    <3>1. size # 0 /\ size \in 0 .. size /\ DOMAIN tx = 0 .. size
      BY DEF RingInv, RingType
    <3>. QED
      BY <2>1, <3>1
  <2>3. master'.silent = 0
    BY <1>2 DEF Transmit, RingInv, RingType
  <2>. QED
    BY <2>1, <2>2, <2>3 DEF WholeInv
<1>3. ASSUME ReadLine
      PROVE  WholeInv'
  <2>1. inbox' = SubSeq(inbox, FirstEnd(inbox) + 1, Len(inbox)) /\ tx' = tx /\ size' = size
    BY <1>3 DEF ReadLine
  <2>2. inbox \in Seq(CharOf(GoodLines[size]))
    BY DEF RingInv, Streams
  <2>3. FirstEnd(inbox) \in 0 .. Len(inbox)
    BY <1>3, <2>2, FirstEndPost DEF ReadLine, Ends
  <2>4. Closing(inbox) => Closing(inbox')
    BY <2>1, <2>2, <2>3, ClosingDropped
  <2>5. ~ master'.reading
    BY <1>3 DEF ReadLine, RingInv, RingType
  <2>. QED
    BY <2>1, <2>4, <2>5 DEF WholeInv
<1>4. ASSUME ReadTimeout
      PROVE  WholeInv'
  <2>1. inbox' = <<>> /\ tx' = tx /\ size' = size
    BY <1>4 DEF ReadTimeout
  <2>. QED
    BY <2>1 DEF WholeInv, Closing
<1>5. ASSUME UNCHANGED vars
      PROVE  WholeInv'
  BY <1>5 DEF vars, WholeInv, Closing, Ends
<1>. QED
  BY <1>1, <1>2, <1>3, <1>4, <1>5, WholeTick DEF Next

\* readline() never returns a part of an answer, though its timeout is that of a
\* character: neither in a ring of any size, nor after earlier timeouts, nor with
\* answers that come too late (master: ReadTimeout; cell: uart_puts in Update()).
THEOREM WholeLinesCorrect == Spec => WholeLines
<1>1. Init => RingInv /\ WholeInv
  <2>. SUFFICES ASSUME Init PROVE RingInv /\ WholeInv
    OBVIOUS
  <2>1. size \in 0 .. size
    BY TimingAssumption, PacketAssumption DEF Init, Id
  <2>2. tx[size] = <<>> /\ inbox = <<>>
    BY <2>1 DEF Init
  <2>. QED
    BY <2>2, RingInvInit DEF WholeInv, Closing
<1>2. RingInv /\ WholeInv /\ [Next]_vars
        => RingInv' /\ WholeInv' /\ [ReadTimeout => inbox = <<>>]_vars
  BY RingInvStep, WholeStep
<1>. QED
  BY <1>1, <1>2, PTL DEF Spec, WholeLines

(***************************************************************************)
(* No cell is deaf: of the characters in a receive buffer, in the FIFO     *)
(* behind it and on the link, two ends of sentences are never further      *)
(* apart than the buffer is long.                                          *)
(***************************************************************************)

\* What the user types fits the receive buffer of cell 1, with its '\0'.
RequestsFit == \A r \in UtilsRequests : LineLen(Packetize(r)) < kMaxUARTBufLen

\* So does what a cell transmits: a sentence of at most three fields, and a multiple
\* read that had room for a field before its last value.
RepliesFit ==
  /\ kMaxUARTBufLen > kMaxPacketFieldLen + 26
  /\ kMaxUARTBufLen > kMaxPacketLen - kMaxPacketFieldLen + 17

\* The lines of a ring of sentences that fit.
FitLines ==
  [n \in Nat |-> {l \in GoodLine : ShortRead(l) /\ LineLen(l) < kMaxUARTBufLen}]

LEMMA FitLinesClosed ==
  ASSUME RequestsFit, RepliesFit, size \in Nat
  PROVE  Closed(FitLines)
<1>1. \A n \in Nat :
        FitLines[n] = {l \in GoodLine : ShortRead(l) /\ LineLen(l) < kMaxUARTBufLen}
  BY DEF FitLines
<1>2. LineLen(Packetize(SpammerRequest)) < kMaxUARTBufLen
  <2> DEFINE a == AddrText(kRegAddrReadOutputCurrent)
             l == Packetize(SpammerRequest)
  <2>1. a \in Text /\ a.len = 4
    <3>1. kRegAddrReadOutputCurrent \in Int /\ a.len = 4
      BY SMT DEF kRegAddrReadOutputCurrent, AddrText
    <3>. QED
      BY <3>1, TextTypes
  <2>2. l.fields = (<<>> \o <<a>>) \o <<>>
    BY SMT DEF Packetize, SpammerRequest, HasId, HasAddr
  <2>. HIDE DEF a, l
  <2>3. l.fields = <<a>>
    BY <2>1, <2>2, TupleConcat
  <2>4. ContentsLen(l.fields) = 4
    BY <2>1, <2>3, ContentsShort
  <2>5. LineLen(l) = 16
    BY <2>4 DEF LineLen, kPacketHeaderLen
  <2>. QED
    BY <2>5, PacketAssumption, TimingAssumption DEF RepliesFit, l
<1>3. ASSUME NEW r \in UtilsRequests \cup {SpammerRequest}
      PROVE  Packetize(r) \in FitLines[0]
  <2>1. r \in Request
    BY RequestsPost
  <2>2. LineLen(Packetize(r)) < kMaxUARTBufLen
    BY <1>2 DEF RequestsFit
  <2>3. Packetize(r) \in GoodLine /\ ShortRead(Packetize(r))
    BY <2>1, PacketizeType, PacketizeComplete DEF Complete
  <2>. QED
    BY <1>1, <2>2, <2>3
<1>4. ASSUME NEW i \in 1 .. size, NEW c \in Cell, NEW l \in FitLines[i-1], NEW m,
             Process(c, l).out = <<m>>
      PROVE  m \in FitLines[i]
  <2> DEFINE p == Decode(l)
             q == Handle(c, p).out
             n == ContentsLen(m.fields)
  <2>1. i \in Nat /\ i - 1 \in Nat /\ l \in GoodLine /\ ShortRead(l)
    BY <1>1
  <2>2. IsValid(l) /\ m = Encode(q)
    BY <1>4 DEF Process
  <2>3. p \in Packet /\ ShortPacket(p)
    BY <2>1, <2>2, DecodeType, DecodeShort
  <2>4. q \in Packet
    BY <2>3, HandlePost DEF HandlerPost
  <2>5. ShortPacket(q) /\ (q.type = "MRD" => q.valid)
    BY <2>3, HandleShort
  <2>6. m.fields = Fields(q)
    BY <2>2 DEF Encode
  <2>. HIDE DEF p, q
  <2>7. /\ n \in Int
        /\ n <= kMaxPacketFieldLen + 14 \/ n <= kMaxPacketLen - kMaxPacketFieldLen + 5
    BY <2>4, <2>5, <2>6, EncodeLength
  <2>8. LineLen(m) = n + 12
    <3>1. LineLen(m) = 6 + 1 + n + 1 + 4
      BY DEF LineLen, kPacketHeaderLen
    <3>. HIDE DEF n
    <3>. QED
      BY <2>7, <3>1
  <2>. HIDE DEF n
  <2>9. LineLen(m) < kMaxUARTBufLen
    BY <2>7, <2>8, PacketAssumption, TimingAssumption DEF RepliesFit
  <2>10. m \in GoodLine /\ ShortRead(m)
    BY <1>4, <2>1, ProcessGood, ProcessRead
  <2>. QED
    BY <1>1, <2>1, <2>9, <2>10
<1>5. \A n \in Nat : FitLines[n] \in SUBSET GoodLine
  BY <1>1
<1>. QED
  BY <1>3, <1>4, <1>5 DEF Closed

\* With h characters in the receive buffer and s behind them: the first end fits the
\* buffer, and from any character on there is an end that would.
Spaced(h, s) ==
  IF s = <<>> THEN h = 0
  ELSE /\ \E e \in Ends(s) : h + e < kMaxUARTBufLen
       /\ \A p \in 1 .. Len(s) : \E e \in Ends(s) : p <= e /\ e < p + kMaxUARTBufLen - 1

LEMMA SpacedRoom ==
  ASSUME NEW T, NEW s \in Seq(T), NEW h \in Nat, Spaced(h, s)
  PROVE  h < kMaxUARTBufLen - 1
<1>1. CASE s = <<>>
  BY <1>1, TimingAssumption DEF Spaced
<1>2. CASE s # <<>>
  <2>1. PICK e \in Ends(s) : h + e < kMaxUARTBufLen
    BY <1>2 DEF Spaced
  <2>2. e \in Nat /\ e >= 1
    <3>1. e \in 1 .. Len(s) /\ Len(s) \in Nat
      BY LenProperties DEF Ends
    <3>. QED
      BY <3>1
  <2>. QED
    BY <2>1, <2>2, TimingAssumption
<1>. QED
  BY <1>1, <1>2

\* The ends that are left without the first d characters.
LEMMA EndsDropped ==
  ASSUME NEW T, NEW s \in Seq(T), NEW d \in 0 .. Len(s)
  PROVE  LET u == SubSeq(s, d + 1, Len(s))
         IN  /\ u \in Seq(T) /\ Len(u) = Len(s) - d
             /\ \A e \in Ends(s) : e \in 1 .. Len(s) /\ (e > d => e - d \in Ends(u))
<1> DEFINE u == SubSeq(s, d + 1, Len(s))
<1>1. /\ u \in Seq(T) /\ Len(u) = Len(s) - d
      /\ \A k \in 1 .. Len(u) : u[k] = s[k + d]
  BY Dropped
<1>. HIDE DEF u
<1>2. DOMAIN u = 1 .. Len(u) /\ DOMAIN s = 1 .. Len(s) /\ Len(s) \in Nat
  BY <1>1, LenProperties
<1>3. ASSUME NEW e \in Ends(s)
      PROVE  e \in 1 .. Len(s) /\ (e > d => e - d \in Ends(u))
  <2>1. e \in 1 .. Len(s) /\ s[e] # <<>>
    BY <1>2 DEF Ends
  <2>2. e > d => e - d \in 1 .. Len(u) /\ (e - d) + d = e
    BY <1>1, <1>2, <2>1
  <2>. QED
    BY <1>1, <1>2, <2>1, <2>2 DEF Ends
<1>. QED
  BY <1>1, <1>3 DEF u

\* The receive buffer takes the first d characters: it keeps them if none of them ends
\* a sentence, and is flushed otherwise.
LEMMA SpacedTaken ==
  ASSUME NEW T, NEW s \in Seq(T), NEW h \in Nat, Spaced(h, s), NEW d \in 0 .. Len(s)
  PROVE  LET u == SubSeq(s, d + 1, Len(s))
         IN  /\ Spaced(0, u)
             /\ (\A k \in 1 .. d : k \notin Ends(s)) => Spaced(h + d, u)
<1> DEFINE u == SubSeq(s, d + 1, Len(s))
           K == kMaxUARTBufLen
<1>1. /\ u \in Seq(T) /\ Len(u) = Len(s) - d
      /\ \A e \in Ends(s) : e \in 1 .. Len(s) /\ (e > d => e - d \in Ends(u))
  BY EndsDropped
<1>. HIDE DEF u
<1>2. Len(s) \in Nat /\ K \in Nat /\ (u = <<>> <=> Len(u) = 0)
  BY <1>1, LenProperties, EmptySeq, TimingAssumption
<1>. HIDE DEF K
<1>3. CASE s = <<>>
  <2>1. Len(s) = 0 /\ h = 0
    BY <1>3 DEF Spaced
  <2>2. Len(u) = 0 /\ h + d = 0
    BY <1>1, <1>2, <2>1
  <2>3. u = <<>>
    BY <1>2, <2>2
  <2>. QED
    BY <2>2, <2>3 DEF Spaced, u
<1>4. CASE s # <<>>
  <2>1. PICK f \in Ends(s) : h + f < K
    BY <1>4 DEF Spaced, K
  <2>2. \A p \in 1 .. Len(s) : \E e \in Ends(s) : p <= e /\ e < p + K - 1
    BY <1>4 DEF Spaced, K
  <2>3. ASSUME NEW p \in 1 .. Len(u)
        PROVE  \E e \in Ends(u) : p <= e /\ e < p + K - 1
    <3>1. p + d \in 1 .. Len(s)
      BY <1>1, <1>2
    <3>2. PICK e \in Ends(s) : p + d <= e /\ e < (p + d) + K - 1
      BY <2>2, <3>1
    <3>3. e \in 1 .. Len(s) /\ (e > d => e - d \in Ends(u))
      BY <1>1
    <3>4. e > d /\ p <= e - d /\ e - d < p + K - 1
      BY <1>1, <1>2, <3>2, <3>3
    <3>. QED
      BY <3>3, <3>4
  <2>4. Spaced(0, u)
    <3>. SUFFICES ASSUME u # <<>> PROVE \E e \in Ends(u) : 0 + e < K
      BY <2>3 DEF Spaced, K
    <3>1. 1 \in 1 .. Len(u)
      BY <1>1, <1>2
    <3>2. PICK e \in Ends(u) : 1 <= e /\ e < 1 + K - 1
      BY <2>3, <3>1
    <3>3. e \in Nat
      BY <1>1, LenProperties DEF Ends
    <3>4. 0 + e < K
      BY <1>2, <3>2, <3>3
    <3>. QED
      BY <3>4
  <2>5. ASSUME \A k \in 1 .. d : k \notin Ends(s)
        PROVE  Spaced(h + d, u)
    <3>1. f \in 1 .. Len(s) /\ (f > d => f - d \in Ends(u))
      BY <1>1
    <3>2. f > d
      <4>1. f \notin 1 .. d
        BY <2>5
      <4>. QED
        BY <1>2, <3>1, <4>1
    <3>3. (h + d) + (f - d) < K /\ Len(u) # 0
      BY <1>1, <1>2, <2>1, <3>1, <3>2
    <3>. QED
      BY <1>2, <2>3, <3>1, <3>2, <3>3 DEF Spaced, K
  <2>. QED
    BY <2>4, <2>5 DEF u
<1>. QED
  BY <1>3, <1>4

\* A sentence that fits follows.
LEMMA SpacedConcat ==
  ASSUME NEW T, NEW s \in Seq(T), NEW h \in Nat, Spaced(h, s), NEW u \in Seq(T),
         u = <<>> \/ (Ends(u) = {Len(u)} /\ Len(u) < kMaxUARTBufLen)
  PROVE  Spaced(h, s \o u)
<1> DEFINE w == s \o u
           K == kMaxUARTBufLen
<1>1. CASE u = <<>>
  <2>1. w = s
    BY <1>1, ConcatEmptySeq
  <2>. QED
    BY <2>1
<1>2. CASE u # <<>>
  <2>1. /\ w \in Seq(T) /\ Len(w) = Len(s) + Len(u)
        /\ \A k \in Ends(s) : k \in Ends(w)
        /\ \A k \in Ends(u) : k + Len(s) \in Ends(w)
    BY EndsConcat
  <2>. HIDE DEF w
  <2>2. Len(s) \in Nat /\ Len(u) \in Nat \ {0} /\ K \in Nat
    BY <1>2, LenProperties, EmptySeq, TimingAssumption
  <2>3. Len(u) < K
    BY <1>2
  <2>. HIDE DEF K
  <2>4. Len(u) + Len(s) \in Ends(w)
    BY <1>2, <2>1
  <2>5. w # <<>>
    BY <2>1, <2>2, EmptySeq
  <2>6. \E e \in Ends(w) : h + e < K
    <3>1. CASE s = <<>>
      <4>1. h = 0 /\ Len(s) = 0
        BY <3>1 DEF Spaced
      <4>2. h + (Len(u) + Len(s)) < K
        BY <2>2, <2>3, <4>1
      <4>. QED
        BY <2>4, <4>2
    <3>2. CASE s # <<>>
      <4>1. PICK e \in Ends(s) : h + e < K
        BY <3>2 DEF Spaced, K
      <4>. QED
        BY <2>1, <4>1
    <3>. QED
      BY <3>1, <3>2
  <2>7. ASSUME NEW p \in 1 .. Len(w)
        PROVE  \E e \in Ends(w) : p <= e /\ e < p + K - 1
    <3>1. CASE p <= Len(s)
      <4>1. p \in 1 .. Len(s) /\ s # <<>>
        <5>1. p \in 1 .. Len(s) /\ Len(s) # 0
          BY <2>1, <2>2, <3>1
        <5>. QED
          BY <5>1
      <4>2. PICK e \in Ends(s) : p <= e /\ e < p + K - 1
        BY <4>1 DEF Spaced, K
      <4>. QED
        BY <2>1, <4>2
    <3>2. CASE ~ (p <= Len(s))
      <4>1. p <= Len(u) + Len(s) /\ Len(u) + Len(s) < p + K - 1
        BY <2>1, <2>2, <2>3, <3>2
      <4>. QED
        BY <2>4, <4>1
    <3>. QED
      BY <3>1, <3>2
  <2>8. Spaced(h, w)
    BY <2>5, <2>6, <2>7 DEF Spaced, K
  <2>. QED
    BY <2>8 DEF w
<1>. QED
  BY <1>1, <1>2

\* The characters cell i has not put into its receive buffer, in their order.
On(i) == fifo[i] \o tx[i-1]

SpacedInv ==
  /\ \A i \in Cells : Len(fifo[i]) <= FifoDepth
  /\ NotDeaf
  /\ ~ overrun => \A i \in Cells : Spaced(held[i], On(i))

\* The first characters of a sequence are those of its first part.
LEMMA DroppedConcat ==
  ASSUME NEW T, NEW s \in Seq(T), NEW x \in Seq(T), NEW d \in 0 .. Len(s)
  PROVE  /\ SubSeq(s \o x, d + 1, Len(s \o x)) = SubSeq(s, d + 1, Len(s)) \o x
         /\ \A k \in 1 .. d : k \in Ends(s \o x) => k \in Ends(s)
<1> DEFINE w == s \o x
           u == SubSeq(w, d + 1, Len(w))
           l == SubSeq(s, d + 1, Len(s))
<1>1. /\ w \in Seq(T) /\ Len(w) = Len(s) + Len(x)
      /\ \A k \in 1 .. Len(s) + Len(x) : w[k] = IF k <= Len(s) THEN s[k] ELSE x[k - Len(s)]
  BY ConcatProperties
<1>. HIDE DEF w
<1>2. Len(s) \in Nat /\ Len(x) \in Nat
  BY LenProperties
<1>3. u \in Seq(T) /\ Len(u) = Len(w) - d /\ \A k \in 1 .. Len(u) : u[k] = w[k + d]
  <2>1. d \in 0 .. Len(w)
    BY <1>1, <1>2
  <2>. QED
    BY <1>1, <2>1, Dropped
<1>4. l \in Seq(T) /\ Len(l) = Len(s) - d /\ \A k \in 1 .. Len(l) : l[k] = s[k + d]
  BY Dropped
<1>. HIDE DEF u, l
<1>5. /\ l \o x \in Seq(T) /\ Len(l \o x) = Len(l) + Len(x)
      /\ \A k \in 1 .. Len(l) + Len(x) :
           (l \o x)[k] = IF k <= Len(l) THEN l[k] ELSE x[k - Len(l)]
  BY <1>4, ConcatProperties
<1>6. Len(u) = Len(l \o x)
  BY <1>1, <1>2, <1>3, <1>4, <1>5
<1>7. ASSUME NEW k \in 1 .. Len(u)
      PROVE  u[k] = (l \o x)[k]
  <2>1. k + d \in 1 .. Len(s) + Len(x) /\ k \in 1 .. Len(l) + Len(x)
    BY <1>1, <1>2, <1>3, <1>4
  <2>2. u[k] = IF k + d <= Len(s) THEN s[k + d] ELSE x[(k + d) - Len(s)]
    BY <1>1, <1>3, <2>1
  <2>3. (l \o x)[k] = IF k <= Len(l) THEN l[k] ELSE x[k - Len(l)]
    BY <1>5, <2>1
  <2>4. CASE k + d <= Len(s)
    <3>1. k \in 1 .. Len(l) /\ k <= Len(l)
      BY <1>2, <1>4, <2>4
    <3>. QED
      BY <1>4, <2>2, <2>3, <2>4, <3>1
  <2>5. CASE ~ (k + d <= Len(s))
    <3>1. ~ (k <= Len(l)) /\ (k + d) - Len(s) = k - Len(l)
      BY <1>2, <1>4, <2>5
    <3>. QED
      BY <2>2, <2>3, <2>5, <3>1
  <2>. QED
    BY <2>4, <2>5
<1>8. u = l \o x
  BY <1>3, <1>5, <1>6, <1>7, SeqEqual
<1>9. ASSUME NEW k \in 1 .. d, k \in Ends(w)
      PROVE  k \in Ends(s)
  <2>1. k \in 1 .. Len(s) /\ k <= Len(s) /\ k \in 1 .. Len(s) + Len(x)
    BY <1>2
  <2>2. w[k] = s[k]
    BY <1>1, <2>1
  <2>3. DOMAIN s = 1 .. Len(s)
    BY LenProperties
  <2>. QED
    BY <1>9, <2>1, <2>2, <2>3 DEF Ends
<1>. QED
  BY <1>8, <1>9 DEF u, l, w

\* The same sequences one behind the other.
LEMMA SpacedAssociative ==
  ASSUME NEW T, NEW s \in Seq(T), NEW x \in Seq(T), NEW u \in Seq(T), NEW h,
         Spaced(h, (s \o x) \o u)
  PROVE  Spaced(h, s \o (x \o u))
<1>1. (s \o x) \o u = s \o (x \o u)
  BY ConcatAssociative
<1>. QED
  BY <1>1

LEMMA SpacedMoved ==
  ASSUME NEW T, NEW l \in Seq(T), NEW a \in Seq(T), NEW v \in Seq(T), NEW r \in Seq(T),
         NEW h, Spaced(h, (l \o (a \o v)) \o r)
  PROVE  Spaced(h, (l \o a) \o (v \o r))
<1> DEFINE la == l \o a
<1>1. la \in Seq(T)
  BY ConcatProperties
<1>2. la \o v = l \o (a \o v)
  BY ConcatAssociative
<1>. HIDE DEF la
<1>3. Spaced(h, (la \o v) \o r)
  BY <1>2
<1>4. Spaced(h, la \o (v \o r))
  BY <1>1, <1>3, SpacedAssociative, Zenon
<1>. QED
  BY <1>4 DEF la

\* The character that arrives and the ones that are still to be sent.
LEMMA ArrivingRest ==
  ASSUME NEW T, NEW i \in 1 .. size + 1, tx[i-1] \in Seq(T)
  PROVE  Arriving(i) \o SubSeq(tx[i-1], 2, Len(tx[i-1])) = tx[i-1]
<1> DEFINE x == tx[i-1]
           v == SubSeq(x, 2, Len(x))
<1>1. CASE x = <<>>
  <2>1. Arriving(i) = <<>> /\ v = <<>>
    BY <1>1, ArrivingPost, DroppedFirst
  <2>2. <<>> \o <<>> = <<>>
    OBVIOUS
  <2>. QED
    BY <1>1, <2>1, <2>2
<1>2. CASE x # <<>>
  <2>1. Arriving(i) = <<x[1]>>
    BY <1>2, ArrivingPost
  <2>. HIDE DEF x
  <2>2. x \in Seq(T)
    BY DEF x
  <2>3. Len(x) \in Nat \ {0}
    BY <1>2, <2>2, LenProperties, EmptySeq
  <2>4. 1 \in 1 .. Len(x) /\ Len(x) \in 1 .. Len(x) /\ 1 + 1 = 2
    BY <2>3
  <2>5. SubSeq(x, 1, Len(x)) = <<x[1]>> \o SubSeq(x, 1 + 1, Len(x))
    BY <2>2, <2>4, SubSeqRecursiveFirst
  <2>6. SubSeq(x, 1, Len(x)) = x
    BY <2>2, SubSeqFull
  <2>. QED
    BY <2>1, <2>4, <2>5, <2>6 DEF x
<1>. QED
  BY <1>1, <1>2

\* A cell's reply fits.
LEMMA ReplyFit ==
  ASSUME RingInv, Closed(FitLines), Streams(FitLines), NEW i \in 0 .. size
  PROVE  \/ Reply(i) = <<>>
         \/ Ends(Reply(i)) = {Len(Reply(i))} /\ Len(Reply(i)) < kMaxUARTBufLen
<1>1. Reply(i) = <<>> \/ \E m \in FitLines[i] : Reply(i) = Chars(m)
  BY ReplyPost DEF RingInv
<1>2. ASSUME NEW m \in FitLines[i], Reply(i) = Chars(m)
      PROVE  Ends(Reply(i)) = {Len(Reply(i))} /\ Len(Reply(i)) < kMaxUARTBufLen
  <2>1. m \in GoodLine /\ LineLen(m) < kMaxUARTBufLen
    BY DEF FitLines
  <2>. QED
    BY <1>2, <2>1, CharsPost
<1>. QED
  BY <1>1, <1>2

LEMMA SpacedTick ==
  ASSUME RingInv, Closed(FitLines), Streams(FitLines), SpacedInv, Tick
  PROVE  SpacedInv'
<1> DEFINE T == CharOf(GoodLine)
           K == kMaxUARTBufLen
<1>1. /\ size \in Nat \ {0} /\ Cells' = Cells /\ ~ overrun /\ Closed(GoodLines)
      /\ \A i \in 0 .. size : tx[i] \in Seq(T)
      /\ \A i \in Cells : fifo[i] \in Seq(T) /\ held[i] \in 0 .. K - 1 /\ cell[i] \in Cell
  <2>1. size \in Nat \ {0} /\ Cells' = Cells /\ ~ overrun
    BY DEF RingInv, RingType, Tick, Cells
  <2>2. /\ \A i \in 0 .. size : GoodLines[i] = GoodLine
        /\ \A i \in Cells : GoodLines[i-1] = GoodLine
    BY <2>1 DEF GoodLines, Cells
  <2>3. \A i \in Cells : held[i] \in 0 .. K - 1 /\ cell[i] \in Cell
    BY DEF RingInv, RingType
  <2>. QED
    BY <2>1, <2>2, <2>3, GoodLinesClosed DEF RingInv, Streams
<1>2. ASSUME NEW i \in Cells
      PROVE  /\ Len(fifo'[i]) <= FifoDepth
             /\ held'[i] < K - 1
             /\ ~ overrun' => Spaced(held'[i], (On(i))')
  <2> DEFINE f == fifo[i]
             x == tx[i-1]
             w == On(i)
             t == Taken(i)
             d == Len(t)
             u == SubSeq(w, d + 1, Len(w))
             l == Left(i)
             a == Arriving(i)
             v == SubSeq(x, 2, Len(x))
             r == Reply(i-1)
  <2>0. i \in 1 .. size + 1 /\ i - 1 \in 0 .. size
    BY <1>1 DEF Cells
  <2>1. f \in Seq(T) /\ x \in Seq(T) /\ held[i] \in 0 .. K - 1 /\ held[i] \in Nat
    BY <1>1, <2>0, TimingAssumption
  <2>2. /\ d \in 0 .. Len(f) /\ Ends(t) \subseteq {d} /\ t \in Seq(T)
        /\ \A k \in 1 .. d : t[k] = f[k]
    BY <2>1, TakenPost
  <2>3. l = SubSeq(f, d + 1, Len(f))
    BY DEF Left
  <2>4. /\ held'[i] = IF Ends(t) = {} THEN held[i] + d ELSE 0
    <3>1. held'[i] = Updated(i).held
      BY DEF Tick
    <3>. QED
      BY <3>1 DEF Updated
  <2>5. w = f \o x /\ Spaced(held[i], w)
    BY <1>1 DEF On, SpacedInv
  <2>6. (On(i))' = fifo'[i] \o tx'[i-1]
    BY DEF On
  <2>7. tx'[i-1] = v \o r
    BY <1>1, <2>0, TickStreams DEF RingInv
  <2>8. r \in Seq(T) /\ (r = <<>> \/ (Ends(r) = {Len(r)} /\ Len(r) < K))
    BY <2>0, ReplyClosing, ReplyFit
  <2>9. v \in Seq(T) /\ a \in Seq(T) /\ a \o v = x /\ (a = <<>> \/ Len(a) = 1)
    <3>1. v \in Seq(T)
      BY <2>1, DroppedFirst
    <3>2. a \in Seq(T)
      BY <2>0, <2>1, ArrivingPost
    <3>3. a \o v = x
      BY <2>0, <2>1, ArrivingRest
    <3>4. a = <<>> \/ a = <<x[1]>>
      BY <2>0, <2>1, ArrivingPost
    <3>5. Len(<<x[1]>>) = 1
      OBVIOUS
    <3>. QED
      BY <3>1, <3>2, <3>3, <3>4, <3>5
  <2>10. /\ fifo'[i] = IF Len(l) < FifoDepth THEN l \o a ELSE l
         /\ ~ overrun' => ~ (Len(l) = FifoDepth /\ a # <<>>)
    BY DEF Tick
  <2>11. Len(f) <= FifoDepth
    BY DEF SpacedInv
  <2>. HIDE DEF f, x, w, t, l, a, v, r, T
  <2>12. l \in Seq(T) /\ Len(l) = Len(f) - d
    BY <2>1, <2>2, <2>3, Dropped
  <2>13. w \in Seq(T) /\ d \in 0 .. Len(w) /\ Len(f) \in Nat
    <3>1. w \in Seq(T) /\ Len(w) = Len(f) + Len(x)
      BY <2>1, <2>5, ConcatProperties
    <3>2. Len(f) \in Nat /\ Len(x) \in Nat
      BY <2>1, LenProperties
    <3>. QED
      BY <2>2, <3>1, <3>2
  <2>14. u = l \o x /\ \A k \in 1 .. d : k \in Ends(w) => k \in Ends(f)
    <3>. HIDE DEF d
    <3>1. /\ SubSeq(f \o x, d + 1, Len(f \o x)) = SubSeq(f, d + 1, Len(f)) \o x
          /\ \A k \in 1 .. d : k \in Ends(f \o x) => k \in Ends(f)
      BY <2>1, <2>2, DroppedConcat, Zenon
    <3>. QED
      BY <2>3, <2>5, <3>1
  <2>15. Spaced(held'[i], u)
    <3>1. Spaced(0, u) /\ ((\A k \in 1 .. d : k \notin Ends(w)) => Spaced(held[i] + d, u))
      BY <2>1, <2>5, <2>13, SpacedTaken
    <3>2. ASSUME Ends(t) = {}, NEW k \in 1 .. d
          PROVE  k \notin Ends(w)
      <4>1. t[k] = <<>>
        <5>1. k \in DOMAIN t
          BY <2>2, LenProperties
        <5>. QED
          BY <3>2, <5>1 DEF Ends
      <4>2. k \notin Ends(f)
        BY <2>2, <4>1 DEF Ends
      <4>. QED
        BY <2>14, <4>2
    <3>. QED
      BY <2>4, <3>1, <3>2
  <2>16. u \in Seq(T) /\ held'[i] \in Nat
    <3>1. u \in Seq(T)
      BY <2>1, <2>12, <2>14, ConcatProperties
    <3>2. held[i] + d \in Nat
      BY <2>1, <2>2, <2>13
    <3>. QED
      BY <2>4, <3>1, <3>2
  <2>17. held'[i] < K - 1
    BY <2>15, <2>16, SpacedRoom
  <2>18. Len(fifo'[i]) <= FifoDepth
    <3>1. Len(l) \in Nat /\ Len(l) <= FifoDepth
      BY <2>2, <2>11, <2>12, <2>13, TimingAssumption
    <3>2. Len(l \o a) = Len(l) + Len(a) /\ Len(a) \in {0, 1}
      BY <2>9, <2>12, ConcatProperties, EmptySeq
    <3>3. Len(fifo'[i]) = IF Len(l) < FifoDepth THEN Len(l) + Len(a) ELSE Len(l)
      BY <2>10, <3>2
    <3>4. \A m, n, e : m \in Nat /\ n \in {0, 1} /\ m <= FifoDepth
                        /\ e = (IF m < FifoDepth THEN m + n ELSE m) => e <= FifoDepth
      BY TimingAssumption
    <3>. QED
      BY <3>1, <3>2, <3>3, <3>4, Zenon
  <2>19. ASSUME ~ overrun'
         PROVE  Spaced(held'[i], (On(i))')
    <3>1. fifo'[i] = l \o a
      <4>1. CASE Len(l) < FifoDepth
        BY <2>10, <4>1
      <4>2. CASE ~ (Len(l) < FifoDepth)
        <5>1. Len(l) = FifoDepth
          BY <2>2, <2>11, <2>12, <2>13, <4>2, TimingAssumption
        <5>2. a = <<>> /\ fifo'[i] = l
          BY <2>10, <2>19, <4>2, <5>1
        <5>. QED
          BY <2>12, <5>2, ConcatEmptySeq
      <4>. QED
        BY <4>1, <4>2
    <3>2. Spaced(held'[i], u \o r)
      BY <2>8, <2>15, <2>16, SpacedConcat
    <3>3. Spaced(held'[i], (l \o (a \o v)) \o r)
      <4>. HIDE DEF u
      <4>. QED
        BY <2>9, <2>14, <3>2
    <3>4. Spaced(held'[i], (l \o a) \o (v \o r))
      BY <2>8, <2>9, <2>12, <3>3, SpacedMoved, Zenon
    <3>. QED
      BY <2>6, <2>7, <3>1, <3>4
  <2>. QED
    BY <2>17, <2>18, <2>19
<1>3. NotDeaf'
  <2>. SUFFICES ASSUME NEW i \in Cells PROVE (Room(i))' > 0
    BY <1>1 DEF NotDeaf
  <2>1. (Room(i))' = K - 1 - held'[i] /\ held'[i] < K - 1
    BY <1>2 DEF Room
  <2>2. held'[i] \in Int
    BY <1>1, RingInvStep, TimingAssumption DEF Next, RingInv, RingType
  <2>. QED
    BY <2>1, <2>2, TimingAssumption
<1>. QED
  BY <1>1, <1>2, <1>3 DEF SpacedInv

LEMMA SpacedTransmit ==
  ASSUME RingInv, Closed(FitLines), Streams(FitLines), SpacedInv,
         NEW r \in program.requests, Transmit(r)
  PROVE  SpacedInv'
<1> DEFINE T == CharOf(GoodLine)
           s == Chars(Packetize(r))
<1>1. /\ size \in Nat \ {0} /\ 0 \in 0 .. size /\ 1 \in Cells /\ 1 - 1 = 0 /\ DOMAIN tx = 0 .. size
      /\ \A i \in Cells : i # 1 => i - 1 \in 0 .. size /\ i - 1 # 0
  BY DEF RingInv, RingType, Cells
<1>2. s \in Seq(T) /\ Ends(s) = {Len(s)} /\ Len(s) < kMaxUARTBufLen
  <2>1. Packetize(r) \in FitLines[0]
    BY TransmitStreams DEF RingInv
  <2>2. Packetize(r) \in GoodLine /\ LineLen(Packetize(r)) < kMaxUARTBufLen
    BY <2>1 DEF FitLines
  <2>. QED
    BY <2>2, CharsPost
<1>. HIDE DEF s
<1>3. /\ tx' = [tx EXCEPT ![0] = tx[0] \o s]
      /\ Cells' = Cells /\ fifo' = fifo /\ held' = held /\ overrun' = overrun
  BY DEF Transmit, s, Cells
<1>4. \A i \in Cells : i # 1 => (On(i))' = On(i)
  BY <1>1, <1>3 DEF On
<1>5. fifo[1] \in Seq(T) /\ tx[0] \in Seq(T) /\ held[1] \in Nat
  <2>1. GoodLines[0] = GoodLine /\ GoodLines[1 - 1] = GoodLine
    BY <1>1 DEF GoodLines
  <2>2. held[1] \in 0 .. kMaxUARTBufLen - 1
    BY <1>1 DEF RingInv, RingType
  <2>. QED
    BY <1>1, <2>1, <2>2, TimingAssumption DEF RingInv, Streams
<1>6. (On(1))' = fifo[1] \o (tx[0] \o s)
  <2>1. tx'[0] = tx[0] \o s
    BY <1>1, <1>3
  <2>2. (On(1))' = fifo'[1] \o tx'[0]
    BY <1>1 DEF On
  <2>. QED
    BY <1>3, <2>1, <2>2
<1>7. ASSUME ~ overrun
      PROVE  \A i \in Cells : Spaced(held'[i], (On(i))')
  <2>. HIDE DEF T
  <2>1. \A i \in Cells : Spaced(held[i], On(i))
    BY <1>7 DEF SpacedInv
  <2>2. On(1) = fifo[1] \o tx[0] /\ fifo[1] \o tx[0] \in Seq(T)
    BY <1>1, <1>5, ConcatProperties DEF On
  <2>3. Spaced(held[1], fifo[1] \o tx[0])
    BY <1>1, <2>1, <2>2
  <2>4. Spaced(held[1], (fifo[1] \o tx[0]) \o s)
    BY <1>2, <1>5, <2>2, <2>3, SpacedConcat, Zenon
  <2>5. Spaced(held[1], fifo[1] \o (tx[0] \o s))
    BY <1>2, <1>5, <2>4, SpacedAssociative, Zenon
  <2>. QED
    BY <1>3, <1>4, <1>6, <2>1, <2>5
<1>8. NotDeaf'
  BY <1>3 DEF SpacedInv, NotDeaf, Room
<1>. QED
  BY <1>3, <1>7, <1>8 DEF SpacedInv

FitInv == RingInv /\ Streams(FitLines) /\ SpacedInv

LEMMA FitInvInit ==
  ASSUME RequestsFit, RepliesFit, Init
  PROVE  FitInv
<1>1. RingInv
  BY RingInvInit
<1>2. Closed(FitLines)
  BY <1>1, FitLinesClosed DEF RingInv, RingType
<1>3. Streams(FitLines)
  BY <1>2, InitStreams
<1>4. \A i \in Cells : fifo[i] = <<>> /\ held[i] = 0 /\ tx[i-1] = <<>>
  <2>1. \A i \in Cells : i - 1 \in 0 .. size
    BY <1>1 DEF RingInv, RingType, Cells
  <2>. QED
    BY <2>1 DEF Init
<1>5. \A i \in Cells : On(i) = <<>>
  <2>1. <<>> \o <<>> = <<>>
    OBVIOUS
  <2>. QED
    BY <1>4, <2>1 DEF On
<1>6. \A i \in Cells : Len(fifo[i]) <= FifoDepth /\ Room(i) > 0
  <2>1. Len(<<>>) = 0
    OBVIOUS
  <2>. QED
    BY <1>4, <2>1, TimingAssumption DEF Room
<1>. QED
  BY <1>1, <1>3, <1>4, <1>5, <1>6 DEF FitInv, SpacedInv, NotDeaf, Spaced

LEMMA FitInvStep ==
  ASSUME RequestsFit, RepliesFit, FitInv, [Next]_vars
  PROVE  FitInv'
<1>1. RingInv /\ Streams(FitLines) /\ SpacedInv /\ RingInv'
  BY RingInvStep DEF FitInv
<1>2. Closed(FitLines)
  BY <1>1, FitLinesClosed DEF RingInv, RingType
<1>3. ASSUME NEW r \in program.requests, Transmit(r)
      PROVE  FitInv'
  <2>1. Streams(FitLines)'
    BY <1>1, <1>2, <1>3, TransmitStreams DEF RingInv
  <2>2. SpacedInv'
    BY <1>1, <1>2, <1>3, SpacedTransmit
  <2>. QED
    BY <1>1, <2>1, <2>2 DEF FitInv
<1>4. CASE Tick
  <2>1. Streams(FitLines)'
    BY <1>1, <1>2, <1>4, TickStreams DEF RingInv
  <2>2. SpacedInv'
    BY <1>1, <1>2, <1>4, SpacedTick
  <2>. QED
    BY <1>1, <2>1, <2>2 DEF FitInv
<1>5. ASSUME ReadLine \/ ReadTimeout \/ UNCHANGED vars
      PROVE  FitInv'
  <2>1. Streams(FitLines)'
    <3>1. CASE ReadLine
      BY <1>1, <3>1, ReadLineStreams DEF RingInv
    <3>2. CASE ReadTimeout
      BY <1>1, <3>2, ReadTimeoutStreams DEF RingInv
    <3>3. CASE UNCHANGED vars
      BY <1>1, <3>3 DEF vars, Streams, Cells
    <3>. QED
      BY <1>5, <3>1, <3>2, <3>3
  <2>2. /\ size' = size /\ fifo' = fifo /\ held' = held /\ tx' = tx /\ overrun' = overrun
    BY <1>5 DEF ReadLine, ReadTimeout, vars
  <2>3. SpacedInv'
    BY <1>1, <2>2 DEF SpacedInv, NotDeaf, Room, On, Cells
  <2>. QED
    BY <1>1, <2>1, <2>3 DEF FitInv
<1>. QED
  BY <1>3, <1>4, <1>5 DEF Next

\* The buffers of scbs.hh and scbs_comms.hh.
CodeBuffers == CodeSizes /\ kMaxUARTBufLen = 200

LEMMA CodeFits ==
  ASSUME CodeBuffers
  PROVE  RepliesFit
  BY SMT DEF CodeBuffers, CodeSizes, RepliesFit

\* The loop of ReceivePacket() never stands in front of a full buffer, from which no
\* sentence would be taken any more: in a ring of any size, after any number of
\* timeouts, with late answers and commands one behind the other, whatever requests
\* that fit the buffer the programs send (scbs.cc: ReceivePacket, Update).
THEOREM NotDeafCorrect ==
  ASSUME RequestsFit, RepliesFit
  PROVE  Spec => []NotDeaf
<1>1. Init => FitInv
  BY FitInvInit
<1>2. FitInv /\ [Next]_vars => FitInv'
  BY FitInvStep
<1>3. FitInv => NotDeaf
  BY DEF FitInv, SpacedInv
<1>. QED
  BY <1>1, <1>2, <1>3, PTL DEF Spec

\* That is so with the buffers of scbs.hh and scbs_comms.hh if what the user types
\* makes sentences of less than 200 characters.
THEOREM NotDeafInCode ==
  ASSUME CodeBuffers, RequestsFit
  PROVE  Spec => []NotDeaf
  BY CodeFits, NotDeafCorrect

(***************************************************************************)
(* Before a readline has timed out there is one sentence in the ring, and  *)
(* it is on one link: no receive FIFO holds more than one character.       *)
(***************************************************************************)

LastOnly(s) == Ends(s) \subseteq {Len(s)}

Quiet == /\ \A i \in 0 .. size : tx[i] = <<>>
         /\ \A i \in Cells : fifo[i] = <<>>
         /\ inbox = <<>>

\* The sentence is on its way from cell j to the next (from cell size to the master).
At(j) ==
  /\ \A i \in 0 .. size : i # j => tx[i] = <<>>
  /\ \A i \in Cells : i # j + 1 => fifo[i] = <<>>
  /\ LastOnly(tx[j])
  /\ j < size => /\ inbox = <<>> /\ Len(fifo[j+1]) <= 1
                 /\ Ends(fifo[j+1]) # {} => tx[j] = <<>>
  /\ j = size => /\ LastOnly(inbox)
                 /\ Ends(inbox) # {} => tx[size] = <<>>

Alone == master.missed = 0 =>
  /\ ~ overrun
  /\ \E j \in 0 .. size : At(j)
  /\ ~ master.reading => Quiet

LEMMA QuietAt ==
  ASSUME size \in Nat \ {0}, Quiet
  PROVE  \E j \in 0 .. size : At(j)
<1>1. 0 \in 0 .. size /\ 0 + 1 \in Cells /\ 0 # size
  BY DEF Cells
<1>2. LastOnly(<<>>) /\ Len(<<>>) = 0 /\ Ends(<<>>) = {}
  BY DEF LastOnly, Ends
<1>3. At(0)
  BY <1>1, <1>2 DEF Quiet, At
<1>. QED
  BY <1>1, <1>3

\* A single character ends a sentence or does not.
LEMMA OneCharacter ==
  ASSUME NEW c
  PROVE  /\ Len(<<c>>) = 1 /\ LastOnly(<<c>>)
         /\ Ends(<<c>>) # {} => c # <<>>
  BY DEF LastOnly, Ends

\* The characters behind the first of at most one sentence.
LEMMA LastOnlyDropped ==
  ASSUME NEW T, NEW s \in Seq(T), LastOnly(s), s # <<>>
  PROVE  LET u == SubSeq(s, 2, Len(s))
         IN  LastOnly(u) /\ (s[1] # <<>> => u = <<>>)
<1> DEFINE u == SubSeq(s, 2, Len(s))
<1>1. /\ u \in Seq(T) /\ Len(u) = Len(s) - 1
      /\ \A k \in 1 .. Len(u) : u[k] = s[k + 1]
  BY DroppedFirst
<1>. HIDE DEF u
<1>2. Len(s) \in Nat \ {0} /\ DOMAIN s = 1 .. Len(s) /\ DOMAIN u = 1 .. Len(u)
  BY <1>1, EmptySeq, LenProperties
<1>3. \A k \in 1 .. Len(s) : s[k] # <<>> => k = Len(s)
  BY <1>2 DEF LastOnly, Ends
<1>4. \A n, m : n \in Nat \ {0} /\ m = n - 1 =>
        /\ \A k \in 1 .. m : k + 1 \in 1 .. n /\ (k + 1 = n => k = m)
        /\ 1 \in 1 .. n /\ (1 = n => m = 0)
  OBVIOUS
<1>5. LastOnly(u)
  <2>. SUFFICES ASSUME NEW k \in 1 .. Len(u), u[k] # <<>>
                PROVE  k = Len(u)
    BY <1>2 DEF LastOnly, Ends
  <2>1. k + 1 \in 1 .. Len(s) /\ (k + 1 = Len(s) => k = Len(u))
    BY <1>1, <1>2, <1>4, Zenon
  <2>. QED
    BY <1>1, <1>3, <2>1
<1>6. ASSUME s[1] # <<>>
      PROVE  u = <<>>
  <2>0. 1 \in 1 .. Len(s)
    BY <1>2, <1>4, Zenon
  <2>1. 1 = Len(s)
    BY <1>3, <1>6, <2>0, Zenon
  <2>2. Len(u) = 0
    BY <1>1, <1>2, <1>4, <2>1, Zenon
  <2>. QED
    BY <1>1, <2>2, EmptySeq
<1>. QED
  BY <1>5, <1>6 DEF u

\* Update() empties the FIFO unless uart_puts() has not returned.
LEMMA LeftEmpty ==
  ASSUME NEW T, NEW i \in Cells, fifo[i] \in Seq(T), Len(fifo[i]) <= 1,
         fifo[i] = <<>> \/ tx[i] = <<>>, held[i] \in Int, Room(i) > 0
  PROVE  Left(i) = <<>>
<1> DEFINE s == fifo[i]
<1>1. Len(s) \in 0 .. 1 /\ Len(s) <= Room(i)
  <2>1. Len(s) \in Nat /\ Room(i) \in Int
    BY LenProperties, TimingAssumption DEF Room
  <2>. HIDE DEF s
  <2>2. Len(s) <= 1
    BY DEF s
  <2>3. \A n \in Nat, r \in Int : n <= 1 /\ r > 0 => n \in 0 .. 1 /\ n <= r
    OBVIOUS
  <2>. QED
    BY <2>1, <2>2, <2>3
<1>2. Fitting(i) = s
  <2>1. Fitting(i) = SubSeq(s, 1, Len(s))
    BY <1>1 DEF Fitting
  <2>2. SubSeq(s, 1, Len(s)) = s
    BY SubSeqFull
  <2>. QED
    BY <2>1, <2>2
<1>. HIDE DEF s
<1>3. s \in Seq(T)
  BY DEF s
<1>4. CASE s = <<>>
  <2>1. Ends(s) = {}
    BY <1>4 DEF Ends
  <2>2. Taken(i) = <<>>
    BY <1>2, <1>4, <2>1 DEF Taken
  <2>. QED
    BY <1>4, <2>2 DEF Left, s
<1>5. CASE s # <<>>
  <2>1. Len(s) = 1
    BY <1>1, <1>3, <1>5, EmptySeq
  <2>2. ~ Blocked(i)
    <3>1. Len(tx[i]) = 0
      BY <1>5 DEF s
    <3>. QED
      BY <3>1, TimingAssumption DEF Blocked
  <2>3. Len(Taken(i)) = 1
    <3>1. CASE Ends(s) = {}
      BY <1>2, <2>1, <2>2, <3>1 DEF Taken
    <3>2. CASE Ends(s) # {}
      <4>1. FirstEnd(s) = 1
        BY <1>3, <2>1, <3>2, FirstEndPost DEF Ends
      <4>2. Taken(i) = SubSeq(s, 1, 1)
        BY <1>2, <2>2, <3>2, <4>1 DEF Taken
      <4>. QED
        BY <1>3, <2>1, <4>2
    <3>. QED
      BY <3>1, <3>2
  <2>4. Left(i) = SubSeq(s, 2, 1)
    BY <2>1, <2>3 DEF Left, s
  <2>. QED
    BY <2>4, SubSeqEmpty
<1>. QED
  BY <1>4, <1>5

\* A Tick while the sentence is on the link behind cell j.
LEMMA TickAt ==
  ASSUME RingInv, NotDeaf, Tick, NEW j \in 0 .. size, At(j)
  PROVE  /\ ~ overrun'
         /\ \A i \in Cells : fifo'[i] = Arriving(i)
         /\ \A i \in 1 .. size + 1 : i # j + 1 => Arriving(i) = <<>>
         /\ \A i \in 0 .. size : i # j /\ i # j + 1 => tx'[i] = <<>>
         /\ j < size /\ Ends(fifo[j+1]) = {} => tx'[j+1] = <<>>
         /\ j < size => tx'[j+1] = Reply(j + 1)
         /\ tx'[j] = SubSeq(tx[j], 2, Len(tx[j]))
<1>1. /\ size \in Nat \ {0} /\ Closed(GoodLines)
      /\ \A i \in 0 .. size : tx[i] \in Seq(CharOf(GoodLine)) /\ GoodLines[i] = GoodLine
      /\ \A i \in Cells : fifo[i] \in Seq(CharOf(GoodLine)) /\ i \in 1 .. size
                          /\ i \in 1 .. size + 1 /\ i - 1 \in 0 .. size
  <2>1. size \in Nat \ {0}
    BY DEF RingInv, RingType
  <2>2. \A i \in Cells : i \in 1 .. size /\ i \in 1 .. size + 1 /\ i - 1 \in 0 .. size
    BY <2>1 DEF Cells
  <2>3. \A i \in 0 .. size : GoodLines[i] = GoodLine
    BY <2>1 DEF GoodLines
  <2>. QED
    BY <2>1, <2>2, <2>3, GoodLinesClosed DEF RingInv, Streams
<1>2. ASSUME NEW i \in Cells
      PROVE  Len(fifo[i]) <= 1 /\ (fifo[i] = <<>> \/ tx[i] = <<>>)
  <2>1. CASE i # j + 1
    <3>1. fifo[i] = <<>>
      BY <2>1 DEF At
    <3>. QED
      BY <3>1
  <2>2. CASE i = j + 1
    <3>1. j < size /\ i # j /\ i \in 0 .. size
      BY <1>1, <2>2
    <3>. QED
      BY <2>2, <3>1 DEF At
  <2>. QED
    BY <2>1, <2>2
<1>3. ASSUME NEW i \in Cells
      PROVE  Left(i) = <<>>
  <2>1. held[i] \in Int /\ Room(i) > 0
    BY TimingAssumption DEF RingInv, RingType, NotDeaf
  <2>2. fifo[i] \in Seq(CharOf(GoodLine)) /\ Len(fifo[i]) <= 1 /\ (fifo[i] = <<>> \/ tx[i] = <<>>)
    BY <1>1, <1>2
  <2>. QED
    BY <2>1, <2>2, LeftEmpty
<1>4. 0 # FifoDepth /\ 0 < FifoDepth /\ Len(<<>>) = 0
  BY TimingAssumption
<1>5. ~ overrun'
  BY <1>3, <1>4 DEF Tick
<1>6. ASSUME NEW i \in Cells
      PROVE  fifo'[i] = Arriving(i)
  <2>1. fifo'[i] = IF Len(Left(i)) < FifoDepth THEN Left(i) \o Arriving(i) ELSE Left(i)
    BY DEF Tick
  <2>2. fifo'[i] = <<>> \o Arriving(i)
    BY <1>3, <1>4, <2>1
  <2>3. Arriving(i) \in Seq(CharOf(GoodLine))
    BY <1>1, ArrivingPost
  <2>. QED
    BY <2>2, <2>3, ConcatEmptySeq
<1>7. ASSUME NEW i \in 1 .. size + 1, i # j + 1
      PROVE  Arriving(i) = <<>>
  <2>1. i - 1 \in 0 .. size /\ i - 1 # j
    BY <1>1, <1>7
  <2>2. tx[i-1] = <<>>
    BY <2>1 DEF At
  <2>. QED
    BY <2>2 DEF Arriving
<1>8. \A i \in 0 .. size : tx'[i] = SubSeq(tx[i], 2, Len(tx[i])) \o Reply(i)
  BY <1>1, TickStreams DEF RingInv
<1>9. \A i \in 0 .. size : tx[i] = <<>> => SubSeq(tx[i], 2, Len(tx[i])) = <<>>
  BY <1>1, DroppedFirst
<1>10. ASSUME NEW i \in 0 .. size, i # j + 1 \/ Ends(fifo[i]) = {}
       PROVE  Reply(i) = <<>>
  <2>1. CASE i = 0
    BY <2>1 DEF Reply
  <2>2. CASE i # 0
    <3>1. i \in Cells
      BY <1>1, <2>2 DEF Cells
    <3>2. Ends(fifo[i]) = {}
      <4>1. i # j + 1 => fifo[i] = <<>>
        BY <3>1 DEF At
      <4>2. Ends(<<>>) = {}
        BY DEF Ends
      <4>. QED
        BY <1>10, <4>1, <4>2
    <3>. QED
      BY <1>1, <3>2, ReplyPost DEF RingInv
  <2>. QED
    BY <2>1, <2>2
<1>11. \A i \in 0 .. size : i # j /\ i # j + 1 => tx'[i] = <<>>
  <2>1. <<>> \o <<>> = <<>>
    OBVIOUS
  <2>. QED
    BY <1>8, <1>9, <1>10, <2>1 DEF At
<1>12. ASSUME j < size
       PROVE  tx'[j+1] = Reply(j + 1)
  <2>1. j + 1 \in 0 .. size /\ j + 1 # j
    BY <1>1, <1>12
  <2>2. tx[j+1] = <<>>
    BY <2>1 DEF At
  <2>3. Reply(j + 1) \in Seq(CharOf(GoodLine))
    BY <2>1, ReplyClosing
  <2>4. tx'[j+1] = <<>> \o Reply(j + 1)
    BY <1>8, <1>9, <2>1, <2>2
  <2>. QED
    BY <2>3, <2>4, ConcatEmptySeq
<1>13. j < size /\ Ends(fifo[j+1]) = {} => tx'[j+1] = <<>>
  <2>1. j < size => j + 1 \in 0 .. size
    BY <1>1
  <2>. QED
    BY <1>10, <1>12, <2>1
<1>14. tx'[j] = SubSeq(tx[j], 2, Len(tx[j]))
  <2>1. j # j + 1
    BY <1>1
  <2>2. tx'[j] = SubSeq(tx[j], 2, Len(tx[j])) \o <<>>
    BY <1>8, <1>10, <2>1
  <2>3. SubSeq(tx[j], 2, Len(tx[j])) \in Seq(CharOf(GoodLine))
    BY <1>1, DroppedFirst
  <2>. QED
    BY <2>2, <2>3, ConcatEmptySeq
<1>. QED
  BY <1>5, <1>6, <1>7, <1>11, <1>12, <1>13, <1>14

\* The sentence stays on its link, or its last character has been processed and the
\* cell's reply starts on the next.
LEMMA AtTick ==
  ASSUME RingInv, NotDeaf, Tick, NEW j \in 0 .. size, At(j)
  PROVE  \E k \in 0 .. size : At(k)'
<1> DEFINE T == CharOf(GoodLine)
           a == tx[j]
           x == Arriving(j + 1)
<1>1. /\ size' = size /\ Cells' = Cells /\ size \in Nat \ {0}
      /\ a \in Seq(T) /\ inbox \in Seq(T) /\ j + 1 \in 1 .. size + 1 /\ (j + 1) - 1 = j
  <2>1. size' = size /\ Cells' = Cells /\ size \in Nat \ {0}
    BY DEF RingInv, RingType, Tick, Cells
  <2>2. GoodLines[j] = GoodLine /\ GoodLines[size] = GoodLine
    BY <2>1 DEF GoodLines
  <2>3. j + 1 \in 1 .. size + 1 /\ (j + 1) - 1 = j
    BY <2>1
  <2>. QED
    BY <2>1, <2>2, <2>3 DEF RingInv, Streams
<1>2. /\ \A i \in Cells : fifo'[i] = Arriving(i)
      /\ \A i \in 1 .. size + 1 : i # j + 1 => Arriving(i) = <<>>
      /\ \A i \in 0 .. size : i # j /\ i # j + 1 => tx'[i] = <<>>
      /\ j < size /\ Ends(fifo[j+1]) = {} => tx'[j+1] = <<>>
      /\ j < size => tx'[j+1] = Reply(j + 1)
      /\ tx'[j] = SubSeq(a, 2, Len(a))
  BY TickAt
<1>3. inbox' = inbox \o Arriving(size + 1)
  BY DEF Tick
<1>4. LastOnly(a)
  BY DEF At
<1>5. /\ a = <<>> => x = <<>> /\ tx'[j] = <<>>
      /\ a # <<>> => x = <<a[1]>> /\ x # <<>>
  <2>1. \A i \in 1 .. size + 1 : i = j + 1 /\ tx[i-1] \in Seq(T) =>
          /\ tx[i-1] = <<>> => Arriving(i) = <<>>
          /\ tx[i-1] # <<>> => Arriving(i) = <<tx[i-1][1]>> /\ Arriving(i) # <<>>
    BY ArrivingPost
  <2>2. a = <<>> => tx'[j] = <<>>
    BY <1>1, <1>2, DroppedFirst
  <2>. QED
    BY <1>1, <2>1, <2>2
<1>6. LastOnly(tx'[j]) /\ (a # <<>> /\ a[1] # <<>> => tx'[j] = <<>>)
  <2>1. LastOnly(<<>>)
    BY DEF LastOnly, Ends
  <2>2. CASE a = <<>>
    BY <1>5, <2>1, <2>2
  <2>3. CASE a # <<>>
    BY <1>1, <1>2, <1>4, <2>3, LastOnlyDropped
  <2>. QED
    BY <2>2, <2>3
<1>7. Len(x) \in {0, 1} /\ LastOnly(x) /\ (Ends(x) # {} => a # <<>> /\ a[1] # <<>>)
  <2>1. CASE a = <<>>
    BY <1>5, <2>1 DEF LastOnly, Ends
  <2>2. CASE a # <<>>
    <3>1. x = <<a[1]>>
      BY <1>5, <2>2
    <3>2. Len(<<a[1]>>) = 1 /\ LastOnly(<<a[1]>>) /\ (Ends(<<a[1]>>) # {} => a[1] # <<>>)
      BY OneCharacter
    <3>. HIDE DEF x, a
    <3>. QED
      BY <2>2, <3>1, <3>2
  <2>. QED
    BY <2>1, <2>2
<1>8. CASE j < size /\ Ends(fifo[j+1]) = {}
  <2>1. j + 1 \in Cells /\ size + 1 # j + 1 /\ j # size /\ size + 1 \in 1 .. size + 1
        /\ (\A i \in Cells : i \in 1 .. size + 1)
    BY <1>1, <1>8 DEF Cells
  <2>2. fifo'[j+1] = x /\ \A i \in Cells : i # j + 1 => fifo'[i] = <<>>
    BY <1>2, <2>1
  <2>3. inbox' = <<>>
    <3>1. inbox = <<>> /\ Arriving(size + 1) = <<>>
      BY <1>2, <1>8, <2>1 DEF At
    <3>. QED
      BY <1>3, <3>1
  <2>4. \A i \in 0 .. size : i # j => tx'[i] = <<>>
    BY <1>2, <1>8
  <2>5. Ends(x) # {} => tx'[j] = <<>>
    BY <1>6, <1>7
  <2>6. Len(x) <= 1
    <3>1. \A n \in {0, 1} : n <= 1
      OBVIOUS
    <3>. QED
      BY <1>7, <3>1, Zenon
  <2>7. At(j)'
    <3>. HIDE DEF x, a, T
    <3>. QED
      BY <1>1, <1>6, <2>1, <2>2, <2>3, <2>4, <2>5, <2>6 DEF At, LastOnly, Ends
  <2>. QED
    BY <2>7
<1>9. CASE j < size /\ Ends(fifo[j+1]) # {}
  <2>1. /\ j + 1 \in Cells /\ j + 1 \in 0 .. size /\ size + 1 # j + 1 /\ j # size
        /\ size + 1 \in 1 .. size + 1 /\ (\A i \in Cells : i \in 1 .. size + 1)
    BY <1>1, <1>9 DEF Cells
  <2>2. a = <<>> /\ inbox = <<>>
    BY <1>9 DEF At
  <2>3. \A i \in Cells : fifo'[i] = <<>>
    BY <1>2, <1>5, <2>1, <2>2
  <2>4. inbox' = <<>>
    <3>1. Arriving(size + 1) = <<>>
      BY <1>2, <2>1
    <3>. QED
      BY <1>3, <2>2, <3>1
  <2>5. \A i \in 0 .. size : i # j + 1 => tx'[i] = <<>>
    BY <1>2, <1>5, <2>2
  <2>6. tx'[j+1] = Reply(j + 1) /\ LastOnly(Reply(j + 1))
    <3>1. Closed(GoodLines) /\ GoodLines[j+1] = GoodLine
      BY <1>1, GoodLinesClosed DEF GoodLines
    <3>2. Reply(j + 1) = <<>> \/ \E m \in GoodLine : Reply(j + 1) = Chars(m)
      BY <2>1, <3>1, ReplyPost DEF RingInv
    <3>3. \A m \in GoodLine : Ends(Chars(m)) = {Len(Chars(m))}
      BY CharsPost
    <3>4. Ends(<<>>) = {}
      BY DEF Ends
    <3>. QED
      BY <1>2, <1>9, <3>2, <3>3, <3>4 DEF LastOnly
  <2>7. LastOnly(<<>>) /\ Ends(<<>>) = {} /\ Len(<<>>) = 0
    BY DEF LastOnly, Ends
  <2>8. At(j + 1)'
    <3>. HIDE DEF x, a, T
    <3>1. \A i \in Cells : i # (j + 1) + 1 => fifo'[i] = <<>>
      BY <2>3
    <3>2. j + 1 < size => (j + 1) + 1 \in Cells
      BY <1>1, <2>1 DEF Cells
    <3>3. j + 1 < size => Len(fifo'[(j+1)+1]) <= 1 /\ Ends(fifo'[(j+1)+1]) = {}
      BY <2>3, <2>7, <3>2
    <3>4. Ends(inbox') = {} /\ LastOnly(inbox') /\ LastOnly(tx'[j+1])
      BY <2>4, <2>6, <2>7
    <3>. QED
      BY <1>1, <2>4, <2>5, <3>1, <3>3, <3>4 DEF At, LastOnly, Ends
  <2>. QED
    BY <2>1, <2>8
<1>10. CASE j = size
  <2>1. size + 1 \notin Cells /\ (\A i \in Cells : i \in 1 .. size + 1) /\ ~ (j < size)
        /\ (\A i \in 0 .. size : i # size + 1)
    BY <1>1, <1>10 DEF Cells
  <2>2. \A i \in Cells : fifo'[i] = <<>>
    BY <1>2, <1>10, <2>1
  <2>3. \A i \in 0 .. size : i # j => tx'[i] = <<>>
    BY <1>2, <1>10, <2>1
  <2>4. inbox' = inbox \o x
    BY <1>3, <1>10
  <2>5. LastOnly(inbox') /\ (Ends(inbox') # {} => tx'[j] = <<>>)
    <3>1. CASE a = <<>>
      <4>1. inbox' = inbox
        BY <1>1, <1>5, <2>4, <3>1, ConcatEmptySeq
      <4>2. LastOnly(inbox)
        BY <1>10 DEF At
      <4>. QED
        BY <1>5, <3>1, <4>1, <4>2
    <3>2. CASE a # <<>>
      <4>1. Ends(inbox) = {}
        BY <1>10, <3>2 DEF At
      <4>2. x \in Seq(T) /\ Len(x) = 1
        <5>1. a[1] \in T
          BY <1>1, <3>2, HeadTailProperties
        <5>2. x = <<a[1]>>
          BY <1>5, <3>2
        <5>3. <<a[1]>> \in Seq(T) /\ Len(<<a[1]>>) = 1
          BY <5>1
        <5>. HIDE DEF x, a, T
        <5>. QED
          BY <5>2, <5>3
      <4>3. /\ Len(inbox') = Len(inbox) + 1
            /\ \A k \in Ends(inbox') : k - Len(inbox) \in Ends(x)
        <5>. HIDE DEF x, a, T
        <5>1. /\ Len(inbox \o x) = Len(inbox) + Len(x)
              /\ \A k \in Ends(inbox \o x) : k \in Ends(inbox) \/ k - Len(inbox) \in Ends(x)
          BY <1>1, <4>2, EndsConcat
        <5>. QED
          BY <2>4, <4>1, <4>2, <5>1
      <4>4. \A k \in Ends(inbox') : k - Len(inbox) = 1 /\ k \in Int
        BY <1>7, <4>2, <4>3 DEF LastOnly, Ends
      <4>5. Len(inbox) \in Nat
        BY <1>1, LenProperties
      <4>6. LastOnly(inbox')
        <5>1. \A k, n : k \in Int /\ n \in Nat /\ k - n = 1 => k = n + 1
          OBVIOUS
        <5>. QED
          BY <4>3, <4>4, <4>5, <5>1, Zenon DEF LastOnly
      <4>7. Ends(inbox') # {} => tx'[j] = <<>>
        BY <1>6, <1>7, <4>3
      <4>. QED
        BY <4>6, <4>7
    <3>. QED
      BY <3>1, <3>2
  <2>6. At(j)'
    <3>. HIDE DEF x, a, T
    <3>. QED
      BY <1>1, <1>6, <1>10, <2>1, <2>2, <2>3, <2>5 DEF At, LastOnly, Ends
  <2>. QED
    BY <2>6
<1>. QED
  BY <1>1, <1>8, <1>9, <1>10

LEMMA QuietTick ==
  ASSUME RingInv, NotDeaf, Tick, Quiet
  PROVE  Quiet'
<1>1. size' = size /\ Cells' = Cells /\ size \in Nat \ {0}
  BY DEF RingInv, RingType, Tick, Cells
<1>2. At(0) /\ 0 \in 0 .. size /\ 0 + 1 = 1 /\ 0 < size
  <2>1. 0 \in 0 .. size /\ 0 + 1 \in Cells /\ 0 # size /\ 0 < size
    BY <1>1 DEF Cells
  <2>2. LastOnly(<<>>) /\ Len(<<>>) = 0 /\ Ends(<<>>) = {}
    BY DEF LastOnly, Ends
  <2>. QED
    BY <2>1, <2>2 DEF Quiet, At
<1>3. /\ \A i \in Cells : fifo'[i] = Arriving(i)
      /\ \A i \in 0 .. size : i # 0 /\ i # 1 => tx'[i] = <<>>
      /\ Ends(fifo[1]) = {} => tx'[1] = <<>>
      /\ tx'[0] = SubSeq(tx[0], 2, Len(tx[0]))
  BY <1>2, TickAt
<1>4. \A i \in 1 .. size + 1 : Arriving(i) = <<>>
  <2>1. \A i \in 1 .. size + 1 : i - 1 \in 0 .. size
    BY <1>1
  <2>. QED
    BY <2>1 DEF Arriving, Quiet
<1>5. \A i \in Cells : fifo'[i] = <<>>
  <2>1. \A i \in Cells : i \in 1 .. size + 1
    BY <1>1 DEF Cells
  <2>. QED
    BY <1>3, <1>4, <2>1
<1>6. \A i \in 0 .. size : tx'[i] = <<>>
  <2>1. 1 \in Cells /\ 0 \in 0 .. size
    BY <1>1 DEF Cells
  <2>2. fifo[1] = <<>> /\ tx[0] = <<>>
    BY <2>1 DEF Quiet
  <2>3. tx'[1] = <<>>
    BY <1>3, <2>2 DEF Ends
  <2>4. tx'[0] = <<>>
    BY <1>3, <2>2
  <2>. QED
    BY <1>3, <2>3, <2>4
<1>7. inbox' = <<>>
  <2>1. size + 1 \in 1 .. size + 1
    BY <1>1
  <2>2. inbox' = inbox \o Arriving(size + 1)
    BY DEF Tick
  <2>. QED
    BY <1>4, <2>1, <2>2 DEF Quiet
<1>. QED
  BY <1>1, <1>5, <1>6, <1>7 DEF Quiet

LEMMA AloneStep ==
  ASSUME RingInv, NotDeaf, Alone, [Next]_vars
  PROVE  Alone'
<1>0. size \in Nat \ {0} /\ master.missed \in Nat
  BY DEF RingInv, RingType
<1>1. ASSUME NEW r \in program.requests, Transmit(r)
      PROVE  Alone'
  <2>. SUFFICES ASSUME master.missed = 0
                PROVE  ~ overrun' /\ (\E j \in 0 .. size : At(j)') /\ master'.reading
    BY <1>0, <1>1 DEF Alone, Transmit, RingInv, RingType
  <2>1. ~ overrun /\ Quiet
    BY <1>1 DEF Alone, Transmit
  <2>2. /\ size' = size /\ Cells' = Cells /\ inbox' = inbox /\ fifo' = fifo /\ overrun' = overrun
        /\ master'.reading
    BY <1>1 DEF Transmit, Cells, RingInv, RingType
  <2> DEFINE s == Chars(Packetize(r))
  <2>3. LastOnly(s) /\ s \in Seq(CharOf(GoodLine))
    <3>1. Packetize(r) \in GoodLine
      BY ProgramPost, PacketizeType DEF RingInv, RingType
    <3>. QED
      BY <3>1, CharsPost DEF LastOnly
  <2>. HIDE DEF s
  <2>4. tx'[0] = s /\ \A i \in 0 .. size : i # 0 => tx'[i] = <<>>
    <3>1. tx' = [tx EXCEPT ![0] = tx[0] \o s] /\ DOMAIN tx = 0 .. size /\ 0 \in 0 .. size
      BY <1>0, <1>1 DEF Transmit, s, RingInv, RingType
    <3>2. tx'[0] = <<>> \o s
      BY <2>1, <3>1 DEF Quiet
    <3>3. <<>> \o s = s
      BY <2>3, ConcatEmptySeq
    <3>4. \A i \in 0 .. size : i # 0 => tx'[i] = tx[i]
      BY <3>1
    <3>. QED
      BY <2>1, <3>2, <3>3, <3>4 DEF Quiet
  <2>5. 0 \in 0 .. size /\ 0 + 1 \in Cells /\ 0 # size
    BY <1>0 DEF Cells
  <2>6. Len(<<>>) = 0 /\ Ends(<<>>) = {}
    BY DEF Ends
  <2>7. fifo'[0+1] = <<>> /\ inbox' = <<>> /\ \A i \in Cells : fifo'[i] = <<>>
    BY <2>1, <2>2, <2>5 DEF Quiet
  <2>8. At(0)'
    BY <2>2, <2>3, <2>4, <2>5, <2>6, <2>7 DEF At, LastOnly, Ends
  <2>. QED
    BY <2>1, <2>2, <2>5, <2>8
<1>2. CASE ReadLine
  <2>. SUFFICES ASSUME master.missed = 0
                PROVE  ~ overrun' /\ (\E j \in 0 .. size : At(j)') /\ Quiet'
    BY <1>2 DEF Alone, ReadLine, RingInv, RingType
  <2>1. ~ overrun /\ Ends(inbox) # {}
    BY <1>2 DEF Alone, ReadLine
  <2>2. PICK j \in 0 .. size : At(j)
    BY DEF Alone
  <2>3. j = size
    <3>1. Ends(<<>>) = {}
      BY DEF Ends
    <3>2. j < size \/ j = size
      BY <1>0
    <3>. QED
      BY <2>1, <2>2, <3>1, <3>2 DEF At
  <2>4. tx[size] = <<>> /\ LastOnly(inbox)
    BY <2>1, <2>2, <2>3 DEF At
  <2>5. inbox' = <<>>
    <3>1. inbox \in Seq(CharOf(GoodLines[size]))
      BY DEF RingInv, Streams
    <3>2. FirstEnd(inbox) = Len(inbox)
      BY <2>1, <2>4, <3>1, FirstEndPost DEF LastOnly
    <3>3. inbox' = SubSeq(inbox, Len(inbox) + 1, Len(inbox)) /\ Len(inbox) \in Nat
      BY <1>2, <3>1, <3>2, LenProperties DEF ReadLine
    <3>4. Len(inbox) + 1 \in Int /\ Len(inbox) \in Int /\ Len(inbox) < Len(inbox) + 1
      BY <3>3
    <3>. QED
      BY <3>3, <3>4, SubSeqEmpty
  <2>6. size' = size /\ Cells' = Cells /\ tx' = tx /\ fifo' = fifo /\ overrun' = overrun
    BY <1>2 DEF ReadLine, Cells
  <2>7. Quiet'
    <3>1. \A i \in Cells : i # size + 1
      BY <1>0 DEF Cells
    <3>. QED
      BY <2>2, <2>3, <2>4, <2>5, <2>6, <3>1 DEF At, Quiet
  <2>8. At(size)'
    <3>1. Ends(<<>>) = {}
      BY DEF Ends
    <3>2. ~ (size < size) /\ size \in 0 .. size
      BY <1>0
    <3>3. \A i \in 0 .. size : tx'[i] = <<>>
      BY <2>6, <2>7 DEF Quiet
    <3>4. \A i \in Cells : fifo'[i] = <<>>
      BY <2>6, <2>7 DEF Quiet
    <3>. QED
      BY <2>5, <2>6, <3>1, <3>2, <3>3, <3>4 DEF At, LastOnly, Ends
  <2>. QED
    BY <2>1, <2>2, <2>3, <2>6, <2>7, <2>8
<1>3. CASE ReadTimeout
  <2>1. master'.missed = master.missed + 1
    BY <1>3 DEF ReadTimeout, RingInv, RingType
  <2>. QED
    BY <1>0, <2>1 DEF Alone
<1>4. CASE Tick
  <2>1. master'.missed = master.missed /\ master'.reading = master.reading /\ size' = size
    BY <1>4 DEF Tick, RingInv, RingType
  <2>. SUFFICES ASSUME master.missed = 0
                PROVE  /\ ~ overrun' /\ \E j \in 0 .. size : At(j)'
                       /\ ~ master.reading => Quiet'
    BY <2>1 DEF Alone
  <2>2. PICK j \in 0 .. size : At(j)
    BY DEF Alone
  <2>3. ~ overrun' /\ \E k \in 0 .. size : At(k)'
    BY <1>4, <2>2, TickAt, AtTick
  <2>4. ~ master.reading => Quiet'
    BY <1>4, QuietTick DEF Alone
  <2>. QED
    BY <2>3, <2>4
<1>5. CASE UNCHANGED vars
  BY <1>5 DEF vars, Alone, At, Quiet, LastOnly, Ends, Cells
<1>. QED
  BY <1>1, <1>2, <1>3, <1>4, <1>5 DEF Next

\* No receive FIFO overruns before a readline has timed out: however many cells the
\* ring has, whatever requests that fit the receive buffer the programs send and
\* however small the FIFO, uart_puts() may keep Update() from receiving (scbs.cc:
\* Update, ReceivePacket, uart_puts).
THEOREM NoOverrunCorrect ==
  ASSUME RequestsFit, RepliesFit
  PROVE  Spec => []NoOverrun
<1>1. Init => FitInv /\ Alone
  <2>. SUFFICES ASSUME Init PROVE FitInv /\ Alone
    OBVIOUS
  <2>1. size \in Nat \ {0}
    BY RingInvInit DEF RingInv, RingType
  <2>2. Quiet /\ ~ overrun
    BY DEF Init, Quiet
  <2>. QED
    BY <2>1, <2>2, FitInvInit, QuietAt DEF Alone
<1>2. FitInv /\ Alone /\ [Next]_vars => FitInv' /\ Alone'
  BY FitInvStep, AloneStep DEF FitInv, SpacedInv
<1>3. Alone => NoOverrun
  BY DEF Alone, NoOverrun
<1>. QED
  BY <1>1, <1>2, <1>3, PTL DEF Spec

\* That is so with the buffers of scbs.hh and scbs_comms.hh if what the user types
\* makes sentences of less than 200 characters.
THEOREM NoOverrunInCode ==
  ASSUME CodeBuffers, RequestsFit
  PROVE  Spec => []NoOverrun
  BY CodeFits, NoOverrunCorrect

(***************************************************************************)
(* A multiple read has one value of each cell it has passed.               *)
(***************************************************************************)

\* The lines cell i may send, as far as a multiple read is concerned.
ReadLines ==
  [i \in Nat |->
     {l \in GoodLine :
        /\ ShortRead(l)
        /\ l.hdr = "MRD" /\ Leading(l) # kRegAddrReadFirmwareVersion =>
             Len(l.fields) = 1 + i /\ (i > 0 => i <= kMaxNumValues)}]

\* ToString() leaves out no value of a voltage or current.
RoomForReads ==
  \A addr \in {kRegAddrSetOutputVoltage, kRegAddrReadOutputCurrent} :
    \A n \in 1 .. kMaxNumValues : RoomFor(addr, n)

LEMMA ReadLinesClosed ==
  ASSUME RoomForReads, size \in Nat
  PROVE  Closed(ReadLines)
<1>1. ASSUME NEW n \in Nat
      PROVE  ReadLines[n] \in SUBSET GoodLine
  BY DEF ReadLines
<1>2. ASSUME NEW r \in Request
      PROVE  Packetize(r) \in ReadLines[0]
  <2> DEFINE l == Packetize(r)
  <2>1. l \in GoodLine /\ l.hdr = r.type /\ ShortRead(l)
    BY PacketizeType, PacketizeComplete DEF Complete
  <2>2. l.hdr = "MRD" => Len(l.fields) = 1 + 0
    <3>1. l.hdr = "MRD" => Len(l.fields) = 1
      BY <2>1, PacketizeComplete
    <3>. HIDE DEF l
    <3>2. 1 + 0 = 1
      OBVIOUS
    <3>. QED
      BY <3>1, <3>2, Zenon
  <2>. HIDE DEF l
  <2>3. l \in ReadLines[0]
    BY <2>1, <2>2 DEF ReadLines
  <2>. QED
    BY <2>3 DEF l
<1>4. ASSUME NEW i \in 1 .. size, NEW c \in Cell, NEW l \in ReadLines[i-1], NEW m,
             Process(c, l).out = <<m>>
      PROVE  m \in ReadLines[i]
  <2>1. i \in Nat /\ i > 0 /\ i - 1 \in Nat /\ 1 + (i - 1) = i /\ i + 1 = 1 + i
    OBVIOUS
  <2>2. /\ l \in GoodLine /\ ShortRead(l)
        /\ l.hdr = "MRD" /\ Leading(l) # kRegAddrReadFirmwareVersion => Len(l.fields) = i
    BY <2>1 DEF ReadLines
  <2>3. m \in GoodLine
    BY <1>4, <2>2, ProcessGood
  <2>4. /\ ShortRead(m)
        /\ m.hdr = "MRD" =>
             /\ l.hdr = "MRD" /\ Leading(m) = Leading(l)
             /\ Leading(l) \in Readable /\ Len(l.fields) <= kMaxNumValues
             /\ RoomFor(Leading(l), Len(l.fields)) => Len(m.fields) = Len(l.fields) + 1
    BY <1>4, <2>2, ProcessRead
  <2>5. ASSUME m.hdr = "MRD", Leading(m) # kRegAddrReadFirmwareVersion
        PROVE  Len(m.fields) = 1 + i /\ i <= kMaxNumValues
    <3>1. Len(l.fields) = i /\ i <= kMaxNumValues
      BY <2>2, <2>4, <2>5
    <3>2. Leading(l) \in {kRegAddrSetOutputVoltage, kRegAddrReadOutputCurrent}
      BY <2>4, <2>5 DEF Readable
    <3>3. i \in 1 .. kMaxNumValues
      BY <2>1, <3>1, PacketAssumption
    <3>4. RoomFor(Leading(l), i)
      BY <3>2, <3>3 DEF RoomForReads
    <3>. QED
      BY <2>1, <2>4, <2>5, <3>1, <3>4
  <2>. QED
    BY <2>1, <2>3, <2>4, <2>5 DEF ReadLines
<1>. QED
  BY <1>1, <1>2, <1>4, RequestsPost DEF Closed

\* What comes back for a multiple read of a voltage or current has a value of each
\* cell, however many rounds the programs run, whatever they were sent before and
\* however late the answer: a handler that has no room for its value answers with an
\* error (scbs.cc: MRDPacketHandler; scbs_comms.cc: MRDPacket::ToString).
THEOREM ReadsCompleteCorrect ==
  ASSUME RoomForReads
  PROVE  Spec => []ReadsComplete
<1> DEFINE Inv == RingType /\ Streams(ReadLines)
<1>1. Init => Inv
  <2>. SUFFICES ASSUME Init PROVE Inv
    OBVIOUS
  <2>1. size \in Nat
    BY TimingAssumption, PacketAssumption DEF Init, Id
  <2>. QED
    BY <2>1, ReadLinesClosed, InitStreams
<1>2. Inv /\ [Next]_vars => Inv'
  <2>. SUFFICES ASSUME RingType, Streams(ReadLines), [Next]_vars
                PROVE  RingType' /\ Streams(ReadLines)'
    OBVIOUS
  <2>0. Closed(ReadLines)
    BY ReadLinesClosed DEF RingType
  <2>1. ASSUME NEW r \in program.requests, Transmit(r)
        PROVE  RingType' /\ Streams(ReadLines)'
    BY <2>0, <2>1, TransmitStreams
  <2>2. CASE ReadLine
    BY <2>2, ReadLineStreams
  <2>3. CASE ReadTimeout
    BY <2>3, ReadTimeoutStreams
  <2>4. CASE Tick
    BY <2>0, <2>4, TickStreams
  <2>5. CASE UNCHANGED vars
    BY <2>5 DEF vars, RingType, Streams, Cells
  <2>. QED
    BY <2>1, <2>2, <2>3, <2>4, <2>5 DEF Next
<1>3. Inv => ReadsComplete
  <2>. SUFFICES ASSUME RingType, Streams(ReadLines), NEW k \in Ends(inbox),
                       inbox[k][1].hdr = "MRD",
                       inbox[k][1].fields[1].n # kRegAddrReadFirmwareVersion
                PROVE  size <= kMaxNumValues /\ Len(inbox[k][1].fields) = 1 + size
    BY DEF ReadsComplete
  <2>1. size \in Nat /\ size > 0 /\ inbox \in Seq(CharOf(ReadLines[size]))
    BY DEF RingType, Streams
  <2>2. inbox[k] \in CharOf(ReadLines[size]) /\ inbox[k] # <<>>
    BY <2>1, ElementOfSeq DEF Ends
  <2>3. PICK l \in ReadLines[size] : inbox[k] = <<l>>
    BY <2>2 DEF CharOf
  <2>4. l.hdr = "MRD" /\ l.fields[1].n # kRegAddrReadFirmwareVersion /\ inbox[k][1] = l
    BY <2>3
  <2>5. Leading(l) # kRegAddrReadFirmwareVersion
    BY <2>4, SMT DEF Leading, ToNum, kRegAddrReadFirmwareVersion
  <2>. QED
    BY <2>1, <2>4, <2>5 DEF ReadLines
<1>. QED
  BY <1>1, <1>2, <1>3, PTL DEF Spec

\* With the buffer sizes of scbs_comms.hh there is that room.
THEOREM ReadsCompleteInCode ==
  ASSUME CodeSizes
  PROVE  Spec => []ReadsComplete
<1>1. RoomForReads
  BY CodeHasRoom DEF RoomForReads
<1>. QED
  BY <1>1, ReadsCompleteCorrect

=============================================================================
