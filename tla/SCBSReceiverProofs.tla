-------------------------- MODULE SCBSReceiverProofs --------------------------
(***************************************************************************)
(* Theorems about the receive path: its types and the bound of the buffer, *)
(* that nothing is skipped, and that the receiver is never stuck while the *)
(* sentences fit.                                                          *)
(***************************************************************************)
EXTENDS SCBSReceiver, SCBSInduction, SequenceTheorems

-----------------------------------------------------------------------------
(***************************************************************************)
(* Types.                                                                  *)
(***************************************************************************)

\* The buffer and its counter are in step and the buffer has room for a character
\* whenever ReceivePacket() takes one, so uart_rx_buf_ never overflows and holds
\* one sentence at most.
LEMMA TypeStep ==
  ASSUME TypeOK, OneSentence, [Next]_vars
  PROVE  TypeOK' /\ OneSentence'
<1>. USE ReceiverAssumption
<1>1. CASE UNCHANGED vars
  BY <1>1 DEF vars, TypeOK, OneSentence
<1>2. ASSUME NEW c \in Char, Arrive(c)
      PROVE  TypeOK' /\ OneSentence'
  <2>1. Append(fifo, c) \in Seq(Char) /\ Len(Append(fifo, c)) = Len(fifo) + 1
        /\ Append(arrived, c) \in Seq(Char)
    BY <1>2, AppendProperties DEF TypeOK
  <2>2. UNCHANGED <<buf, len, handling, handed>>
    BY <1>2 DEF Arrive
  <2>3. sentLen' \in Nat /\ arrivals' \in Nat
    <3>1. arrivals' = arrivals + 1 /\ sentLen' = IF c = EOL THEN 0 ELSE sentLen + 1
      BY <1>2 DEF Arrive
    <3>. QED
      BY <3>1 DEF TypeOK
  <2>4. whole' \in BOOLEAN
    BY <1>2 DEF Arrive
  <2>5. \/ fifo' = Append(fifo, c) /\ Len(fifo) < FifoDepth /\ arrived' = Append(arrived, c)
        \/ UNCHANGED <<fifo, arrived>>
    BY <1>2 DEF Arrive
  <2>6. fifo' \in Seq(Char) /\ Len(fifo') <= FifoDepth /\ arrived' \in Seq(Char)
    <3>1. Len(fifo) \in Nat /\ Len(fifo) <= FifoDepth /\ fifo \in Seq(Char)
          /\ arrived \in Seq(Char)
      BY LenProperties DEF TypeOK
    <3>2. CASE fifo' = Append(fifo, c) /\ Len(fifo) < FifoDepth /\ arrived' = Append(arrived, c)
      BY <2>1, <3>1, <3>2
    <3>3. CASE UNCHANGED <<fifo, arrived>>
      BY <3>1, <3>3
    <3>. QED
      BY <2>5, <3>2, <3>3
  <2>. QED
    BY <2>2, <2>3, <2>4, <2>6 DEF TypeOK, OneSentence
<1>3. CASE ReceiveChar
  <2> DEFINE c == Head(fifo)
  <2>1. c \in Char /\ Tail(fifo) \in Seq(Char) /\ Len(Tail(fifo)) = Len(fifo) - 1
    BY <1>3, HeadTailProperties DEF ReceiveChar, TypeOK
  <2>2. AppendCharToUARTBuf(c) /\ handling' = (c = EOL) /\ fifo' = Tail(fifo)
        /\ UNCHANGED <<sentLen, whole, arrived, handed, arrivals>>
        /\ len < kMaxUARTBufLen - 1 /\ ~ handling
    BY <1>3 DEF ReceiveChar, CanTake, TypeOK
  <2>. HIDE DEF c
  <2>3. CASE c = NUL
    <3>1. c # EOL /\ buf' = buf /\ len' = len + 1
      BY <2>2, <2>3 DEF AppendCharToUARTBuf
    <3>. QED
      BY <2>1, <2>2, <3>1, LenProperties DEF TypeOK, OneSentence
  <2>4. CASE c # NUL
    <3>1. buf' = Append(buf, c) /\ len' = len + 1
      BY <2>2, <2>4 DEF AppendCharToUARTBuf
    <3>2. c \in Char \ {NUL}
      BY <2>1, <2>4
    <3>3. buf' \in Seq(Char \ {NUL}) /\ Len(buf') = Len(buf) + 1 /\ buf'[Len(buf) + 1] = c
          /\ \A k \in 1 .. Len(buf) : buf'[k] = buf[k]
      BY <3>1, <3>2, AppendProperties DEF TypeOK
    <3>4. Len(buf) \in Nat /\ DOMAIN buf = 1 .. Len(buf) /\ DOMAIN buf' = 1 .. Len(buf')
      BY <3>3, LenProperties DEF TypeOK
    <3>5. TypeOK'
      BY <2>1, <2>2, <3>1, <3>3, <3>4, LenProperties DEF TypeOK, OneSentence
    <3>6. OneSentence'
      <4>1. Len(buf') <= len' /\ (handling' => buf' # <<>>)
        BY <3>1, <3>3, <3>4, EmptySeq DEF TypeOK, OneSentence
      <4>2. \A k \in 1 .. Len(buf) : buf[k] # EOL
        BY <2>2, <3>4 DEF OneSentence
      <4>3. \A k \in DOMAIN buf' : buf'[k] = EOL <=> c = EOL /\ k = Len(buf) + 1
        BY <3>3, <3>4, <4>2
      <4>4. \A k \in DOMAIN buf' : buf'[k] = EOL <=> handling' /\ k = Len(buf')
        BY <2>2, <3>3, <4>3
      <4>. QED
        BY <4>1, <4>4 DEF OneSentence
    <3>. QED
      BY <3>5, <3>6
  <2>. QED
    BY <2>3, <2>4
<1>4. CASE HandleSentence
  <2>1. buf' = <<>> /\ len' = 0 /\ handling' = FALSE /\ handed' = handed \o buf
        /\ UNCHANGED <<fifo, sentLen, whole, arrived, arrivals>>
    BY <1>4 DEF HandleSentence, FlushUARTBuf
  <2>2. <<>> \in Seq(Char \ {NUL}) /\ Len(<<>>) = 0 /\ DOMAIN <<>> = {}
    OBVIOUS
  <2>3. handed \o buf \in Seq(Char \ {NUL})
    BY ConcatProperties DEF TypeOK
  <2>6. Len(buf') + 1 <= kMaxUARTBufLen /\ len' \in 0 .. kMaxUARTBufLen - 1
    BY <2>1, <2>2
  <2>7. handling' \in BOOLEAN
    BY <2>1
  <2>4. TypeOK'
    BY <2>1, <2>2, <2>3, <2>6, <2>7 DEF TypeOK
  <2>5. OneSentence'
    BY <2>1, <2>2 DEF OneSentence
  <2>. QED
    BY <2>4, <2>5
<1>. QED
  BY <1>1, <1>2, <1>3, <1>4 DEF Next

LEMMA TypeInit == Init => TypeOK /\ OneSentence
<1>1. /\ \A S : <<>> \in Seq(S)
      /\ Len(<<>>) = 0 /\ DOMAIN <<>> = {}
  OBVIOUS
<1>2. Init => TypeOK
  <2>1. Init => handling \in BOOLEAN /\ whole \in BOOLEAN
    BY DEF Init
  <2>2. 0 + 1 <= kMaxUARTBufLen /\ 0 \in 0 .. kMaxUARTBufLen - 1 /\ 0 <= FifoDepth
    BY ReceiverAssumption
  <2>. QED
    BY <1>1, <2>1, <2>2 DEF Init, TypeOK
<1>3. Init => OneSentence
  BY <1>1 DEF Init, OneSentence
<1>. QED
  BY <1>2, <1>3

\* The types, and with them the bound of uart_rx_buf_.
THEOREM TypeCorrect == Spec => []TypeOK
<1>1. Init => TypeOK /\ OneSentence
  BY TypeInit
<1>2. TypeOK /\ OneSentence /\ [Next]_vars => TypeOK' /\ OneSentence'
  BY TypeStep
<1>. QED
  BY <1>1, <1>2, PTL DEF Spec

\* The buffer holds one sentence, and its end exactly while Update() handles it.
THEOREM OneSentenceCorrect == Spec => []OneSentence
<1>1. Init => TypeOK /\ OneSentence
  BY TypeInit
<1>2. TypeOK /\ OneSentence /\ [Next]_vars => TypeOK' /\ OneSentence'
  BY TypeStep
<1>. QED
  BY <1>1, <1>2, PTL DEF Spec

-----------------------------------------------------------------------------
(***************************************************************************)
(* Never stuck.                                                            *)
(***************************************************************************)

\* The characters from k to l of the FIFO f are of one sentence.
NoEnd(f, k, l) == \A m \in k .. l : f[m] # EOL

\* What holds of a FIFO f, the counter n of the buffer, whether a sentence is being
\* handled (h) and the length s of what has been sent of the next one, as long as
\* every sentence fits and none loses its end: each piece of a sentence in the FIFO
\* fits the buffer, the first together with what is in the buffer, and the last is
\* not longer than what has been sent of its sentence.
PiecesFit(f) ==
  \A k, l \in 1 .. Len(f) : k <= l /\ NoEnd(f, k, l) => l - k + 2 < kMaxUARTBufLen
FirstFits(f, n) ==
  \A l \in 0 .. Len(f) : NoEnd(f, 1, l) => n + l + 1 < kMaxUARTBufLen
LastSent(f, s) ==
  \A k \in 1 .. Len(f) : NoEnd(f, k, Len(f)) => Len(f) - k + 1 <= s
OnlySent(f, n, s) == NoEnd(f, 1, Len(f)) => n + Len(f) <= s

Room ==
  /\ sentLen + 1 < kMaxUARTBufLen
  /\ PiecesFit(fifo)
  /\ LastSent(fifo, sentLen)
  /\ ~ handling => FirstFits(fifo, len) /\ OnlySent(fifo, len, sentLen)

\* A character that arrives lengthens the last piece and its sentence by one.
LEMMA FitAppend ==
  ASSUME NEW f \in Seq(Char), NEW c \in Char, NEW s \in Nat, NEW t \in Nat,
         t = IF c = EOL THEN 0 ELSE s + 1, t + 1 < kMaxUARTBufLen,
         PiecesFit(f), LastSent(f, s)
  PROVE  /\ PiecesFit(Append(f, c)) /\ LastSent(Append(f, c), t)
         /\ \A n \in Nat : FirstFits(f, n) /\ OnlySent(f, n, s) =>
              FirstFits(Append(f, c), n) /\ OnlySent(Append(f, c), n, t)
<1> DEFINE g == Append(f, c)
           n == Len(f)
<1>1. n \in Nat /\ kMaxUARTBufLen \in Nat
  BY LenProperties, ReceiverAssumption
<1>2. Len(g) = n + 1 /\ g[n + 1] = c /\ \A m \in 1 .. n : g[m] = f[m]
  BY AppendProperties
<1>3. \A k \in 1 .. n + 1, l \in 0 .. n : NoEnd(g, k, l) <=> NoEnd(f, k, l)
  BY <1>1, <1>2 DEF NoEnd
<1>4. \A k \in 1 .. n + 1 : NoEnd(g, k, n + 1) => c # EOL /\ NoEnd(f, k, n)
  BY <1>1, <1>2 DEF NoEnd
<1>5. \A k \in 1 .. n : NoEnd(f, k, n) => n - k + 1 <= s
  BY DEF LastSent
<1>6. \A k \in 1 .. n + 1 : NoEnd(g, k, n + 1) => (n + 1) - k + 1 <= t
  BY <1>1, <1>4, <1>5
<1>7. ASSUME NEW k \in 1 .. n + 1, NEW l \in 1 .. n + 1, k <= l, NoEnd(g, k, l)
      PROVE  l - k + 2 < kMaxUARTBufLen
  <2>. HIDE DEF g, n
  <2>1. CASE l <= n
    <3>1. k \in 1 .. n /\ l \in 1 .. n /\ NoEnd(f, k, l)
      BY <1>1, <1>3, <1>7, <2>1
    <3>. QED
      BY <1>7, <3>1 DEF PiecesFit, n
  <2>2. CASE l = n + 1
    BY <1>1, <1>6, <1>7, <2>2
  <2>. QED
    BY <1>1, <1>7, <2>1, <2>2
<1>8. ASSUME NEW b \in Nat, FirstFits(f, b), OnlySent(f, b, s)
      PROVE  FirstFits(g, b) /\ OnlySent(g, b, t)
  <2>. HIDE DEF g, n
  <2>1. NoEnd(g, 1, n + 1) => b + (n + 1) <= t
    BY <1>1, <1>4, <1>8 DEF OnlySent, n
  <2>2. \A l \in 0 .. n : NoEnd(g, 1, l) => b + l + 1 < kMaxUARTBufLen
    BY <1>1, <1>3, <1>8 DEF FirstFits, n
  <2>3. \A l \in 0 .. n + 1 : l \in 0 .. n \/ l = n + 1
    BY <1>1
  <2>. QED
    BY <1>1, <1>2, <2>1, <2>2, <2>3 DEF FirstFits, OnlySent
<1>9. PiecesFit(g)
  BY <1>2, <1>7 DEF PiecesFit
<1>10. LastSent(g, t)
  BY <1>2, <1>6 DEF LastSent
<1>. QED
  BY <1>8, <1>9, <1>10

\* A character that is taken shortens the first piece by one and lengthens what is
\* in the buffer, unless it is the last of its sentence.
LEMMA FitTail ==
  ASSUME NEW f \in Seq(Char), f # <<>>, NEW s \in Nat, PiecesFit(f), LastSent(f, s)
  PROVE  /\ PiecesFit(Tail(f)) /\ LastSent(Tail(f), s)
         /\ \A n \in Nat : Head(f) # EOL /\ FirstFits(f, n) /\ OnlySent(f, n, s) =>
              FirstFits(Tail(f), n + 1) /\ OnlySent(Tail(f), n + 1, s)
<1> DEFINE g == Tail(f)
           n == Len(f)
<1>1. n \in Nat \ {0} /\ kMaxUARTBufLen \in Nat
  BY LenProperties, EmptySeq, ReceiverAssumption
<1>2. Len(g) = n - 1 /\ Head(f) = f[1] /\ \A m \in 1 .. n - 1 : g[m] = f[m + 1]
  BY HeadTailProperties
<1>. HIDE DEF g
<1>3. \A k, l \in 1 .. n - 1 : NoEnd(g, k, l) => NoEnd(f, k + 1, l + 1)
  <2>. SUFFICES ASSUME NEW k \in 1 .. n - 1, NEW l \in 1 .. n - 1, NoEnd(g, k, l),
                       NEW m \in k + 1 .. l + 1
                PROVE  f[m] # EOL
    BY DEF NoEnd
  <2>1. m - 1 \in k .. l /\ m - 1 \in 1 .. n - 1 /\ (m - 1) + 1 = m
    BY <1>1
  <2>. QED
    BY <1>2, <2>1 DEF NoEnd
<1>4. \A l \in 0 .. n - 1 : Head(f) # EOL /\ NoEnd(g, 1, l) => NoEnd(f, 1, l + 1)
  <2>. SUFFICES ASSUME NEW l \in 0 .. n - 1, Head(f) # EOL, NoEnd(g, 1, l),
                       NEW m \in 1 .. l + 1
                PROVE  f[m] # EOL
    BY DEF NoEnd
  <2>1. m = 1 \/ (m - 1 \in 1 .. l /\ m - 1 \in 1 .. n - 1 /\ (m - 1) + 1 = m)
    BY <1>1
  <2>. QED
    BY <1>2, <2>1 DEF NoEnd
<1>5. ASSUME NEW k \in 1 .. n - 1, NEW l \in 1 .. n - 1, k <= l, NoEnd(g, k, l)
      PROVE  l - k + 2 < kMaxUARTBufLen
  <2>1. k + 1 \in 1 .. n /\ l + 1 \in 1 .. n /\ k + 1 <= l + 1 /\ NoEnd(f, k + 1, l + 1)
    BY <1>1, <1>3, <1>5
  <2>2. (l + 1) - (k + 1) + 2 < kMaxUARTBufLen
    BY <2>1 DEF PiecesFit
  <2>. QED
    BY <1>1, <2>2
<1>6. ASSUME NEW k \in 1 .. n - 1, NoEnd(g, k, n - 1)
      PROVE  (n - 1) - k + 1 <= s
  <2>1. k + 1 \in 1 .. n /\ n - 1 \in 1 .. n - 1 /\ (n - 1) + 1 = n
    BY <1>1
  <2>2. NoEnd(f, k + 1, n)
    BY <1>3, <1>6, <2>1
  <2>3. n - (k + 1) + 1 <= s
    BY <2>1, <2>2 DEF LastSent
  <2>. QED
    BY <1>1, <2>3
<1>7. ASSUME NEW b \in Nat, Head(f) # EOL, FirstFits(f, b), OnlySent(f, b, s)
      PROVE  FirstFits(g, b + 1) /\ OnlySent(g, b + 1, s)
  <2>1. \A l \in 0 .. n - 1 : l + 1 \in 0 .. n
    BY <1>1
  <2>2. \A l \in 0 .. n - 1 : NoEnd(g, 1, l) => b + (l + 1) + 1 < kMaxUARTBufLen
    BY <1>4, <1>7, <2>1 DEF FirstFits
  <2>3. n - 1 \in 0 .. n - 1 /\ (n - 1) + 1 = n
    BY <1>1
  <2>4. NoEnd(g, 1, n - 1) => b + n <= s
    BY <1>4, <1>7, <2>3 DEF OnlySent
  <2>5. FirstFits(g, b + 1)
    BY <1>1, <1>2, <2>2 DEF FirstFits
  <2>. QED
    BY <1>1, <1>2, <2>4, <2>5 DEF OnlySent
<1>8. PiecesFit(g)
  BY <1>2, <1>5 DEF PiecesFit
<1>9. LastSent(g, s)
  BY <1>2, <1>6 DEF LastSent
<1>. QED
  BY <1>7, <1>8, <1>9 DEF g

\* After the flush the first piece starts a new sentence.
LEMMA FitFlush ==
  ASSUME NEW f \in Seq(Char), NEW s \in Nat, PiecesFit(f), LastSent(f, s)
  PROVE  FirstFits(f, 0) /\ OnlySent(f, 0, s)
<1>1. Len(f) \in Nat /\ kMaxUARTBufLen \in Nat /\ 1 < kMaxUARTBufLen
  BY LenProperties, ReceiverAssumption
<1>2. \A l \in 1 .. Len(f) : NoEnd(f, 1, l) => l - 1 + 2 < kMaxUARTBufLen
  BY <1>1 DEF PiecesFit
<1>3. FirstFits(f, 0)
  BY <1>1, <1>2 DEF FirstFits
<1>4. Len(f) >= 1 /\ NoEnd(f, 1, Len(f)) => Len(f) - 1 + 1 <= s
  BY <1>1 DEF LastSent
<1>5. OnlySent(f, 0, s)
  BY <1>1, <1>4 DEF OnlySent
<1>. QED
  BY <1>3, <1>5

LEMMA RoomStep ==
  ASSUME TypeOK, Room, Next, whole'
  PROVE  Room'
<1>1. /\ fifo \in Seq(Char) /\ len \in Nat /\ sentLen \in Nat
      /\ kMaxUARTBufLen \in Nat
  BY ReceiverAssumption DEF TypeOK
<1>2. ASSUME NEW c \in Char, Arrive(c)
      PROVE  Room'
  <2>1. /\ sentLen' = IF c = EOL THEN 0 ELSE sentLen + 1
        /\ len' = len /\ handling' = handling
        /\ sentLen' + 1 < kMaxUARTBufLen
    BY <1>2 DEF Arrive
  <2>2. sentLen' \in Nat
    BY <1>1, <2>1
  <2>3. CASE fifo' = fifo /\ c # EOL
    <3>1. sentLen' = sentLen + 1
      BY <2>1, <2>3
    <3>2. LastSent(fifo, sentLen')
      BY <1>1, <3>1, LenProperties DEF Room, LastSent
    <3>3. OnlySent(fifo, len, sentLen) => OnlySent(fifo, len, sentLen')
      BY <1>1, <3>1, LenProperties DEF OnlySent
    <3>. QED
      BY <2>1, <2>3, <3>2, <3>3 DEF Room
  <2>4. CASE fifo' = Append(fifo, c)
    <3>1. /\ PiecesFit(Append(fifo, c)) /\ LastSent(Append(fifo, c), sentLen')
          /\ \A n \in Nat : FirstFits(fifo, n) /\ OnlySent(fifo, n, sentLen) =>
               FirstFits(Append(fifo, c), n) /\ OnlySent(Append(fifo, c), n, sentLen')
      BY <1>1, <2>1, <2>2, FitAppend DEF Room
    <3>. QED
      BY <1>1, <2>1, <2>4, <3>1 DEF Room
  <2>. QED
    BY <1>2, <2>3, <2>4 DEF Arrive
<1>3. CASE ReceiveChar
  <2>1. ~ handling /\ fifo' = Tail(fifo) /\ sentLen' = sentLen /\ fifo # <<>>
    BY <1>3 DEF ReceiveChar
  <2>2. handling' = (Head(fifo) = EOL)
    BY <1>3 DEF ReceiveChar
  <2>3. Head(fifo) # EOL => len' = len + 1
    BY <1>1, <1>3 DEF ReceiveChar, AppendCharToUARTBuf, CanTake
  <2>4. /\ PiecesFit(Tail(fifo)) /\ LastSent(Tail(fifo), sentLen)
        /\ Head(fifo) # EOL =>
             FirstFits(Tail(fifo), len + 1) /\ OnlySent(Tail(fifo), len + 1, sentLen)
    BY <1>1, <2>1, FitTail DEF Room
  <2>. QED
    BY <2>1, <2>2, <2>3, <2>4 DEF Room
<1>4. CASE HandleSentence
  <2>1. len' = 0 /\ fifo' = fifo /\ sentLen' = sentLen
    BY <1>4 DEF HandleSentence, FlushUARTBuf
  <2>2. FirstFits(fifo, 0) /\ OnlySent(fifo, 0, sentLen)
    BY <1>1, FitFlush DEF Room
  <2>. QED
    BY <2>1, <2>2 DEF Room
<1>. QED
  BY <1>2, <1>3, <1>4 DEF Next

\* A sentence that fits is never stuck in front of a full buffer, whatever NULs
\* and characters that arrive during a reply are between.
THEOREM NeverDeafCorrect == Spec => []NeverDeaf
<1>1. Init => (whole => Room)
  <2>1. Len(<<>>) = 0
    OBVIOUS
  <2>. QED
    BY <2>1, ReceiverAssumption
    DEF Init, Room, PiecesFit, LastSent, FirstFits, OnlySent
<1>2. TypeOK /\ (whole => Room) /\ [Next]_vars => (whole => Room)'
  <2>. SUFFICES ASSUME TypeOK, whole => Room, [Next]_vars, whole' PROVE Room'
    OBVIOUS
  <2>1. whole
    BY DEF vars, Next, Arrive, ReceiveChar, HandleSentence
  <2>2. CASE UNCHANGED vars
    BY <2>1, <2>2 DEF vars, Room
  <2>. QED
    BY <2>1, <2>2, RoomStep
<1>3. TypeOK /\ (whole => Room) => NeverDeaf
  <2>. SUFFICES ASSUME TypeOK, Room, ~ handling PROVE len # kMaxUARTBufLen - 1
    BY DEF NeverDeaf, Deaf
  <2>1. /\ Len(fifo) \in Nat /\ len \in Nat /\ kMaxUARTBufLen \in Nat
        /\ NoEnd(fifo, 1, 0)
    BY LenProperties, ReceiverAssumption DEF TypeOK, NoEnd
  <2>2. len + 0 + 1 < kMaxUARTBufLen
    BY <2>1 DEF Room, FirstFits
  <2>. QED
    BY <2>1, <2>2
<1>. QED
  BY <1>1, <1>2, <1>3, TypeCorrect, PTL DEF Spec

-----------------------------------------------------------------------------
(***************************************************************************)
(* Nothing is skipped.                                                     *)
(***************************************************************************)

\* f is what the recursion of Printable defines: f[k] is what is kept of the first
\* k characters of s.
IsKept(f, s) ==
  f = [k \in 0 .. Len(s) |->
         IF k = 0 THEN <<>>
         ELSE IF s[k] = NUL THEN f[k-1]
         ELSE Append(f[k-1], s[k])]

\* The recursion of Printable has a solution: by induction on how far it is defined.
LEMMA KeptExists ==
  ASSUME NEW s, Len(s) \in Nat
  PROVE  \E f : IsKept(f, s)
<1> DEFINE Upto(f, n) ==
             f = [k \in 0 .. n |->
                    IF k = 0 THEN <<>>
                    ELSE IF s[k] = NUL THEN f[k-1]
                    ELSE Append(f[k-1], s[k])]
           S == {n \in Nat : \E f : Upto(f, n)}
<1>1. 0 \in S
  <2>1. Upto([k \in 0 .. 0 |-> <<>>], 0)
    OBVIOUS
  <2>. QED
    BY <2>1
<1>2. ASSUME NEW n \in Nat, n \in S
      PROVE  n + 1 \in S
  <2>1. PICK f : Upto(f, n)
    BY <1>2
  <2> DEFINE last == IF s[n+1] = NUL THEN f[n] ELSE Append(f[n], s[n+1])
             g == [k \in 0 .. n + 1 |-> IF k <= n THEN f[k] ELSE last]
  <2>2. \A k \in 0 .. n + 1 : k - 1 \in 0 .. n => g[k-1] = f[k-1]
    OBVIOUS
  <2>3. ASSUME NEW k \in 0 .. n + 1
        PROVE  g[k] = IF k = 0 THEN <<>>
                      ELSE IF s[k] = NUL THEN g[k-1]
                      ELSE Append(g[k-1], s[k])
    <3>1. CASE k \in 0 .. n
      <4>1. g[k] = f[k]
        BY <3>1
      <4>2. f[k] = IF k = 0 THEN <<>>
                   ELSE IF s[k] = NUL THEN f[k-1]
                   ELSE Append(f[k-1], s[k])
        BY <2>1, <3>1
      <4>3. k # 0 => g[k-1] = f[k-1]
        BY <2>2, <3>1
      <4>. HIDE DEF g
      <4>. QED
        BY <4>1, <4>2, <4>3
    <3>2. CASE k = n + 1
      <4>1. k # 0 /\ k - 1 = n /\ g[k-1] = f[n] /\ g[k] = last
        BY <3>2
      <4>. HIDE DEF g
      <4>. QED
        BY <3>2, <4>1
    <3>. QED
      BY <3>1, <3>2
  <2>4. Upto(g, n + 1)
    <3>. HIDE DEF last
    <3>. QED
      BY <2>3
  <2>5. \E h : Upto(h, n + 1)
    <3>. HIDE DEF g, Upto
    <3>. QED
      BY <2>4
  <2>. HIDE DEF Upto
  <2>6. n + 1 \in Nat
    OBVIOUS
  <2>. QED
    BY <2>5, <2>6, ZenonT(60)
<1>3. Len(s) \in S
  <2>. HIDE DEF S
  <2>. QED
    BY <1>1, <1>2, NatSetInduction
<1>. QED
  BY <1>3 DEF IsKept

\* Printable is the last of them.
LEMMA PrintableKept ==
  ASSUME NEW s, Len(s) \in Nat
  PROVE  \E f : IsKept(f, s) /\ Printable(s) = f[Len(s)]
<1> DEFINE f == CHOOSE f : IsKept(f, s)
<1>1. IsKept(f, s)
  BY KeptExists
<1>2. Printable(s) = f[Len(s)]
  BY DEF Printable, IsKept
<1>. QED
  BY <1>1, <1>2

\* A step of the recursion; what is kept are characters but NULs.
LEMMA KeptStep ==
  ASSUME NEW s \in Seq(Char), NEW f, IsKept(f, s)
  PROVE  /\ f[0] = <<>>
         /\ \A k \in 1 .. Len(s) : f[k] = IF s[k] = NUL THEN f[k-1] ELSE Append(f[k-1], s[k])
         /\ \A k \in 0 .. Len(s) : f[k] \in Seq(Char)
<1>1. Len(s) \in Nat /\ \A k \in 1 .. Len(s) : s[k] \in Char
  BY LenProperties, ElementOfSeq
<1>2. \A k \in 0 .. Len(s) :
        f[k] = IF k = 0 THEN <<>> ELSE IF s[k] = NUL THEN f[k-1] ELSE Append(f[k-1], s[k])
  BY DEF IsKept
<1>3. f[0] = <<>>
  BY <1>1, <1>2
<1>4. \A k \in 1 .. Len(s) : f[k] = IF s[k] = NUL THEN f[k-1] ELSE Append(f[k-1], s[k])
  BY <1>1, <1>2
<1> DEFINE S == {k \in Nat : k <= Len(s) => f[k] \in Seq(Char)}
<1>5. 0 \in S
  <2>1. <<>> \in Seq(Char)
    OBVIOUS
  <2>. QED
    BY <1>3, <2>1
<1>6. ASSUME NEW k \in Nat, k \in S
      PROVE  k + 1 \in S
  <2>. SUFFICES ASSUME k + 1 <= Len(s) PROVE f[k+1] \in Seq(Char)
    OBVIOUS
  <2>1. f[k] \in Seq(Char) /\ k + 1 \in 1 .. Len(s) /\ s[k+1] \in Char
    BY <1>1, <1>6
  <2>2. Append(f[k], s[k+1]) \in Seq(Char)
    BY <2>1, AppendProperties
  <2>3. f[k+1] = IF s[k+1] = NUL THEN f[(k+1)-1] ELSE Append(f[(k+1)-1], s[k+1])
    BY <1>4, <2>1
  <2>4. (k + 1) - 1 = k
    OBVIOUS
  <2>. QED
    BY <2>1, <2>2, <2>3, <2>4
<1>7. Nat \subseteq S
  <2>. HIDE DEF S
  <2>. QED
    BY <1>5, <1>6, NatSetInduction
<1>. QED
  BY <1>1, <1>3, <1>4, <1>7

LEMMA CharAssociative ==
  \A s, t, u \in Seq(Char) : (s \o t) \o u = s \o (t \o u)
BY ConcatAssociative

LEMMA AppendConcat ==
  ASSUME NEW s \in Seq(Char), NEW t \in Seq(Char), NEW c \in Char
  PROVE  Append(s \o t, c) = s \o Append(t, c)
<1>1. <<c>> \in Seq(Char)
  OBVIOUS
<1>2. Append(t, c) = t \o <<c>>
  BY AppendIsConcat
<1>3. s \o t \in Seq(Char)
  BY ConcatProperties
<1>4. Append(s \o t, c) = (s \o t) \o <<c>>
  BY <1>3, AppendIsConcat
<1>5. (s \o t) \o <<c>> = s \o (t \o <<c>>)
  BY <1>1, ConcatAssociative
<1>. QED
  BY <1>2, <1>4, <1>5

\* Printable of two pieces is the two that are kept, one after the other.
LEMMA PrintableConcat ==
  ASSUME NEW s \in Seq(Char), NEW t \in Seq(Char)
  PROVE  Printable(s \o t) = Printable(s) \o Printable(t)
<1> DEFINE m == Len(s)
           n == Len(t)
<1>1. m \in Nat /\ n \in Nat
  BY LenProperties
<1>2. /\ s \o t \in Seq(Char) /\ Len(s \o t) = m + n
      /\ \A k \in 1 .. m : (s \o t)[k] = s[k]
      /\ \A k \in 1 .. n : (s \o t)[m + k] = t[k]
  BY <1>1, ConcatProperties
<1>3. PICK f : IsKept(f, s) /\ Printable(s) = f[m]
  BY <1>1, PrintableKept
<1>4. PICK g : IsKept(g, t) /\ Printable(t) = g[n]
  BY <1>1, PrintableKept
<1>5. PICK h : IsKept(h, s \o t) /\ Printable(s \o t) = h[m + n]
  <2>1. Len(s \o t) \in Nat
    BY <1>1, <1>2
  <2>. QED
    BY <1>2, <2>1, PrintableKept
<1>. HIDE DEF m, n
<1>6. /\ f[0] = <<>>
      /\ \A k \in 1 .. m : f[k] = IF s[k] = NUL THEN f[k-1] ELSE Append(f[k-1], s[k])
      /\ \A k \in 0 .. m : f[k] \in Seq(Char)
  BY <1>3, KeptStep DEF m
<1>7. /\ g[0] = <<>>
      /\ \A k \in 1 .. n : g[k] = IF t[k] = NUL THEN g[k-1] ELSE Append(g[k-1], t[k])
      /\ \A k \in 0 .. n : g[k] \in Seq(Char)
  BY <1>4, KeptStep DEF n
<1>8. /\ h[0] = <<>>
      /\ \A k \in 1 .. m + n :
           h[k] = IF (s \o t)[k] = NUL THEN h[k-1] ELSE Append(h[k-1], (s \o t)[k])
  <2> DEFINE r == s \o t
  <2>1. r \in Seq(Char) /\ Len(r) = m + n /\ IsKept(h, r)
    BY <1>2, <1>5
  <2>. HIDE DEF r
  <2>2. /\ h[0] = <<>>
        /\ \A k \in 1 .. Len(r) : h[k] = IF r[k] = NUL THEN h[k-1] ELSE Append(h[k-1], r[k])
    BY <2>1, KeptStep
  <2>. QED
    BY <2>1, <2>2 DEF r
<1>9. h[m] = f[m]
  <2> DEFINE S == {k \in Nat : k <= m => h[k] = f[k]}
  <2>1. 0 \in S
    BY <1>6, <1>8
  <2>2. ASSUME NEW k \in Nat, k \in S
        PROVE  k + 1 \in S
    <3>. SUFFICES ASSUME k + 1 <= m PROVE h[k+1] = f[k+1]
      OBVIOUS
    <3>1. k + 1 \in 1 .. m /\ k + 1 \in 1 .. m + n /\ (k + 1) - 1 = k /\ h[k] = f[k]
      BY <1>1, <2>2
    <3>2. (s \o t)[k+1] = s[k+1]
      BY <1>2, <3>1
    <3>3. f[k+1] = IF s[k+1] = NUL THEN f[k] ELSE Append(f[k], s[k+1])
      BY <1>6, <3>1
    <3>4. h[k+1] = IF s[k+1] = NUL THEN h[k] ELSE Append(h[k], s[k+1])
      BY <1>8, <3>1, <3>2
    <3>. QED
      BY <3>1, <3>3, <3>4
  <2>3. Nat \subseteq S
    <3>. HIDE DEF S
    <3>. QED
      BY <2>1, <2>2, NatSetInduction
  <2>. QED
    BY <1>1, <2>3
<1>10. h[m + n] = f[m] \o g[n]
  <2> DEFINE P(k) == h[m + k] = f[m] \o g[k]
             S == {k \in Nat : k <= n => P(k)}
  <2>1. 0 \in S
    <3>1. f[m] \in Seq(Char) /\ f[m] \o <<>> = f[m]
      BY <1>1, <1>6, ConcatEmptySeq
    <3>2. m + 0 = m
      BY <1>1
    <3>. QED
      BY <1>7, <1>9, <3>1, <3>2
  <2>2. ASSUME NEW k \in Nat, k \in S
        PROVE  k + 1 \in S
    <3>. SUFFICES ASSUME k + 1 <= n PROVE P(k + 1)
      <4>. HIDE DEF P
      <4>. QED
        BY <1>1
    <3>0. k <= n /\ P(k)
      <4>. HIDE DEF P
      <4>. QED
        BY <1>1, <2>2
    <3>1. /\ k + 1 \in 1 .. n /\ k \in 0 .. n /\ m + (k+1) \in 1 .. m + n
          /\ (k + 1) - 1 = k /\ (m + (k+1)) - 1 = m + k
      BY <1>1, <3>0
    <3>2. (s \o t)[m + (k+1)] = t[k+1] /\ t[k+1] \in Char
      BY <1>2, <3>1, ElementOfSeq DEF n
    <3>3. g[k+1] = IF t[k+1] = NUL THEN g[k] ELSE Append(g[k], t[k+1])
      BY <1>7, <3>1
    <3>4. h[m + (k+1)] = IF t[k+1] = NUL THEN h[m + k] ELSE Append(h[m + k], t[k+1])
      BY <1>8, <3>1, <3>2
    <3>5. f[m] \in Seq(Char) /\ g[k] \in Seq(Char)
      BY <1>1, <1>6, <1>7, <3>1
    <3>6. Append(f[m] \o g[k], t[k+1]) = f[m] \o Append(g[k], t[k+1])
      BY <3>2, <3>5, AppendConcat
    <3>. QED
      BY <3>0, <3>3, <3>4, <3>6
  <2>3. Nat \subseteq S
    <3>. HIDE DEF S
    <3>. QED
      BY <2>1, <2>2, NatSetInduction
  <2>4. P(n)
    <3>. HIDE DEF P
    <3>. QED
      BY <1>1, <2>3
  <2>. QED
    BY <1>1, <2>4
<1>. QED
  BY <1>3, <1>4, <1>5, <1>10

LEMMA PrintableType ==
  ASSUME NEW s \in Seq(Char)
  PROVE  Printable(s) \in Seq(Char)
<1>1. Len(s) \in Nat /\ Len(s) \in 0 .. Len(s)
  BY LenProperties
<1>2. PICK f : IsKept(f, s) /\ Printable(s) = f[Len(s)]
  BY <1>1, PrintableKept
<1>3. f[Len(s)] \in Seq(Char)
  BY <1>1, <1>2, KeptStep
<1>. QED
  BY <1>2, <1>3

\* A character alone.
LEMMA PrintableOne ==
  ASSUME NEW c \in Char
  PROVE  Printable(<<c>>) = IF c = NUL THEN <<>> ELSE <<c>>
<1>1. <<c>> \in Seq(Char) /\ Len(<<c>>) = 1 /\ <<c>>[1] = c
  OBVIOUS
<1>2. PICK f : IsKept(f, <<c>>) /\ Printable(<<c>>) = f[1]
  BY <1>1, PrintableKept
<1>3. f[0] = <<>> /\ f[1] = IF c = NUL THEN f[0] ELSE Append(f[0], c)
  <2> DEFINE r == <<c>>
  <2>1. r \in Seq(Char) /\ Len(r) = 1 /\ r[1] = c /\ IsKept(f, r)
    BY <1>1, <1>2
  <2>. HIDE DEF r
  <2>2. /\ f[0] = <<>>
        /\ \A k \in 1 .. Len(r) : f[k] = IF r[k] = NUL THEN f[k-1] ELSE Append(f[k-1], r[k])
    BY <2>1, KeptStep
  <2>3. f[1] = IF r[1] = NUL THEN f[1-1] ELSE Append(f[1-1], r[1])
    BY <2>1, <2>2
  <2>4. 1 - 1 = 0
    OBVIOUS
  <2>. QED
    BY <2>1, <2>2, <2>3, <2>4
<1>4. Append(<<>>, c) = <<c>>
  OBVIOUS
<1>. QED
  BY <1>2, <1>3, <1>4

\* What is handed over is at every moment what arrived, without the NULs and in
\* order: the rest of it is in the buffer and in the FIFO.
THEOREM NothingSkippedCorrect == Spec => []NothingSkipped
<1>1. Init => NothingSkipped
  <2>1. Printable(<<>>) \in Seq(Char)
    <3>1. <<>> \in Seq(Char)
      OBVIOUS
    <3>. QED
      BY <3>1, PrintableType
  <2>2. (<<>> \o <<>>) \o Printable(<<>>) = Printable(<<>>)
    BY <2>1, ConcatEmptySeq
  <2>. QED
    BY <2>2 DEF Init, NothingSkipped
<1>2. TypeOK /\ NothingSkipped /\ [Next]_vars => NothingSkipped'
  <2>. SUFFICES ASSUME TypeOK, NothingSkipped, [Next]_vars PROVE NothingSkipped'
    OBVIOUS
  <2>1. /\ fifo \in Seq(Char) /\ arrived \in Seq(Char)
        /\ handed \in Seq(Char) /\ buf \in Seq(Char)
        /\ handed \o buf \in Seq(Char)
    <3>1. /\ handed \in Seq(Char \ {NUL}) /\ buf \in Seq(Char \ {NUL})
          /\ fifo \in Seq(Char) /\ arrived \in Seq(Char)
      BY DEF TypeOK
    <3>2. \A s \in Seq(Char \ {NUL}) : s \in Seq(Char)
      BY SeqMonotonic
    <3>. QED
      BY <3>1, <3>2, ConcatProperties
  <2>2. handed \o buf \o Printable(fifo) = Printable(arrived)
    BY DEF NothingSkipped
  <2>3. \A s \in Seq(Char) : Printable(s) \in Seq(Char)
    BY PrintableType
  <2>4. CASE UNCHANGED vars
    BY <2>2, <2>4 DEF vars, NothingSkipped
  <2>5. ASSUME NEW c \in Char, Arrive(c)
        PROVE  NothingSkipped'
    <3>1. UNCHANGED <<buf, handed>>
      BY <2>5 DEF Arrive
    <3>2. CASE UNCHANGED <<fifo, arrived>>
      BY <2>2, <3>1, <3>2 DEF NothingSkipped
    <3>3. CASE fifo' = Append(fifo, c) /\ arrived' = Append(arrived, c)
      <4>1. <<c>> \in Seq(Char)
        OBVIOUS
      <4>2. fifo' = fifo \o <<c>> /\ arrived' = arrived \o <<c>>
        BY <2>1, <3>3, AppendIsConcat
      <4>3. /\ Printable(fifo \o <<c>>) = Printable(fifo) \o Printable(<<c>>)
            /\ Printable(arrived \o <<c>>) = Printable(arrived) \o Printable(<<c>>)
        BY <2>1, <4>1, PrintableConcat
      <4>4. (handed \o buf \o Printable(fifo)) \o Printable(<<c>>)
            = handed \o buf \o (Printable(fifo) \o Printable(<<c>>))
        <5>1. /\ handed \o buf \in Seq(Char) /\ Printable(fifo) \in Seq(Char)
              /\ Printable(<<c>>) \in Seq(Char)
          BY <2>1, <2>3, <4>1
        <5>. QED
          BY <5>1, CharAssociative
      <4>. QED
        BY <2>2, <3>1, <4>2, <4>3, <4>4 DEF NothingSkipped
    <3>. QED
      BY <2>5, <3>2, <3>3 DEF Arrive
  <2>6. CASE ReceiveChar
    <3> DEFINE c == Head(fifo)
    <3>1. /\ c \in Char /\ Tail(fifo) \in Seq(Char) /\ fifo = <<c>> \o Tail(fifo)
          /\ fifo' = Tail(fifo) /\ UNCHANGED <<arrived, handed>>
      <4>1. fifo # <<>> /\ fifo' = Tail(fifo) /\ UNCHANGED <<arrived, handed>>
        BY <2>6 DEF ReceiveChar
      <4>. QED
        BY <2>1, <4>1, HeadTailProperties
    <3>2. buf' = buf \o Printable(<<c>>)
      <4>1. buf' = IF c = NUL THEN buf ELSE Append(buf, c)
        <5>1. ~ len >= kMaxUARTBufLen
          BY <2>6, ReceiverAssumption DEF ReceiveChar, CanTake, TypeOK
        <5>. QED
          BY <2>6, <5>1 DEF ReceiveChar, AppendCharToUARTBuf
      <4>2. Append(buf, c) = buf \o <<c>> /\ buf \o <<>> = buf
        BY <2>1, <3>1, AppendIsConcat, ConcatEmptySeq
      <4>. HIDE DEF c
      <4>. QED
        BY <3>1, <4>1, <4>2, PrintableOne
    <3>. HIDE DEF c
    <3>3. <<c>> \in Seq(Char)
      BY <3>1
    <3>4. Printable(fifo) = Printable(<<c>>) \o Printable(Tail(fifo))
      BY <3>1, <3>3, PrintableConcat
    <3>5. handed \o (buf \o Printable(<<c>>)) = (handed \o buf) \o Printable(<<c>>)
      BY <2>1, <2>3, <3>3, ConcatAssociative, SMTT(30)
    <3>6. ((handed \o buf) \o Printable(<<c>>)) \o Printable(Tail(fifo))
          = (handed \o buf) \o (Printable(<<c>>) \o Printable(Tail(fifo)))
      <4>1. /\ handed \o buf \in Seq(Char) /\ Printable(<<c>>) \in Seq(Char)
            /\ Printable(Tail(fifo)) \in Seq(Char)
        BY <2>1, <2>3, <3>1, <3>3
      <4>. QED
        BY <4>1, CharAssociative
    <3>. QED
      BY <2>2, <3>1, <3>2, <3>4, <3>5, <3>6 DEF NothingSkipped
  <2>7. CASE HandleSentence
    <3>1. buf' = <<>> /\ handed' = handed \o buf /\ UNCHANGED <<fifo, arrived>>
      BY <2>7 DEF HandleSentence, FlushUARTBuf
    <3>2. (handed \o buf) \o <<>> = handed \o buf
      BY <2>1, ConcatEmptySeq
    <3>. QED
      BY <2>2, <3>1, <3>2 DEF NothingSkipped
  <2>. QED
    BY <2>4, <2>5, <2>6, <2>7 DEF Next
<1>. QED
  BY <1>1, <1>2, TypeCorrect, PTL DEF Spec

=============================================================================
