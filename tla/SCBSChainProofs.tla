-------------------------- MODULE SCBSChainProofs ---------------------------
(***************************************************************************)
(* Proofs about SCBSChain for every chain length, command set and fault    *)
(* set, in three parts.                                                    *)
(*                                                                         *)
(* The order: no sentence overtakes another, and the answers the master    *)
(* reads are never ahead of its commands.                                  *)
(*                                                                         *)
(* The writes: a multiple write writes a prefix of the chain, its echo     *)
(* means the cells behind it wrote, and a single write is executed by one  *)
(* cell at most.                                                           *)
(*                                                                         *)
(* The replies, as long as damage is detected: an OK or an error for a     *)
(* write means what it says, discovery numbers the cells, a read has the   *)
(* value of every cell; and without faults no command is lost.             *)
(***************************************************************************)
EXTENDS SCBSChain, SCBSCellProofs

-----------------------------------------------------------------------------
(***************************************************************************)
(* The chain: types.                                                       *)
(***************************************************************************)
Sentence == [line : GoodLine, tag : Nat]

\* Tagging no line or one.
LEMMA TaggedType ==
  ASSUME NEW l, NEW t
  PROVE  Tagged(<<>>, t) = <<>> /\ Tagged(<<l>>, t) = <<[line |-> l, tag |-> t]>>
  BY DEF Tagged

\* What one Update() does to the links: the head of the link in is consumed, and
\* the link out is as before or has one more sentence with the same tag.
UpdatePost(i, s, r) ==
  /\ wire[i-1] # <<>> /\ s = Head(wire[i-1]) /\ s \in Sentence
  /\ r = Process(cell[i], s.line) /\ SentencePost(s.line, r)
  /\ wire' \in [Links -> Seq(Sentence)]
  /\ wire'[i-1] = Tail(wire[i-1])
  /\ \A j \in Links : j # i-1 /\ j # i => wire'[j] = wire[j]
  /\ \/ r.out = <<>> /\ wire'[i] = wire[i]
     \/ \E l \in GoodLine : /\ r.out = <<l>>
                            /\ wire'[i] = Append(wire[i], [line |-> l, tag |-> s.tag])
  /\ wrote' = IF r.did = "write" THEN [wrote EXCEPT ![i] = @ \cup {s.tag}] ELSE wrote
  /\ named' = IF r.did = "name" THEN [named EXCEPT ![i] = s.tag] ELSE named
  /\ cell' \in [Cells -> Cell] /\ cell'[i].id = r.cell.id
  /\ \A j \in Cells : j # i => cell'[j] = cell[j]
  /\ UNCHANGED <<master, sent, faults>>

LEMMA UpdateEffect ==
  ASSUME TypeOK, NEW i \in Cells, Update(i)
  PROVE  \E s, r : UpdatePost(i, s, r)
<1>1. /\ wire \in [Links -> Seq(Sentence)] /\ cell \in [Cells -> Cell]
      /\ i \in Links /\ i-1 \in Links /\ i # i-1
  BY ChainAssumption DEF TypeOK, Sentence, GoodLine, Cells, Links
<1>2. PICK s, r :
        /\ s = Head(wire[i-1]) /\ r = Process(cell[i], s.line)
        /\ wire[i-1] # <<>>
        /\ \E a \in Currents : cell' = [cell EXCEPT ![i] = [r.cell EXCEPT !.amp = a]]
        /\ wire' = [wire EXCEPT ![i-1] = Tail(@), ![i] = @ \o Tagged(r.out, s.tag)]
        /\ wrote' = IF r.did = "write"
                      THEN [wrote EXCEPT ![i] = @ \cup {s.tag}] ELSE wrote
        /\ named' = IF r.did = "name" THEN [named EXCEPT ![i] = s.tag] ELSE named
        /\ UNCHANGED <<master, sent, faults>>
  BY Zenon DEF Update
<1>3. s \in Sentence /\ Tail(wire[i-1]) \in Seq(Sentence)
  BY <1>1, <1>2, HeadTailProperties
<1>4. SentencePost(s.line, r)
  BY <1>1, <1>2, <1>3, ProcessPost DEF Sentence
<1>5. /\ cell' \in [Cells -> Cell] /\ cell'[i].id = r.cell.id
      /\ \A j \in Cells : j # i => cell'[j] = cell[j]
  <2>1. PICK a \in Currents : cell' = [cell EXCEPT ![i] = [r.cell EXCEPT !.amp = a]]
    BY <1>2
  <2>2. [r.cell EXCEPT !.amp = a] \in Cell /\ [r.cell EXCEPT !.amp = a].id = r.cell.id
    BY <1>4, ChainAssumption DEF SentencePost, Cell
  <2>. QED
    BY <1>1, <2>1, <2>2
<1>6. /\ wire'[i-1] = Tail(wire[i-1])
      /\ wire'[i] = wire[i] \o Tagged(r.out, s.tag)
      /\ \A j \in Links : j # i-1 /\ j # i => wire'[j] = wire[j]
      /\ DOMAIN wire' = Links /\ wire' = [j \in Links |-> wire'[j]]
  BY <1>1, <1>2
<1>7. /\ wire'[i] \in Seq(Sentence)
      /\ \/ r.out = <<>> /\ wire'[i] = wire[i]
         \/ \E l \in GoodLine :
              /\ r.out = <<l>>
              /\ wire'[i] = Append(wire[i], [line |-> l, tag |-> s.tag])
  <2>0. wire[i] \in Seq(Sentence)
    BY <1>1
  <2>1. CASE r.out = <<>>
    <3>1. wire'[i] = wire[i]
      <4>1. wire'[i] = wire[i] \o <<>>
        BY <1>6, <2>1, TaggedType
      <4>. QED
        BY <2>0, <4>1, ConcatEmptySeq
    <3>. QED
      BY <2>0, <2>1, <3>1
  <2>2. ASSUME NEW l \in GoodLine, r.out = <<l>>
        PROVE  /\ wire'[i] \in Seq(Sentence)
               /\ wire'[i] = Append(wire[i], [line |-> l, tag |-> s.tag])
    <3>1. [line |-> l, tag |-> s.tag] \in Sentence
      BY <1>3 DEF Sentence
    <3>2. wire'[i] = wire[i] \o <<[line |-> l, tag |-> s.tag]>>
      BY <1>6, <2>2, TaggedType
    <3>. QED
      BY <2>0, <3>1, <3>2, AppendProperties, AppendIsConcat
  <2>. QED
    BY <1>4, <2>1, <2>2 DEF SentencePost
<1>8. wire' \in [Links -> Seq(Sentence)]
  BY <1>1, <1>3, <1>6, <1>7
<1>9. UpdatePost(i, s, r)
  BY <1>2, <1>3, <1>4, <1>5, <1>6, <1>7, <1>8 DEF UpdatePost
<1>. QED
  BY <1>9

\* TypeOK without the wires, whose type is used most.
LEMMA WireType ==
  ASSUME TypeOK
  PROVE  wire \in [Links -> Seq(Sentence)]
  BY DEF TypeOK, Sentence, GoodLine

\* Dropping the head of a link, or damaging it, leaves sentences on it.
LEMMA TailType ==
  ASSUME TypeOK, NEW i \in Links, wire[i] # <<>>, wire' = [wire EXCEPT ![i] = Tail(@)]
  PROVE  wire' \in [Links -> Seq(Sentence)]
<1>1. wire \in [Links -> Seq(Sentence)] /\ Tail(wire[i]) \in Seq(Sentence)
  BY WireType, HeadTailProperties
<1>. QED
  BY <1>1

\* The start token of the sentence at the head of a link is there or not.
LEMMA HeadStart ==
  ASSUME TypeOK, NEW i \in Links, wire[i] # <<>>
  PROVE  wire[i][1].line.start \in BOOLEAN
<1>1. wire[i] \in Seq(Sentence)
  BY WireType
<1>2. wire[i][1] \in Sentence
  BY <1>1, EmptySeq, LenProperties
<1>. QED
  BY <1>2 DEF Sentence, GoodLine, Line

\* The line at the head of a link, with another checksum or start token.
LEMMA DamageType ==
  ASSUME TypeOK, NEW i \in Links, wire[i] # <<>>,
         NEW start \in BOOLEAN, NEW sum \in {"xor", "zero", "other"},
         wire' = [wire EXCEPT ![i][1] = Damaged(wire[i][1], start, sum)]
  PROVE  /\ wire' \in [Links -> Seq(Sentence)]
         /\ \A j \in Links : DOMAIN wire'[j] = DOMAIN wire[j]
         /\ \A j \in Links : \A k \in DOMAIN wire[j] :
              /\ wire'[j][k].tag = wire[j][k].tag
              /\ wire'[j][k].line.hdr = wire[j][k].line.hdr
              /\ wire'[j][k].line.fields = wire[j][k].line.fields
              /\ start = wire[i][1].line.start =>
                   wire'[j][k].line.start = wire[j][k].line.start
<1>1. wire \in [Links -> Seq(Sentence)]
  BY WireType
<1>2. 1 \in DOMAIN wire[i] /\ wire[i][1] \in Sentence
  BY <1>1, EmptySeq, LenProperties
<1> DEFINE x == wire[i][1]
           y == Damaged(x, start, sum)
<1>3. /\ y \in Sentence /\ y.tag = x.tag
      /\ y.line.hdr = x.line.hdr /\ y.line.fields = x.line.fields
      /\ y.line.start = start
  BY <1>2 DEF Sentence, GoodLine, Line, WellFormed, Damaged
<1>. HIDE DEF y
<1>4. /\ DOMAIN wire' = Links /\ wire'[i] = [wire[i] EXCEPT ![1] = y]
      /\ \A j \in Links : j # i => wire'[j] = wire[j]
      /\ wire' = [j \in Links |-> wire'[j]]
  BY <1>1 DEF y
<1>5. /\ wire'[i] \in Seq(Sentence) /\ DOMAIN wire'[i] = DOMAIN wire[i]
      /\ \A k \in DOMAIN wire[i] : wire'[i][k] = IF k = 1 THEN y ELSE wire[i][k]
  BY <1>1, <1>2, <1>3, <1>4, ExceptSeq, LenProperties
<1>6. wire' \in [Links -> Seq(Sentence)]
  BY <1>1, <1>4, <1>5
<1>. QED
  BY <1>3, <1>4, <1>5, <1>6

\* The effect of Transmit on the first link.
LEMMA TransmitEffect ==
  ASSUME TypeOK, NEW r \in Commands, Transmit(r)
  PROVE  /\ wire' \in [Links -> Seq(Sentence)]
         /\ \A j \in Links : j # 0 => wire'[j] = wire[j]
         /\ wire'[0] = Append(wire[0], [line |-> Packetize(r), tag |-> Len(sent) + 1])
         /\ Packetize(r) \in GoodLine /\ Packetize(r).hdr = r.type
<1> DEFINE x == [line |-> Packetize(r), tag |-> Len(sent) + 1]
<1>1. wire \in [Links -> Seq(Sentence)] /\ 0 \in Links
  BY WireType, ChainAssumption DEF Links
<1>2. Packetize(r) \in GoodLine /\ Packetize(r).hdr = r.type
  BY PacketizeType, ChainAssumption
<1>3. Len(sent) \in Nat
  BY LenProperties DEF TypeOK
<1>4. x \in Sentence
  BY <1>2, <1>3 DEF Sentence
<1>5. Tagged(<<Packetize(r)>>, Len(sent) + 1) = <<x>>
  BY TaggedType
<1>6. wire' = [wire EXCEPT ![0] = wire[0] \o <<x>>]
  BY <1>5 DEF Transmit
<1>7. wire[0] \in Seq(Sentence)
  BY <1>1
<1>. HIDE DEF x
<1>8. wire[0] \o <<x>> = Append(wire[0], x) /\ Append(wire[0], x) \in Seq(Sentence)
  BY <1>4, <1>7, AppendIsConcat, AppendProperties
<1>. QED
  BY <1>1, <1>2, <1>6, <1>8 DEF x

\* The effect of PowerCycle(i) on the link into cell i.
LEMMA PowerCycleEffect ==
  ASSUME TypeOK, NEW i \in Cells, PowerCycle(i)
  PROVE  /\ wire' \in [Links -> Seq(Sentence)] /\ i-1 \in Links
         /\ \A j \in Links : j # i-1 => wire'[j] = wire[j]
         /\ \E k \in Nat : /\ Len(wire'[i-1]) + k = Len(wire[i-1])
                           /\ \A l \in 1 .. Len(wire'[i-1]) :
                                wire'[i-1][l] = wire[i-1][l+k]
<1>1. wire \in [Links -> Seq(Sentence)] /\ i-1 \in Links
  BY WireType, ChainAssumption DEF Links, Cells
<1> DEFINE w == wire[i-1]
<1>2. w \in Seq(Sentence) /\ Len(w) \in Nat /\ \A l \in 1 .. Len(w) : w[l] \in Sentence
  BY <1>1, LenProperties, ElementOfSeq
<1>3. PICK k \in 0 .. Len(w) : wire' = [wire EXCEPT ![i-1] = SubSeq(@, k + 1, Len(@))]
  BY DEF PowerCycle
<1>. HIDE DEF w
<1>4. /\ SubSeq(w, k + 1, Len(w)) \in Seq(Sentence)
      /\ Len(SubSeq(w, k + 1, Len(w))) = Len(w) - k
      /\ \A l \in 1 .. Len(w) - k : SubSeq(w, k + 1, Len(w))[l] = w[l+k]
  BY <1>2
<1>5. wire' = [wire EXCEPT ![i-1] = SubSeq(w, k + 1, Len(w))]
  BY <1>3 DEF w
<1>6. wire' \in [Links -> Seq(Sentence)] /\ wire'[i-1] = SubSeq(w, k + 1, Len(w))
      /\ \A j \in Links : j # i-1 => wire'[j] = wire[j]
  BY <1>1, <1>4, <1>5
<1>7. k \in Nat /\ Len(wire'[i-1]) + k = Len(w)
      /\ \A l \in 1 .. Len(wire'[i-1]) : wire'[i-1][l] = w[l+k]
  BY <1>2, <1>4, <1>6
<1>. QED
  BY <1>1, <1>6, <1>7 DEF w

\* A cell after power-up is one.
LEMMA BootCellsType == BootCells \subseteq Cell
<1>1. 0 \in Setting /\ 0 \in Current
  BY SMT DEF Setting, Voltage, Current, kMaxOutputVoltage, kMinOutputVoltage
<1>. QED
  BY <1>1 DEF BootCells, Cell

\* Type correctness: in every chain the handlers only meet sentences whose
\* fields they can take, voltages stay on the rails and IDs in their range.
THEOREM TypeCorrect == Spec => []TypeOK
<1>1. Init => TypeOK
  <2>. SUFFICES ASSUME Init PROVE TypeOK
    OBVIOUS
  <2>1. cell \in [Cells -> Cell]
    BY BootCellsType DEF Init
  <2>. QED
    BY <2>1 DEF Init, TypeOK
<1>2. TypeOK /\ [Next]_vars => TypeOK'
  <2>. SUFFICES ASSUME TypeOK, [Next]_vars PROVE TypeOK'
    OBVIOUS
  <2>1. wire \in [Links -> Seq(Sentence)]
    BY WireType
  <2>2. ASSUME wire' \in [Links -> Seq(Sentence)], cell' \in [Cells -> Cell],
               master' \in [waiting : BOOLEAN, answer : Nat, missed : Nat],
               sent' \in Seq(Commands), wrote' \in [Cells -> SUBSET Nat],
               named' \in [Cells -> Nat], faults' \in Seq(FaultKinds)
        PROVE  TypeOK'
    BY <2>2 DEF TypeOK, Sentence, GoodLine
  <2>3. ASSUME NEW r \in Commands, Transmit(r) PROVE TypeOK'
    <3>1. sent' \in Seq(Commands)
      BY <2>3, AppendProperties DEF Transmit, TypeOK
    <3>. QED
      BY <2>2, <2>3, <3>1, TransmitEffect DEF Transmit, TypeOK
  <2>4. CASE ReadLine
    <3>1. N \in Links
      BY ChainAssumption DEF Links
    <3>2. Len(sent) \in Nat
      BY LenProperties DEF TypeOK
    <3>3. Head(wire[N]) \in Sentence
      BY <2>1, <2>4, <3>1, HeadTailProperties DEF ReadLine
    <3>4. Head(wire[N]).tag \in Nat
      BY <3>3 DEF Sentence
    <3>5. wire' \in [Links -> Seq(Sentence)]
      BY <2>4, <3>1, TailType DEF ReadLine
    <3>. QED
      BY <2>2, <2>4, <3>2, <3>4, <3>5 DEF ReadLine, TypeOK
  <2>5. CASE ReadTimeout
    <3>1. master.missed + 1 \in Nat
      BY DEF TypeOK
    <3>. QED
      BY <2>2, <2>5, <3>1 DEF ReadTimeout, TypeOK
  <2>6. ASSUME NEW i \in Cells, Update(i) PROVE TypeOK'
    <3>1. PICK s, r : UpdatePost(i, s, r)
      BY <2>6, UpdateEffect
    <3>2. s.tag \in Nat
      BY <3>1 DEF UpdatePost, Sentence
    <3>3. wrote' \in [Cells -> SUBSET Nat] /\ named' \in [Cells -> Nat]
      BY <3>1, <3>2 DEF UpdatePost, TypeOK
    <3>. QED
      BY <2>2, <3>1, <3>3 DEF UpdatePost, TypeOK
  <2>7. ASSUME NEW i \in Cells, UpdateIdle(i) PROVE TypeOK'
    <3>1. PICK a \in Currents : cell' = [cell EXCEPT ![i].amp = a]
      BY <2>7 DEF UpdateIdle
    <3>2. [cell[i] EXCEPT !.amp = a] \in Cell
      BY ChainAssumption DEF TypeOK, Cell
    <3>3. cell' = [cell EXCEPT ![i] = [cell[i] EXCEPT !.amp = a]]
      BY <3>1
    <3>4. cell' \in [Cells -> Cell]
      BY <3>2, <3>3 DEF TypeOK
    <3>. QED
      BY <2>1, <2>2, <2>7, <3>4 DEF UpdateIdle, TypeOK
  <2>8. ASSUME NEW i \in Links, Garble(i) PROVE TypeOK'
    <3>1. wire[i][1].line.start \in BOOLEAN
      BY <2>8, HeadStart DEF Garble
    <3>2. wire' \in [Links -> Seq(Sentence)]
      BY <2>8, <3>1, DamageType DEF Garble
    <3>. QED
      BY <2>2, <2>8, <3>2 DEF Garble, Fault, TypeOK
  <2>9. ASSUME NEW i \in Links, Headless(i) PROVE TypeOK'
    <3>1. wire' \in [Links -> Seq(Sentence)]
      BY <2>9, DamageType DEF Headless
    <3>2. faults' \in Seq(FaultKinds) /\ UNCHANGED <<cell, master, sent, wrote, named>>
      BY <2>9 DEF Headless, Fault, TypeOK
    <3>. QED
      BY <2>2, <3>1, <3>2 DEF TypeOK
  <2>10. ASSUME NEW i \in Links, Lose(i) PROVE TypeOK'
    <3>1. wire' \in [Links -> Seq(Sentence)]
      BY <2>10, TailType DEF Lose
    <3>. QED
      BY <2>2, <2>10, <3>1 DEF Lose, Fault, TypeOK
  <2>11. ASSUME NEW i \in Cells, PowerCycle(i) PROVE TypeOK'
    <3>1. cell' \in [Cells -> Cell] /\ named' \in [Cells -> Nat]
      BY <2>11, BootCellsType DEF PowerCycle, TypeOK
    <3>2. faults' \in Seq(FaultKinds) /\ UNCHANGED <<master, sent, wrote>>
      BY <2>11 DEF PowerCycle, Fault, TypeOK
    <3>3. wire' \in [Links -> Seq(Sentence)]
      BY <2>11, PowerCycleEffect
    <3>. QED
      BY <2>2, <3>1, <3>2, <3>3 DEF TypeOK
  <2>12. CASE UNCHANGED vars
    BY <2>12 DEF vars, TypeOK
  <2>. QED
    BY <2>3, <2>4, <2>5, <2>6, <2>7, <2>8, <2>9, <2>10, <2>11, <2>12 DEF Next
<1>. QED
  BY <1>1, <1>2, PTL DEF Spec

(***************************************************************************)
(* The chain: order.                                                       *)
(***************************************************************************)

\* No link has a tag it did not have, nor in another order: what every step
\* does that transmits nothing.
Shrunk ==
  \A j \in Links : \E k \in Nat : \A l \in DOMAIN wire'[j] :
    l + k \in DOMAIN wire[j] /\ wire'[j][l].tag = wire[j][l+k].tag

\* A link that is as it was.
LEMMA SameLink ==
  ASSUME TypeOK, NEW j \in Links, wire'[j] = wire[j]
  PROVE  \E k \in Nat : \A l \in DOMAIN wire'[j] :
           l + k \in DOMAIN wire[j] /\ wire'[j][l].tag = wire[j][l+k].tag
<1>1. DOMAIN wire[j] = 1 .. Len(wire[j]) /\ Len(wire[j]) \in Nat
  BY WireType, LenProperties
<1>2. \A l \in DOMAIN wire'[j] : l + 0 \in DOMAIN wire[j]
                                 /\ wire'[j][l].tag = wire[j][l+0].tag
  BY <1>1
<1>. QED
  BY <1>2

\* A link that lost its head.
LEMMA TailLink ==
  ASSUME TypeOK, NEW j \in Links, wire[j] # <<>>, wire'[j] = Tail(wire[j])
  PROVE  \A l \in DOMAIN wire'[j] : l + 1 \in DOMAIN wire[j]
                                    /\ wire'[j][l] = wire[j][l+1]
<1>1. wire[j] \in Seq(Sentence)
  BY WireType
<1>2. /\ DOMAIN wire[j] = 1 .. Len(wire[j]) /\ Len(wire[j]) \in Nat
      /\ DOMAIN wire'[j] = 1 .. Len(wire[j]) - 1
      /\ \A l \in 1 .. Len(wire[j]) - 1 : wire'[j][l] = wire[j][l+1]
  BY <1>1, HeadTailProperties, LenProperties
<1>. QED
  BY <1>2

LEMMA TailShrinks ==
  ASSUME TypeOK, NEW i \in Links, wire[i] # <<>>, wire' = [wire EXCEPT ![i] = Tail(@)]
  PROVE  Shrunk
<1>1. /\ wire'[i] = Tail(wire[i])
      /\ \A j \in Links : j # i => wire'[j] = wire[j]
  BY WireType
<1>2. \A l \in DOMAIN wire'[i] : l + 1 \in DOMAIN wire[i]
                                 /\ wire'[i][l].tag = wire[i][l+1].tag
  BY <1>1, TailLink
<1>3. \E k \in Nat : \A l \in DOMAIN wire'[i] :
        l + k \in DOMAIN wire[i] /\ wire'[i][l].tag = wire[i][l+k].tag
  <2>1. 1 \in Nat
    OBVIOUS
  <2>. QED
    BY <1>2, <2>1
<1>4. \A j \in Links : j # i => \E k \in Nat : \A l \in DOMAIN wire'[j] :
        l + k \in DOMAIN wire[j] /\ wire'[j][l].tag = wire[j][l+k].tag
  BY <1>1, SameLink
<1>5. \A j \in Links : \E k \in Nat : \A l \in DOMAIN wire'[j] :
        l + k \in DOMAIN wire[j] /\ wire'[j][l].tag = wire[j][l+k].tag
  BY <1>3, <1>4, ZenonT(60)
<1>. QED
  BY <1>5 DEF Shrunk

LEMMA DamageShrinks ==
  ASSUME TypeOK,
         \A j \in Links : DOMAIN wire'[j] = DOMAIN wire[j],
         \A j \in Links : \A k \in DOMAIN wire[j] : wire'[j][k].tag = wire[j][k].tag
  PROVE  Shrunk
<1>. SUFFICES ASSUME NEW j \in Links
              PROVE  \A l \in DOMAIN wire'[j] : l + 0 \in DOMAIN wire[j]
                       /\ wire'[j][l].tag = wire[j][l+0].tag
  BY DEF Shrunk
<1>1. DOMAIN wire[j] = 1 .. Len(wire[j]) /\ Len(wire[j]) \in Nat
  BY WireType, LenProperties
<1>2. \A l \in DOMAIN wire[j] : l + 0 = l
  BY <1>1
<1>. QED
  BY <1>2

LEMMA PowerCycleShrinks ==
  ASSUME TypeOK, NEW i \in Cells, PowerCycle(i)
  PROVE  Shrunk
<1>1. PICK k \in Nat : /\ Len(wire'[i-1]) + k = Len(wire[i-1])
                       /\ \A l \in 1 .. Len(wire'[i-1]) :
                            wire'[i-1][l] = wire[i-1][l+k]
  BY PowerCycleEffect
<1>2. /\ i-1 \in Links /\ wire'[i-1] \in Seq(Sentence) /\ wire[i-1] \in Seq(Sentence)
      /\ \A j \in Links : j # i-1 => wire'[j] = wire[j]
  BY PowerCycleEffect, WireType
<1>3. /\ DOMAIN wire'[i-1] = 1 .. Len(wire'[i-1]) /\ Len(wire'[i-1]) \in Nat
      /\ DOMAIN wire[i-1] = 1 .. Len(wire[i-1]) /\ Len(wire[i-1]) \in Nat
  BY <1>2, LenProperties
<1>4. \A l \in DOMAIN wire'[i-1] : l + k \in DOMAIN wire[i-1]
                                   /\ wire'[i-1][l].tag = wire[i-1][l+k].tag
  <2>. SUFFICES ASSUME NEW l \in 1 .. Len(wire'[i-1])
                PROVE  l + k \in DOMAIN wire[i-1]
                       /\ wire'[i-1][l].tag = wire[i-1][l+k].tag
    BY <1>3
  <2>1. l + k \in 1 .. Len(wire[i-1])
    BY <1>1, <1>3
  <2>2. wire'[i-1][l] = wire[i-1][l+k]
    BY <1>1
  <2>. QED
    BY <1>3, <2>1, <2>2, ZenonT(60)
<1>5. \A j \in Links : j # i-1 => \E m \in Nat : \A l \in DOMAIN wire'[j] :
        l + m \in DOMAIN wire[j] /\ wire'[j][l].tag = wire[j][l+m].tag
  BY <1>2, SameLink
<1>6. \A j \in Links : \E m \in Nat : \A l \in DOMAIN wire'[j] :
        l + m \in DOMAIN wire[j] /\ wire'[j][l].tag = wire[j][l+m].tag
  BY <1>4, <1>5, ZenonT(60)
<1>. QED
  BY <1>6 DEF Shrunk

\* A step that transmits nothing keeps what is on the links in order.
LEMMA ShrunkInOrder ==
  ASSUME TypeOK, wire' \in [Links -> Seq(Sentence)], InOrder, Shrunk,
         master'.answer = master.answer, sent' = sent
  PROVE  InOrder'
<1>1. \A j \in Links : /\ DOMAIN wire[j] \subseteq Nat /\ DOMAIN wire'[j] \subseteq Nat
                       /\ \A l \in DOMAIN wire[j] : wire[j][l].tag \in Nat
  <2>. SUFFICES ASSUME NEW j \in Links
                PROVE  /\ DOMAIN wire[j] \subseteq Nat /\ DOMAIN wire'[j] \subseteq Nat
                       /\ \A l \in DOMAIN wire[j] : wire[j][l].tag \in Nat
    OBVIOUS
  <2>1. wire[j] \in Seq(Sentence) /\ wire'[j] \in Seq(Sentence)
    BY WireType
  <2>2. /\ DOMAIN wire[j] = 1 .. Len(wire[j]) /\ DOMAIN wire'[j] = 1 .. Len(wire'[j])
        /\ \A l \in DOMAIN wire[j] : wire[j][l] \in Sentence
    BY <2>1, LenProperties
  <2>. QED
    BY <2>2 DEF Sentence
<1>2. PICK k \in [Links -> Nat] : \A j \in Links : \A l \in DOMAIN wire'[j] :
        l + k[j] \in DOMAIN wire[j] /\ wire'[j][l].tag = wire[j][l+k[j]].tag
  <2> DEFINE f == [j \in Links |-> CHOOSE k \in Nat : \A l \in DOMAIN wire'[j] :
                     l + k \in DOMAIN wire[j] /\ wire'[j][l].tag = wire[j][l+k].tag]
  <2>1. f \in [Links -> Nat] /\ \A j \in Links : \A l \in DOMAIN wire'[j] :
          l + f[j] \in DOMAIN wire[j] /\ wire'[j][l].tag = wire[j][l+f[j]].tag
    BY DEF Shrunk
  <2>. QED
    BY <2>1
<1>3. \A j \in Links : \A l \in DOMAIN wire'[j] :
        wire'[j][l].tag \in 1 .. Len(sent) /\ master.answer < wire'[j][l].tag
  BY <1>2 DEF InOrder
<1>4. \A j \in Links : \A l, m \in DOMAIN wire'[j] :
        l < m => wire'[j][l].tag < wire'[j][m].tag
  <2>. SUFFICES ASSUME NEW j \in Links, NEW l \in DOMAIN wire'[j],
                       NEW m \in DOMAIN wire'[j], l < m
                PROVE  wire'[j][l].tag < wire'[j][m].tag
    OBVIOUS
  <2>1. l + k[j] < m + k[j]
    BY <1>1, <1>2
  <2>. QED
    BY <1>2, <2>1 DEF InOrder
<1>5. \A i, j \in Links : i < j => \A l \in DOMAIN wire'[i], m \in DOMAIN wire'[j] :
        wire'[j][m].tag < wire'[i][l].tag
  BY <1>2 DEF InOrder
<1>. QED
  BY <1>3, <1>4, <1>5 DEF InOrder

\* A command enters behind everything on the links.
LEMMA TransmitInOrder ==
  ASSUME TypeOK, InOrder, NEW r \in Commands, Transmit(r)
  PROVE  InOrder'
<1>1. /\ wire \in [Links -> Seq(Sentence)] /\ wire' \in [Links -> Seq(Sentence)]
      /\ \A j \in Links : j # 0 => wire'[j] = wire[j]
      /\ wire'[0] = Append(wire[0], [line |-> Packetize(r), tag |-> Len(sent) + 1])
      /\ 0 \in Links /\ \A j \in Links : j >= 0
  BY WireType, TransmitEffect, ChainAssumption DEF Links
<1>2. /\ Len(sent') = Len(sent) + 1 /\ Len(sent) \in Nat
      /\ master'.answer = master.answer /\ master.answer \in Nat
  BY DEF Transmit, TypeOK
<1>3. \A l \in DOMAIN wire'[0] :
        \/ l \in DOMAIN wire[0] /\ wire'[0][l] = wire[0][l]
        \/ l = Len(wire[0]) + 1 /\ wire'[0][l].tag = Len(sent) + 1
  <2>1. wire[0] \in Seq(Sentence)
    BY <1>1
  <2>2. DOMAIN wire[0] = 1 .. Len(wire[0]) /\ Len(wire[0]) \in Nat
    BY <2>1, LenProperties
  <2>. QED
    BY <1>1, <2>1, <2>2
<1>4. \A j \in Links : \A l \in DOMAIN wire'[j] :
        \/ l \in DOMAIN wire[j] /\ wire'[j][l] = wire[j][l]
        \/ j = 0 /\ l = Len(wire[0]) + 1 /\ wire'[j][l].tag = Len(sent) + 1
  BY <1>1, <1>3
<1>5. \A j \in Links : \A l \in DOMAIN wire[j] :
        wire[j][l].tag \in 1 .. Len(sent) /\ master.answer < wire[j][l].tag
  BY DEF InOrder
<1>6. \A j \in Links : \A l \in DOMAIN wire[j] : l \in 1 .. Len(wire[j])
  BY <1>1, LenProperties
<1>7. master.answer <= Len(sent)
  BY DEF InOrder
<1>8. \A j \in Links : \A l \in DOMAIN wire'[j] :
        wire'[j][l].tag \in 1 .. Len(sent') /\ master'.answer < wire'[j][l].tag
  BY <1>2, <1>4, <1>5, <1>7
<1>9. \A j \in Links : \A l, m \in DOMAIN wire'[j] :
        l < m => wire'[j][l].tag < wire'[j][m].tag
  <2>. SUFFICES ASSUME NEW j \in Links, NEW l \in DOMAIN wire'[j],
                       NEW m \in DOMAIN wire'[j], l < m
                PROVE  wire'[j][l].tag < wire'[j][m].tag
    OBVIOUS
  <2>1. Len(wire[0]) \in Nat /\ Len(wire[j]) \in Nat
    BY <1>1, LenProperties
  <2>2. l \in DOMAIN wire[j] /\ wire'[j][l] = wire[j][l]
    BY <1>4, <1>6, <2>1
  <2>. QED
    BY <1>2, <1>4, <1>5, <2>2 DEF InOrder
<1>10. \A i, j \in Links : i < j => \A l \in DOMAIN wire'[i], m \in DOMAIN wire'[j] :
         wire'[j][m].tag < wire'[i][l].tag
  <2>. SUFFICES ASSUME NEW i \in Links, NEW j \in Links, i < j,
                       NEW l \in DOMAIN wire'[i], NEW m \in DOMAIN wire'[j]
                PROVE  wire'[j][m].tag < wire'[i][l].tag
    OBVIOUS
  <2>1. m \in DOMAIN wire[j] /\ wire'[j][m] = wire[j][m]
    <3>1. j # 0
      BY ChainAssumption DEF Links
    <3>. QED
      BY <1>4, <3>1
  <2>. QED
    BY <1>2, <1>4, <1>5, <2>1 DEF InOrder
<1>. QED
  BY <1>2, <1>7, <1>8, <1>9, <1>10 DEF InOrder

\* The oldest sentence leaves to the master; everything behind it is younger.
LEMMA ReadLineInOrder ==
  ASSUME TypeOK, InOrder, ReadLine
  PROVE  InOrder'
<1>1. /\ wire \in [Links -> Seq(Sentence)] /\ N \in Links
      /\ wire[N] # <<>> /\ wire' = [wire EXCEPT ![N] = Tail(@)]
      /\ master'.answer = wire[N][1].tag /\ sent' = sent
  BY WireType, ChainAssumption DEF ReadLine, Links
<1>2. /\ wire'[N] = Tail(wire[N]) /\ \A j \in Links : j # N => wire'[j] = wire[j]
  BY <1>1
<1>3. /\ \A l \in DOMAIN wire'[N] : l + 1 \in DOMAIN wire[N]
                                    /\ wire'[N][l] = wire[N][l+1] /\ l \in Nat /\ l >= 1
      /\ 1 \in DOMAIN wire[N]
  <2>1. wire[N] \in Seq(Sentence) /\ wire'[N] \in Seq(Sentence)
    BY <1>1, <1>2, HeadTailProperties
  <2>2. /\ DOMAIN wire'[N] = 1 .. Len(wire'[N]) /\ DOMAIN wire[N] = 1 .. Len(wire[N])
        /\ Len(wire[N]) \in Nat /\ Len(wire'[N]) \in Nat /\ Len(wire[N]) # 0
    BY <1>1, <2>1, LenProperties, EmptySeq
  <2>. QED
    BY <1>1, <1>2, <2>2, TailLink
<1>4. \A j \in Links : \A l \in DOMAIN wire'[j] :
        wire'[j][l].tag \in 1 .. Len(sent) /\ wire[N][1].tag < wire'[j][l].tag
  <2>. SUFFICES ASSUME NEW j \in Links, NEW l \in DOMAIN wire'[j]
                PROVE  wire'[j][l].tag \in 1 .. Len(sent)
                       /\ wire[N][1].tag < wire'[j][l].tag
    OBVIOUS
  <2>1. CASE j = N
    BY <1>3, <2>1 DEF InOrder
  <2>2. CASE j # N
    <3>1. j < N
      BY <2>2, ChainAssumption DEF Links
    <3>. QED
      BY <1>1, <1>2, <1>3, <2>2, <3>1 DEF InOrder
  <2>. QED
    BY <2>1, <2>2
<1>5. \A j \in Links : \A l, m \in DOMAIN wire'[j] :
        l < m => wire'[j][l].tag < wire'[j][m].tag
  <2>. SUFFICES ASSUME NEW j \in Links, NEW l \in DOMAIN wire'[j],
                       NEW m \in DOMAIN wire'[j], l < m
                PROVE  wire'[j][l].tag < wire'[j][m].tag
    OBVIOUS
  <2>1. CASE j = N
    <3>1. l + 1 < m + 1 /\ l + 1 \in DOMAIN wire[N] /\ m + 1 \in DOMAIN wire[N]
      BY <1>3, <2>1
    <3>. QED
      BY <1>1, <1>3, <2>1, <3>1 DEF InOrder
  <2>2. CASE j # N
    BY <1>2, <2>2 DEF InOrder
  <2>. QED
    BY <2>1, <2>2
<1>6. \A i, j \in Links : i < j => \A l \in DOMAIN wire'[i], m \in DOMAIN wire'[j] :
        wire'[j][m].tag < wire'[i][l].tag
  <2>. SUFFICES ASSUME NEW i \in Links, NEW j \in Links, i < j,
                       NEW l \in DOMAIN wire'[i], NEW m \in DOMAIN wire'[j]
                PROVE  wire'[j][m].tag < wire'[i][l].tag
    OBVIOUS
  <2>1. i # N
    BY ChainAssumption DEF Links
  <2>2. l \in DOMAIN wire[i] /\ wire'[i][l] = wire[i][l]
    BY <1>2, <2>1
  <2>3. CASE j = N
    BY <1>3, <2>2, <2>3 DEF InOrder
  <2>4. CASE j # N
    BY <1>2, <2>2, <2>4 DEF InOrder
  <2>. QED
    BY <2>3, <2>4
<1>7. wire[N][1].tag <= Len(sent)
  BY <1>1, <1>3 DEF InOrder
<1>. QED
  BY <1>1, <1>4, <1>5, <1>6, <1>7 DEF InOrder

\* A cell takes the oldest sentence of the link in, which is younger than all on
\* the link out, and puts what it makes of it behind those.
LEMMA UpdateInOrder ==
  ASSUME TypeOK, InOrder, NEW i \in Cells, Update(i)
  PROVE  InOrder'
<1>1. PICK s, r : UpdatePost(i, s, r)
  BY UpdateEffect
<1>2. /\ wire \in [Links -> Seq(Sentence)] /\ wire' \in [Links -> Seq(Sentence)]
      /\ i \in Links /\ i-1 \in Links /\ i-1 # i /\ i-1 < i /\ i \in Int
      /\ wire'[i-1] = Tail(wire[i-1]) /\ wire[i-1] # <<>>
      /\ \A j \in Links : j # i-1 /\ j # i => wire'[j] = wire[j]
      /\ s = wire[i-1][1] /\ UNCHANGED <<master, sent>>
  <2>1. /\ i \in Links /\ i-1 \in Links /\ i-1 # i /\ i-1 < i /\ i \in Int
    BY ChainAssumption DEF Links, Cells
  <2>2. wire \in [Links -> Seq(Sentence)]
    BY WireType
  <2>3. s = Head(wire[i-1]) /\ wire[i-1] # <<>>
    BY <1>1 DEF UpdatePost
  <2>4. s = wire[i-1][1]
    BY <2>1, <2>2, <2>3
  <2>. QED
    BY <1>1, <2>1, <2>2, <2>3, <2>4 DEF UpdatePost
<1>3. /\ 1 \in DOMAIN wire[i-1]
      /\ \A l \in DOMAIN wire'[i-1] : l + 1 \in DOMAIN wire[i-1] /\ l \in Nat /\ l >= 1
                                      /\ wire'[i-1][l] = wire[i-1][l+1]
  <2>1. wire[i-1] \in Seq(Sentence) /\ wire'[i-1] \in Seq(Sentence)
    BY <1>2
  <2>2. /\ DOMAIN wire'[i-1] = 1 .. Len(wire'[i-1])
        /\ DOMAIN wire[i-1] = 1 .. Len(wire[i-1])
        /\ Len(wire[i-1]) \in Nat /\ Len(wire'[i-1]) \in Nat /\ Len(wire[i-1]) # 0
    BY <1>2, <2>1, LenProperties, EmptySeq
  <2>. QED
    BY <1>2, <2>2, TailLink
<1>4. /\ Len(wire[i]) \in Nat /\ DOMAIN wire[i] = 1 .. Len(wire[i])
      /\ \A l \in DOMAIN wire'[i] :
           /\ l \in Nat
           /\ \/ l \in DOMAIN wire[i] /\ wire'[i][l] = wire[i][l]
              \/ l = Len(wire[i]) + 1 /\ wire'[i][l].tag = wire[i-1][1].tag
  <2>1. wire[i] \in Seq(Sentence)
    BY <1>2
  <2>2. DOMAIN wire[i] = 1 .. Len(wire[i]) /\ Len(wire[i]) \in Nat
    BY <2>1, LenProperties
  <2>3. CASE wire'[i] = wire[i]
    BY <2>2, <2>3
  <2>4. ASSUME NEW l \in GoodLine, wire'[i] = Append(wire[i], [line |-> l, tag |-> s.tag])
        PROVE  \A k \in DOMAIN wire'[i] :
                 /\ k \in Nat
                 /\ \/ k \in DOMAIN wire[i] /\ wire'[i][k] = wire[i][k]
                    \/ k = Len(wire[i]) + 1 /\ wire'[i][k].tag = wire[i-1][1].tag
    BY <1>2, <2>1, <2>2, <2>4
  <2>. QED
    BY <1>1, <2>2, <2>3, <2>4 DEF UpdatePost
<1>5. \A j \in Links : \A l \in DOMAIN wire[j] :
        wire[j][l].tag \in 1 .. Len(sent) /\ master.answer < wire[j][l].tag
  BY DEF InOrder
\* Where each sentence, or what it was made from, lay before.
<1>6. \A a \in Links : \A l \in DOMAIN wire'[a] : \E b \in Links, k \in Int :
        /\ k \in DOMAIN wire[b] /\ wire'[a][l].tag = wire[b][k].tag
        /\ \/ b = a /\ (a = i-1 => k > 1)
           \/ a = i /\ b = i-1 /\ k = 1
  <2>. SUFFICES ASSUME NEW a \in Links, NEW l \in DOMAIN wire'[a]
                PROVE  \E b \in Links, k \in Int :
                         /\ k \in DOMAIN wire[b] /\ wire'[a][l].tag = wire[b][k].tag
                         /\ \/ b = a /\ (a = i-1 => k > 1)
                            \/ a = i /\ b = i-1 /\ k = 1
    OBVIOUS
  <2>1. CASE a = i-1
    <3>1. /\ l + 1 \in DOMAIN wire[a] /\ l + 1 \in Int /\ l + 1 > 1
          /\ wire'[a][l].tag = wire[a][l+1].tag
      BY <1>3, <2>1
    <3>. QED
      BY <3>1
  <2>2. CASE a = i /\ l \in DOMAIN wire[i] /\ wire'[i][l] = wire[i][l]
    <3>1. l \in Int /\ a # i-1
      BY <1>2, <1>4, <2>2
    <3>. QED
      BY <2>2, <3>1
  <2>4. CASE a = i /\ wire'[i][l].tag = wire[i-1][1].tag
    <3>1. 1 \in Int /\ i-1 \in Links /\ 1 \in DOMAIN wire[i-1]
      BY <1>2, <1>3
    <3>2. wire'[a][l].tag = wire[i-1][1].tag
      BY <2>4
    <3>. QED
      BY <2>4, <3>1, <3>2, Zenon
  <2>3. CASE a # i-1 /\ a # i
    <3>1. l \in DOMAIN wire[a] /\ wire'[a][l] = wire[a][l]
      BY <1>2, <2>3
    <3>2. l \in Int
      BY <1>2, <3>1, LenProperties
    <3>. QED
      BY <2>3, <3>1, <3>2
  <2>. QED
    BY <1>4, <2>1, <2>2, <2>3, <2>4
<1>7. \A j \in Links : \A l, m \in DOMAIN wire'[j] :
        l < m => wire'[j][l].tag < wire'[j][m].tag
  <2>. SUFFICES ASSUME NEW j \in Links, NEW l \in DOMAIN wire'[j],
                       NEW m \in DOMAIN wire'[j], l < m
                PROVE  wire'[j][l].tag < wire'[j][m].tag
    OBVIOUS
  <2>1. CASE j = i-1
    <3>1. /\ l + 1 < m + 1 /\ l + 1 \in DOMAIN wire[j] /\ m + 1 \in DOMAIN wire[j]
          /\ wire'[j][l] = wire[j][l+1] /\ wire'[j][m] = wire[j][m+1]
      BY <1>3, <2>1
    <3>. QED
      BY <3>1 DEF InOrder
  <2>2. CASE j = i
    <3>1. l \in DOMAIN wire[i] /\ wire'[i][l] = wire[i][l]
      BY <1>4, <2>2
    <3>2. CASE m \in DOMAIN wire[i] /\ wire'[i][m] = wire[i][m]
      BY <2>2, <3>1, <3>2 DEF InOrder
    <3>3. CASE wire'[i][m].tag = wire[i-1][1].tag
      BY <1>2, <1>3, <2>2, <3>1, <3>3 DEF InOrder
    <3>. QED
      BY <1>4, <2>2, <3>2, <3>3
  <2>3. CASE j # i-1 /\ j # i
    BY <1>2, <2>3 DEF InOrder
  <2>. QED
    BY <2>1, <2>2, <2>3
<1>8. \A a, b \in Links : a < b => \A l \in DOMAIN wire'[a], m \in DOMAIN wire'[b] :
        wire'[b][m].tag < wire'[a][l].tag
  <2>. SUFFICES ASSUME NEW a \in Links, NEW b \in Links, a < b,
                       NEW l \in DOMAIN wire'[a], NEW m \in DOMAIN wire'[b]
                PROVE  wire'[b][m].tag < wire'[a][l].tag
    OBVIOUS
  <2>0. a \in Int /\ b \in Int
    BY DEF Links
  <2>1. PICK c \in Links, k \in Int :
          /\ k \in DOMAIN wire[c] /\ wire'[a][l].tag = wire[c][k].tag
          /\ \/ c = a /\ (a = i-1 => k > 1)
             \/ a = i /\ c = i-1 /\ k = 1
    BY <1>6
  <2>2. PICK d \in Links, n \in Int :
          /\ n \in DOMAIN wire[d] /\ wire'[b][m].tag = wire[d][n].tag
          /\ \/ d = b /\ (b = i-1 => n > 1)
             \/ b = i /\ d = i-1 /\ n = 1
    BY <1>6
  <2>3. c \in Int /\ d \in Int
    BY DEF Links
  <2>4. CASE c < d
    BY <2>1, <2>2, <2>4 DEF InOrder
  <2>5. CASE ~ (c < d)
    <3>1. CASE c = a /\ d = b
      BY <2>0, <2>5, <3>1
    <3>2. CASE c = a /\ b = i /\ d = i-1 /\ n = 1
      <4>1. c = i-1 /\ a = i-1 /\ c = d
        BY <1>2, <2>0, <2>5, <3>2
      <4>2. k > 1
        BY <1>2, <2>1, <4>1
      <4>3. n < k
        BY <3>2, <4>2
      <4>. QED
        BY <2>1, <2>2, <4>1, <4>3 DEF InOrder
    <3>3. CASE a = i /\ c = i-1 /\ d = b
      BY <1>2, <2>0, <2>5, <3>3
    <3>4. CASE a = i /\ b = i
      BY <2>0, <3>4
    <3>. QED
      BY <2>1, <2>2, <3>1, <3>2, <3>3, <3>4
  <2>. QED
    BY <2>4, <2>5
<1>9. \A j \in Links : \A l \in DOMAIN wire'[j] :
        wire'[j][l].tag \in 1 .. Len(sent) /\ master.answer < wire'[j][l].tag
  BY <1>5, <1>6
<1>10. /\ master'.answer = master.answer /\ sent' = sent
       /\ master.answer <= Len(sent)
  BY <1>2 DEF InOrder
<1>. QED
  BY <1>7, <1>8, <1>9, <1>10 DEF InOrder

\* Order: a link delivers no sentence twice and no answer overtakes an older
\* one, for every length of chain, number of commands and series of faults.
THEOREM OrderCorrect == Spec => []InOrder
<1>1. Init => InOrder
  <2>. SUFFICES ASSUME Init PROVE InOrder
    OBVIOUS
  <2>1. \A i \in Links : DOMAIN wire[i] = {}
    BY DEF Init
  <2>2. sent = <<>> /\ master.answer = 0
    BY DEF Init
  <2>. QED
    BY <2>1, <2>2 DEF InOrder
<1>2. TypeOK /\ TypeOK' /\ InOrder /\ [Next]_vars => InOrder'
  <2>. SUFFICES ASSUME TypeOK, TypeOK', InOrder, [Next]_vars PROVE InOrder'
    OBVIOUS
  <2>1. wire' \in [Links -> Seq(Sentence)]
    BY DEF TypeOK, Sentence, GoodLine
  <2>2. ASSUME Shrunk, master'.answer = master.answer, sent' = sent PROVE InOrder'
    BY <2>1, <2>2, ShrunkInOrder
  <2>3. ASSUME NEW r \in Commands, Transmit(r) PROVE InOrder'
    BY <2>3, TransmitInOrder
  <2>4. CASE ReadLine
    BY <2>4, ReadLineInOrder
  <2>5. ASSUME NEW i \in Cells, Update(i) PROVE InOrder'
    BY <2>5, UpdateInOrder
  <2>6. ASSUME wire' = wire, master'.answer = master.answer, sent' = sent PROVE InOrder'
    BY <2>6 DEF InOrder
  <2>7. CASE ReadTimeout
    <3>1. master'.answer = master.answer
      BY <2>7 DEF ReadTimeout, TypeOK
    <3>. QED
      BY <2>6, <2>7, <3>1 DEF ReadTimeout
  <2>8. ASSUME NEW i \in Cells, UpdateIdle(i) PROVE InOrder'
    BY <2>6, <2>8 DEF UpdateIdle
  <2>9. ASSUME NEW i \in Links, wire[i] # <<>>,
               NEW start \in BOOLEAN, NEW sum \in {"xor", "zero", "other"},
               wire' = [wire EXCEPT ![i][1] = Damaged(wire[i][1], start, sum)],
               UNCHANGED <<master, sent>>
        PROVE  InOrder'
    <3>1. /\ \A j \in Links : DOMAIN wire'[j] = DOMAIN wire[j]
          /\ \A j \in Links : \A k \in DOMAIN wire[j] : wire'[j][k].tag = wire[j][k].tag
      BY <2>9, DamageType
    <3>2. Shrunk
      BY <3>1, DamageShrinks
    <3>. QED
      BY <2>2, <2>9, <3>2
  <2>10. ASSUME NEW i \in Links, Garble(i) PROVE InOrder'
    <3>1. wire[i] # <<>> /\ UNCHANGED <<master, sent>>
      BY <2>10 DEF Garble
    <3>2. wire' = [wire EXCEPT ![i][1] =
                     Damaged(wire[i][1], wire[i][1].line.start, "other")]
      BY <2>10 DEF Garble
    <3>3. wire[i][1].line.start \in BOOLEAN
      BY <3>1, HeadStart
    <3>. QED
      BY <2>9, <3>1, <3>2, <3>3
  <2>11. ASSUME NEW i \in Links, Headless(i) PROVE InOrder'
    BY <2>9, <2>11 DEF Headless
  <2>12. ASSUME NEW i \in Links, Lose(i) PROVE InOrder'
    BY <2>2, <2>12, TailShrinks DEF Lose
  <2>13. ASSUME NEW i \in Cells, PowerCycle(i) PROVE InOrder'
    BY <2>2, <2>13, PowerCycleShrinks DEF PowerCycle
  <2>14. CASE UNCHANGED vars
    BY <2>6, <2>14 DEF vars
  <2>. QED
    BY <2>3, <2>4, <2>5, <2>7, <2>8, <2>10, <2>11, <2>12, <2>13, <2>14 DEF Next
<1>. QED
  BY <1>1, <1>2, TypeCorrect, PTL DEF Spec

\* The answers lag behind the commands by the readlines that have timed out and no
\* more: what readline() returns is younger than what it returned before.
THEOREM LagCorrect == Spec => []AnswersLag
<1>1. Init => AnswersLag
  BY DEF Init, AnswersLag
<1>2. TypeOK /\ InOrder /\ AnswersLag /\ [Next]_vars => AnswersLag'
  <2>. SUFFICES ASSUME TypeOK, InOrder, AnswersLag, [Next]_vars PROVE AnswersLag'
    OBVIOUS
  <2>1. /\ master \in [waiting : BOOLEAN, answer : Nat, missed : Nat]
        /\ Len(sent) \in Nat
    BY LenProperties DEF TypeOK
  <2>2. ASSUME UNCHANGED <<master, sent>> PROVE AnswersLag'
    BY <2>2 DEF AnswersLag
  <2>3. ASSUME NEW r \in Commands, Transmit(r) PROVE AnswersLag'
    <3>1. Len(sent') = Len(sent) + 1 /\ ~ master.waiting
      BY <2>3, AppendProperties DEF Transmit, TypeOK
    <3>2. /\ master'.waiting /\ master'.answer = master.answer
          /\ master'.missed = master.missed
      BY <2>1, <2>3 DEF Transmit
    <3>. QED
      BY <2>1, <3>1, <3>2 DEF AnswersLag
  <2>4. CASE ReadLine
    <3>1. N \in Links /\ wire[N] \in Seq(Sentence) /\ wire[N] # <<>>
      BY <2>4, WireType, ChainAssumption DEF ReadLine, Links
    <3>2. 1 \in DOMAIN wire[N] /\ Head(wire[N]) = wire[N][1]
      BY <3>1, LenProperties, EmptySeq
    <3>3. wire[N][1].tag \in Nat /\ master.answer < wire[N][1].tag
      BY <3>1, <3>2 DEF InOrder
    <3>4. /\ master.waiting /\ ~ master'.waiting /\ sent' = sent
          /\ master'.answer = wire[N][1].tag /\ master'.missed = master.missed
      BY <2>1, <2>4, <3>2 DEF ReadLine
    <3>. QED
      BY <2>1, <3>3, <3>4 DEF AnswersLag
  <2>5. CASE ReadTimeout
    <3>1. /\ master.waiting /\ ~ master'.waiting /\ sent' = sent
          /\ master'.answer = master.answer /\ master'.missed = master.missed + 1
      BY <2>1, <2>5 DEF ReadTimeout
    <3>. QED
      BY <2>1, <3>1 DEF AnswersLag
  <2>6. ASSUME NEW i \in Cells, Update(i) \/ UpdateIdle(i) \/ PowerCycle(i)
        PROVE  AnswersLag'
    BY <2>2, <2>6 DEF Update, UpdateIdle, PowerCycle
  <2>7. ASSUME NEW i \in Links, Garble(i) \/ Headless(i) \/ Lose(i)
        PROVE  AnswersLag'
    BY <2>2, <2>7 DEF Garble, Headless, Lose
  <2>8. CASE UNCHANGED vars
    BY <2>2, <2>8 DEF vars
  <2>. QED
    BY <2>3, <2>4, <2>5, <2>6, <2>7, <2>8 DEF Next
<1>. QED
  BY <1>1, <1>2, TypeCorrect, OrderCorrect, PTL DEF Spec

-----------------------------------------------------------------------------
(***************************************************************************)
(* What the writes of a chain leave behind.                                *)
(*                                                                         *)
(* None of the three properties is inductive.  A cell that takes a         *)
(* multiple write extends the prefix because the cells before it wrote and *)
(* no other did, which is what the echo says of the sentence it takes;     *)
(* that stays true of the other sentences because none has the same tag,   *)
(* which is the order above; and a cell may take a single write because it *)
(* is still unspent.                                                       *)
(***************************************************************************)

\* The commands that wrote a register have been sent.
WritersSent == \A i \in Cells : wrote[i] \subseteq 1 .. Len(sent)

\* A sentence has the type of the command it descends from or is a response.
DescentKeepsType ==
  \A i \in Links : \A x \in At(i) :
    x.tag \in 1 .. Len(sent) /\ x.line.hdr \in {sent[x.tag].type, "SRS"}

\* A single write still on its way has been executed by no cell.
Unspent ==
  \A i \in Links : \A x \in At(i) : x.line.hdr = "SWR" =>
    \A j \in Cells : x.tag \notin wrote[j]

WriteInv ==
  /\ WritersSent
  /\ DescentKeepsType
  /\ EchoMeansWritten
  /\ Unspent
  /\ WritesFormPrefix
  /\ SingleWriteOnce

(***************************************************************************)
(* Steps that write nothing: what is on a link descends from what was.     *)
(***************************************************************************)
Carried ==
  \A i \in Links : \A x \in At(i)' : \E y \in At(i) :
    y.tag = x.tag /\ y.line.hdr = x.line.hdr /\ y.line.fields = x.line.fields

\* Steps that damage no start token.
StartCarried ==
  \A i \in Links : \A x \in At(i)' : \E y \in At(i) : y.line.start = x.line.start

LEMMA CarriedInv ==
  ASSUME WriteInv, Carried, wrote' = wrote, sent' = sent
  PROVE  WriteInv'
<1>1. WritersSent' /\ WritesFormPrefix' /\ SingleWriteOnce'
  BY DEF WriteInv, WritersSent, WritesFormPrefix, SingleWriteOnce
<1>2. DescentKeepsType'
  <2>. SUFFICES ASSUME NEW i \in Links, NEW x \in At(i)'
                PROVE  x.tag \in 1 .. Len(sent) /\ x.line.hdr \in {sent[x.tag].type, "SRS"}
    BY DEF DescentKeepsType
  <2>. QED
    BY DEF Carried, WriteInv, DescentKeepsType
<1>3. EchoMeansWritten'
  <2>. SUFFICES ASSUME NEW i \in Links, NEW x \in At(i)', x.line.hdr = "MWR"
                PROVE  \A j \in Cells : x.tag \in wrote[j] <=> j <= i
    BY DEF EchoMeansWritten
  <2>1. PICK y \in At(i) : y.tag = x.tag /\ y.line.hdr = x.line.hdr
    BY DEF Carried
  <2>. QED
    BY <2>1 DEF WriteInv, EchoMeansWritten
<1>4. Unspent'
  <2>. SUFFICES ASSUME NEW i \in Links, NEW x \in At(i)', x.line.hdr = "SWR"
                PROVE  \A j \in Cells : x.tag \notin wrote[j]
    BY DEF Unspent
  <2>1. PICK y \in At(i) : y.tag = x.tag /\ y.line.hdr = x.line.hdr
    BY DEF Carried
  <2>. QED
    BY <2>1 DEF WriteInv, Unspent
<1>. QED
  BY <1>1, <1>2, <1>3, <1>4 DEF WriteInv

\* Dropping the head of a link carries the rest.
LEMMA TailCarried ==
  ASSUME TypeOK, NEW i \in Links, wire[i] # <<>>, wire' = [wire EXCEPT ![i] = Tail(@)]
  PROVE  Carried /\ StartCarried
<1>1. /\ wire'[i] = Tail(wire[i])
      /\ \A j \in Links : j # i => wire'[j] = wire[j]
  BY WireType
<1>2. \A l \in DOMAIN wire'[i] : l + 1 \in DOMAIN wire[i] /\ wire'[i][l] = wire[i][l+1]
  BY <1>1, TailLink
<1>3. \A j \in Links : \A x \in At(j)' : x \in At(j)
  BY <1>1, <1>2 DEF At
<1>. QED
  BY <1>3 DEF Carried, StartCarried

\* So does damage to the checksum or the start token.
LEMMA DamageCarried ==
  ASSUME TypeOK, NEW i \in Links, wire[i] # <<>>,
         NEW start \in BOOLEAN, NEW sum \in {"xor", "zero", "other"},
         wire' = [wire EXCEPT ![i][1] = Damaged(wire[i][1], start, sum)]
  PROVE  Carried /\ (start = wire[i][1].line.start => StartCarried)
<1>1. \A j \in Links : \A k \in DOMAIN wire'[j] :
        /\ k \in DOMAIN wire[j]
        /\ wire'[j][k].tag = wire[j][k].tag
        /\ wire'[j][k].line.hdr = wire[j][k].line.hdr
        /\ wire'[j][k].line.fields = wire[j][k].line.fields
  <2>1. \A j \in Links : DOMAIN wire'[j] = DOMAIN wire[j]
    BY DamageType, ZenonT(60)
  <2>2. \A j \in Links : \A k \in DOMAIN wire[j] :
          /\ wire'[j][k].tag = wire[j][k].tag
          /\ wire'[j][k].line.hdr = wire[j][k].line.hdr
          /\ wire'[j][k].line.fields = wire[j][k].line.fields
    BY DamageType, ZenonT(60)
  <2>. QED
    BY <2>1, <2>2, ZenonT(60)
<1>2. Carried
  <2>. SUFFICES ASSUME NEW j \in Links, NEW x \in At(j)'
                PROVE  \E y \in At(j) : /\ y.tag = x.tag
                                        /\ y.line.hdr = x.line.hdr
                                        /\ y.line.fields = x.line.fields
    BY DEF Carried
  <2>1. PICK k \in DOMAIN wire'[j] : x = wire'[j][k]
    BY DEF At
  <2>2. wire[j][k] \in At(j)
    BY <1>1 DEF At
  <2>. QED
    BY <1>1, <2>1, <2>2, ZenonT(60)
<1>3. ASSUME start = wire[i][1].line.start PROVE StartCarried
  <2>1. \A j \in Links : \A k \in DOMAIN wire'[j] :
          wire'[j][k].line.start = wire[j][k].line.start
    BY <1>3, DamageType, ZenonT(60)
  <2>. QED
    BY <1>1, <2>1 DEF StartCarried, At
<1>. QED
  BY <1>2, <1>3

\* And a power cycle, which drops sentences from the link into the cell.
LEMMA PowerCycleCarried ==
  ASSUME TypeOK, NEW i \in Cells, PowerCycle(i)
  PROVE  Carried /\ StartCarried
<1>1. PICK k \in Nat : /\ Len(wire'[i-1]) + k = Len(wire[i-1])
                       /\ \A l \in 1 .. Len(wire'[i-1]) :
                            wire'[i-1][l] = wire[i-1][l+k]
  BY PowerCycleEffect
<1>2. /\ i-1 \in Links /\ wire'[i-1] \in Seq(Sentence) /\ wire[i-1] \in Seq(Sentence)
      /\ \A j \in Links : j # i-1 => wire'[j] = wire[j]
  BY PowerCycleEffect, WireType
<1>3. /\ DOMAIN wire'[i-1] = 1 .. Len(wire'[i-1]) /\ Len(wire'[i-1]) \in Nat
      /\ DOMAIN wire[i-1] = 1 .. Len(wire[i-1]) /\ Len(wire[i-1]) \in Nat
  BY <1>2, LenProperties
<1>4. \A l \in DOMAIN wire'[i-1] : l + k \in DOMAIN wire[i-1]
                                   /\ wire'[i-1][l] = wire[i-1][l+k]
  BY <1>1, <1>3
<1>5. \A j \in Links : \A x \in At(j)' : x \in At(j)
  BY <1>2, <1>4 DEF At
<1>. QED
  BY <1>5 DEF Carried, StartCarried

(***************************************************************************)
(* Transmit: the new command has a tag that no cell has written for.       *)
(***************************************************************************)
LEMMA TransmitAt ==
  ASSUME TypeOK, NEW r \in Commands, Transmit(r)
  PROVE  \A l \in Links : \A x \in At(l)' :
           \/ x \in At(l)
           \/ l = 0 /\ x.tag = Len(sent) + 1 /\ x.line = Packetize(r) /\ x.line.hdr = r.type
<1>. SUFFICES ASSUME NEW l \in Links, NEW k \in DOMAIN wire'[l]
              PROVE  \/ wire'[l][k] \in At(l)
                     \/ /\ l = 0 /\ wire'[l][k].tag = Len(sent) + 1
                        /\ wire'[l][k].line = Packetize(r)
                        /\ wire'[l][k].line.hdr = r.type
  BY DEF At
<1>1. CASE l # 0
  BY <1>1, TransmitEffect DEF At
<1>2. CASE l = 0
  <2> DEFINE y == [line |-> Packetize(r), tag |-> Len(sent) + 1]
  <2>1. wire[0] \in Seq(Sentence)
    BY <1>2, WireType
  <2>2. wire'[0] = Append(wire[0], y)
    BY TransmitEffect
  <2>3. DOMAIN wire[0] = 1 .. Len(wire[0]) /\ Len(wire[0]) \in Nat
    BY <2>1, LenProperties
  <2>4. y.tag = Len(sent) + 1 /\ y.line = Packetize(r) /\ y.line.hdr = r.type
    BY TransmitEffect
  <2>. HIDE DEF y
  <2>5. (k \in DOMAIN wire[0] /\ wire'[0][k] = wire[0][k]) \/ wire'[0][k] = y
    BY <1>2, <2>1, <2>2, <2>3
  <2>. QED
    BY <1>2, <2>4, <2>5 DEF At
<1>. QED
  BY <1>1, <1>2

LEMMA TransmitInv ==
  ASSUME TypeOK, WriteInv, NEW r \in Commands, Transmit(r)
  PROVE  WriteInv'
<1>1. /\ Len(sent) \in Nat /\ Len(sent') = Len(sent) + 1
      /\ \A t \in 1 .. Len(sent) : sent'[t] = sent[t]
      /\ sent'[Len(sent) + 1] = r /\ wrote' = wrote
  <2>1. sent \in Seq(Commands)
    BY DEF TypeOK
  <2>. QED
    BY <2>1, LenProperties, AppendProperties DEF Transmit
<1>2. \A j \in Cells : Len(sent) + 1 \notin wrote[j]
  BY <1>1 DEF WriteInv, WritersSent
<1>3. WritersSent'
  BY <1>1 DEF WriteInv, WritersSent
<1>4. DescentKeepsType'
  <2>. SUFFICES ASSUME NEW i \in Links, NEW x \in At(i)'
                PROVE  /\ x.tag \in 1 .. Len(sent')
                       /\ x.line.hdr \in {sent'[x.tag].type, "SRS"}
    BY DEF DescentKeepsType
  <2>1. CASE x \in At(i)
    BY <1>1, <2>1 DEF WriteInv, DescentKeepsType
  <2>2. CASE x.tag = Len(sent) + 1 /\ x.line.hdr = r.type
    BY <1>1, <2>2
  <2>. QED
    BY <2>1, <2>2, TransmitAt
<1>5. EchoMeansWritten'
  <2>. SUFFICES ASSUME NEW i \in Links, NEW x \in At(i)', x.line.hdr = "MWR",
                       NEW j \in Cells
                PROVE  x.tag \in wrote[j] <=> j <= i
    BY <1>1 DEF EchoMeansWritten
  <2>1. CASE x \in At(i)
    BY <2>1 DEF WriteInv, EchoMeansWritten
  <2>2. CASE i = 0 /\ x.tag = Len(sent) + 1
    BY <1>2, <2>2, ChainAssumption DEF Cells
  <2>. QED
    BY <2>1, <2>2, TransmitAt
<1>6. Unspent'
  BY <1>1, <1>2, TransmitAt DEF WriteInv, Unspent
<1>7. WritesFormPrefix' /\ SingleWriteOnce'
  <2>1. \A j \in Cells : \A t \in wrote[j] : sent'[t] = sent[t]
    BY <1>1 DEF WriteInv, WritersSent
  <2>. QED
    BY <1>1, <2>1 DEF WriteInv, WritesFormPrefix, SingleWriteOnce
<1>. QED
  BY <1>3, <1>4, <1>5, <1>6, <1>7 DEF WriteInv

(***************************************************************************)
(* Update: no other sentence has the tag of the one the cell takes, so what*)
(* the cell writes for it contradicts nothing said of the others.          *)
(***************************************************************************)
LEMMA UpdateAt ==
  ASSUME TypeOK, InOrder, NEW i \in Cells, NEW s, NEW r, UpdatePost(i, s, r)
  PROVE  /\ i \in Links /\ i-1 \in Links /\ s \in At(i-1)
         /\ \A l \in Links : \A x \in At(l)' :
              \/ x \in At(l) /\ x.tag # s.tag
              \/ /\ l = i /\ x.tag = s.tag
                 /\ \E y \in GoodLine : r.out = <<y>> /\ x.line = y
<1>1. i \in Links /\ i-1 \in Links /\ i # i-1 /\ i-1 < i
  BY ChainAssumption DEF Links, Cells
<1>2. /\ wire[i-1] # <<>> /\ s = Head(wire[i-1]) /\ wire'[i-1] = Tail(wire[i-1])
      /\ \A j \in Links : j # i-1 /\ j # i => wire'[j] = wire[j]
  BY DEF UpdatePost
<1>3. wire[i-1] \in Seq(Sentence) /\ wire[i] \in Seq(Sentence)
  BY <1>1, WireType
<1>4. s = wire[i-1][1] /\ 1 \in DOMAIN wire[i-1]
  BY <1>2, <1>3, EmptySeq, LenProperties
\* Every other sentence on a link has another tag.
<1>5. \A l \in Links : \A k \in DOMAIN wire[l] :
        l # i-1 \/ k > 1 => wire[l][k].tag # s.tag
  <2>. SUFFICES ASSUME NEW l \in Links, NEW k \in DOMAIN wire[l], l # i-1 \/ k > 1
                PROVE  wire[l][k].tag # s.tag
    OBVIOUS
  <2>1. wire[l][k].tag \in Nat /\ s.tag \in Nat
    BY <1>1, <1>4 DEF InOrder
  <2>2. CASE l = i-1
    <3>1. k > 1
      BY <2>2
    <3>2. 1 \in DOMAIN wire[l] /\ s.tag = wire[l][1].tag
      BY <1>4, <2>2
    <3>3. wire[l][1].tag < wire[l][k].tag
      BY <3>1, <3>2 DEF InOrder
    <3>. QED
      BY <2>1, <3>2, <3>3
  <2>3. CASE l < i-1
    BY <1>1, <1>4, <2>1, <2>3 DEF InOrder
  <2>4. CASE l > i-1
    BY <1>1, <1>4, <2>1, <2>4 DEF InOrder
  <2>. QED
    BY <1>1, <2>2, <2>3, <2>4 DEF Links
<1>6. ASSUME NEW l \in Links, NEW k \in DOMAIN wire'[l]
      PROVE  \/ wire'[l][k] \in At(l) /\ wire'[l][k].tag # s.tag
             \/ /\ l = i /\ wire'[l][k].tag = s.tag
                /\ \E y \in GoodLine : r.out = <<y>> /\ wire'[l][k].line = y
  <2>1. CASE l = i-1
    <3>1. k + 1 \in DOMAIN wire[l] /\ wire'[l][k] = wire[l][k+1]
      BY <1>1, <1>2, <2>1, TailLink
    <3>2. k + 1 > 1
      <4>1. wire'[l] \in Seq(Sentence)
        BY <1>2, <1>3, <2>1, HeadTailProperties
      <4>2. k \in Nat /\ k >= 1
        BY <4>1, LenProperties
      <4>. QED
        BY <4>2
    <3>. QED
      BY <1>5, <3>1, <3>2 DEF At
  <2>2. CASE l = i /\ wire'[i] = wire[i]
    BY <1>1, <1>5, <2>2 DEF At
  <2>3. ASSUME NEW y \in GoodLine, l = i, r.out = <<y>>,
               wire'[i] = Append(wire[i], [line |-> y, tag |-> s.tag])
        PROVE  \/ wire'[l][k] \in At(l) /\ wire'[l][k].tag # s.tag
               \/ wire'[l][k].tag = s.tag /\ wire'[l][k].line = y
    <3>1. DOMAIN wire[i] = 1 .. Len(wire[i]) /\ Len(wire[i]) \in Nat
      BY <1>3, LenProperties
    <3>2. \/ k \in DOMAIN wire[i] /\ wire'[i][k] = wire[i][k]
          \/ wire'[i][k] = [line |-> y, tag |-> s.tag]
      BY <1>3, <2>3, <3>1
    <3>3. CASE k \in DOMAIN wire[i] /\ wire'[i][k] = wire[i][k]
      BY <1>1, <1>5, <2>3, <3>3 DEF At
    <3>. QED
      BY <2>3, <3>2, <3>3
  <2>4. CASE l # i-1 /\ l # i
    BY <1>2, <1>5, <2>4 DEF At
  <2>. QED
    BY <2>1, <2>2, <2>3, <2>4 DEF UpdatePost
<1>7. s \in At(i-1)
  BY <1>4 DEF At
<1>8. \A l \in Links : \A x \in At(l)' :
        \/ x \in At(l) /\ x.tag # s.tag
        \/ /\ l = i /\ x.tag = s.tag
           /\ \E y \in GoodLine : r.out = <<y>> /\ x.line = y
  BY <1>6 DEF At
<1>. QED
  BY <1>1, <1>7, <1>8

LEMMA UpdateInv ==
  ASSUME TypeOK, InOrder, WriteInv, NEW i \in Cells, Update(i)
  PROVE  WriteInv'
<1>1. PICK s, r : UpdatePost(i, s, r)
  BY UpdateEffect
<1> DEFINE t == s.tag
<1>2. /\ i \in Links /\ i-1 \in Links /\ s \in At(i-1) /\ i \in Int
      /\ \A l \in Links : \A x \in At(l)' :
           \/ x \in At(l) /\ x.tag # t
           \/ /\ l = i /\ x.tag = t
              /\ \E y \in GoodLine : r.out = <<y>> /\ x.line = y
  BY <1>1, UpdateAt DEF Cells
<1>3. /\ SentencePost(s.line, r) /\ sent' = sent
      /\ wrote' = IF r.did = "write" THEN [wrote EXCEPT ![i] = @ \cup {t}] ELSE wrote
  BY <1>1 DEF UpdatePost
\* What is known of the sentence the cell takes.
<1>4. /\ t \in 1 .. Len(sent) /\ s.line.hdr \in {sent[t].type, "SRS"}
      /\ s.line.hdr = "MWR" => \A j \in Cells : t \in wrote[j] <=> j <= i-1
      /\ s.line.hdr = "SWR" => \A j \in Cells : t \notin wrote[j]
  BY <1>2 DEF WriteInv, DescentKeepsType, EchoMeansWritten, Unspent
<1>. HIDE DEF t
\* Who wrote for it afterwards; nothing changed for any other command.
<1>5. \A j \in Cells : /\ \A u : u # t => (u \in wrote'[j] <=> u \in wrote[j])
                       /\ j # i => wrote'[j] = wrote[j]
                       /\ wrote'[j] \subseteq wrote[j] \cup {t}
                       /\ r.did # "write" => wrote'[j] = wrote[j]
  BY <1>3 DEF TypeOK
<1>6. r.did = "write" => t \in wrote'[i] /\ s.line.hdr \in {"MWR", "SWR"}
  BY <1>3 DEF TypeOK, SentencePost
<1>7. WritersSent'
  BY <1>3, <1>4, <1>5 DEF WriteInv, WritersSent
<1>8. DescentKeepsType'
  <2>. SUFFICES ASSUME NEW l \in Links, NEW x \in At(l)'
                PROVE  x.tag \in 1 .. Len(sent) /\ x.line.hdr \in {sent[x.tag].type, "SRS"}
    BY <1>3 DEF DescentKeepsType
  <2>1. CASE x \in At(l)
    BY <2>1 DEF WriteInv, DescentKeepsType
  <2>2. ASSUME NEW y \in GoodLine, r.out = <<y>>, x.line = y, x.tag = t
        PROVE  x.tag \in 1 .. Len(sent) /\ x.line.hdr \in {sent[x.tag].type, "SRS"}
    <3>1. y.hdr \in {s.line.hdr, "SRS"}
      BY <1>3, <2>2 DEF SentencePost
    <3>. QED
      BY <1>4, <2>2, <3>1
  <2>. QED
    BY <1>2, <2>1, <2>2
<1>9. EchoMeansWritten'
  <2>. SUFFICES ASSUME NEW l \in Links, NEW x \in At(l)', x.line.hdr = "MWR",
                       NEW j \in Cells
                PROVE  x.tag \in wrote'[j] <=> j <= l
    BY DEF EchoMeansWritten
  <2>1. CASE x \in At(l) /\ x.tag # t
    BY <1>5, <2>1 DEF WriteInv, EchoMeansWritten
  <2>2. ASSUME NEW y \in GoodLine, l = i, r.out = <<y>>, x.line = y, x.tag = t
        PROVE  x.tag \in wrote'[j] <=> j <= l
    <3>1. y.hdr = "MWR" /\ y.hdr \in {s.line.hdr, "SRS"}
      BY <1>3, <2>2 DEF SentencePost
    <3>2. s.line.hdr = "MWR" /\ r.did = "write"
      BY <1>3, <2>2, <3>1 DEF SentencePost
    <3>3. t \in wrote'[i] /\ (t \in wrote[j] <=> j <= i-1)
      BY <1>4, <1>6, <3>2
    <3>4. CASE j = i
      BY <1>2, <2>2, <3>3, <3>4
    <3>5. CASE j # i
      <4>1. wrote'[j] = wrote[j] /\ j \in Int
        BY <1>5, <3>5 DEF Cells
      <4>2. j <= i-1 <=> j <= i
        BY <1>2, <3>5, <4>1
      <4>. QED
        BY <2>2, <3>3, <4>1, <4>2
    <3>. QED
      BY <3>4, <3>5
  <2>. QED
    BY <1>2, <2>1, <2>2
<1>10. Unspent'
  <2>. SUFFICES ASSUME NEW l \in Links, NEW x \in At(l)', x.line.hdr = "SWR",
                       NEW j \in Cells
                PROVE  x.tag \notin wrote'[j]
    BY DEF Unspent
  <2>1. CASE x \in At(l) /\ x.tag # t
    BY <1>5, <2>1 DEF WriteInv, Unspent
  <2>2. ASSUME NEW y \in GoodLine, r.out = <<y>>, x.line = y, x.tag = t
        PROVE  x.tag \notin wrote'[j]
    <3>1. y.hdr = "SWR" /\ y.hdr \in {s.line.hdr, "SRS"}
      BY <1>3, <2>2 DEF SentencePost
    <3>2. s.line.hdr = "SWR"
      BY <3>1
    <3>3. r.did # "write"
      BY <1>3, <2>2, <3>1, <3>2 DEF SentencePost
    <3>. QED
      BY <1>4, <1>5, <2>2, <3>2, <3>3
  <2>. QED
    BY <1>2, <2>1, <2>2
<1>11. WritesFormPrefix'
  <2>. SUFFICES ASSUME NEW k \in Cells, NEW u \in wrote'[k], sent[u].type = "MWR",
                       NEW j \in 1 .. k
                PROVE  u \in wrote'[j]
    BY <1>3 DEF WritesFormPrefix
  <2>1. j \in Cells /\ k \in Int /\ j \in Int
    BY ChainAssumption DEF Cells
  <2>2. \A m \in Cells : wrote[m] \subseteq wrote'[m]
    BY <1>3 DEF TypeOK
  <2>3. CASE u \in wrote[k]
    BY <2>1, <2>2, <2>3 DEF WriteInv, WritesFormPrefix
  <2>4. CASE u \notin wrote[k]
    <3>1. u = t /\ k = i /\ r.did = "write"
      BY <1>5, <2>4
    <3>2. s.line.hdr = "MWR"
      BY <1>4, <1>6, <3>1
    <3>3. CASE j = i
      BY <1>6, <3>1, <3>3
    <3>4. CASE j # i
      <4>1. j <= i-1
        BY <1>2, <2>1, <3>1, <3>4
      <4>. QED
        BY <1>4, <2>1, <2>2, <3>1, <3>2, <4>1
    <3>. QED
      BY <3>3, <3>4
  <2>. QED
    BY <2>3, <2>4
<1>12. SingleWriteOnce'
  <2>. SUFFICES ASSUME NEW j \in Cells, NEW k \in Cells, NEW u \in wrote'[j],
                       u \in wrote'[k], sent[u].type = "SWR"
                PROVE  j = k
    BY <1>3 DEF SingleWriteOnce
  <2>1. CASE u \in wrote[j] /\ u \in wrote[k]
    BY <2>1 DEF WriteInv, SingleWriteOnce
  <2>2. CASE u \notin wrote[j] \/ u \notin wrote[k]
    <3>1. u = t /\ r.did = "write"
      BY <1>5, <2>2
    <3>2. s.line.hdr = "SWR"
      BY <1>4, <1>6, <3>1
    <3>3. \A m \in Cells : m # i => t \notin wrote'[m]
      BY <1>4, <1>5, <3>2
    <3>. QED
      BY <3>1, <3>3
  <2>. QED
    BY <2>1, <2>2
<1>. QED
  BY <1>7, <1>8, <1>9, <1>10, <1>11, <1>12 DEF WriteInv

\* Every step keeps it.
LEMMA WriteInvStep ==
  ASSUME TypeOK, InOrder, WriteInv, [Next]_vars
  PROVE  WriteInv'
<1>1. ASSUME Carried, UNCHANGED <<wrote, sent>> PROVE WriteInv'
  BY <1>1, CarriedInv
<1>2. ASSUME UNCHANGED <<wire, wrote, sent>> PROVE WriteInv'
  <2>1. Carried
    BY <1>2 DEF Carried, At
  <2>. QED
    BY <1>1, <1>2, <2>1
<1>3. ASSUME NEW i \in Links, wire[i] # <<>>, wire' = [wire EXCEPT ![i] = Tail(@)],
             UNCHANGED <<wrote, sent>>
      PROVE  WriteInv'
  BY <1>1, <1>3, TailCarried
<1>4. ASSUME NEW r \in Commands, Transmit(r) PROVE WriteInv'
  BY <1>4, TransmitInv
<1>5. CASE ReadLine
  <2>1. N \in Links
    BY ChainAssumption DEF Links
  <2>. QED
    BY <1>3, <1>5, <2>1 DEF ReadLine
<1>6. CASE ReadTimeout
  BY <1>2, <1>6 DEF ReadTimeout
<1>7. ASSUME NEW i \in Cells, Update(i) PROVE WriteInv'
  BY <1>7, UpdateInv
<1>8. ASSUME NEW i \in Cells, UpdateIdle(i) PROVE WriteInv'
  BY <1>2, <1>8 DEF UpdateIdle
<1>9. ASSUME NEW i \in Links, Garble(i) PROVE WriteInv'
  <2>1. wire[i] # <<>> /\ UNCHANGED <<wrote, sent>>
    BY <1>9 DEF Garble
  <2>2. wire' = [wire EXCEPT ![i][1] =
                   Damaged(wire[i][1], wire[i][1].line.start, "other")]
    BY <1>9 DEF Garble
  <2>. QED
    BY <1>1, <2>1, <2>2, HeadStart, DamageCarried
<1>10. ASSUME NEW i \in Links, Headless(i) PROVE WriteInv'
  BY <1>1, <1>10, DamageCarried DEF Headless
<1>11. ASSUME NEW i \in Links, Lose(i) PROVE WriteInv'
  BY <1>3, <1>11 DEF Lose
<1>12. ASSUME NEW i \in Cells, PowerCycle(i) PROVE WriteInv'
  BY <1>1, <1>12, PowerCycleCarried DEF PowerCycle
<1>13. CASE UNCHANGED vars
  BY <1>2, <1>13 DEF vars
<1>. QED
  BY <1>4, <1>5, <1>6, <1>7, <1>8, <1>9, <1>10, <1>11, <1>12, <1>13 DEF Next

\* So it is an invariant.
LEMMA WriteInvHolds == Spec => []WriteInv
<1>1. Init => WriteInv
  <2>. SUFFICES ASSUME Init PROVE WriteInv
    OBVIOUS
  <2>1. /\ \A i \in Links : At(i) = {}
        /\ \A i \in Cells : wrote[i] = {}
    BY DEF Init, At
  <2>. QED
    BY <2>1 DEF WriteInv, WritersSent, DescentKeepsType, EchoMeansWritten, Unspent,
       WritesFormPrefix, SingleWriteOnce
<1>2. TypeOK /\ InOrder /\ WriteInv /\ [Next]_vars => WriteInv'
  BY WriteInvStep
<1>. QED
  BY <1>1, <1>2, TypeCorrect, OrderCorrect, PTL DEF Spec

\* A multiple write, however it ends, has written a prefix of the chain: the
\* MWR handler forwards what it executed and drops what it refused.
THEOREM PrefixCorrect == Spec => []WritesFormPrefix
<1>1. WriteInv => WritesFormPrefix
  BY DEF WriteInv
<1>. QED
  BY <1>1, WriteInvHolds, PTL

\* The echo of a multiple write that reaches the master means that every cell
\* of the chain wrote its register.
THEOREM EchoCorrect == Spec => []EchoMeansWritten
<1>1. WriteInv => EchoMeansWritten
  BY DEF WriteInv
<1>. QED
  BY <1>1, WriteInvHolds, PTL

\* A single write is executed at most once, whatever IDs the cells have: the SWR
\* handler replaces what it executed by a response.
THEOREM SingleWriteCorrect == Spec => []SingleWriteOnce
<1>1. WriteInv => SingleWriteOnce
  BY DEF WriteInv
<1>. QED
  BY <1>1, WriteInvHolds, PTL

-----------------------------------------------------------------------------
(***************************************************************************)
(* What the replies of a chain tell its master.                            *)
(*                                                                         *)
(* As long as damage is detected every sentence keeps its start token, so  *)
(* no handler is ever given the default fields of a rejected packet: a     *)
(* sentence says what the command it descends from said.  That is the part *)
(* of the invariant (ReplyInv) the properties do not state themselves.     *)
(***************************************************************************)

(***************************************************************************)
(* IDs are counted modulo IdSpace.                                         *)
(***************************************************************************)
LEMMA ModDiv ==
  ASSUME NEW S \in Nat \ {0}, NEW a \in Int
  PROVE  /\ a = (a \div S) * S + (a % S)
         /\ a \div S \in Int /\ a % S \in 0 .. S - 1
  OBVIOUS

LEMMA ModUnique ==
  ASSUME NEW S \in Nat \ {0}, NEW q \in Int, NEW r \in 0 .. S - 1
  PROVE  (q * S + r) % S = r
  OBVIOUS

\* Counting on from a remainder is counting on from the number.
LEMMA ModShift ==
  ASSUME NEW S \in Nat \ {0}, NEW a \in Int, NEW d \in Int
  PROVE  ((a % S) + d) % S = (a + d) % S
<1> DEFINE b == (a % S) + d
           q == a \div S
           k == b \div S
           r == b % S
<1>1. a = q * S + (a % S) /\ q \in Int /\ a % S \in Int
  BY ModDiv
<1>2. b = k * S + r /\ k \in Int /\ r \in 0 .. S - 1
  <2>1. b \in Int
    BY <1>1
  <2>. QED
    BY <2>1, ModDiv
<1>3. a + d = q * S + b
  BY <1>1
<1>. HIDE DEF q, k, r, b
<1>4. q * S + (k * S + r) = (q + k) * S + r /\ q + k \in Int
  BY <1>1, <1>2
<1>5. (a + d) % S = r
  BY <1>2, <1>3, <1>4, ModUnique
<1>. QED
  BY <1>5 DEF b, r

\* Numbers less than S apart have different remainders.
LEMMA ModDistinct ==
  ASSUME NEW S \in Nat \ {0}, NEW a \in Int, NEW d \in 1 .. S - 1
  PROVE  (a + d) % S # a % S
<1> DEFINE r == a % S
<1>1. r \in 0 .. S - 1
  BY ModDiv
<1>2. (r + d) % S = (a + d) % S
  <2>1. d \in Int
    OBVIOUS
  <2>. QED
    BY <2>1, ModShift
<1>. HIDE DEF r
<1>3. CASE r + d < S
  BY <1>1, <1>2, <1>3 DEF r
<1>4. CASE r + d >= S
  <2>1. 1 * S + (r + d - S) = r + d /\ r + d - S \in 0 .. S - 1 /\ 1 \in Int
    BY <1>1, <1>4
  <2>2. (r + d) % S = r + d - S
    BY <2>1, ModUnique
  <2>. QED
    BY <1>1, <1>2, <2>2 DEF r
<1>. QED
  BY <1>1, <1>3, <1>4

\* What a cell makes of the ID of the cell before it.
LEMMA NextId ==
  ASSUME NEW a \in Int
  PROVE  (((a % IdSpace) % IdSpace) + 1) % IdSpace = (a + 1) % IdSpace
<1>1. IdSpace \in Nat \ {0} /\ 1 \in Int
  BY PacketAssumption
<1>2. a % IdSpace \in Int
  BY <1>1, ModDiv
<1>3. (((a % IdSpace) % IdSpace) + 1) % IdSpace = ((a % IdSpace) + 1) % IdSpace
  BY <1>1, <1>2, ModShift
<1>4. ((a % IdSpace) + 1) % IdSpace = (a + 1) % IdSpace
  BY <1>1, ModShift
<1>. QED
  BY <1>3, <1>4

(***************************************************************************)
(* The invariant.                                                          *)
(***************************************************************************)

\* No sentence has lost its start token.
Intact == \A i \in Links : \A x \in At(i) : x.line.start

\* A multiple write still has the address it was sent with, and only one for the
\* register that can be written has been executed.
AddressKept ==
  /\ \A i \in Links : \A x \in At(i) :
       x.line.hdr = "MWR" => Leading(x.line) = sent[x.tag].addr
  /\ \A j \in Cells : \A t \in wrote[j] :
       sent[t].type = "MWR" => sent[t].addr = kRegAddrSetOutputVoltage

\* The ID of the cell at position i after the command with this tag numbered it.
Numbered(tag, i) == (sent[tag].id + i) % IdSpace

Numbering ==
  /\ \A i \in Links : \A x \in At(i) :
       x.line.hdr = "DIS" => x.line.fields[1] = IdText(Numbered(x.tag, i))
  /\ \A i \in Cells : /\ named[i] \in 0 .. Len(sent)
                      /\ named[i] # 0 => cell[i].id = Numbered(named[i], i)

OkWritten == \A i \in Links : \A x \in At(i) : sent[x.tag].type = "SWR" =>
  (IsOk(x.line) <=> \E j \in Cells : x.tag \in wrote[j])

ErrUntouched == \A i \in Links : \A x \in At(i) :
  IsErr(x.line) /\ sent[x.tag].type = "MWR" => \A j \in Cells : x.tag \notin wrote[j]

ReplyInv == Intact /\ AddressKept /\ Numbering /\ OkWritten /\ ErrUntouched

(***************************************************************************)
(* Steps that write nothing and damage no start token.                     *)
(***************************************************************************)
LEMMA CarriedReply ==
  ASSUME ReplyInv, Carried, StartCarried, wrote' = wrote, sent' = sent,
         \A i \in Cells : \/ named'[i] = 0
                          \/ named'[i] = named[i] /\ cell'[i].id = cell[i].id,
         Len(sent) \in Nat
  PROVE  ReplyInv'
<1>1. Intact'
  BY DEF ReplyInv, Intact, StartCarried
<1>2. AddressKept'
  <2>1. ASSUME NEW i \in Links, NEW x \in At(i)', x.line.hdr = "MWR"
        PROVE  Leading(x.line) = sent[x.tag].addr
    BY <2>1 DEF Carried, ReplyInv, AddressKept, Leading
  <2>. QED
    BY <2>1 DEF ReplyInv, AddressKept
<1>3. Numbering'
  <2>1. ASSUME NEW i \in Links, NEW x \in At(i)', x.line.hdr = "DIS"
        PROVE  x.line.fields[1] = IdText(Numbered(x.tag, i))
    BY <2>1 DEF Carried, ReplyInv, Numbering
  <2>2. ASSUME NEW i \in Cells
        PROVE  /\ named'[i] \in 0 .. Len(sent)
               /\ named'[i] # 0 => cell'[i].id = Numbered(named[i], i) /\ named'[i] = named[i]
    BY DEF ReplyInv, Numbering
  <2>. QED
    BY <2>1, <2>2 DEF Numbering, Numbered
<1>4. OkWritten'
  <2>. SUFFICES ASSUME NEW i \in Links, NEW x \in At(i)', sent[x.tag].type = "SWR"
                PROVE  IsOk(x.line) <=> \E j \in Cells : x.tag \in wrote[j]
    BY DEF OkWritten
  <2>1. PICK y \in At(i) : /\ y.tag = x.tag /\ y.line.hdr = x.line.hdr
                           /\ y.line.fields = x.line.fields
    BY DEF Carried
  <2>2. IsOk(y.line) <=> IsOk(x.line)
    BY <2>1 DEF IsOk
  <2>. QED
    BY <2>1, <2>2 DEF ReplyInv, OkWritten
<1>5. ErrUntouched'
  <2>. SUFFICES ASSUME NEW i \in Links, NEW x \in At(i)', IsErr(x.line),
                       sent[x.tag].type = "MWR", NEW j \in Cells
                PROVE  x.tag \notin wrote[j]
    BY DEF ErrUntouched
  <2>1. PICK y \in At(i) : /\ y.tag = x.tag /\ y.line.hdr = x.line.hdr
                           /\ y.line.fields = x.line.fields
    BY DEF Carried
  <2>2. IsErr(y.line)
    BY <2>1 DEF IsErr
  <2>. QED
    BY <2>1, <2>2 DEF ReplyInv, ErrUntouched
<1>. QED
  BY <1>1, <1>2, <1>3, <1>4, <1>5 DEF ReplyInv

LEMMA TransmitReply ==
  ASSUME TypeOK, WriteInv, ReplyInv, NEW r \in Commands, Transmit(r)
  PROVE  ReplyInv'
<1> DEFINE n == Len(sent) + 1
           l == Packetize(r)
<1>1. /\ Len(sent) \in Nat /\ Len(sent') = n /\ sent'[n] = r
      /\ \A t \in 1 .. Len(sent) : sent'[t] = sent[t]
      /\ wrote' = wrote /\ named' = named /\ cell' = cell
  <2>1. sent \in Seq(Commands)
    BY DEF TypeOK
  <2>. QED
    BY <2>1, LenProperties, AppendProperties DEF Transmit
<1>2. r \in Request /\ r.id \in Id
  BY ChainAssumption DEF Request
<1>3. /\ l.start
      /\ r.type = "DIS" => l.fields[1] = IdText(r.id)
      /\ r.type = "MWR" => Leading(l) = r.addr
  BY <1>2, PacketizeStarted
<1>4. \A i \in Links : \A x \in At(i)' :
        \/ x \in At(i) /\ x.tag \in 1 .. Len(sent)
        \/ i = 0 /\ x.tag = n /\ x.line = l /\ x.line.hdr = r.type
  BY TransmitAt DEF WriteInv, DescentKeepsType
<1>5. \A j \in Cells : \A t \in wrote[j] : t \in 1 .. Len(sent)
  BY DEF WriteInv, WritersSent
<1>6. n \notin 1 .. Len(sent) /\ n # 0
  BY <1>1
<1>. HIDE DEF n, l
<1>7. Intact'
  BY <1>3, <1>4 DEF ReplyInv, Intact
<1>8. AddressKept'
  BY <1>1, <1>3, <1>4, <1>5 DEF ReplyInv, AddressKept
<1>9. Numbering'
  <2>1. ASSUME NEW i \in Links, NEW x \in At(i)', x.line.hdr = "DIS"
        PROVE  x.line.fields[1] = IdText((sent'[x.tag].id + i) % IdSpace)
    <3>1. CASE x \in At(i) /\ x.tag \in 1 .. Len(sent)
      BY <1>1, <2>1, <3>1 DEF ReplyInv, Numbering, Numbered
    <3>2. CASE i = 0 /\ x.tag = n /\ x.line = l /\ x.line.hdr = r.type
      <4>1. (r.id + 0) % IdSpace = r.id
        BY <1>2, PacketAssumption DEF Id
      <4>. QED
        BY <1>1, <1>3, <2>1, <3>2, <4>1
    <3>. QED
      BY <1>4, <3>1, <3>2
  <2>2. ASSUME NEW i \in Cells
        PROVE  /\ named[i] \in 0 .. Len(sent')
               /\ named[i] # 0 => cell[i].id = (sent'[named[i]].id + i) % IdSpace
    <3>1. named[i] \in 0 .. Len(sent)
      BY DEF ReplyInv, Numbering
    <3>2. named[i] # 0 => sent'[named[i]] = sent[named[i]]
      BY <1>1, <3>1
    <3>3. named[i] \in 0 .. Len(sent')
      BY <1>1, <3>1 DEF n
    <3>. QED
      BY <3>2, <3>3 DEF ReplyInv, Numbering, Numbered
  <2>. QED
    BY <1>1, <2>1, <2>2 DEF Numbering, Numbered
<1>10. OkWritten'
  <2>. SUFFICES ASSUME NEW i \in Links, NEW x \in At(i)', sent'[x.tag].type = "SWR"
                PROVE  IsOk(x.line) <=> \E j \in Cells : x.tag \in wrote[j]
    BY <1>1 DEF OkWritten
  <2>1. CASE x \in At(i) /\ x.tag \in 1 .. Len(sent)
    BY <1>1, <2>1 DEF ReplyInv, OkWritten
  <2>2. CASE x.tag = n /\ x.line.hdr = r.type
    <3>1. ~ IsOk(x.line)
      BY <1>1, <2>2 DEF IsOk
    <3>. QED
      BY <1>5, <1>6, <2>2, <3>1
  <2>. QED
    BY <1>4, <2>1, <2>2
<1>11. ErrUntouched'
  <2>. SUFFICES ASSUME NEW i \in Links, NEW x \in At(i)', IsErr(x.line),
                       sent'[x.tag].type = "MWR", NEW j \in Cells
                PROVE  x.tag \notin wrote[j]
    BY <1>1 DEF ErrUntouched
  <2>1. CASE x \in At(i) /\ x.tag \in 1 .. Len(sent)
    BY <1>1, <2>1 DEF ReplyInv, ErrUntouched
  <2>2. CASE x.tag = n
    BY <1>5, <1>6, <2>2
  <2>. QED
    BY <1>4, <2>1, <2>2
<1>. QED
  BY <1>7, <1>8, <1>9, <1>10, <1>11 DEF ReplyInv

(***************************************************************************)
(* Update: what the cell makes of a sentence agrees with the command, what *)
(* is known of the others is not affected.                                 *)
(***************************************************************************)
LEMMA UpdateReply ==
  ASSUME TypeOK, InOrder, WriteInv, ReplyInv, NEW i \in Cells, Update(i)
  PROVE  ReplyInv'
<1>1. PICK s, r : UpdatePost(i, s, r)
  BY UpdateEffect
<1> DEFINE t == s.tag
<1>2. /\ i \in Links /\ i-1 \in Links /\ s \in At(i-1) /\ i \in Int
      /\ \A l \in Links : \A x \in At(l)' :
           \/ x \in At(l) /\ x.tag # t
           \/ l = i /\ x.tag = t /\ r.out = <<x.line>> /\ x.line \in GoodLine
  BY <1>1, UpdateAt DEF Cells
<1>3. /\ sent' = sent /\ SentencePost(s.line, r)
      /\ wrote' = IF r.did = "write" THEN [wrote EXCEPT ![i] = @ \cup {t}] ELSE wrote
      /\ named' = IF r.did = "name" THEN [named EXCEPT ![i] = t] ELSE named
      /\ cell'[i].id = r.cell.id
      /\ \A j \in Cells : j # i => cell'[j] = cell[j]
      /\ r = Process(cell[i], s.line) /\ s \in Sentence
  BY <1>1 DEF UpdatePost
<1>4. s.line.start
  BY <1>2 DEF ReplyInv, Intact
<1>5. /\ SentenceSays(s.line, r)
      /\ IF r.did = "name" THEN s.line.hdr = "DIS" /\ \E l : r.out = <<l>>
                           ELSE r.cell.id = cell[i].id
  <2>1. cell[i] \in Cell /\ s.line \in GoodLine
    BY <1>3 DEF TypeOK, Sentence
  <2>. QED
    BY <1>3, <1>4, <2>1, ProcessStarted, ProcessId
\* What is known of the sentence the cell takes.
<1>6. /\ t \in 1 .. Len(sent) /\ s.line.hdr \in {sent[t].type, "SRS"}
      /\ s.line.hdr = "SWR" => \A j \in Cells : t \notin wrote[j]
  BY <1>2 DEF WriteInv, DescentKeepsType, Unspent
<1>7. \A l : r.out = <<l>> => l.hdr \in {s.line.hdr, "SRS"}
  BY <1>3 DEF SentencePost
<1>. HIDE DEF t
<1>8. \A j \in Cells : /\ \A u : u # t => (u \in wrote'[j] <=> u \in wrote[j])
                       /\ j # i => wrote'[j] = wrote[j]
                       /\ wrote'[j] \subseteq wrote[j] \cup {t}
                       /\ r.did # "write" => wrote'[j] = wrote[j]
  BY <1>3 DEF TypeOK
<1>9. r.did = "write" => t \in wrote'[i] /\ s.line.hdr \in {"MWR", "SWR"}
  BY <1>3 DEF TypeOK, SentencePost
<1>10. Intact'
  BY <1>2, <1>5 DEF ReplyInv, Intact, SentenceSays
<1>11. AddressKept'
  <2>1. ASSUME NEW l \in Links, NEW x \in At(l)', x.line.hdr = "MWR"
        PROVE  Leading(x.line) = sent[x.tag].addr
    <3>1. CASE x \in At(l)
      BY <2>1, <3>1 DEF ReplyInv, AddressKept
    <3>2. CASE x.tag = t /\ r.out = <<x.line>> /\ x.line \in GoodLine
      <4>1. s.line.hdr = "MWR"
        BY <1>7, <2>1, <3>2
      <4>2. r.did = "write"
        BY <1>3, <2>1, <3>2, <4>1 DEF SentencePost
      <4>3. Leading(x.line) = Leading(s.line)
        BY <1>5, <3>2, <4>1, <4>2 DEF SentenceSays
      <4>. QED
        BY <1>2, <3>2, <4>1, <4>3 DEF ReplyInv, AddressKept, t
    <3>. QED
      BY <1>2, <3>1, <3>2
  <2>2. ASSUME NEW j \in Cells, NEW u \in wrote'[j], sent[u].type = "MWR"
        PROVE  sent[u].addr = kRegAddrSetOutputVoltage
    <3>1. CASE u \in wrote[j]
      BY <2>2, <3>1 DEF ReplyInv, AddressKept
    <3>2. CASE u \notin wrote[j]
      <4>1. u = t /\ r.did = "write"
        BY <1>8, <3>2
      <4>2. s.line.hdr = "MWR"
        BY <1>6, <1>9, <2>2, <4>1
      <4>3. \E l : r.out = <<l>>
        BY <1>3, <4>1, <4>2 DEF SentencePost
      <4>4. Leading(s.line) = kRegAddrSetOutputVoltage
        BY <1>5, <4>1, <4>2, <4>3 DEF SentenceSays
      <4>. QED
        BY <1>2, <4>1, <4>2, <4>4 DEF ReplyInv, AddressKept, t
    <3>. QED
      BY <3>1, <3>2
  <2>. QED
    BY <1>3, <2>1, <2>2 DEF AddressKept
<1>12. \A l : s.line.hdr = "DIS" /\ r.out = <<l>> =>
         /\ l.fields[1] = IdText(r.cell.id) /\ r.did = "name"
         /\ r.cell.id = Numbered(t, i)
  <2>. SUFFICES ASSUME NEW l, s.line.hdr = "DIS", r.out = <<l>>
                PROVE  /\ l.fields[1] = IdText(r.cell.id) /\ r.did = "name"
                       /\ r.cell.id = Numbered(t, i)
    OBVIOUS
  <2> DEFINE a == sent[t].id + (i-1)
  <2>1. l.fields[1] = IdText(r.cell.id) /\ r.did = "name"
        /\ r.cell.id = ((Leading(s.line) % IdSpace) + 1) % IdSpace
    BY <1>5 DEF SentenceSays
  <2>2. Leading(s.line) = a % IdSpace
    <3>1. s.line.fields[1] = IdText(Numbered(t, i-1))
      BY <1>2 DEF ReplyInv, Numbering, t
    <3>. QED
      BY <3>1 DEF Leading, ToNum, IdText, Numbered
  <2>3. sent[t].id \in Int
    <3>1. sent[t] \in Commands
      BY <1>6, ElementOfSeq DEF TypeOK
    <3>2. sent[t].id \in Id
      BY <3>1, ChainAssumption DEF Request
    <3>. QED
      BY <3>2, PacketAssumption DEF Id
  <2>4. a \in Int /\ a + 1 = sent[t].id + i /\ a % IdSpace \in Int
    BY <1>2, <2>3, PacketAssumption
  <2>. HIDE DEF a
  <2>5. (((a % IdSpace) % IdSpace) + 1) % IdSpace = (a + 1) % IdSpace
    BY <2>4, NextId
  <2>. QED
    BY <2>1, <2>2, <2>4, <2>5 DEF Numbered
<1>13. Numbering'
  <2>1. ASSUME NEW l \in Links, NEW x \in At(l)', x.line.hdr = "DIS"
        PROVE  x.line.fields[1] = IdText(Numbered(x.tag, l))
    <3>1. CASE x \in At(l)
      BY <2>1, <3>1 DEF ReplyInv, Numbering
    <3>2. CASE l = i /\ x.tag = t /\ r.out = <<x.line>>
      <4>1. s.line.hdr = "DIS"
        BY <1>7, <2>1, <3>2
      <4>. QED
        BY <1>12, <3>2, <4>1
    <3>. QED
      BY <1>2, <3>1, <3>2
  <2>2. ASSUME NEW j \in Cells
        PROVE  /\ named'[j] \in 0 .. Len(sent)
               /\ named'[j] # 0 => cell'[j].id = Numbered(named'[j], j)
    <3>1. CASE j = i /\ r.did = "name"
      <4>1. named'[j] = t
        BY <1>3, <3>1 DEF TypeOK
      <4>2. cell'[j].id = Numbered(t, j)
        BY <1>3, <1>5, <1>12, <3>1
      <4>. QED
        BY <1>6, <4>1, <4>2
    <3>2. CASE j # i \/ r.did # "name"
      <4>1. named'[j] = named[j] /\ cell'[j].id = cell[j].id
        BY <1>3, <1>5, <3>2 DEF TypeOK
      <4>. QED
        BY <4>1 DEF ReplyInv, Numbering
    <3>. QED
      BY <3>1, <3>2
  <2>. QED
    BY <1>3, <2>1, <2>2 DEF Numbering, Numbered
<1>14. OkWritten'
  <2>. SUFFICES ASSUME NEW l \in Links, NEW x \in At(l)', sent[x.tag].type = "SWR"
                PROVE  IsOk(x.line) <=> \E j \in Cells : x.tag \in wrote'[j]
    BY <1>3 DEF OkWritten
  <2>1. CASE x \in At(l) /\ x.tag # t
    BY <1>8, <2>1 DEF ReplyInv, OkWritten
  <2>2. CASE x.tag = t /\ r.out = <<x.line>> /\ x.line \in GoodLine
    <3>1. CASE s.line.hdr = "SWR" /\ x.line.hdr = "SRS"
      <4>1. IsOk(x.line) <=> r.did = "write"
        BY <1>5, <2>2, <3>1 DEF SentenceSays
      <4>. QED
        BY <1>6, <1>8, <1>9, <2>2, <3>1, <4>1
    <3>2. CASE s.line.hdr = "SWR" /\ x.line.hdr # "SRS"
      <4>1. r.did # "write"
        BY <1>3, <2>2, <3>2 DEF SentencePost
      <4>. QED
        BY <1>6, <1>8, <2>2, <3>2, <4>1 DEF IsOk
    <3>3. CASE s.line.hdr = "SRS"
      <4>1. IsOk(x.line) <=> IsOk(s.line)
        BY <1>5, <2>2, <3>3 DEF SentenceSays
      <4>2. r.did # "write"
        BY <1>9, <3>3
      <4>3. IsOk(s.line) <=> \E j \in Cells : t \in wrote[j]
        BY <1>2, <2>2 DEF ReplyInv, OkWritten, t
      <4>. QED
        BY <1>8, <2>2, <4>1, <4>2, <4>3
    <3>. QED
      BY <1>6, <2>2, <3>1, <3>2, <3>3
  <2>. QED
    BY <1>2, <2>1, <2>2
<1>15. ErrUntouched'
  <2>. SUFFICES ASSUME NEW l \in Links, NEW x \in At(l)', IsErr(x.line),
                       sent[x.tag].type = "MWR", NEW j \in Cells
                PROVE  x.tag \notin wrote'[j]
    BY <1>3 DEF ErrUntouched
  <2>1. CASE x \in At(l) /\ x.tag # t
    BY <1>8, <2>1 DEF ReplyInv, ErrUntouched
  <2>2. CASE x.tag = t /\ r.out = <<x.line>> /\ x.line \in GoodLine
    <3>1. CASE s.line.hdr = "MWR"
      <4>1. x.line.hdr = "SRS"
        BY DEF IsErr
      <4>2. r.did # "write"
        BY <1>3, <2>2, <3>1, <4>1 DEF SentencePost
      <4>3. Leading(s.line) # kRegAddrSetOutputVoltage
        BY <1>5, <2>2, <3>1, <4>2 DEF SentenceSays
      <4>4. sent[t].addr # kRegAddrSetOutputVoltage
        BY <1>2, <3>1, <4>3 DEF ReplyInv, AddressKept, t
      <4>. QED
        BY <1>8, <2>2, <4>2, <4>4 DEF ReplyInv, AddressKept
    <3>2. CASE s.line.hdr = "SRS"
      <4>1. IsErr(s.line)
        BY <1>5, <2>2, <3>2 DEF SentenceSays
      <4>2. t \notin wrote[j]
        BY <1>2, <2>2, <4>1 DEF ReplyInv, ErrUntouched, t
      <4>. QED
        BY <1>8, <1>9, <2>2, <3>2, <4>2
    <3>. QED
      BY <1>6, <2>2, <3>1, <3>2
  <2>. QED
    BY <1>2, <2>1, <2>2
<1>. QED
  BY <1>10, <1>11, <1>13, <1>14, <1>15 DEF ReplyInv

(***************************************************************************)
(* The faults so far, and the invariant.                                   *)
(***************************************************************************)

\* A fault is never forgotten.
LEMMA DetectedKept ==
  ASSUME TypeOK, Detected', faults' = faults \/ \E kind : Fault(kind)
  PROVE  Detected
<1>1. CASE faults' = faults
  BY <1>1 DEF Detected
<1>2. ASSUME NEW kind, Fault(kind) PROVE Detected
  <2>1. faults \in Seq(FaultKinds) /\ kind \in FaultKinds /\ faults' = Append(faults, kind)
    BY <1>2 DEF Fault, TypeOK
  <2>2. \A k \in DOMAIN faults : k \in DOMAIN faults' /\ faults'[k] = faults[k]
    BY <2>1, AppendProperties, LenProperties
  <2>. QED
    BY <2>2 DEF Detected
<1>. QED
  BY <1>1, <1>2

LEMMA HeadlessUndetected ==
  ASSUME TypeOK, NEW i \in Links, Headless(i)
  PROVE  ~ Detected'
<1>1. faults \in Seq(FaultKinds) /\ "headless" \in FaultKinds
      /\ faults' = Append(faults, "headless")
  BY DEF Headless, Fault, TypeOK
<1>2. Len(faults) + 1 \in DOMAIN faults' /\ faults'[Len(faults) + 1] = "headless"
  BY <1>1, AppendProperties, LenProperties
<1>. QED
  BY <1>2 DEF Detected

LEMMA ReplyInvStep ==
  ASSUME TypeOK, InOrder, WriteInv, Detected => ReplyInv, [Next]_vars, Detected'
  PROVE  ReplyInv'
<1>1. Len(sent) \in Nat /\ cell \in [Cells -> Cell]
  BY LenProperties DEF TypeOK
<1>2. ASSUME Detected, Carried, StartCarried, UNCHANGED <<wrote, sent>>,
             \A i \in Cells : \/ named'[i] = 0
                              \/ named'[i] = named[i] /\ cell'[i].id = cell[i].id
      PROVE  ReplyInv'
  BY <1>1, <1>2, CarriedReply
<1>3. ASSUME Detected, UNCHANGED <<wire, wrote, sent, named>>,
             \A i \in Cells : cell'[i].id = cell[i].id
      PROVE  ReplyInv'
  <2>1. Carried /\ StartCarried
    BY <1>3 DEF Carried, StartCarried, At
  <2>. QED
    BY <1>2, <1>3, <2>1
<1>4. ASSUME Detected, NEW i \in Links, wire[i] # <<>>,
             wire' = [wire EXCEPT ![i] = Tail(@)],
             UNCHANGED <<wrote, sent, named, cell>>
      PROVE  ReplyInv'
  BY <1>2, <1>4, TailCarried
<1>5. ASSUME NEW r \in Commands, Transmit(r) PROVE ReplyInv'
  BY <1>5, TransmitReply, DetectedKept DEF Transmit
<1>6. CASE ReadLine
  <2>1. N \in Links
    BY ChainAssumption DEF Links
  <2>. QED
    BY <1>4, <1>6, <2>1, DetectedKept DEF ReadLine
<1>7. CASE ReadTimeout
  BY <1>3, <1>7, DetectedKept DEF ReadTimeout
<1>8. ASSUME NEW i \in Cells, Update(i) PROVE ReplyInv'
  <2>1. Detected
    BY <1>8, DetectedKept DEF Update
  <2>. QED
    BY <1>8, <2>1, UpdateReply
<1>9. ASSUME NEW i \in Cells, UpdateIdle(i) PROVE ReplyInv'
  <2>1. PICK a \in Currents : cell' = [cell EXCEPT ![i].amp = a]
    BY <1>9 DEF UpdateIdle
  <2>2. \A j \in Cells : cell'[j].id = cell[j].id
    BY <1>1, <2>1 DEF Cell
  <2>. QED
    BY <1>3, <1>9, <2>2, DetectedKept DEF UpdateIdle
<1>10. ASSUME NEW i \in Links, Garble(i) PROVE ReplyInv'
  <2>1. wire[i] # <<>> /\ UNCHANGED <<wrote, sent, named, cell>> /\ Fault("garble")
    BY <1>10 DEF Garble
  <2>2. wire' = [wire EXCEPT ![i][1] =
                   Damaged(wire[i][1], wire[i][1].line.start, "other")]
    BY <1>10 DEF Garble
  <2>3. Carried /\ StartCarried
    BY <2>1, <2>2, HeadStart, DamageCarried
  <2>. QED
    BY <1>2, <2>1, <2>3, DetectedKept
<1>11. ASSUME NEW i \in Links, Headless(i) PROVE ReplyInv'
  BY <1>11, HeadlessUndetected
<1>12. ASSUME NEW i \in Links, Lose(i) PROVE ReplyInv'
  BY <1>4, <1>12, DetectedKept DEF Lose
<1>13. ASSUME NEW i \in Cells, PowerCycle(i) PROVE ReplyInv'
  <2>1. Carried /\ StartCarried
    BY <1>13, PowerCycleCarried
  <2>2. /\ UNCHANGED <<wrote, sent>> /\ Fault("power")
        /\ named' = [named EXCEPT ![i] = 0]
        /\ \E c \in BootCells : cell' = [cell EXCEPT ![i] = c]
    BY <1>13 DEF PowerCycle
  <2>3. \A j \in Cells : \/ named'[j] = 0
                         \/ named'[j] = named[j] /\ cell'[j].id = cell[j].id
    BY <1>1, <2>2 DEF TypeOK
  <2>. QED
    BY <1>2, <2>1, <2>2, <2>3, DetectedKept
<1>14. CASE UNCHANGED vars
  BY <1>3, <1>14, DetectedKept DEF vars
<1>. QED
  BY <1>5, <1>6, <1>7, <1>8, <1>9, <1>10, <1>11, <1>12, <1>13, <1>14 DEF Next

LEMMA ReplyInvHolds == Spec => [](Detected => ReplyInv)
<1>1. Init => ReplyInv
  <2>. SUFFICES ASSUME Init PROVE ReplyInv
    OBVIOUS
  <2>1. /\ \A i \in Links : At(i) = {}
        /\ \A i \in Cells : wrote[i] = {} /\ named[i] = 0
        /\ Len(sent) = 0
    BY DEF Init, At
  <2>. QED
    BY <2>1 DEF ReplyInv, Intact, AddressKept, Numbering, OkWritten, ErrUntouched
<1>2. TypeOK /\ InOrder /\ WriteInv /\ (Detected => ReplyInv) /\ [Next]_vars
        => (Detected => ReplyInv)'
  BY ReplyInvStep
<1>. QED
  BY <1>1, <1>2, TypeCorrect, OrderCorrect, WriteInvHolds, PTL DEF Spec

\* What comes back for a single write is OK exactly when a cell executed it: the
\* SWR handler's reply carries the error code of WriteRegister().
THEOREM OkCorrect == Spec => []OkMeansWritten
<1>1. (Detected => ReplyInv) => OkMeansWritten
  BY DEF ReplyInv, OkWritten, OkMeansWritten
<1>. QED
  BY <1>1, ReplyInvHolds, PTL

\* An error that comes back for a multiple write means that no cell executed it:
\* whether WriteRegister() refuses depends on the address alone, and every cell
\* sees the one that was sent.
THEOREM ErrorCorrect == Spec => []ErrorMeansUntouched
<1>1. (Detected => ReplyInv) => ErrorMeansUntouched
  BY DEF ReplyInv, ErrUntouched, ErrorMeansUntouched
<1>. QED
  BY <1>1, ReplyInvHolds, PTL

\* Two cells that one discovery numbered have different IDs, as there are not more
\* cells than IDs.
LEMMA NumberedApart ==
  ASSUME TypeOK, ReplyInv, NEW i \in Cells, NEW j \in Cells, i < j, N <= IdSpace,
         named[i] # 0, named[i] = named[j]
  PROVE  cell[i].id # cell[j].id
<1> DEFINE a == sent[named[i]].id
<1>1. a \in Int
  <2>1. sent[named[i]] \in Commands
    BY ElementOfSeq, LenProperties DEF ReplyInv, Numbering, TypeOK
  <2>2. a \in Id
    BY <2>1, ChainAssumption DEF Request
  <2>. QED
    BY <2>2, PacketAssumption DEF Id
<1>2. cell[i].id = (a + i) % IdSpace /\ cell[j].id = (a + j) % IdSpace
  BY DEF ReplyInv, Numbering, Numbered
<1>. HIDE DEF a
<1>3. i \in Int /\ j \in Int /\ j - i \in 1 .. IdSpace - 1 /\ a + i \in Int
      /\ (a + i) + (j - i) = a + j /\ IdSpace \in Nat \ {0}
  BY <1>1, ChainAssumption, PacketAssumption DEF Cells
<1>4. ((a + i) + (j - i)) % IdSpace # (a + i) % IdSpace
  BY <1>3, ModDistinct
<1>. QED
  BY <1>2, <1>3, <1>4

\* Discovery numbers the cells by their position, modulo 2^16, tells the master
\* how many there are, and makes them distinguishable: what DISPacketHandler()
\* stores is what it transmits, one more than what it received.
THEOREM DiscoveryCorrect == Spec => []Discovery
<1>1. TypeOK /\ (Detected => ReplyInv) => Discovery
  <2>. SUFFICES ASSUME TypeOK, ReplyInv PROVE Discovery
    BY DEF Discovery
  <2>1. \A i \in Cells : named[i] # 0 => cell[i].id = (sent[named[i]].id + i) % IdSpace
    BY DEF ReplyInv, Numbering, Numbered
  <2>2. \A i \in Links : \A x \in At(i) : x.line.hdr = "DIS" =>
          x.line.fields[1].n = (sent[x.tag].id + i) % IdSpace
    <3>1. \A a : IdText(a).n = a
      BY DEF IdText
    <3>2. \A i \in Links : \A x \in At(i) : x.line.hdr = "DIS" =>
            x.line.fields[1] = IdText(Numbered(x.tag, i))
      BY DEF ReplyInv, Numbering
    <3>. QED
      BY <3>1, <3>2 DEF Numbered
  <2>3. ASSUME NEW i \in Cells, NEW j \in Cells, named[i] = named[j], named[i] # 0, i # j
        PROVE  cell[i].id # cell[j].id \/ N > IdSpace
    <3>1. i \in Int /\ j \in Int /\ N \in Int /\ IdSpace \in Int
      BY ChainAssumption, PacketAssumption DEF Cells
    <3>2. CASE i < j
      BY <2>3, <3>1, <3>2, NumberedApart
    <3>3. CASE j < i
      BY <2>3, <3>1, <3>3, NumberedApart
    <3>. QED
      BY <2>3, <3>1, <3>2, <3>3
  <2>. QED
    BY <2>1, <2>2, <2>3 DEF Discovery
<1>. QED
  BY <1>1, TypeCorrect, ReplyInvHolds, PTL

(***************************************************************************)
(* Reads: a multiple read has a value of each cell behind it.              *)
(***************************************************************************)

\* No value is longer than its register's, so ToString() has room for one more; and
\* the address is still the one that was asked for, so for the next cell too.
ReadInv ==
  \A i \in Links : \A x \in At(i) :
    /\ ShortRead(x.line)
    /\ x.line.hdr = "MRD" => /\ Len(x.line.fields) = 1 + i
                             /\ Leading(x.line) = sent[x.tag].addr

\* The sentence has room for a value of every cell, or of as many as a packet holds,
\* whatever the registers say.
RoomForAll ==
  \A r \in Commands : r.type = "MRD" /\ r.addr \in Readable =>
    \A n \in 1 .. N : n <= kMaxNumValues => RoomFor(r.addr, n)

LEMMA CarriedRead ==
  ASSUME ReadInv, Carried, sent' = sent
  PROVE  ReadInv'
<1>. SUFFICES ASSUME NEW i \in Links, NEW x \in At(i)'
              PROVE  /\ ShortRead(x.line)
                     /\ x.line.hdr = "MRD" => /\ Len(x.line.fields) = 1 + i
                                              /\ Leading(x.line) = sent[x.tag].addr
  BY DEF ReadInv
<1>1. PICK y \in At(i) : /\ y.tag = x.tag /\ y.line.hdr = x.line.hdr
                         /\ y.line.fields = x.line.fields
  BY DEF Carried
<1>2. /\ ShortRead(y.line)
      /\ y.line.hdr = "MRD" => /\ Len(y.line.fields) = 1 + i
                               /\ Leading(y.line) = sent[y.tag].addr
  BY DEF ReadInv
<1>. QED
  BY <1>1, <1>2 DEF ShortRead, Leading

LEMMA TransmitRead ==
  ASSUME TypeOK, WriteInv, ReadInv, NEW r \in Commands, Transmit(r)
  PROVE  ReadInv'
<1> DEFINE n == Len(sent) + 1
           l == Packetize(r)
<1>1. /\ Len(sent) \in Nat /\ sent'[n] = r /\ \A t \in 1 .. Len(sent) : sent'[t] = sent[t]
  <2>1. sent \in Seq(Commands)
    BY DEF TypeOK
  <2>. QED
    BY <2>1, LenProperties, AppendProperties DEF Transmit
<1>2. ShortRead(l) /\ (r.type = "MRD" => Len(l.fields) = 1 /\ Leading(l) = r.addr)
  BY PacketizeComplete, ChainAssumption DEF Complete
<1>3. \A i \in Links : \A x \in At(i)' :
        \/ x \in At(i) /\ x.tag \in 1 .. Len(sent)
        \/ i = 0 /\ x.tag = n /\ x.line = l /\ x.line.hdr = r.type
  BY TransmitAt DEF WriteInv, DescentKeepsType
<1>. HIDE DEF n, l
<1>4. ASSUME NEW i \in Links, NEW x \in At(i)'
      PROVE  /\ ShortRead(x.line)
             /\ x.line.hdr = "MRD" => /\ Len(x.line.fields) = 1 + i
                                      /\ Leading(x.line) = sent'[x.tag].addr
  <2>1. CASE x \in At(i) /\ x.tag \in 1 .. Len(sent)
    BY <1>1, <2>1 DEF ReadInv
  <2>2. CASE i = 0 /\ x.tag = n /\ x.line = l /\ x.line.hdr = r.type
    BY <1>1, <1>2, <2>2
  <2>. QED
    BY <1>3, <2>1, <2>2
<1>. QED
  BY <1>4 DEF ReadInv

LEMMA UpdateRead ==
  ASSUME RoomForAll, TypeOK, InOrder, WriteInv, ReadInv, NEW i \in Cells, Update(i)
  PROVE  ReadInv'
<1>1. PICK s, r : UpdatePost(i, s, r)
  BY UpdateEffect
<1> DEFINE t == s.tag
<1>2. /\ i \in Links /\ i-1 \in Links /\ s \in At(i-1) /\ i \in 1 .. N
      /\ \A l \in Links : \A x \in At(l)' :
           \/ x \in At(l)
           \/ l = i /\ x.tag = t /\ r.out = <<x.line>>
  BY <1>1, UpdateAt DEF Cells
<1>3. /\ sent' = sent /\ r = Process(cell[i], s.line)
      /\ cell[i] \in Cell /\ s.line \in GoodLine
  BY <1>1 DEF UpdatePost, TypeOK, Sentence
<1>4. /\ ShortRead(s.line)
      /\ s.line.hdr = "MRD" => /\ Len(s.line.fields) = i
                               /\ Leading(s.line) = sent[t].addr
  <2>1. 1 + (i-1) = i
    BY <1>2, ChainAssumption
  <2>. QED
    BY <1>2, <2>1 DEF ReadInv
<1>5. s.line.hdr = "MRD" => sent[t] \in Commands /\ sent[t].type = "MRD"
  <2>1. t \in 1 .. Len(sent) /\ s.line.hdr \in {sent[t].type, "SRS"}
    BY <1>2 DEF WriteInv, DescentKeepsType
  <2>2. sent[t] \in Commands
    BY <2>1, ElementOfSeq DEF TypeOK
  <2>. QED
    BY <2>1, <2>2
<1>. HIDE DEF t
<1>6. ASSUME NEW l, r.out = <<l>>
      PROVE  /\ ShortRead(l)
             /\ l.hdr = "MRD" => Len(l.fields) = 1 + i /\ Leading(l) = sent[t].addr
  <2>1. /\ ShortRead(l)
        /\ l.hdr = "MRD" =>
             /\ s.line.hdr = "MRD" /\ Leading(l) = Leading(s.line)
             /\ Leading(s.line) \in Readable /\ Len(s.line.fields) <= kMaxNumValues
             /\ RoomFor(Leading(s.line), Len(s.line.fields))
                  => Len(l.fields) = Len(s.line.fields) + 1
    BY <1>3, <1>4, <1>6, ProcessRead
  <2>2. ASSUME l.hdr = "MRD" PROVE RoomFor(sent[t].addr, i)
    BY <1>2, <1>4, <1>5, <2>1, <2>2 DEF RoomForAll
  <2>3. i + 1 = 1 + i
    BY <1>2, ChainAssumption
  <2>. QED
    BY <1>4, <2>1, <2>2, <2>3
<1>. QED
  BY <1>2, <1>3, <1>6 DEF ReadInv

LEMMA ReadInvStep ==
  ASSUME RoomForAll, TypeOK, InOrder, WriteInv, ReadInv, [Next]_vars
  PROVE  ReadInv'
<1>1. ASSUME NEW r \in Commands, Transmit(r) PROVE ReadInv'
  BY <1>1, TransmitRead
<1>2. ASSUME NEW i \in Links, wire[i] # <<>>, wire' = [wire EXCEPT ![i] = Tail(@)],
             sent' = sent
      PROVE  ReadInv'
  BY <1>2, TailCarried, CarriedRead
<1>3. CASE UNCHANGED <<wire, sent>>
  BY <1>3, CarriedRead DEF Carried, At
<1>4. CASE ReadLine
  <2>1. N \in Links
    BY ChainAssumption DEF Links
  <2>. QED
    BY <1>2, <1>4, <2>1 DEF ReadLine
<1>5. CASE ReadTimeout
  BY <1>3, <1>5 DEF ReadTimeout
<1>6. ASSUME NEW i \in Cells, Update(i) PROVE ReadInv'
  BY <1>6, UpdateRead
<1>7. ASSUME NEW i \in Cells, UpdateIdle(i) PROVE ReadInv'
  BY <1>3, <1>7 DEF UpdateIdle
<1>8. ASSUME NEW i \in Links, Garble(i) PROVE ReadInv'
  <2>1. /\ wire[i] # <<>> /\ sent' = sent
        /\ wire' = [wire EXCEPT ![i][1] =
                      Damaged(wire[i][1], wire[i][1].line.start, "other")]
    BY <1>8 DEF Garble
  <2>. QED
    BY <2>1, HeadStart, DamageCarried, CarriedRead
<1>9. ASSUME NEW i \in Links, Headless(i) PROVE ReadInv'
  <2>1. /\ wire[i] # <<>> /\ sent' = sent
        /\ wire' = [wire EXCEPT ![i][1] = Damaged(wire[i][1], FALSE, "zero")]
    BY <1>9 DEF Headless
  <2>2. FALSE \in BOOLEAN /\ "zero" \in {"xor", "zero", "other"}
    OBVIOUS
  <2>. QED
    BY <2>1, <2>2, DamageCarried, CarriedRead
<1>10. ASSUME NEW i \in Links, Lose(i) PROVE ReadInv'
  BY <1>2, <1>10 DEF Lose
<1>11. ASSUME NEW i \in Cells, PowerCycle(i) PROVE ReadInv'
  BY <1>11, PowerCycleCarried, CarriedRead DEF PowerCycle
<1>12. CASE UNCHANGED vars
  BY <1>3, <1>12 DEF vars
<1>. QED
  BY <1>1, <1>4, <1>5, <1>6, <1>7, <1>8, <1>9, <1>10, <1>11, <1>12 DEF Next

\* A multiple read has the value of every cell it passed, under every fault: a
\* handler that cannot add its value answers with an error instead, and when the
\* sentence has room ToString() leaves none out.
THEOREM ReadsCorrect ==
  ASSUME RoomForAll
  PROVE  Spec => []ReadFromAll
<1>1. Init => ReadInv
  <2>1. Init => \A i \in Links : At(i) = {}
    BY DEF Init, At
  <2>. QED
    BY <2>1 DEF ReadInv
<1>2. TypeOK /\ InOrder /\ WriteInv /\ ReadInv /\ [Next]_vars => ReadInv'
  BY ReadInvStep
<1>3. ReadInv => ReadFromAll
  BY DEF ReadInv, ReadFromAll
<1>. QED
  BY <1>1, <1>2, <1>3, TypeCorrect, OrderCorrect, WriteInvHolds, PTL DEF Spec

\* With the sizes of the code a sentence has room for what eleven cells can be
\* asked for, and for what any number of cells can, the version apart: 20 values of
\* the other registers are shorter than a sentence.
RoomInCode ==
  \/ N <= 11
  \/ \A r \in Commands : r.type = "MRD" => r.addr # kRegAddrReadFirmwareVersion

LEMMA RoomHolds ==
  ASSUME CodeSizes, RoomInCode
  PROVE  RoomForAll
<1>. SUFFICES ASSUME NEW r \in Commands, r.type = "MRD", r.addr \in Readable,
                     NEW n \in 1 .. N, n <= kMaxNumValues
              PROVE  RoomFor(r.addr, n)
  BY DEF RoomForAll
<1>1. n \in Int /\ n <= 20 /\ N \in Int /\ n <= N
  BY ChainAssumption DEF CodeSizes
<1>2. kMaxPacketContentsLen - kMaxPacketFieldLen - 1 = 170
  BY SMT DEF CodeSizes, kMaxPacketContentsLen, kPacketHeaderLen, kPacketTailLen
<1>3. AddrText(r.addr).len = 4
  BY SMT DEF Readable, AddrText, kRegAddrSetOutputVoltage, kRegAddrReadOutputCurrent,
     kRegAddrReadFirmwareVersion
<1>4. CASE r.addr = kRegAddrReadFirmwareVersion
  <2>1. n <= 11
    BY <1>1, <1>4 DEF RoomInCode
  <2>2. Longest(r.addr) + 1 = 16
    BY <1>4, SMT DEF Longest, kRegAddrSetOutputVoltage, kRegAddrReadOutputCurrent,
       kRegAddrReadFirmwareVersion
  <2>3. 4 + (n - 1) * 16 < 170
    BY <1>1, <2>1
  <2>. QED
    BY <1>2, <1>3, <2>2, <2>3 DEF RoomFor
<1>5. CASE r.addr # kRegAddrReadFirmwareVersion
  <2>1. r.addr \in {kRegAddrSetOutputVoltage, kRegAddrReadOutputCurrent}
    BY <1>5 DEF Readable
  <2>2. n \in 1 .. kMaxNumValues
    BY <1>1 DEF CodeSizes
  <2>. QED
    BY <2>1, <2>2, CodeHasRoom
<1>. QED
  BY <1>4, <1>5

\* So a multiple read of a pack that is no larger has the value of every cell it
\* passed, with the buffer sizes of the code.
THEOREM ReadsCorrectInCode ==
  ASSUME CodeSizes, RoomInCode
  PROVE  Spec => []ReadFromAll
BY RoomHolds, ReadsCorrect

(***************************************************************************)
(* Without faults: every sentence is complete, and every command that has  *)
(* not been answered is on a link.  That nothing else is on a link is the  *)
(* order above.                                                            *)
(***************************************************************************)
FlightInv ==
  /\ \A i \in Links : \A x \in At(i) : Complete(x.line)
  /\ \A t \in master.answer + 1 .. Len(sent) : \E i \in Links : \E x \in At(i) : x.tag = t

\* What is behind the head of a link stays on it when the head is taken.
LEMMA TailKeeps ==
  ASSUME TypeOK, NEW i \in Links, wire[i] # <<>>, wire'[i] = Tail(wire[i])
  PROVE  \A x \in At(i) : x = Head(wire[i]) \/ x \in At(i)'
<1>. SUFFICES ASSUME NEW k \in DOMAIN wire[i], wire[i][k] # Head(wire[i])
              PROVE  wire[i][k] \in At(i)'
  BY DEF At
<1>1. wire[i] \in Seq(Sentence)
  BY WireType
<1>2. /\ DOMAIN wire[i] = 1 .. Len(wire[i]) /\ Len(wire[i]) \in Nat
      /\ Head(wire[i]) = wire[i][1]
      /\ DOMAIN wire'[i] = 1 .. Len(wire[i]) - 1
      /\ \A l \in 1 .. Len(wire[i]) - 1 : wire'[i][l] = wire[i][l+1]
  BY <1>1, HeadTailProperties, LenProperties
<1>3. k - 1 \in DOMAIN wire'[i] /\ wire'[i][k-1] = wire[i][k]
  BY <1>2
<1>. QED
  BY <1>3 DEF At

LEMMA TransmitFlight ==
  ASSUME TypeOK, FlightInv, NEW r \in Commands, Transmit(r)
  PROVE  FlightInv'
<1> DEFINE n == Len(sent) + 1
           y == [line |-> Packetize(r), tag |-> n]
<1>1. Len(sent) \in Nat /\ Len(sent') = n /\ master'.answer = master.answer
      /\ master.answer \in Nat
  <2>1. sent \in Seq(Commands) /\ master \in [waiting : BOOLEAN, answer : Nat, missed : Nat]
    BY DEF TypeOK
  <2>. QED
    BY <2>1, LenProperties, AppendProperties DEF Transmit
<1>2. y \in At(0)' /\ y.tag = n /\ \A l \in Links : At(l) \subseteq At(l)'
  <2>1. 0 \in Links
    BY ChainAssumption DEF Links
  <2>2. wire[0] \in Seq(Sentence) /\ wire'[0] = Append(wire[0], y)
        /\ \A l \in Links : l # 0 => wire'[l] = wire[l]
    BY <2>1, WireType, TransmitEffect
  <2>3. y.tag = n
    OBVIOUS
  <2>4. y \in Sentence
    <3>1. Packetize(r) \in GoodLine
      BY TransmitEffect
    <3>2. n \in Nat
      BY <1>1
    <3>. HIDE DEF n
    <3>. QED
      BY <3>1, <3>2 DEF Sentence
  <2>. HIDE DEF y
  <2>5. DOMAIN wire[0] = 1 .. Len(wire[0]) /\ Len(wire[0]) \in Nat
    BY <2>2, LenProperties
  <2>6. /\ DOMAIN wire'[0] = 1 .. Len(wire[0]) + 1 /\ wire'[0][Len(wire[0]) + 1] = y
        /\ \A k \in 1 .. Len(wire[0]) : wire'[0][k] = wire[0][k]
    BY <2>2, <2>4, <2>5, AppendProperties
  <2>7. \A k \in DOMAIN wire[0] : k \in DOMAIN wire'[0] /\ wire'[0][k] = wire[0][k]
    BY <2>5, <2>6
  <2>8. Len(wire[0]) + 1 \in DOMAIN wire'[0]
    BY <2>5, <2>6
  <2>. QED
    BY <2>2, <2>3, <2>6, <2>7, <2>8, SMTT(30) DEF At
<1>3. Complete(Packetize(r))
  BY PacketizeComplete, ChainAssumption
<1>4. ASSUME NEW i \in Links, NEW x \in At(i)' PROVE Complete(x.line)
  BY <1>3, TransmitAt DEF FlightInv
<1>5. ASSUME NEW t \in master.answer + 1 .. n
      PROVE  \E i \in Links : \E x \in At(i)' : x.tag = t
  <2>. HIDE DEF y
  <2>1. CASE t = n
    BY <1>2, <2>1, ChainAssumption DEF Links
  <2>2. CASE t # n
    <3>1. t \in master.answer + 1 .. Len(sent)
      BY <1>1, <2>2
    <3>. QED
      BY <1>2, <3>1 DEF FlightInv
  <2>. QED
    BY <2>1, <2>2
<1>. QED
  BY <1>1, <1>4, <1>5 DEF FlightInv

\* The sentences that stay are still there, with their tags above the answer.
LEMMA ReadLineFlight ==
  ASSUME TypeOK, InOrder, FlightInv, ReadLine
  PROVE  FlightInv'
<1> DEFINE h == Head(wire[N])
<1>1. /\ N \in Links /\ wire[N] # <<>> /\ wire' = [wire EXCEPT ![N] = Tail(@)]
      /\ master'.answer = h.tag /\ sent' = sent
  BY ChainAssumption DEF ReadLine, Links, TypeOK
<1>2. wire'[N] = Tail(wire[N]) /\ \A j \in Links : j # N => wire'[j] = wire[j]
  BY <1>1, WireType
<1>3. h.tag \in Nat /\ master.answer < h.tag /\ Len(sent) \in Nat /\ master.answer \in Nat
  <2>1. wire[N] \in Seq(Sentence)
    BY <1>1, WireType
  <2>2. 1 \in DOMAIN wire[N] /\ h = wire[N][1]
    BY <1>1, <2>1, EmptySeq, LenProperties
  <2>3. Len(sent) \in Nat /\ master.answer \in Nat
    BY LenProperties DEF TypeOK
  <2>. QED
    BY <1>1, <2>2, <2>3 DEF InOrder
<1>4. \A j \in Links : \A x \in At(j) : x = h \/ x \in At(j)'
  BY <1>1, <1>2, TailKeeps DEF At
<1>5. \A j \in Links : \A x \in At(j)' : x \in At(j)
  <2>1. \A l \in DOMAIN wire'[N] : l + 1 \in DOMAIN wire[N] /\ wire'[N][l] = wire[N][l+1]
    BY <1>1, <1>2, TailLink
  <2>2. \A x \in At(N)' : x \in At(N)
    BY <2>1 DEF At
  <2>3. \A j \in Links : j # N => At(j)' = At(j)
    BY <1>2 DEF At
  <2>. QED
    BY <2>2, <2>3
<1>. HIDE DEF h
<1>6. ASSUME NEW t \in h.tag + 1 .. Len(sent)
      PROVE  \E i \in Links : \E x \in At(i)' : x.tag = t
  <2>1. t \in master.answer + 1 .. Len(sent) /\ t # h.tag
    BY <1>3
  <2>. QED
    BY <1>4, <2>1 DEF FlightInv
<1>. QED
  BY <1>1, <1>5, <1>6 DEF FlightInv

\* The sentence a cell takes is replaced by one with the same tag.
LEMMA UpdateFlight ==
  ASSUME Roomy, TypeOK, InOrder, FlightInv, NEW i \in Cells, Update(i)
  PROVE  FlightInv'
<1>1. PICK s, r : UpdatePost(i, s, r)
  BY UpdateEffect
<1>2. /\ i \in Links /\ i-1 \in Links /\ i # i-1 /\ s \in At(i-1)
      /\ \A l \in Links : \A x \in At(l)' : x \in At(l) \/ r.out = <<x.line>>
  BY <1>1, UpdateAt, ChainAssumption DEF Cells
<1>3. /\ master' = master /\ sent' = sent /\ r = Process(cell[i], s.line)
      /\ cell[i] \in Cell /\ s.line \in GoodLine
      /\ wire[i-1] # <<>> /\ s = Head(wire[i-1]) /\ wire'[i-1] = Tail(wire[i-1])
      /\ \A j \in Links : j # i-1 /\ j # i => wire'[j] = wire[j]
  BY <1>1 DEF UpdatePost, TypeOK, Sentence
<1>4. PICK l \in GoodLine : r.out = <<l>> /\ Complete(l)
  BY <1>2, <1>3, ProcessComplete DEF FlightInv
<1> DEFINE y == [line |-> l, tag |-> s.tag]
<1>5. y.tag = s.tag /\ y \in Sentence
  BY <1>1 DEF UpdatePost, Sentence
<1>6. wire'[i] = Append(wire[i], y)
  <2>1. r.out # <<>> /\ \A m : r.out = <<m>> => m = l
    BY <1>4
  <2>. QED
    BY <1>1, <2>1 DEF UpdatePost
<1>. HIDE DEF y
<1>7. y \in At(i)' /\ \A x \in At(i) : x \in At(i)'
  <2>1. wire[i] \in Seq(Sentence)
    BY <1>2, WireType
  <2>2. DOMAIN wire[i] = 1 .. Len(wire[i]) /\ Len(wire[i]) \in Nat
    BY <2>1, LenProperties
  <2>3. /\ DOMAIN wire'[i] = 1 .. Len(wire[i]) + 1 /\ wire'[i][Len(wire[i]) + 1] = y
        /\ \A k \in 1 .. Len(wire[i]) : wire'[i][k] = wire[i][k]
    BY <1>5, <1>6, <2>1, <2>2, AppendProperties
  <2>4. /\ Len(wire[i]) + 1 \in DOMAIN wire'[i]
        /\ \A k \in DOMAIN wire[i] : k \in DOMAIN wire'[i] /\ wire'[i][k] = wire[i][k]
    BY <2>2, <2>3
  <2>. QED
    BY <2>3, <2>4 DEF At
<1>8. \A j \in Links : \A x \in At(j) : x = s \/ x \in At(j)'
  <2>1. \A x \in At(i-1) : x = s \/ x \in At(i-1)'
    BY <1>2, <1>3, TailKeeps
  <2>2. \A j \in Links : j # i-1 /\ j # i => At(j)' = At(j)
    BY <1>3 DEF At
  <2>. QED
    BY <1>7, <2>1, <2>2
<1>9. \A j \in Links : \A x \in At(j)' : Complete(x.line)
  <2>1. \A m : r.out = <<m>> => m = l
    BY <1>4
  <2>. QED
    BY <1>2, <1>4, <2>1 DEF FlightInv
<1>10. ASSUME NEW t \in master.answer + 1 .. Len(sent)
       PROVE  \E j \in Links : \E x \in At(j)' : x.tag = t
  <2>1. PICK j \in Links : \E x \in At(j) : x.tag = t
    BY DEF FlightInv
  <2>2. PICK x \in At(j) : x.tag = t
    BY <2>1
  <2>. QED
    BY <1>2, <1>5, <1>7, <1>8, <2>2
<1>. QED
  BY <1>3, <1>9, <1>10 DEF FlightInv

LEMMA FlightInvStep ==
  ASSUME Roomy, TypeOK, InOrder, faults = <<>> => FlightInv, [Next]_vars, faults' = <<>>
  PROVE  FlightInv'
<1>1. ASSUME NEW kind, Fault(kind) PROVE FALSE
  <2>1. faults \in Seq(FaultKinds) /\ kind \in FaultKinds /\ faults' = Append(faults, kind)
    BY <1>1 DEF Fault, TypeOK
  <2>2. Len(faults') = Len(faults) + 1 /\ Len(faults) \in Nat /\ Len(faults') = 0
    BY <2>1, AppendProperties, LenProperties
  <2>. QED
    BY <2>2
<1>2. CASE FlightInv /\ UNCHANGED <<wire, master, sent>>
  BY <1>2 DEF FlightInv, At
<1>3. ASSUME NEW r \in Commands, Transmit(r) PROVE FlightInv'
  BY <1>3, TransmitFlight DEF Transmit
<1>4. CASE ReadLine
  BY <1>4, ReadLineFlight DEF ReadLine
<1>5. CASE ReadTimeout
  <2>1. /\ faults' = faults /\ wire' = wire /\ sent' = sent
        /\ master'.answer = master.answer
    BY <1>5 DEF ReadTimeout, TypeOK
  <2>. QED
    BY <2>1 DEF FlightInv, At
<1>6. ASSUME NEW i \in Cells, Update(i) PROVE FlightInv'
  BY <1>6, UpdateFlight DEF Update
<1>7. ASSUME NEW i \in Cells, UpdateIdle(i) PROVE FlightInv'
  BY <1>2, <1>7 DEF UpdateIdle
<1>8. ASSUME NEW i \in Links, Garble(i) \/ Headless(i) \/ Lose(i) PROVE FlightInv'
  BY <1>1, <1>8 DEF Garble, Headless, Lose
<1>9. ASSUME NEW i \in Cells, PowerCycle(i) PROVE FlightInv'
  BY <1>1, <1>9 DEF PowerCycle
<1>10. CASE UNCHANGED vars
  BY <1>2, <1>10 DEF vars
<1>. QED
  BY <1>3, <1>4, <1>5, <1>6, <1>7, <1>8, <1>9, <1>10 DEF Next

\* Without faults no command is dropped, whatever is asked and answered: what a cell
\* transmits always fits the buffer with its end token, so the next cell takes it.
\* A link of SCBSChain hands over whole sentences: what the user types has to fit the
\* receive buffer of a cell.
THEOREM NothingLostCorrect ==
  ASSUME Roomy
  PROVE  Spec => []NothingLost
<1>1. Init => FlightInv
  <2>. SUFFICES ASSUME Init PROVE FlightInv
    OBVIOUS
  <2>1. master.answer = 0 /\ Len(sent) = 0 /\ \A i \in Links : At(i) = {}
    BY DEF Init, At
  <2>. QED
    BY <2>1 DEF FlightInv
<1>2. TypeOK /\ InOrder /\ (faults = <<>> => FlightInv) /\ [Next]_vars
        => (faults = <<>> => FlightInv)'
  BY FlightInvStep
<1>3. TypeOK /\ InOrder /\ (faults = <<>> => FlightInv) => NothingLost
  <2>. SUFFICES ASSUME TypeOK, InOrder, FlightInv
                PROVE  {x.tag : x \in UNION {At(i) : i \in Links}}
                         = master.answer + 1 .. Len(sent)
    BY DEF NothingLost
  <2>1. master.answer \in Nat
    BY DEF TypeOK
  <2>2. \A i \in Links : \A x \in At(i) : x.tag \in 1 .. Len(sent) /\ master.answer < x.tag
    BY DEF InOrder, At
  <2>3. \A i \in Links : \A x \in At(i) : x.tag \in master.answer + 1 .. Len(sent)
    BY <2>1, <2>2
  <2>4. \A t \in master.answer + 1 .. Len(sent) : \E i \in Links : \E x \in At(i) : x.tag = t
    BY DEF FlightInv
  <2> DEFINE All == UNION {At(i) : i \in Links}
             Rest == master.answer + 1 .. Len(sent)
  <2>5. \A x : x \in All <=> \E i \in Links : x \in At(i)
    OBVIOUS
  <2>. HIDE DEF All, Rest
  <2>6. {x.tag : x \in All} = Rest
    <3>1. \A x \in All : x.tag \in Rest
      BY <2>3, <2>5 DEF Rest
    <3>2. \A t \in Rest : \E x \in All : x.tag = t
      BY <2>4, <2>5 DEF Rest
    <3>. QED
      BY <3>1, <3>2
  <2>. QED
    BY <2>6 DEF All, Rest
<1>. QED
  BY <1>1, <1>2, <1>3, TypeCorrect, OrderCorrect, PTL DEF Spec

=============================================================================
