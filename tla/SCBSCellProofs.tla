--------------------------- MODULE SCBSCellProofs ---------------------------
(***************************************************************************)
(* Lemmas about the codec and the handlers: which lines and packets they   *)
(* return, and what they do to a cell.  The proofs about a chain           *)
(* (SCBSChainProofs) and about a whole cell (SCBSDeviceProofs) rest on     *)
(* them.                                                                   *)
(***************************************************************************)
EXTENDS SCBSCell, SCBSInduction, SequenceTheorems

\* The lines a link carries: no handler looks for a field they do not have.
GoodLine == {l \in Line : WellFormed(l)}

(***************************************************************************)
(* The codec.                                                              *)
(***************************************************************************)

\* The texts built from numbers, and a text cut to a field, are texts.
LEMMA TextTypes ==
  /\ \A n \in Int : IdText(n) \in Text /\ AddrText(n) \in Text /\ FloatText(n) \in Text
  /\ \A t \in Text : Cut(t) \in Text /\ Cut(t).k = t.k /\ ToNum(t) \in Int
  /\ \A code \in Nat : CodeText(code) \in Text
  /\ VersionText \in Text /\ Empty \in Text
<1>1. ASSUME NEW n \in Int
      PROVE  IdText(n) \in Text /\ AddrText(n) \in Text /\ FloatText(n) \in Text
  BY DEF Text, IdText, AddrText, FloatText, NotANumber
<1>2. ASSUME NEW t \in Text
      PROVE  Cut(t) \in Text /\ Cut(t).k = t.k /\ ToNum(t) \in Int
  BY PacketAssumption DEF Text, Cut, ToNum
<1>3. ASSUME NEW code \in Nat
      PROVE  CodeText(code) \in Text
  BY DEF Text, CodeText, kErrCodeNone
<1>4. VersionText \in Text /\ Empty \in Text
  BY DEF Text, VersionText, Empty
<1>. QED
  BY <1>1, <1>2, <1>3, <1>4

\* Concatenation of three typed sequences.
LEMMA SeqConcat ==
  ASSUME NEW T, NEW a \in Seq(T), NEW b \in Seq(T), NEW d \in Seq(T)
  PROVE  /\ (a \o b) \o d \in Seq(T)
         /\ Len((a \o b) \o d) = Len(a) + Len(b) + Len(d)
  OBVIOUS

\* MRDPacket::ToString() prints the values before the first that lacks room.
LEMMA NumPrintedType ==
  ASSUME NEW addr, NEW vals \in Seq(Text)
  PROVE  /\ NumPrinted(addr, vals) \in 0 .. Len(vals)
         /\ \A j \in 0 .. Len(vals) - 1 :
              j < NumPrinted(addr, vals) <=> \A i \in 0 .. j : HasRoom(addr, vals, i)
<1> DEFINE m == Len(vals)
           S == {j \in 0 .. m - 1 : \A i \in 0 .. j : HasRoom(addr, vals, i)}
           n == Cardinality(S)
<1>1. m \in Nat
  BY LenProperties
<1>. HIDE DEF m
<1>2. S \in SUBSET (0 .. m - 1)
  OBVIOUS
<1>3. \A j \in S : \A i \in 0 .. j : i \in S
  BY <1>1
<1>4. n \in 0 .. m /\ S = 0 .. n - 1
  <2>. HIDE DEF S
  <2>. QED
    BY <1>1, <1>2, <1>3, DownClosed
<1>5. NumPrinted(addr, vals) = n
  BY DEF NumPrinted, m
<1>6. \A j \in 0 .. m - 1 : j < n <=> j \in S
  <2>. HIDE DEF S, n
  <2>. QED
    BY <1>1, <1>4
<1>. QED
  <2>. HIDE DEF n
  <2>. QED
    BY <1>4, <1>5, <1>6 DEF m

\* The fields of a packet's sentence: at least those a FromString takes.
LEMMA FieldsType ==
  ASSUME NEW p \in Packet
  PROVE  Fields(p) \in Seq(Text) /\ Len(Fields(p)) >= NumFields(p.type)
<1> DEFINE a == IF p.type \in HasId THEN <<IdText(p.id)>> ELSE <<>>
           b == IF p.type \in HasAddr THEN <<AddrText(p.addr)>> ELSE <<>>
           n == NumPrinted(p.addr, p.vals)
           d == IF p.type \in HasValue THEN p.vals
                ELSE IF p.type = "MRD" THEN SubSeq(p.vals, 1, n) ELSE <<>>
<1>1. /\ p.type \in PacketTypes /\ p.id \in Int /\ p.addr \in Int
      /\ p.vals \in Seq(Text) /\ (p.type \in HasValue => Len(p.vals) = 1)
  BY PacketAssumption DEF Packet, Id
<1>2. IdText(p.id) \in Text /\ AddrText(p.addr) \in Text
  BY <1>1, TextTypes
<1>3. a \in Seq(Text) /\ Len(a) = IF p.type \in HasId THEN 1 ELSE 0
  BY <1>2
<1>4. b \in Seq(Text) /\ Len(b) = IF p.type \in HasAddr THEN 1 ELSE 0
  BY <1>2
<1>5. d \in Seq(Text) /\ (p.type \in HasValue => Len(d) = 1)
  <2>1. n \in 0 .. Len(p.vals)
    BY <1>1, NumPrintedType
  <2>2. SubSeq(p.vals, 1, n) \in Seq(Text) /\ Len(SubSeq(p.vals, 1, n)) >= 0
    BY <1>1, <2>1
  <2>3. CASE p.type \in HasValue
    <3>1. d = p.vals
      BY <2>3
    <3>2. p.vals \in Seq(Text) /\ Len(p.vals) = 1
      BY <1>1, <2>3
    <3>. QED
      BY <2>3, <3>1, <3>2, Zenon
  <2>4. CASE p.type \notin HasValue /\ p.type = "MRD"
    <3>1. d = SubSeq(p.vals, 1, n)
      BY <2>4
    <3>. HIDE DEF d, n
    <3>. QED
      BY <2>2, <2>4, <3>1
  <2>5. CASE p.type \notin HasValue /\ p.type # "MRD"
    BY <2>5
  <2>. QED
    BY <2>3, <2>4, <2>5
<1>6. (a \o b) \o d \in Seq(Text) /\ Len((a \o b) \o d) = Len(a) + Len(b) + Len(d)
  BY <1>3, <1>4, <1>5, SeqConcat
<1>7. Fields(p) = (a \o b) \o d
  BY DEF Fields
<1>8. Len(a) \in Nat /\ Len(b) \in Nat /\ Len(d) \in Nat
  BY <1>3, <1>4, <1>5, LenProperties
<1>. QED
  <2>. HIDE DEF a, b, d
  <2>. QED
    BY <1>3, <1>4, <1>5, <1>6, <1>7, <1>8 DEF NumFields

\* ToString() of any packet object is a sentence of its type that the FromString
\* of the next cell can take apart.
LEMMA EncodeType ==
  ASSUME NEW p \in Packet
  PROVE  Encode(p) \in GoodLine /\ Encode(p).hdr = p.type
<1>1. p.type \in PacketTypes
  BY DEF Packet
<1>2. Fields(p) \in Seq(Text) /\ Len(Fields(p)) >= NumFields(p.type)
  BY FieldsType
<1>3. FitsWithEnd(Fields(p)) \in BOOLEAN
  BY DEF FitsWithEnd
<1>. QED
  BY <1>1, <1>2, <1>3 DEF Encode, GoodLine, Line, WellFormed

\* FromString() of a sentence that passed the base check and has its fields is
\* an object of its type.
LEMMA DecodeType ==
  ASSUME NEW line \in GoodLine, IsValid(line)
  PROVE  Decode(line) \in Packet /\ Decode(line).type = line.hdr
<1> DEFINE type == line.hdr
           addrAt == IF type \in HasId THEN 2 ELSE 1
           valsAt == IF type \in HasAddr THEN addrAt + 1 ELSE addrAt
           vals == [i \in 1 .. Len(line.fields) - valsAt + 1 |->
                      Cut(line.fields[valsAt + i - 1])]
           n == IF Len(vals) < kMaxNumValues THEN Len(vals) ELSE kMaxNumValues
<1>1. /\ type \in PacketTypes /\ line.fields \in Seq(Text)
      /\ Len(line.fields) >= NumFields(type) /\ Len(line.fields) \in Nat
  BY LenProperties DEF GoodLine, Line, WellFormed, IsValid
<1>2. valsAt \in {1, 2, 3} /\ Len(line.fields) >= valsAt - 1
      /\ (type \in HasValue => Len(line.fields) >= valsAt)
      /\ (type \in HasAddr => Len(line.fields) >= addrAt)
      /\ (type \in HasId => Len(line.fields) >= 1)
  BY <1>1 DEF NumFields, HasId, HasAddr, HasValue, PacketTypes
<1>3. vals \in Seq(Text) /\ Len(vals) = Len(line.fields) - valsAt + 1
  <2>1. \A i \in 1 .. Len(line.fields) - valsAt + 1 :
          Cut(line.fields[valsAt + i - 1]) \in Text
    <3>. SUFFICES ASSUME NEW i \in 1 .. Len(line.fields) - valsAt + 1
                  PROVE  Cut(line.fields[valsAt + i - 1]) \in Text
      OBVIOUS
    <3>1. valsAt + i - 1 \in 1 .. Len(line.fields)
      BY <1>1, <1>2
    <3>2. line.fields[valsAt + i - 1] \in Text
      BY <1>1, <3>1, ElementOfSeq
    <3>. QED
      BY <3>2, TextTypes
  <2>2. Len(line.fields) - valsAt + 1 \in Nat
    BY <1>1, <1>2
  <2>. HIDE DEF valsAt
  <2>. QED
    BY <2>1, <2>2
<1>4. SubSeq(vals, 1, n) \in Seq(Text)
  <2>1. n \in 0 .. Len(vals)
    <3>1. Len(vals) \in Nat
      BY <1>3, LenProperties
    <3>. HIDE DEF vals
    <3>. QED
      BY <3>1, PacketAssumption
  <2>. HIDE DEF n, vals
  <2>. QED
    BY <1>3, <2>1
<1>5. Rejected(type) \in Packet /\ Rejected(type).type = type
  BY <1>1, TextTypes, PacketAssumption DEF Rejected, Packet, Id
<1>6. ASSUME type \in HasId
      PROVE  ToNum(line.fields[1]) % IdSpace \in Id
  BY <1>1, <1>2, <1>6, TextTypes, PacketAssumption DEF Id
<1>7. ASSUME type \in HasAddr
      PROVE  ToNum(line.fields[addrAt]) \in Int
  BY <1>1, <1>2, <1>7, TextTypes
<1>8. ASSUME type \in HasValue
      PROVE  vals[1] \in Text
  BY <1>2, <1>3, <1>8
<1>. DEFINE good ==
       [type  |-> type,
        valid |-> type # "MRD" \/ Len(vals) <= kMaxNumValues,
        id    |-> IF type \in HasId THEN ToNum(line.fields[1]) % IdSpace ELSE 0,
        addr  |-> IF type \in HasAddr THEN ToNum(line.fields[addrAt]) ELSE 0,
        vals  |-> IF type = "MRD" THEN SubSeq(vals, 1, n)
                  ELSE IF type \in HasValue THEN <<vals[1]>> ELSE <<>>]
<1>9. good \in Packet /\ good.type = type
  <2>1. good.vals \in Seq(Text) /\ (type \in HasValue => Len(good.vals) = 1)
    <3>1. "MRD" \notin HasValue
      BY DEF HasValue
    <3>2. CASE type = "MRD"
      BY <1>4, <3>1, <3>2
    <3>3. CASE type # "MRD" /\ type \in HasValue
      BY <1>8, <3>3
    <3>4. CASE type # "MRD" /\ type \notin HasValue
      BY <3>4
    <3>. QED
      BY <3>2, <3>3, <3>4
  <2>2. good.id \in Id
    BY <1>6, PacketAssumption DEF Id
  <2>3. good.addr \in Int
    BY <1>7
  <2>4. good.type \in PacketTypes /\ good.valid \in BOOLEAN
    BY <1>1
  <2>. QED
    <3>. HIDE DEF vals, n, addrAt
    <3>. QED
      BY <2>1, <2>2, <2>3, <2>4 DEF Packet
<1>10. Decode(line) = IF ~ line.start THEN Rejected(type) ELSE good
  BY DEF Decode
<1>. QED
  <2>. HIDE DEF good
  <2>. QED
    BY <1>5, <1>9, <1>10

(***************************************************************************)
(* The handlers.                                                           *)
(***************************************************************************)

\* What a handler transmits on its own account is a packet from this cell.
LEMMA ResponseType ==
  ASSUME NEW c \in Cell, NEW t \in Text
  PROVE  Response(c, t) \in Packet /\ Response(c, t).type = "SRS"
<1>1. Cut(t) \in Text
  BY TextTypes
<1>2. <<Cut(t)>> \in Seq(Text) /\ Len(<<Cut(t)>>) = 1
  BY <1>1
<1>. QED
  BY <1>2 DEF Response, Packet, PacketTypes, Cell

LEMMA ErrorType ==
  ASSUME NEW c \in Cell, NEW code \in Nat
  PROVE  Error(c, code) \in Packet /\ Error(c, code).type = "SRS"
  BY ResponseType, TextTypes DEF Error

\* A register write leaves a cell with its voltage on the rails, and writes
\* exactly when it returns no error.
LEMMA WriteRegisterType ==
  ASSUME NEW c \in Cell, NEW addr, NEW t \in Text
  PROVE  LET w == WriteRegister(c, addr, t)
         IN  /\ w.cell \in Cell /\ w.err \in Nat
             /\ w.did = IF w.err = kErrCodeNone THEN "write" ELSE "nothing"
<1>1. ToNum(t) \in Int
  BY TextTypes
<1>2. SettingOf(t) \in Setting
  BY <1>1 DEF SettingOf, Setting, Rail, Voltage, kMaxOutputVoltage, kMinOutputVoltage
<1>3. [c EXCEPT !.volt = SettingOf(t)] \in Cell
  BY <1>2 DEF Cell
<1>. QED
  BY <1>3 DEF WriteRegister, kErrCodeNone, kErrCodeWriteNotSupported,
     kErrCodeAddrNotRecognized

\* A register reads as a text.
LEMMA ReadRegisterType ==
  ASSUME NEW c \in Cell, NEW addr
  PROVE  ReadRegister(c, addr) \in Text
<1>1. c.volt \in Int /\ c.amp \in Int
  <2>1. c.volt \in Setting /\ c.amp \in Current
    BY DEF Cell
  <2>2. Setting \subseteq Int /\ Current \subseteq Int
    BY DEF Setting, NotANumber, Voltage, Current, kMaxOutputVoltage, kMinOutputVoltage
  <2>. QED
    BY <2>1, <2>2
<1>. QED
  BY <1>1, TextTypes DEF ReadRegister

\* What a handler makes of a packet: a cell, one packet, and which of the two
\* kinds of change it made.  Only MWR and SWR write.  A multiple write is passed
\* on as such exactly when this cell executed it, and a single write only when
\* it did not.
HandlerPost(p, r) ==
  /\ r.cell \in Cell /\ r.out \in Packet
  /\ r.did \in {"write", "name", "nothing"}
  /\ r.out.type \in {p.type, "SRS"}
  /\ r.did = "write" => p.type \in {"MWR", "SWR"}
  /\ p.type = "MWR" => (r.did = "write" <=> r.out.type = "MWR")
  /\ p.type = "SWR" => (r.did = "write" => r.out.type = "SRS")

LEMMA HandlePost ==
  ASSUME NEW c \in Cell, NEW p \in Packet
  PROVE  HandlerPost(p, Handle(c, p))
<1>1. /\ p.type \in PacketTypes /\ p.valid \in BOOLEAN /\ p.id \in Id
      /\ p.addr \in Int /\ p.vals \in Seq(Text)
      /\ (p.type \in HasValue => Len(p.vals) = 1 /\ p.vals[1] \in Text)
  BY DEF Packet
<1>2. CASE ~ p.valid
  BY <1>1, <1>2, ErrorType DEF Handle, HandlerPost, Result, kErrCodeReceivedInvalidPacket
<1>3. CASE p.valid /\ p.type = "DIS"
  <2>1. (p.id + 1) % IdSpace \in Id
    BY <1>1, PacketAssumption DEF Id
  <2>2. [c EXCEPT !.id = (p.id + 1) % IdSpace] \in Cell
    BY <2>1 DEF Cell
  <2>3. [p EXCEPT !.id = (p.id + 1) % IdSpace] \in Packet
    BY <2>1 DEF Packet
  <2>4. [p EXCEPT !.id = (p.id + 1) % IdSpace].type = p.type
    BY DEF Packet
  <2>. QED
    BY <1>3, <2>2, <2>3, <2>4 DEF Handle, DISPacketHandler, HandlerPost, Result
<1>4. CASE p.valid /\ p.type = "MRD"
  <2> DEFINE q == [p EXCEPT !.vals = Append(@, Cut(ReadRegister(c, p.addr)))]
  <2>1. Append(p.vals, Cut(ReadRegister(c, p.addr))) \in Seq(Text)
    BY <1>1, ReadRegisterType, TextTypes
  <2>2. q \in Packet /\ q.type = p.type
    BY <1>4, <2>1 DEF Packet, HasValue
  <2>. QED
    BY <1>4, <2>2, ErrorType DEF Handle, MRDPacketHandler, HandlerPost, Result,
       kErrCodePacketLengthExceeded, kErrCodeAddrNotRecognized
<1>5. CASE p.valid /\ p.type = "MWR"
  <2> DEFINE w == WriteRegister(c, p.addr, p.vals[1])
  <2>1. /\ w.cell \in Cell /\ w.err \in Nat
        /\ w.did = IF w.err = kErrCodeNone THEN "write" ELSE "nothing"
    BY <1>1, <1>5, WriteRegisterType DEF HasValue
  <2>2. Error(c, w.err) \in Packet /\ Error(c, w.err).type = "SRS"
    BY <2>1, ErrorType
  <2>3. Handle(c, p) =
          Result(w.cell, IF w.err = kErrCodeNone THEN p ELSE Error(c, w.err), w.did)
    BY <1>5 DEF Handle, MWRPacketHandler
  <2>. HIDE DEF w
  <2>. QED
    BY <1>5, <2>1, <2>2, <2>3 DEF HandlerPost, Result
<1>6. CASE p.valid /\ p.type = "SWR"
  <2> DEFINE w == WriteRegister(c, p.addr, p.vals[1])
  <2>1. /\ w.cell \in Cell /\ w.err \in Nat
        /\ w.did = IF w.err = kErrCodeNone THEN "write" ELSE "nothing"
    BY <1>1, <1>6, WriteRegisterType DEF HasValue
  <2>2. Error(c, w.err) \in Packet /\ Error(c, w.err).type = "SRS"
    BY <2>1, ErrorType
  <2>3. Handle(c, p) = IF p.id = c.id THEN Result(w.cell, Error(c, w.err), w.did)
                                      ELSE Result(c, p, "nothing")
    BY <1>6 DEF Handle, SWRPacketHandler
  <2>. HIDE DEF w
  <2>. QED
    BY <1>6, <2>1, <2>2, <2>3 DEF HandlerPost, Result
<1>7. CASE p.valid /\ p.type = "SRD"
  BY <1>7, ErrorType, ResponseType, ReadRegisterType
     DEF Handle, SRDPacketHandler, HandlerPost, Result, kErrCodeAddrNotRecognized
<1>8. CASE p.valid /\ p.type = "SRS"
  BY <1>8 DEF Handle, SRSPacketHandler, HandlerPost, Result
<1>. QED
  BY <1>1, <1>2, <1>3, <1>4, <1>5, <1>6, <1>7, <1>8 DEF PacketTypes

\* The packet part of Update(): at most one sentence out, of the type that came
\* in or a response.
SentencePost(line, r) ==
  /\ r.cell \in Cell /\ r.did \in {"write", "name", "nothing"}
  /\ r.out = <<>> \/ \E l \in GoodLine : r.out = <<l>> /\ l.hdr \in {line.hdr, "SRS"}
  /\ r.did = "write" => line.hdr \in {"MWR", "SWR"}
  /\ line.hdr = "MWR" =>
       (r.did = "write" <=> \E l \in GoodLine : r.out = <<l>> /\ l.hdr = "MWR")
  /\ line.hdr = "SWR" =>
       (r.did = "write" => \E l \in GoodLine : r.out = <<l>> /\ l.hdr = "SRS")

LEMMA ProcessPost ==
  ASSUME NEW c \in Cell, NEW line \in GoodLine
  PROVE  SentencePost(line, Process(c, line))
<1>1. CASE ~ IsValid(line)
  <2>1. Process(c, line) = [cell |-> c, out |-> <<>>, did |-> "nothing"]
    BY <1>1 DEF Process
  <2>. QED
    BY <2>1 DEF SentencePost
<1>2. CASE IsValid(line)
  <2> DEFINE p == Decode(line)
             r == Handle(c, p)
             l == Encode(r.out)
  <2>1. p \in Packet /\ p.type = line.hdr
    BY <1>2, DecodeType
  <2>2. HandlerPost(p, r)
    BY <2>1, HandlePost
  <2>3. l \in GoodLine /\ l.hdr = r.out.type
    BY <2>2, EncodeType DEF HandlerPost
  <2>4. Process(c, line) = [cell |-> r.cell, out |-> <<l>>, did |-> r.did]
    BY <1>2 DEF Process
  <2>. HIDE DEF p, r, l
  <2>. QED
    BY <2>1, <2>2, <2>3, <2>4 DEF SentencePost, HandlerPost
<1>. QED
  BY <1>1, <1>2

LEMMA ProcessGood ==
  ASSUME NEW c \in Cell, NEW line \in GoodLine, NEW l, Process(c, line).out = <<l>>
  PROVE  l \in GoodLine
<1> DEFINE r == Process(c, line)
<1>1. SentencePost(line, r)
  BY ProcessPost
<1>. HIDE DEF r
<1>2. r.out = <<l>>
  BY DEF r
<1>3. <<l>> # <<>> /\ <<l>>[1] = l
  OBVIOUS
<1>4. PICK m \in GoodLine : r.out = <<m>>
  BY <1>1, <1>2, <1>3, SMTT(30) DEF SentencePost
<1>5. <<m>>[1] = m
  OBVIOUS
<1>. QED
  BY <1>2, <1>3, <1>4, <1>5, ZenonT(60)

\* What the master transmits is a sentence the handlers can take apart.
LEMMA PacketizeType ==
  ASSUME NEW r \in Request
  PROVE  Packetize(r) \in GoodLine /\ Packetize(r).hdr = r.type
<1> DEFINE a == IF r.type \in HasId THEN <<IdText(r.id)>> ELSE <<>>
           b == IF r.type \in HasAddr THEN <<AddrText(r.addr)>> ELSE <<>>
<1>1. /\ r.type \in PacketTypes /\ r.id \in Int /\ r.addr \in Int
      /\ r.vals \in Seq(Text)
      /\ Len(r.vals) = IF r.type \in HasValue THEN 1 ELSE 0
  BY PacketAssumption DEF Request, Id
<1>2. IdText(r.id) \in Text /\ AddrText(r.addr) \in Text
  BY <1>1, TextTypes
<1>3. a \in Seq(Text) /\ Len(a) = IF r.type \in HasId THEN 1 ELSE 0
  BY <1>2
<1>4. b \in Seq(Text) /\ Len(b) = IF r.type \in HasAddr THEN 1 ELSE 0
  BY <1>2
<1>5. /\ (a \o b) \o r.vals \in Seq(Text)
      /\ Len((a \o b) \o r.vals) = Len(a) + Len(b) + Len(r.vals)
  <2>. DEFINE d == r.vals
  <2>1. a \in Seq(Text) /\ b \in Seq(Text) /\ d \in Seq(Text)
    BY <1>1, <1>3, <1>4
  <2>2. (a \o b) \o d \in Seq(Text) /\ Len((a \o b) \o d) = Len(a) + Len(b) + Len(d)
    <3>. HIDE DEF a, b, d
    <3>. QED
      BY <2>1, SeqConcat
  <2>. QED
    BY <2>2
<1>6. /\ Packetize(r).fields = (a \o b) \o r.vals
      /\ Packetize(r).hdr = r.type
      /\ Packetize(r) \in [hdr : {r.type}, start : {TRUE}, end : {TRUE}, sum : {"xor"},
                           fields : {(a \o b) \o r.vals}]
  BY DEF Packetize
<1>7. Len((a \o b) \o r.vals) >= NumFields(r.type)
  <2>. HIDE DEF a, b
  <2>. QED
    BY <1>1, <1>3, <1>4, <1>5 DEF NumFields
<1>. QED
  <2>. HIDE DEF a, b
  <2>. QED
    BY <1>1, <1>5, <1>6, <1>7 DEF GoodLine, Line, WellFormed

(***************************************************************************)
(* A sentence with its start token is taken at its word.                   *)
(***************************************************************************)

\* The address of a multiple command, the ID of a command to number the cells.
Leading(line) == ToNum(line.fields[1])

LEMMA DecodeStarted ==
  ASSUME NEW line \in GoodLine, IsValid(line), line.start
  PROVE  LET p == Decode(line)
         IN  /\ line.hdr # "MRD" => p.valid
             /\ line.hdr \in HasId => p.id = Leading(line) % IdSpace
             /\ line.hdr = "MWR" => p.addr = Leading(line)
             /\ line.hdr = "SRS" => p.vals[1] = Cut(line.fields[2])
<1>1. line.hdr \in PacketTypes /\ Len(line.fields) >= NumFields(line.hdr)
      /\ line.fields \in Seq(Text)
  BY DEF GoodLine, Line, WellFormed, IsValid
<1>2. CASE line.hdr = "SRS"
  <2>1. Len(line.fields) \in Nat /\ Len(line.fields) >= 2
    BY <1>1, <1>2, LenProperties DEF NumFields, HasId, HasAddr, HasValue
  <2> DEFINE vals == [i \in 1 .. Len(line.fields) - 2 + 1 |-> Cut(line.fields[2 + i - 1])]
  <2>2. vals[1] = Cut(line.fields[2])
    BY <2>1
  <2>3. Decode(line).vals = <<vals[1]>> /\ Decode(line).valid
        /\ Decode(line).id = Leading(line) % IdSpace
    BY <1>2 DEF Decode, HasId, HasAddr, HasValue, Leading
  <2>. HIDE DEF vals
  <2>. QED
    BY <1>2, <2>2, <2>3
<1>3. CASE line.hdr # "SRS"
  BY <1>1, <1>3 DEF Decode, HasId, HasAddr, HasValue, PacketTypes, Leading
<1>. QED
  BY <1>2, <1>3

\* What ToString() prints first, and the value of a response.
LEMMA EncodeStarted ==
  ASSUME NEW p \in Packet
  PROVE  /\ Encode(p).start
         /\ p.type = "DIS" => Encode(p).fields[1] = IdText(p.id)
         /\ p.type = "MWR" => Encode(p).fields[1] = AddrText(p.addr)
         /\ p.type = "SRS" => Encode(p).fields[2] = p.vals[1]
<1>1. Encode(p).start /\ Encode(p).fields = Fields(p)
  BY DEF Encode
<1>2. p.vals \in Seq(Text) /\ (p.type \in HasValue => Len(p.vals) = 1)
  BY DEF Packet
<1>3. CASE p.type = "DIS"
  <2>1. Fields(p) = (<<IdText(p.id)>> \o <<>>) \o <<>>
    BY <1>3 DEF Fields, HasId, HasAddr, HasValue
  <2>. QED
    BY <1>1, <1>3, <2>1
<1>4. CASE p.type = "MWR"
  <2>1. Fields(p) = (<<>> \o <<AddrText(p.addr)>>) \o p.vals
    BY <1>4 DEF Fields, HasId, HasAddr, HasValue
  <2>. QED
    BY <1>1, <1>2, <1>4, <2>1
<1>5. CASE p.type = "SRS"
  <2>1. Fields(p) = (<<IdText(p.id)>> \o <<>>) \o p.vals
    BY <1>5 DEF Fields, HasId, HasAddr, HasValue
  <2>2. Len(p.vals) = 1
    BY <1>2, <1>5 DEF HasValue
  <2>. QED
    BY <1>1, <1>2, <1>5, <2>1, <2>2
<1>. QED
  BY <1>1, <1>3, <1>4, <1>5

\* A register write leaves the ID, and is executed, with no error, exactly for the
\* one register that can be written.
LEMMA WriteRegisterStarted ==
  ASSUME NEW c \in Cell, NEW addr, NEW t
  PROVE  LET w == WriteRegister(c, addr, t)
         IN  /\ w.cell.id = c.id /\ w.did \in {"write", "nothing"}
             /\ w.did = "write" <=> addr = kRegAddrSetOutputVoltage
             /\ w.err = kErrCodeNone <=> addr = kRegAddrSetOutputVoltage
  BY DEF WriteRegister, Cell, kErrCodeNone, kErrCodeWriteNotSupported,
     kErrCodeAddrNotRecognized, kRegAddrSetOutputVoltage, kRegAddrReadOutputCurrent

\* TransmitError() says OK exactly for kErrCodeNone.
LEMMA ErrorText ==
  ASSUME NEW c, NEW code \in Nat
  PROVE  Error(c, code).vals[1].k = IF code = kErrCodeNone THEN "ok" ELSE "err"
<1>1. CodeText(code) \in Text
  BY TextTypes
<1>2. Error(c, code).vals[1] = Cut(CodeText(code))
  BY DEF Error, Response
<1>3. Cut(CodeText(code)).k = CodeText(code).k
  BY <1>1, TextTypes
<1>. QED
  BY <1>2, <1>3 DEF CodeText

\* Only discovery gives a cell another ID.
LEMMA HandleId ==
  ASSUME NEW c \in Cell, NEW p \in Packet
  PROVE  IF Handle(c, p).did = "name" THEN p.type = "DIS"
                                      ELSE Handle(c, p).cell.id = c.id
<1>1. p.type \in PacketTypes /\ p.valid \in BOOLEAN
  BY DEF Packet
<1> DEFINE w == WriteRegister(c, p.addr, p.vals[1])
<1>2. w.cell.id = c.id /\ w.did # "name"
  BY WriteRegisterStarted
<1>3. CASE ~ p.valid
  BY <1>3 DEF Handle, Result
<1>4. CASE p.valid /\ p.type = "DIS"
  BY <1>4 DEF Handle, DISPacketHandler, Result
<1>5. CASE p.valid /\ p.type = "MRD"
  BY <1>5 DEF Handle, MRDPacketHandler, Result
<1>6. CASE p.valid /\ p.type = "MWR"
  <2>1. Handle(c, p).cell = w.cell /\ Handle(c, p).did = w.did
    BY <1>6 DEF Handle, MWRPacketHandler, Result
  <2>. QED
    BY <1>2, <2>1
<1>7. CASE p.valid /\ p.type = "SRD"
  BY <1>7 DEF Handle, SRDPacketHandler, Result
<1>8. CASE p.valid /\ p.type = "SWR"
  <2>1. \/ Handle(c, p).cell = w.cell /\ Handle(c, p).did = w.did
        \/ Handle(c, p).cell = c /\ Handle(c, p).did = "nothing"
    BY <1>8 DEF Handle, SWRPacketHandler, Result
  <2>. QED
    BY <1>2, <2>1
<1>9. CASE p.valid /\ p.type = "SRS"
  BY <1>9 DEF Handle, SRSPacketHandler, Result
<1>. QED
  BY <1>1, <1>3, <1>4, <1>5, <1>6, <1>7, <1>8, <1>9 DEF PacketTypes

\* What the handlers that write, number or pass on make of a packet that is not
\* rejected.
HandlerSays(p, r) ==
  /\ p.type = "DIS" =>
       /\ r.out.type = "DIS" /\ r.did = "name"
       /\ r.cell.id = (p.id + 1) % IdSpace /\ r.out.id = r.cell.id
  /\ p.type = "MWR" =>
       IF p.addr = kRegAddrSetOutputVoltage THEN r.did = "write" /\ r.out = p
                                            ELSE r.did = "nothing"
  /\ p.type = "SWR" /\ r.out.type = "SRS" => (r.out.vals[1].k = "ok" <=> r.did = "write")
  /\ p.type = "SRS" => r.out = p /\ r.did = "nothing"

LEMMA HandleStarted ==
  ASSUME NEW c \in Cell, NEW p \in Packet, p.type # "MRD" => p.valid
  PROVE  HandlerSays(p, Handle(c, p))
<1> DEFINE w == WriteRegister(c, p.addr, p.vals[1])
<1>1. p.type \in HasValue => p.vals[1] \in Text
  BY DEF Packet
<1>2. /\ w.did \in {"write", "nothing"}
      /\ w.did = "write" <=> p.addr = kRegAddrSetOutputVoltage
      /\ w.err = kErrCodeNone <=> p.addr = kRegAddrSetOutputVoltage
  BY WriteRegisterStarted
<1>3. CASE p.type = "DIS"
  <2>1. Handle(c, p) = DISPacketHandler(c, p)
    BY <1>3 DEF Handle
  <2>2. /\ Handle(c, p).did = "name"
        /\ Handle(c, p).out = [p EXCEPT !.id = (p.id + 1) % IdSpace]
        /\ Handle(c, p).cell = [c EXCEPT !.id = (p.id + 1) % IdSpace]
    BY <2>1 DEF DISPacketHandler, Result
  <2>. QED
    BY <1>3, <2>2 DEF HandlerSays, Packet, Cell
<1>4. CASE p.type = "MWR"
  <2>1. Handle(c, p) =
          Result(w.cell, IF w.err = kErrCodeNone THEN p ELSE Error(c, w.err), w.did)
    BY <1>4 DEF Handle, MWRPacketHandler
  <2>. HIDE DEF w
  <2>. QED
    BY <1>2, <1>4, <2>1 DEF HandlerSays, Result
<1>5. CASE p.type = "SWR"
  <2>1. Handle(c, p) = IF p.id = c.id THEN Result(w.cell, Error(c, w.err), w.did)
                                      ELSE Result(c, p, "nothing")
    BY <1>5 DEF Handle, SWRPacketHandler
  <2>2. w.err \in Nat
    BY <1>1, <1>5, WriteRegisterType DEF HasValue
  <2>3. Error(c, w.err).vals[1].k = IF w.err = kErrCodeNone THEN "ok" ELSE "err"
    BY <2>2, ErrorText
  <2>. HIDE DEF w
  <2>. QED
    BY <1>2, <1>5, <2>1, <2>3 DEF HandlerSays, Result
<1>6. CASE p.type = "SRS"
  BY <1>6 DEF Handle, SRSPacketHandler, HandlerSays, Result
<1>. QED
  BY <1>3, <1>4, <1>5, <1>6 DEF HandlerSays

\* The same of a sentence: r is Process(c, line).
SentenceSays(line, r) == \A l : r.out = <<l>> =>
  /\ l.start
  /\ line.hdr = "DIS" =>
       /\ l.hdr = "DIS" /\ r.did = "name" /\ l.fields[1] = IdText(r.cell.id)
       /\ r.cell.id = ((Leading(line) % IdSpace) + 1) % IdSpace
  /\ line.hdr = "MWR" =>
       IF Leading(line) = kRegAddrSetOutputVoltage
         THEN r.did = "write" /\ Leading(l) = Leading(line) ELSE r.did = "nothing"
  /\ line.hdr = "SWR" /\ l.hdr = "SRS" => (IsOk(l) <=> r.did = "write")
  /\ line.hdr = "SRS" => /\ IsOk(l) <=> IsOk(line)
                         /\ IsErr(l) <=> IsErr(line)
                         /\ r.did = "nothing"

LEMMA ProcessStarted ==
  ASSUME NEW c \in Cell, NEW line \in GoodLine, line.start
  PROVE  SentenceSays(line, Process(c, line))
<1>1. CASE ~ IsValid(line)
  BY <1>1 DEF Process, SentenceSays
<1>2. CASE IsValid(line)
  <2> DEFINE p == Decode(line)
             r == Handle(c, p)
             l == Encode(r.out)
  <2>1. p \in Packet /\ p.type = line.hdr
    BY <1>2, DecodeType
  <2>2. /\ line.hdr # "MRD" => p.valid
        /\ line.hdr \in HasId => p.id = Leading(line) % IdSpace
        /\ line.hdr = "MWR" => p.addr = Leading(line)
        /\ line.hdr = "SRS" => p.vals[1] = Cut(line.fields[2])
    BY <1>2, DecodeStarted
  <2>3. HandlerPost(p, r) /\ HandlerSays(p, r)
    BY <2>1, <2>2, HandlePost, HandleStarted
  <2>4. r.out \in Packet
    BY <2>3 DEF HandlerPost
  <2>5. /\ l.start /\ l.hdr = r.out.type
        /\ r.out.type = "DIS" => l.fields[1] = IdText(r.out.id)
        /\ r.out.type = "MWR" => l.fields[1] = AddrText(r.out.addr)
        /\ r.out.type = "SRS" => l.fields[2] = r.out.vals[1]
    BY <2>4, EncodeStarted, EncodeType
  <2>6. Process(c, line) = [cell |-> r.cell, out |-> <<l>>, did |-> r.did]
    BY <1>2 DEF Process
  <2>7. line.hdr = "SRS" => Cut(line.fields[2]).k = line.fields[2].k
    <3>1. ASSUME line.hdr = "SRS" PROVE line.fields[2] \in Text
      <4>1. line.fields \in Seq(Text) /\ Len(line.fields) >= 2
        BY <3>1 DEF GoodLine, Line, WellFormed, PacketTypes, NumFields, HasId, HasAddr,
           HasValue
      <4>. QED
        BY <4>1, LenProperties, ElementOfSeq
    <3>. QED
      BY <3>1, TextTypes
  <2>8. \A a : ToNum(AddrText(a)) = a
    BY DEF ToNum, AddrText
  <2>. HIDE DEF p, r, l
  <2>9. \A m : Process(c, line).out = <<m>> => m = l
    BY <2>6
  <2>10. line.hdr = "DIS" =>
           /\ l.hdr = "DIS" /\ r.did = "name" /\ l.fields[1] = IdText(r.cell.id)
           /\ r.cell.id = ((Leading(line) % IdSpace) + 1) % IdSpace
    BY <2>1, <2>2, <2>3, <2>5 DEF HandlerSays, HasId
  <2>11. line.hdr = "MWR" =>
           IF Leading(line) = kRegAddrSetOutputVoltage
             THEN r.did = "write" /\ Leading(l) = Leading(line) ELSE r.did = "nothing"
    <3>1. CASE line.hdr = "MWR" /\ p.addr = kRegAddrSetOutputVoltage
      <4>1. r.did = "write" /\ r.out = p /\ r.out.type = "MWR"
        BY <2>1, <2>3, <3>1 DEF HandlerSays
      <4>2. Leading(l) = p.addr
        BY <2>5, <2>8, <4>1 DEF Leading
      <4>. QED
        BY <2>2, <3>1, <4>1, <4>2
    <3>2. CASE line.hdr = "MWR" /\ p.addr # kRegAddrSetOutputVoltage
      BY <2>1, <2>2, <2>3, <3>2 DEF HandlerSays
    <3>. QED
      BY <3>1, <3>2
  <2>12. line.hdr = "SWR" /\ l.hdr = "SRS" => (IsOk(l) <=> r.did = "write")
    BY <2>1, <2>3, <2>5 DEF HandlerSays, IsOk
  <2>13. line.hdr = "SRS" => /\ IsOk(l) <=> IsOk(line)
                             /\ IsErr(l) <=> IsErr(line)
                             /\ r.did = "nothing"
    BY <2>1, <2>2, <2>3, <2>5, <2>7 DEF HandlerSays, IsOk, IsErr
  <2>. QED
    BY <2>5, <2>6, <2>9, <2>10, <2>11, <2>12, <2>13 DEF SentenceSays
<1>. QED
  BY <1>1, <1>2

\* A cell keeps its ID but for discovery, which is always passed on.
LEMMA ProcessId ==
  ASSUME NEW c \in Cell, NEW line \in GoodLine
  PROVE  IF Process(c, line).did = "name"
           THEN line.hdr = "DIS" /\ \E l : Process(c, line).out = <<l>>
           ELSE Process(c, line).cell.id = c.id
<1>1. CASE ~ IsValid(line)
  BY <1>1 DEF Process
<1>2. CASE IsValid(line)
  <2>1. Decode(line) \in Packet /\ Decode(line).type = line.hdr
    BY <1>2, DecodeType
  <2>2. /\ Process(c, line).did = Handle(c, Decode(line)).did
        /\ Process(c, line).cell = Handle(c, Decode(line)).cell
        /\ Process(c, line).out = <<Encode(Handle(c, Decode(line)).out)>>
    BY <1>2 DEF Process
  <2>. QED
    BY <2>1, <2>2, HandleId
<1>. QED
  BY <1>1, <1>2

\* What the master transmits.
LEMMA PacketizeStarted ==
  ASSUME NEW r \in Request
  PROVE  /\ Packetize(r).start
         /\ r.type = "DIS" => Packetize(r).fields[1] = IdText(r.id)
         /\ r.type = "MWR" => Leading(Packetize(r)) = r.addr
<1>1. Packetize(r).start
  BY DEF Packetize
<1>2. r.vals \in Seq(Text)
  BY DEF Request
<1>3. CASE r.type = "DIS"
  <2>1. Packetize(r).fields = (<<IdText(r.id)>> \o <<>>) \o r.vals
    BY <1>3 DEF Packetize, HasId, HasAddr
  <2>. QED
    BY <1>1, <1>2, <1>3, <2>1
<1>4. CASE r.type = "MWR"
  <2>1. Packetize(r).fields = (<<>> \o <<AddrText(r.addr)>>) \o r.vals
    BY <1>4 DEF Packetize, HasId, HasAddr
  <2>2. Packetize(r).fields[1] = AddrText(r.addr)
    BY <1>2, <2>1
  <2>. QED
    BY <1>1, <1>4, <2>2 DEF Leading, ToNum, AddrText
<1>. QED
  BY <1>1, <1>3, <1>4

(***************************************************************************)
(* The length of a sentence's contents.                                    *)
(***************************************************************************)

\* The sums ContentsLen adds up: f[k] is the length of the first k fields.
Sums(f, s) ==
  f = [k \in 0 .. Len(s) |-> IF k = 0 THEN -1 ELSE f[k-1] + 1 + s[k].len]

\* The sums depend on the fields summed alone.
LEMMA SumsAgree ==
  ASSUME NEW s, Len(s) \in Nat, NEW u, Len(u) \in Nat, NEW f, Sums(f, s), NEW g, Sums(g, u),
         NEW n \in Nat, n <= Len(s), n <= Len(u), \A k \in 1 .. n : s[k] = u[k]
  PROVE  f[n] = g[n]
<1> DEFINE S == {k \in Nat : k <= n => f[k] = g[k]}
<1>1. \A k \in 0 .. Len(s) : f[k] = IF k = 0 THEN -1 ELSE f[k-1] + 1 + s[k].len
  BY DEF Sums
<1>2. \A k \in 0 .. Len(u) : g[k] = IF k = 0 THEN -1 ELSE g[k-1] + 1 + u[k].len
  BY DEF Sums
<1>3. 0 \in S
  BY <1>1, <1>2
<1>4. ASSUME NEW k \in Nat, k \in S
      PROVE  k + 1 \in S
  <2>. SUFFICES ASSUME k + 1 <= n PROVE f[k+1] = g[k+1]
    OBVIOUS
  <2>1. /\ k + 1 \in 0 .. Len(s) /\ k + 1 \in 0 .. Len(u) /\ k + 1 \in 1 .. n
        /\ (k + 1) - 1 = k /\ k + 1 # 0
    OBVIOUS
  <2>2. f[k] = g[k]
    BY <1>4
  <2>. QED
    BY <1>1, <1>2, <2>1, <2>2
<1>5. Nat \subseteq S
  <2>. HIDE DEF S
  <2>. QED
    BY <1>3, <1>4, NatSetInduction
<1>. QED
  BY <1>5

\* There are such functions, and ContentsLen takes the last value of one.
LEMMA SumsExist ==
  ASSUME NEW s, Len(s) \in Nat, \A k \in 1 .. Len(s) : s[k].len \in Int
  PROVE  \E f \in [0 .. Len(s) -> Int] : Sums(f, s) /\ ContentsLen(s) = f[Len(s)]
<1> DEFINE Adds(f, n) == /\ f[0] = -1
                         /\ \A k \in 1 .. n : f[k] = f[k-1] + 1 + s[k].len
           S == {n \in Nat : n <= Len(s) => \E f \in [0 .. n -> Int] : Adds(f, n)}
           h == CHOOSE f : Sums(f, s)
<1>1. 0 \in S
  <2> DEFINE f == [k \in 0 .. 0 |-> -1]
  <2>1. f \in [0 .. 0 -> Int] /\ Adds(f, 0)
    OBVIOUS
  <2>. HIDE DEF f, Adds
  <2>. QED
    BY <2>1
<1>2. ASSUME NEW n \in Nat, n \in S
      PROVE  n + 1 \in S
  <2>. SUFFICES ASSUME n + 1 <= Len(s)
                PROVE  \E g \in [0 .. n + 1 -> Int] : Adds(g, n + 1)
    <3>1. n + 1 \in Nat
      OBVIOUS
    <3>. HIDE DEF Adds
    <3>. QED
      BY <3>1, ZenonT(60)
  <2>1. PICK f \in [0 .. n -> Int] : Adds(f, n)
    <3>1. n <= Len(s)
      OBVIOUS
    <3>. HIDE DEF Adds
    <3>. QED
      BY <1>2, <3>1
  <2> DEFINE sum == f[n] + 1 + s[n+1].len
             g == [k \in 0 .. n + 1 |-> IF k \in 0 .. n THEN f[k] ELSE sum]
  <2>2. sum \in Int
    OBVIOUS
  <2>. HIDE DEF sum
  <2>3. /\ g \in [0 .. n + 1 -> Int] /\ g[n+1] = sum
        /\ \A k \in 0 .. n : g[k] = f[k]
    BY <2>2
  <2>. HIDE DEF g
  <2>4. ASSUME NEW k \in 1 .. n + 1
        PROVE  g[k] = g[k-1] + 1 + s[k].len
    <3>1. CASE k \in 1 .. n
      <4>1. k \in 0 .. n /\ k - 1 \in 0 .. n
        BY <3>1
      <4>. QED
        BY <2>1, <2>3, <3>1, <4>1
    <3>2. CASE k = n + 1
      <4>1. k - 1 = n /\ n \in 0 .. n
        BY <3>2
      <4>. QED
        BY <2>3, <3>2, <4>1 DEF sum
    <3>. QED
      BY <3>1, <3>2
  <2>5. g[0] = -1
    BY <2>1, <2>3
  <2>6. Adds(g, n + 1)
    BY <2>4, <2>5
  <2>. HIDE DEF Adds
  <2>. QED
    BY <2>3, <2>6
<1>3. Len(s) \in S
  <2>. HIDE DEF S
  <2>. QED
    BY <1>1, <1>2, NatSetInduction
<1>4. PICK f \in [0 .. Len(s) -> Int] : Sums(f, s)
  <2>1. PICK f \in [0 .. Len(s) -> Int] : Adds(f, Len(s))
    BY <1>3
  <2>2. \A k \in 0 .. Len(s) : k # 0 => k \in 1 .. Len(s)
    OBVIOUS
  <2>3. \A k \in 0 .. Len(s) : f[k] = IF k = 0 THEN -1 ELSE f[k-1] + 1 + s[k].len
    BY <2>1, <2>2
  <2>. QED
    BY <2>3 DEF Sums
<1>5. Sums(h, s)
  BY <1>4
<1>6. ContentsLen(s) = h[Len(s)]
  BY DEF ContentsLen, Sums
<1>7. h[Len(s)] = f[Len(s)]
  <2>. HIDE DEF h
  <2>. QED
    BY <1>4, <1>5, SumsAgree
<1>. QED
  BY <1>4, <1>6, <1>7

LEMMA SumsExtend ==
  ASSUME NEW s, NEW u, NEW n \in Nat, Len(s) = n, Len(u) = n + 1,
         \A k \in 1 .. n : s[k] = u[k], \A k \in 1 .. n + 1 : u[k].len \in Int
  PROVE  /\ ContentsLen(s) \in Int
         /\ ContentsLen(u) = ContentsLen(s) + 1 + u[n+1].len
<1>0. \A f, g : Sums(f, s) /\ Sums(g, u) => f[n] = g[n]
  BY SumsAgree
<1>1. PICK f \in [0 .. n -> Int] : Sums(f, s) /\ ContentsLen(s) = f[n]
  BY SumsExist
<1>2. PICK g \in [0 .. n + 1 -> Int] : Sums(g, u) /\ ContentsLen(u) = g[n+1]
  BY SumsExist
<1>3. f[n] = g[n]
  BY <1>0, <1>1, <1>2
<1>4. \A k \in 0 .. n + 1 : g[k] = IF k = 0 THEN -1 ELSE g[k-1] + 1 + u[k].len
  BY <1>2 DEF Sums
<1>5. g[n+1] = g[n] + 1 + u[n+1].len
  <2>1. n + 1 \in 0 .. n + 1 /\ n + 1 # 0 /\ (n + 1) - 1 = n
    OBVIOUS
  <2>. QED
    BY <1>4, <2>1
<1>. QED
  BY <1>1, <1>2, <1>3, <1>5

\* One field more, and the comma before it.
LEMMA ContentsAppend ==
  ASSUME NEW s \in Seq(Text), NEW t \in Text
  PROVE  /\ ContentsLen(s) \in Int
         /\ ContentsLen(Append(s, t)) = ContentsLen(s) + 1 + t.len
<1> DEFINE u == Append(s, t)
           n == Len(s)
<1>1. /\ n \in Nat /\ Len(u) = n + 1 /\ u[n+1] = t
      /\ \A k \in 1 .. n : s[k] = u[k]
  BY LenProperties, AppendProperties
<1>2. \A k \in 1 .. n + 1 : u[k] \in Text
  BY AppendProperties, ElementOfSeq
<1>3. \A k \in 1 .. n + 1 : u[k].len \in Int
  BY <1>2 DEF Text
<1>. HIDE DEF u
<1>4. /\ ContentsLen(s) \in Int
      /\ ContentsLen(u) = ContentsLen(s) + 1 + u[n+1].len
  BY <1>1, <1>3, SumsExtend
<1>. QED
  BY <1>1, <1>4 DEF u

\* The contents of up to three fields.
LEMMA ContentsShort ==
  ASSUME NEW t \in Text, NEW u \in Text, NEW v \in Text
  PROVE  /\ ContentsLen(<<t>>) = t.len
         /\ ContentsLen(<<t, u>>) = t.len + 1 + u.len
         /\ ContentsLen(<<t, u, v>>) = t.len + 1 + u.len + 1 + v.len
<1>1. ContentsLen(<<>>) = -1
  <2> DEFINE s == <<>>
  <2>1. Len(s) = 0
    OBVIOUS
  <2>. HIDE DEF s
  <2>2. Len(s) \in Nat /\ \A k \in 1 .. Len(s) : s[k].len \in Int
    BY <2>1
  <2>3. \E f \in [0 .. Len(s) -> Int] : Sums(f, s) /\ ContentsLen(s) = f[Len(s)]
    BY <2>2, SumsExist, ZenonT(60)
  <2>4. \A f : Sums(f, s) => f[Len(s)] = -1
    BY <2>1, SMTT(30) DEF Sums
  <2>5. ContentsLen(s) = -1
    BY <2>3, <2>4, ZenonT(60)
  <2>. QED
    BY <2>5 DEF s
<1>2. /\ <<t>> = Append(<<>>, t) /\ <<>> \in Seq(Text)
      /\ <<t, u>> = Append(<<t>>, u) /\ <<t>> \in Seq(Text)
      /\ <<t, u, v>> = Append(<<t, u>>, v) /\ <<t, u>> \in Seq(Text)
  OBVIOUS
<1>3. t.len \in Int /\ u.len \in Int /\ v.len \in Int
  BY DEF Text
<1>4. ContentsLen(<<t>>) = t.len
  <2>1. ContentsLen(<<t>>) = ContentsLen(<<>>) + 1 + t.len
    BY <1>2, ContentsAppend, Zenon
  <2>. QED
    BY <1>1, <1>3, <2>1
<1>5. ContentsLen(<<t, u>>) = t.len + 1 + u.len
  BY <1>2, <1>4, ContentsAppend
<1>6. ContentsLen(<<t, u, v>>) = (t.len + 1 + u.len) + 1 + v.len
  BY <1>2, <1>5, ContentsAppend
<1>. QED
  BY <1>3, <1>4, <1>5, <1>6

\* The texts a cell puts on the wire are short.
LEMMA TextLengths ==
  /\ \A n \in Int : IdText(n).len \in 0 .. 5 /\ AddrText(n).len \in 0 .. 8
  /\ \A t \in Text : Cut(t).len \in Nat /\ Cut(t).len <= t.len /\ Cut(t).len < kMaxPacketFieldLen
<1>1. \A n \in Int : IdText(n).len \in 0 .. 5 /\ AddrText(n).len \in 0 .. 8
  BY DEF IdText, AddrText
<1>2. \A t \in Text : Cut(t).len \in Nat /\ Cut(t).len <= t.len /\ Cut(t).len < kMaxPacketFieldLen
  BY PacketAssumption DEF Text, Cut
<1>. QED
  BY <1>1, <1>2

\* The longest text of a register: "199.95", or the version.
Longest(addr) ==
  IF addr \in {kRegAddrSetOutputVoltage, kRegAddrReadOutputCurrent} THEN 6 ELSE 15

LEMMA ReadLength ==
  ASSUME NEW c \in Cell, NEW addr
  PROVE  LET v == Cut(ReadRegister(c, addr))
         IN  v \in Text /\ v.len <= Longest(addr)
<1>1. c.volt \in Int /\ c.amp \in Int
  <2>1. c.volt \in Setting /\ c.amp \in Current
    BY DEF Cell
  <2>2. \A v \in Setting : v \in Int
    BY DEF Setting, NotANumber, Voltage, kMaxOutputVoltage, kMinOutputVoltage
  <2>3. \A a \in Current : a \in Int
    BY DEF Current
  <2>. QED
    BY <2>1, <2>2, <2>3
<1>2. ReadRegister(c, addr) \in Text
  BY ReadRegisterType
<1>3. ReadRegister(c, addr).len <= Longest(addr)
  BY <1>1 DEF ReadRegister, FloatText, VersionText, Longest, kRegAddrSetOutputVoltage,
     kRegAddrReadOutputCurrent
<1>4. ReadRegister(c, addr).len \in Int /\ Longest(addr) \in Int
  BY <1>2 DEF Text, Longest
<1>. QED
  BY <1>2, <1>3, <1>4, TextLengths, TextTypes, SMTT(30)

\* A value that was cut to a field, and values of one register.
ShortPacket(p) ==
  /\ p.type \in HasValue => p.vals[1].len < kMaxPacketFieldLen
  /\ p.type = "MRD" /\ p.valid =>
       \A k \in 1 .. Len(p.vals) : p.vals[k].len <= Longest(p.addr)
ShortRead(line) ==
  line.hdr = "MRD" => \A k \in 2 .. Len(line.fields) :
                        line.fields[k].len <= Longest(Leading(line))

\* A multiple read that is not refused has its start token, and all its values.
LEMMA DecodeRead ==
  ASSUME NEW line \in GoodLine, IsValid(line), line.hdr = "MRD", Decode(line).valid
  PROVE  /\ Decode(line).addr = Leading(line)
         /\ Len(Decode(line).vals) = Len(line.fields) - 1
         /\ \A k \in 1 .. Len(line.fields) - 1 :
              Decode(line).vals[k] = Cut(line.fields[k+1])
<1> DEFINE type == line.hdr
           addrAt == IF type \in HasId THEN 2 ELSE 1
           valsAt == IF type \in HasAddr THEN addrAt + 1 ELSE addrAt
           vals == [i \in 1 .. Len(line.fields) - valsAt + 1 |->
                      Cut(line.fields[valsAt + i - 1])]
           n == IF Len(vals) < kMaxNumValues THEN Len(vals) ELSE kMaxNumValues
           m == Len(line.fields) - 1
<1>1. /\ line.fields \in Seq(Text) /\ Len(line.fields) \in Nat
      /\ Len(line.fields) >= NumFields("MRD")
  BY LenProperties DEF GoodLine, Line, WellFormed, IsValid
<1>2. m \in Nat /\ addrAt = 1 /\ valsAt = 2
  BY <1>1 DEF NumFields, HasId, HasAddr, HasValue
<1>3. vals \in Seq(Text) /\ Len(vals) = m /\ \A k \in 1 .. m : vals[k] = Cut(line.fields[k+1])
  <2>1. \A i \in 1 .. m : Cut(line.fields[valsAt + i - 1]) \in Text /\ valsAt + i - 1 = i + 1
    <3>. SUFFICES ASSUME NEW i \in 1 .. m
                  PROVE  Cut(line.fields[valsAt + i - 1]) \in Text /\ valsAt + i - 1 = i + 1
      OBVIOUS
    <3>1. valsAt + i - 1 \in 1 .. Len(line.fields) /\ valsAt + i - 1 = i + 1
      BY <1>1, <1>2
    <3>2. line.fields[valsAt + i - 1] \in Text
      BY <1>1, <3>1, ElementOfSeq
    <3>. QED
      BY <3>1, <3>2, TextTypes
  <2>. HIDE DEF valsAt
  <2>2. Len(line.fields) - valsAt + 1 = m
    BY <1>1, <1>2
  <2>. HIDE DEF m
  <2>. QED
    BY <1>2, <2>1, <2>2
<1> DEFINE fits == type # "MRD" \/ Len(vals) <= kMaxNumValues
           id == IF type \in HasId THEN ToNum(line.fields[1]) % IdSpace ELSE 0
           addr == IF type \in HasAddr THEN ToNum(line.fields[addrAt]) ELSE 0
           value == IF type = "MRD" THEN SubSeq(vals, 1, n)
                    ELSE IF type \in HasValue THEN <<vals[1]>> ELSE <<>>
<1>4. Decode(line) = IF ~ line.start THEN Rejected(type)
                     ELSE [type |-> type, valid |-> fits, id |-> id, addr |-> addr,
                           vals |-> value]
  BY DEF Decode
<1>5. /\ Len(vals) <= kMaxNumValues
      /\ Decode(line).addr = Leading(line)
      /\ Decode(line).vals = SubSeq(vals, 1, n)
  <2>1. addr = Leading(line) /\ value = SubSeq(vals, 1, n)
        /\ (fits => Len(vals) <= kMaxNumValues)
    <3>1. "MRD" \in HasAddr
      BY DEF HasAddr
    <3>. HIDE DEF vals, n, addrAt
    <3>. QED
      BY <1>2, <3>1 DEF Leading
  <2>2. ~ Rejected(type).valid
    BY DEF Rejected
  <2>. HIDE DEF vals, n, addrAt, fits, id, addr, value
  <2>3. line.start
    BY <1>4, <2>2
  <2>4. Decode(line).valid = fits /\ Decode(line).addr = addr /\ Decode(line).vals = value
    BY <1>4, <2>3
  <2>. QED
    BY <2>1, <2>4
<1>6. SubSeq(vals, 1, n) = vals
  <2>. HIDE DEF vals, m
  <2>1. n = m
    BY <1>2, <1>3, <1>5, PacketAssumption
  <2>. HIDE DEF n
  <2>2. SubSeq(vals, 1, Len(vals)) = vals
    BY <1>3
  <2>. QED
    BY <1>3, <2>1, <2>2
<1>. QED
  <2>. HIDE DEF vals, n
  <2>. QED
    BY <1>3, <1>5, <1>6

\* The sentence of a multiple read: the address, and the values there is room for.
LEMMA EncodeRead ==
  ASSUME NEW p \in Packet, p.type = "MRD"
  PROVE  LET n == NumPrinted(p.addr, p.vals)
             f == Encode(p).fields
         IN  /\ f = <<AddrText(p.addr)>> \o SubSeq(p.vals, 1, n)
             /\ n \in 0 .. Len(p.vals) /\ Len(f) = 1 + n
             /\ f[1] = AddrText(p.addr)
             /\ \A k \in 1 .. n : f[k+1] = p.vals[k] /\ f[k+1] \in Text
<1> DEFINE n == NumPrinted(p.addr, p.vals)
           a == AddrText(p.addr)
           v == SubSeq(p.vals, 1, n)
           f == Encode(p).fields
<1>1. p.vals \in Seq(Text) /\ p.addr \in Int
  BY DEF Packet
<1>2. n \in 0 .. Len(p.vals) /\ a \in Text
  BY <1>1, NumPrintedType, TextTypes
<1>3. f = (<<>> \o <<a>>) \o v
  BY DEF Encode, Fields, HasId, HasAddr, HasValue
<1>. HIDE DEF n, a, f
<1>4. /\ v \in Seq(Text) /\ Len(v) = n /\ \A k \in 1 .. n : v[k] = p.vals[k] /\ v[k] \in Text
  BY <1>1, <1>2
<1>. HIDE DEF v
<1>5. f = <<a>> \o v /\ Len(f) = 1 + n /\ f[1] = a /\ \A k \in 1 .. n : f[k+1] = v[k]
  BY <1>2, <1>3, <1>4
<1>. QED
  BY <1>2, <1>4, <1>5 DEF n, a, v, f

LEMMA EncodeShortRead ==
  ASSUME NEW p \in Packet, p.type = "MRD", p.valid, ShortPacket(p)
  PROVE  ShortRead(Encode(p)) /\ Leading(Encode(p)) = p.addr
<1> DEFINE f == Encode(p).fields
           n == NumPrinted(p.addr, p.vals)
<1>1. /\ n \in 0 .. Len(p.vals) /\ Len(f) = 1 + n /\ f[1] = AddrText(p.addr)
      /\ \A k \in 1 .. n : f[k+1] = p.vals[k]
  BY EncodeRead
<1>2. Leading(Encode(p)) = p.addr
  BY <1>1 DEF Leading, ToNum, AddrText
<1>3. p.vals \in Seq(Text) /\ Len(p.vals) \in Nat
  BY LenProperties DEF Packet
<1>. HIDE DEF f, n
<1>4. \A k \in 2 .. Len(f) : f[k].len <= Longest(p.addr)
  <2>. SUFFICES ASSUME NEW k \in 2 .. Len(f) PROVE f[k].len <= Longest(p.addr)
    OBVIOUS
  <2>1. k - 1 \in 1 .. n /\ (k - 1) + 1 = k /\ k - 1 \in 1 .. Len(p.vals)
    BY <1>1, <1>3
  <2>2. f[k] = p.vals[k-1]
    BY <1>1, <2>1
  <2>. QED
    BY <2>1, <2>2 DEF ShortPacket
<1>. QED
  BY <1>2, <1>4 DEF ShortRead, f

\* The concatenations of Fields, of one-field sequences.
LEMMA TupleConcat ==
  ASSUME NEW x \in Text, NEW y \in Text, NEW z \in Text
  PROVE  /\ <<x>> \o <<>> = <<x>> /\ <<>> \o <<x>> = <<x>>
         /\ <<x>> \o <<y>> = <<x, y>> /\ <<x, y>> \o <<z>> = <<x, y, z>>
         /\ <<x, y>> \o <<>> = <<x, y>>
<1>1. <<x>> \in Seq(Text) /\ <<x, y>> \in Seq(Text)
  OBVIOUS
<1>2. <<x>> \o <<>> = <<x>> /\ <<>> \o <<x>> = <<x>> /\ <<x, y>> \o <<>> = <<x, y>>
  BY <1>1, ConcatEmptySeq
<1>3. <<x>> \o <<y>> = Append(<<x>>, y) /\ <<x, y>> \o <<z>> = Append(<<x, y>>, z)
  BY <1>1, AppendIsConcat
<1>4. <<x, y>> = Append(<<x>>, y) /\ <<x, y, z>> = Append(<<x, y>>, z)
  OBVIOUS
<1>. QED
  BY <1>2, <1>3, <1>4

\* A long enough field and a long enough sentence for every packet a cell transmits,
\* with its end token.
Roomy == kMaxPacketFieldLen > 16 /\ kMaxPacketLen > kMaxPacketFieldLen + 25

\* How long the contents of a packet are: those of a multiple read had room for a field
\* before the last value, the others have three fields at most.
LEMMA EncodeLength ==
  ASSUME NEW p \in Packet, ShortPacket(p), p.type = "MRD" => p.valid
  PROVE  /\ ContentsLen(Fields(p)) \in Int
         /\ \/ ContentsLen(Fields(p)) <= kMaxPacketFieldLen + 14
            \/ ContentsLen(Fields(p)) <= kMaxPacketLen - kMaxPacketFieldLen + 5
<1> DEFINE i == IdText(p.id)
           a == AddrText(p.addr)
           f == Fields(p)
<1>1. kMaxPacketLen \in Int /\ kMaxPacketFieldLen \in Int /\ kMaxPacketFieldLen > 0
  BY PacketAssumption
<1>2. /\ p.type \in PacketTypes /\ p.id \in Int /\ p.addr \in Int /\ p.vals \in Seq(Text)
  BY PacketAssumption DEF Packet, Id
<1>3. /\ i \in Text /\ i.len \in 0 .. 5
      /\ a \in Text /\ a.len \in 0 .. 8
  BY <1>2, TextTypes, TextLengths
<1>4. ASSUME p.type \in HasValue
      PROVE  \E v \in Text : p.vals = <<v>> /\ v.len < kMaxPacketFieldLen /\ v.len \in Int
  <2>1. Len(p.vals) = 1 /\ p.vals[1].len < kMaxPacketFieldLen
    BY <1>4 DEF Packet, ShortPacket
  <2>2. p.vals = <<p.vals[1]>> /\ p.vals[1] \in Text
    BY <1>2, <2>1
  <2>3. p.vals[1].len \in Int
    BY <2>2 DEF Text
  <2>. QED
    BY <2>1, <2>2, <2>3
<1>5. SUFFICES /\ ContentsLen(f) \in Int
               /\ \/ ContentsLen(f) <= kMaxPacketFieldLen + 14
                  \/ ContentsLen(f) <= kMaxPacketLen - kMaxPacketFieldLen + 5
  OBVIOUS
<1>6. CASE p.type = "DIS"
  <2>1. f = <<i>>
    BY <1>6 DEF Fields, HasId, HasAddr, HasValue
  <2>2. ContentsLen(<<i>>) = i.len
    BY <1>3, ContentsShort
  <2>. HIDE DEF f, i, a
  <2>. QED
    BY <1>1, <1>3, <2>1, <2>2
<1>7. CASE p.type = "SRD"
  <2>1. f = <<i, a>>
    <3>1. f = (<<i>> \o <<a>>) \o <<>>
      BY <1>7 DEF Fields, HasId, HasAddr, HasValue
    <3>. HIDE DEF f, i, a
    <3>. QED
      BY <1>3, <3>1, TupleConcat
  <2>2. ContentsLen(<<i, a>>) = i.len + 1 + a.len
    BY <1>3, ContentsShort
  <2>. HIDE DEF f, i, a
  <2>. QED
    BY <1>1, <1>3, <2>1, <2>2
<1>8. CASE p.type \in HasValue
  <2>1. PICK v \in Text : p.vals = <<v>> /\ v.len < kMaxPacketFieldLen /\ v.len \in Int
    BY <1>4, <1>8
  <2>2. f \in {<<a, v>>, <<i, a, v>>, <<i, v>>}
    <3>1. \/ f = (<<>> \o <<a>>) \o <<v>>
          \/ f = (<<i>> \o <<a>>) \o <<v>>
          \/ f = (<<i>> \o <<>>) \o <<v>>
      BY <1>8, <2>1 DEF Fields, HasId, HasAddr, HasValue
    <3>. HIDE DEF f, i, a
    <3>2. <<>> \o <<a>> = <<a>> /\ <<i>> \o <<a>> = <<i, a>> /\ <<i>> \o <<>> = <<i>>
      BY <1>3, TupleConcat
    <3>3. /\ <<a>> \o <<v>> = <<a, v>>
          /\ <<i, a>> \o <<v>> = <<i, a, v>>
          /\ <<i>> \o <<v>> = <<i, v>>
      BY <1>3, TupleConcat
    <3>. QED
      BY <3>1, <3>2, <3>3, Zenon
  <2>3. /\ ContentsLen(<<a, v>>) = a.len + 1 + v.len
        /\ ContentsLen(<<i, v>>) = i.len + 1 + v.len
        /\ ContentsLen(<<i, a, v>>) = i.len + 1 + a.len + 1 + v.len
    BY <1>3, ContentsShort
  <2>. HIDE DEF f, i, a
  <2>. QED
    BY <1>1, <1>3, <2>1, <2>2, <2>3
<1>9. CASE p.type = "MRD"
  <2> DEFINE n == NumPrinted(p.addr, p.vals)
             upto(k) == <<a>> \o SubSeq(p.vals, 1, k)
  <2>1. f = upto(n) /\ n \in 0 .. Len(p.vals)
    BY <1>9, EncodeRead DEF Encode
  <2>2. Len(p.vals) \in Nat
    BY <1>2, LenProperties
  <2>3. CASE n = 0
    <3>1. f = <<a>>
      <4>1. f = <<a>> \o SubSeq(p.vals, 1, 0)
        BY <2>1, <2>3
      <4>2. SubSeq(p.vals, 1, 0) = <<>>
        BY <1>2
      <4>. HIDE DEF f, a
      <4>. QED
        BY <1>3, <4>1, <4>2, TupleConcat
    <3>2. ContentsLen(<<a>>) = a.len
      BY <1>3, ContentsShort
    <3>. HIDE DEF f, a
    <3>. QED
      BY <1>1, <1>3, <3>1, <3>2
  <2>4. CASE n # 0
    <3>1. n \in 1 .. Len(p.vals) /\ n - 1 \in 0 .. Len(p.vals) - 1 /\ n - 1 < n
          /\ n - 1 \in 0 .. n - 1
      BY <2>1, <2>2, <2>4
    <3>2. HasRoom(p.addr, p.vals, n - 1)
      BY <1>2, <3>1, NumPrintedType
    <3>3. ContentsLen(upto(n-1)) < kMaxPacketLen - kMaxPacketFieldLen - 10
      BY <1>1, <3>2 DEF HasRoom, kMaxPacketContentsLen, kPacketHeaderLen, kPacketTailLen
    <3>4. p.vals[n] \in Text /\ p.vals[n].len <= 15
      <4>1. p.vals[n].len <= Longest(p.addr)
        BY <1>9, <3>1 DEF ShortPacket
      <4>2. p.vals[n] \in Text
        BY <1>2, <3>1, ElementOfSeq
      <4>3. p.vals[n].len \in Int
        BY <4>2 DEF Text
      <4>. QED
        BY <4>1, <4>2, <4>3 DEF Longest
    <3>5. p.vals[n].len \in Int
      BY <3>4 DEF Text
    <3>. HIDE DEF n, a
    <3>6. upto(n-1) \in Seq(Text) /\ upto(n) = Append(upto(n-1), p.vals[n])
      BY <1>2, <1>3, <2>2, <3>1
    <3>7. /\ ContentsLen(upto(n-1)) \in Int
          /\ ContentsLen(upto(n)) = ContentsLen(upto(n-1)) + 1 + p.vals[n].len
      BY <3>4, <3>6, ContentsAppend
    <3>8. ContentsLen(f) = ContentsLen(upto(n))
      BY <2>1
    <3> DEFINE before == ContentsLen(upto(n-1))
    <3>. HIDE DEF before, f, upto
    <3>9. before \in Int /\ before < kMaxPacketLen - kMaxPacketFieldLen - 10
          /\ ContentsLen(f) = before + 1 + p.vals[n].len
      BY <3>3, <3>7, <3>8 DEF before
    <3>. QED
      BY <1>1, <3>4, <3>5, <3>9
  <2>. QED
    BY <2>3, <2>4
<1>. QED
  BY <1>2, <1>6, <1>7, <1>8, <1>9 DEF PacketTypes, HasValue

LEMMA EncodeFits ==
  ASSUME Roomy, NEW p \in Packet, ShortPacket(p), p.type = "MRD" => p.valid
  PROVE  FitsWithEnd(Fields(p))
<1> DEFINE n == ContentsLen(Fields(p))
<1>1. /\ n \in Int
      /\ n <= kMaxPacketFieldLen + 14 \/ n <= kMaxPacketLen - kMaxPacketFieldLen + 5
  BY EncodeLength
<1>. HIDE DEF n
<1>2. n < kMaxPacketLen - 11
  BY <1>1, PacketAssumption DEF Roomy
<1>. QED
  BY <1>1, <1>2, PacketAssumption DEF FitsWithEnd, kPacketHeaderLen, kPacketTailLen, n

\* What FromString() makes of a sentence is short.
LEMMA DecodeShort ==
  ASSUME NEW line \in GoodLine, IsValid(line), ShortRead(line)
  PROVE  ShortPacket(Decode(line))
<1>1. Decode(line) \in Packet /\ Decode(line).type = line.hdr
  BY DecodeType
<1>2. ASSUME line.hdr \in HasValue
      PROVE  Decode(line).vals[1].len < kMaxPacketFieldLen
  <2> DEFINE type == line.hdr
             addrAt == IF type \in HasId THEN 2 ELSE 1
             valsAt == IF type \in HasAddr THEN addrAt + 1 ELSE addrAt
             vals == [i \in 1 .. Len(line.fields) - valsAt + 1 |->
                        Cut(line.fields[valsAt + i - 1])]
  <2>1. /\ line.fields \in Seq(Text) /\ Len(line.fields) \in Nat
        /\ Len(line.fields) >= NumFields(type) /\ type \in PacketTypes
    BY LenProperties DEF GoodLine, Line, WellFormed, IsValid
  <2>2. valsAt \in Nat \ {0} /\ Len(line.fields) >= valsAt
    BY <1>2, <2>1 DEF NumFields, HasId, HasAddr, HasValue, PacketTypes
  <2>3. Decode(line).vals[1] \in {Empty, vals[1]}
    <3>1. type # "MRD"
      BY <1>2 DEF HasValue
    <3> DEFINE value == vals[1]
    <3>2. Decode(line).vals \in {<<Empty>>, <<value>>}
      BY <1>2, <3>1 DEF Decode, Rejected
    <3>. HIDE DEF value
    <3>3. Decode(line).vals[1] \in {Empty, value}
      BY <3>2
    <3>. QED
      BY <3>3 DEF value
  <2>4. vals[1] = Cut(line.fields[valsAt])
    <3>. HIDE DEF valsAt
    <3>1. 1 \in 1 .. Len(line.fields) - valsAt + 1 /\ valsAt + 1 - 1 = valsAt
      BY <2>1, <2>2
    <3>. QED
      BY <3>1
  <2>5. Cut(line.fields[valsAt]).len < kMaxPacketFieldLen
    <3>. HIDE DEF valsAt
    <3>1. line.fields[valsAt] \in Text
      BY <2>1, <2>2, ElementOfSeq
    <3>. QED
      BY <3>1, TextLengths
  <2>6. Empty.len < kMaxPacketFieldLen
    BY PacketAssumption DEF Empty
  <2>. HIDE DEF vals
  <2>. QED
    BY <2>3, <2>4, <2>5, <2>6
<1>3. ASSUME line.hdr = "MRD", Decode(line).valid, NEW k \in 1 .. Len(Decode(line).vals)
      PROVE  Decode(line).vals[k].len <= Longest(Decode(line).addr)
  <2>1. /\ Decode(line).addr = Leading(line)
        /\ k \in 1 .. Len(line.fields) - 1
        /\ Decode(line).vals[k] = Cut(line.fields[k+1])
    BY <1>3, DecodeRead
  <2>2. line.fields \in Seq(Text) /\ Len(line.fields) \in Nat
    BY LenProperties DEF GoodLine, Line
  <2>3. k + 1 \in 2 .. Len(line.fields) /\ k + 1 \in 1 .. Len(line.fields)
    BY <2>1, <2>2
  <2> DEFINE t == line.fields[k+1]
  <2>4. t \in Text /\ t.len <= Longest(Leading(line))
    BY <1>3, <2>2, <2>3, ElementOfSeq DEF ShortRead
  <2>. HIDE DEF t
  <2>5. Cut(t).len <= t.len /\ Cut(t).len \in Int /\ t.len \in Int
    BY <2>4, TextLengths DEF Text
  <2>6. Longest(Leading(line)) \in Int
    BY DEF Longest
  <2>7. Cut(t).len <= Longest(Leading(line))
    BY <2>4, <2>5, <2>6
  <2>. QED
    BY <2>1, <2>7 DEF t
<1>. QED
  BY <1>1, <1>2, <1>3 DEF ShortPacket

\* What a handler transmits is short, when what it is given is.  A multiple read it
\* passes on was not refused, has the address that was asked for and one value more.
LEMMA HandleShort ==
  ASSUME NEW c \in Cell, NEW p \in Packet, ShortPacket(p)
  PROVE  LET q == Handle(c, p).out
         IN  /\ ShortPacket(q)
             /\ q.type = "MRD" => /\ p.type = "MRD" /\ p.valid /\ q.valid
                                  /\ q.addr = p.addr /\ p.addr \in Readable
                                  /\ Len(p.vals) < kMaxNumValues
                                  /\ Len(q.vals) = Len(p.vals) + 1
<1> DEFINE q == Handle(c, p).out
           w == WriteRegister(c, p.addr, p.vals[1])
           Answer == {Response(c, t) : t \in Text}
           v == Cut(ReadRegister(c, p.addr))
           more == [p EXCEPT !.vals = Append(@, v)]
<1>1. /\ p.type \in PacketTypes /\ p.valid \in BOOLEAN /\ p.vals \in Seq(Text)
      /\ (p.type \in HasValue => Len(p.vals) = 1 /\ p.vals[1] \in Text)
  BY DEF Packet
<1>2. \A r \in Answer : r.type = "SRS" /\ ShortPacket(r)
  <2>. SUFFICES ASSUME NEW t \in Text
                PROVE  Response(c, t).type = "SRS" /\ ShortPacket(Response(c, t))
    OBVIOUS
  <2>1. Response(c, t).vals[1] = Cut(t) /\ Response(c, t).type = "SRS"
    BY DEF Response
  <2>2. Cut(t).len < kMaxPacketFieldLen
    BY TextLengths
  <2>. QED
    BY <2>1, <2>2 DEF ShortPacket
<1>3. \A code \in Nat : Error(c, code) \in Answer
  BY TextTypes DEF Error
<1>4. p.type \in {"MWR", "SWR"} => w.err \in Nat
  BY <1>1, WriteRegisterType DEF HasValue
<1>. HIDE DEF Answer, w
<1>5. \/ q \in Answer
      \/ q = p /\ p.type # "MRD"
      \/ q = [p EXCEPT !.id = (p.id + 1) % IdSpace] /\ p.type = "DIS"
      \/ /\ q = more /\ p.type = "MRD" /\ p.valid
         /\ p.addr \in Readable /\ ~ (Len(p.vals) >= kMaxNumValues)
  <2>1. CASE ~ p.valid
    BY <2>1, <1>3 DEF Handle, Result, kErrCodeReceivedInvalidPacket
  <2>2. CASE p.valid /\ p.type = "DIS"
    BY <2>2 DEF Handle, DISPacketHandler, Result
  <2>3. CASE p.valid /\ p.type = "MRD"
    BY <2>3, <1>3 DEF Handle, MRDPacketHandler, Result,
       kErrCodePacketLengthExceeded, kErrCodeAddrNotRecognized
  <2>4. CASE p.valid /\ p.type = "MWR"
    <3>1. q = IF w.err = kErrCodeNone THEN p ELSE Error(c, w.err)
      BY <2>4 DEF Handle, MWRPacketHandler, Result, w
    <3>. QED
      BY <1>3, <1>4, <2>4, <3>1
  <2>5. CASE p.valid /\ p.type = "SRD"
    <3>1. ReadRegister(c, p.addr) \in Text
      BY ReadRegisterType
    <3>2. Response(c, ReadRegister(c, p.addr)) \in Answer
      BY <3>1 DEF Answer
    <3>. QED
      BY <1>3, <2>5, <3>2 DEF Handle, SRDPacketHandler, Result, kErrCodeAddrNotRecognized
  <2>6. CASE p.valid /\ p.type = "SWR"
    <3>1. q = p \/ q = Error(c, w.err)
      BY <2>6 DEF Handle, SWRPacketHandler, Result, w
    <3>. QED
      BY <1>3, <1>4, <2>6, <3>1
  <2>7. CASE p.valid /\ p.type = "SRS"
    BY <2>7 DEF Handle, SRSPacketHandler, Result
  <2>. QED
    BY <1>1, <2>1, <2>2, <2>3, <2>4, <2>5, <2>6, <2>7 DEF PacketTypes
<1>6. CASE q \in Answer
  <2>. HIDE DEF q
  <2>1. q.type = "SRS" /\ ShortPacket(q)
    BY <1>2, <1>6
  <2>. QED
    BY <2>1 DEF q
<1>7. CASE q = p /\ p.type # "MRD"
  BY <1>7
<1>8. CASE q = [p EXCEPT !.id = (p.id + 1) % IdSpace] /\ p.type = "DIS"
  <2>. HIDE DEF q
  <2>1. q.type = "DIS"
    BY <1>8 DEF Packet
  <2>2. ShortPacket(q)
    BY <2>1 DEF ShortPacket, HasValue
  <2>. QED
    BY <2>1, <2>2 DEF q
<1>9. CASE /\ q = more /\ p.type = "MRD" /\ p.valid
           /\ p.addr \in Readable /\ ~ (Len(p.vals) >= kMaxNumValues)
  <2>1. v \in Text /\ v.len <= Longest(p.addr)
    BY ReadLength
  <2>2. more.type = p.type /\ more.valid = p.valid /\ more.addr = p.addr
        /\ more.vals = Append(p.vals, v)
    BY DEF Packet
  <2>. HIDE DEF v, more, q
  <2>3. Len(p.vals) \in Nat /\ kMaxNumValues \in Nat
    BY <1>1, LenProperties, PacketAssumption
  <2>4. /\ Len(more.vals) = Len(p.vals) + 1 /\ more.vals[Len(p.vals) + 1] = v
        /\ \A k \in 1 .. Len(p.vals) : more.vals[k] = p.vals[k]
    BY <1>1, <2>1, <2>2, AppendProperties
  <2>5. \A k \in 1 .. Len(p.vals) : p.vals[k].len <= Longest(p.addr)
    BY <1>9 DEF ShortPacket
  <2>6. \A k \in 1 .. Len(more.vals) : more.vals[k].len <= Longest(p.addr)
    <3>. SUFFICES ASSUME NEW k \in 1 .. Len(more.vals)
                  PROVE  more.vals[k].len <= Longest(p.addr)
      OBVIOUS
    <3>1. k \in 1 .. Len(p.vals) \/ k = Len(p.vals) + 1
      BY <2>3, <2>4
    <3>. QED
      BY <2>1, <2>4, <2>5, <3>1
  <2>7. ShortPacket(more)
    BY <1>9, <2>2, <2>6 DEF ShortPacket, HasValue
  <2>8. Len(p.vals) < kMaxNumValues
    BY <1>9, <2>3
  <2>. QED
    BY <1>9, <2>2, <2>4, <2>7, <2>8 DEF q
<1>. QED
  <2>. HIDE DEF q, more
  <2>. QED
    BY <1>5, <1>6, <1>7, <1>8, <1>9

\* A sentence has room for n values of a register, of any length a cell prints.
RoomFor(addr, n) ==
  AddrText(addr).len + (n - 1) * (Longest(addr) + 1)
    < kMaxPacketContentsLen - kMaxPacketFieldLen - 1

\* The contents with the first j values.
LEMMA ContentsUpto ==
  ASSUME NEW addr \in Int, NEW vals \in Seq(Text),
         \A k \in 1 .. Len(vals) : vals[k].len <= Longest(addr)
  PROVE  \A j \in 0 .. Len(vals) :
           LET n == ContentsLen(<<AddrText(addr)>> \o SubSeq(vals, 1, j))
           IN  n \in Int /\ n <= AddrText(addr).len + j * (Longest(addr) + 1)
<1> DEFINE a == AddrText(addr)
           b == Longest(addr) + 1
           upto(j) == <<a>> \o SubSeq(vals, 1, j)
           S == {j \in Nat : j <= Len(vals) =>
                   ContentsLen(upto(j)) \in Int /\ ContentsLen(upto(j)) <= a.len + j * b}
<1>1. a \in Text /\ a.len \in Int /\ b \in Int
  <2>1. a \in Text
    BY TextTypes
  <2>2. b \in Int
    BY DEF Longest
  <2>. HIDE DEF a
  <2>. QED
    BY <2>1, <2>2 DEF Text
<1>2. Len(vals) \in Nat /\ \A k \in 1 .. Len(vals) : vals[k] \in Text
  BY LenProperties, ElementOfSeq
<1>3. \A k \in 1 .. Len(vals) : vals[k].len \in Int /\ vals[k].len + 1 <= b
  <2>. SUFFICES ASSUME NEW k \in 1 .. Len(vals)
                PROVE  vals[k].len \in Int /\ vals[k].len + 1 <= b
    OBVIOUS
  <2>1. vals[k].len \in Int
    BY <1>2 DEF Text
  <2>2. vals[k].len <= Longest(addr) /\ Longest(addr) \in Int
    BY DEF Longest
  <2>. QED
    BY <2>1, <2>2
<1>. HIDE DEF a, b
<1>4. 0 \in S
  <2>1. SubSeq(vals, 1, 0) = <<>>
    OBVIOUS
  <2>2. upto(0) = <<a>>
    BY <1>1, <2>1, TupleConcat
  <2>3. ContentsLen(<<a>>) = a.len
    BY <1>1, ContentsShort
  <2>4. 0 * b = 0
    BY <1>1
  <2>. HIDE DEF upto
  <2>. QED
    BY <1>1, <2>2, <2>3, <2>4
<1>5. ASSUME NEW j \in Nat, j \in S
      PROVE  j + 1 \in S
  <2>. SUFFICES ASSUME j + 1 <= Len(vals)
                PROVE  /\ ContentsLen(upto(j + 1)) \in Int
                       /\ ContentsLen(upto(j + 1)) <= a.len + (j + 1) * b
    OBVIOUS
  <2> DEFINE before == ContentsLen(upto(j))
             after == ContentsLen(upto(j + 1))
             len == vals[j+1].len
             jb == j * b
             j1b == (j + 1) * b
  <2>1. j + 1 \in 1 .. Len(vals) /\ j <= Len(vals)
    BY <1>2
  <2>2. before \in Int /\ before <= a.len + jb
    BY <1>5, <2>1
  <2>3. upto(j) \in Seq(Text) /\ upto(j + 1) = Append(upto(j), vals[j+1])
    BY <1>1, <1>2, <2>1
  <2>4. after = before + 1 + len
    <3>. HIDE DEF upto
    <3>. QED
      BY <1>2, <2>1, <2>3, ContentsAppend
  <2>5. len \in Int /\ len + 1 <= b
    BY <1>3, <2>1
  <2>6. j1b = jb + b /\ jb \in Int
    <3>1. \A x, y \in Int : (x + 1) * y = x * y + y /\ x * y \in Int
      OBVIOUS
    <3>2. j \in Int /\ b \in Int
      BY <1>1
    <3>. QED
      BY <3>1, <3>2
  <2>7. a.len \in Int /\ b \in Int
    BY <1>1
  <2> DEFINE al == a.len
  <2>. HIDE DEF upto, before, after, jb, j1b, len, al
  <2>8. before \in Int /\ before <= al + jb /\ al \in Int
    BY <2>2, <2>7 DEF al
  <2>9. after \in Int /\ after <= al + j1b
    BY <2>4, <2>5, <2>6, <2>7, <2>8
  <2>. QED
    BY <2>9 DEF after, j1b, al
<1>6. Nat \subseteq S
  <2>. HIDE DEF S
  <2>. QED
    BY <1>4, <1>5, NatSetInduction
<1>7. \A j \in 0 .. Len(vals) :
        ContentsLen(upto(j)) \in Int /\ ContentsLen(upto(j)) <= a.len + j * b
  <2>. HIDE DEF upto
  <2>. QED
    BY <1>2, <1>6
<1>. QED
  BY <1>7 DEF a, b

LEMMA PrintedAll ==
  ASSUME NEW p \in Packet, p.type = "MRD", p.valid, ShortPacket(p),
         RoomFor(p.addr, Len(p.vals))
  PROVE  Len(Encode(p).fields) = 1 + Len(p.vals)
<1> DEFINE m == Len(p.vals)
           a == AddrText(p.addr).len
           n == NumPrinted(p.addr, p.vals)
           limit == kMaxPacketContentsLen - kMaxPacketFieldLen - 1
           sum(j) == ContentsLen(<<AddrText(p.addr)>> \o SubSeq(p.vals, 1, j))
<1>1. p.addr \in Int /\ p.vals \in Seq(Text) /\ m \in Nat
  BY LenProperties DEF Packet
<1>2. a \in Int /\ limit \in Int
  BY <1>1, TextLengths, PacketAssumption
     DEF kMaxPacketContentsLen, kPacketHeaderLen, kPacketTailLen
<1>3. \A j \in 0 .. m : sum(j) \in Int /\ sum(j) <= a + j * (Longest(p.addr) + 1)
  <2>1. \A k \in 1 .. Len(p.vals) : p.vals[k].len <= Longest(p.addr)
    BY DEF ShortPacket
  <2>. QED
    BY <1>1, <2>1, ContentsUpto
<1>4. a + (m - 1) * (Longest(p.addr) + 1) < limit
  BY DEF RoomFor
<1>5. n \in 0 .. m /\ \A j \in 0 .. m - 1 : j < n <=> \A i \in 0 .. j : sum(i) < limit
  BY <1>1, NumPrintedType DEF HasRoom
<1>. HIDE DEF m, a, n, limit, sum
<1>6. \A j \in 0 .. m - 1 : sum(j) < limit
  <2>. SUFFICES ASSUME NEW j \in 0 .. m - 1 PROVE sum(j) < limit
    OBVIOUS
  <2>1. j * (Longest(p.addr) + 1) \in Int
        /\ j * (Longest(p.addr) + 1) <= (m - 1) * (Longest(p.addr) + 1)
        /\ (m - 1) * (Longest(p.addr) + 1) \in Int
    BY <1>1 DEF Longest
  <2>2. sum(j) \in Int /\ sum(j) <= a + j * (Longest(p.addr) + 1)
    BY <1>1, <1>3
  <2>. QED
    BY <1>2, <1>4, <2>1, <2>2
<1>7. n = m
  <2>1. CASE m = 0
    BY <1>5, <2>1
  <2>2. CASE m # 0
    <3>1. m - 1 \in 0 .. m - 1
      BY <1>1, <2>2
    <3>2. \A i \in 0 .. m - 1 : sum(i) < limit
      BY <1>6
    <3>3. m - 1 < n
      BY <1>5, <3>1, <3>2
    <3>. QED
      BY <1>1, <1>5, <3>3
  <2>. QED
    BY <2>1, <2>2
<1>8. Len(Encode(p).fields) = 1 + n
  BY EncodeRead DEF n
<1>. QED
  BY <1>7, <1>8 DEF m

\* What a cell makes of a sentence with short values has short values.  If it is a
\* multiple read it was one before, for the same register, which the cell has, and
\* the cell has added its value if there is room for it.
LEMMA ProcessRead ==
  ASSUME NEW c \in Cell, NEW line \in GoodLine, ShortRead(line),
         NEW l, Process(c, line).out = <<l>>
  PROVE  /\ ShortRead(l)
         /\ l.hdr = "MRD" =>
              /\ line.hdr = "MRD" /\ Leading(l) = Leading(line)
              /\ Leading(line) \in Readable /\ Len(line.fields) <= kMaxNumValues
              /\ RoomFor(Leading(line), Len(line.fields))
                   => Len(l.fields) = Len(line.fields) + 1
<1> DEFINE p == Decode(line)
           q == Handle(c, p).out
<1>1. IsValid(line) /\ l = Encode(q)
  BY DEF Process
<1>2. p \in Packet /\ p.type = line.hdr /\ ShortPacket(p)
  BY <1>1, DecodeType, DecodeShort
<1>3. q \in Packet
  BY <1>2, HandlePost DEF HandlerPost
<1>4. /\ ShortPacket(q)
      /\ q.type = "MRD" => /\ p.type = "MRD" /\ p.valid /\ q.valid
                           /\ q.addr = p.addr /\ p.addr \in Readable
                           /\ Len(p.vals) < kMaxNumValues
                           /\ Len(q.vals) = Len(p.vals) + 1
  BY <1>2, HandleShort
<1>5. l.hdr = q.type
  BY <1>1, <1>3, EncodeType
<1>6. CASE q.type # "MRD"
  BY <1>5, <1>6 DEF ShortRead
<1>7. CASE q.type = "MRD"
  <2>1. p.addr = Leading(line) /\ Len(p.vals) = Len(line.fields) - 1
    BY <1>1, <1>2, <1>4, <1>7, DecodeRead
  <2>2. ShortRead(l) /\ Leading(l) = q.addr
    BY <1>1, <1>3, <1>4, <1>7, EncodeShortRead
  <2>3. RoomFor(q.addr, Len(q.vals)) => Len(l.fields) = 1 + Len(q.vals)
    BY <1>1, <1>3, <1>4, <1>7, PrintedAll
  <2>4. Len(line.fields) \in Nat /\ kMaxNumValues \in Nat
    BY LenProperties, PacketAssumption DEF GoodLine, Line
  <2>. HIDE DEF p, q
  <2>5. Len(q.vals) = Len(line.fields) /\ Len(line.fields) <= kMaxNumValues
    BY <1>4, <1>7, <2>1, <2>4
  <2>6. RoomFor(Leading(line), Len(line.fields)) => Len(l.fields) = Len(line.fields) + 1
    <3>1. 1 + Len(line.fields) = Len(line.fields) + 1
      BY <2>4
    <3>. QED
      BY <1>4, <1>7, <2>1, <2>3, <2>5, <3>1
  <2>. QED
    BY <1>2, <1>4, <1>7, <2>1, <2>2, <2>5, <2>6
<1>. QED
  BY <1>6, <1>7

\* A sentence that no cell drops.
Complete(line) ==
  /\ line.hdr \in PacketTypes /\ line.start /\ line.end /\ line.sum = "xor"
  /\ ShortRead(line)

\* A cell makes one of it that no cell drops either.
LEMMA ProcessComplete ==
  ASSUME Roomy, NEW c \in Cell, NEW line \in GoodLine, Complete(line)
  PROVE  \E l \in GoodLine : Process(c, line).out = <<l>> /\ Complete(l)
<1> DEFINE p == Decode(line)
           q == Handle(c, p).out
           l == Encode(q)
<1>1. IsValid(line)
  BY DEF Complete, IsValid, ChecksumMatches
<1>2. p \in Packet /\ p.type = line.hdr /\ ShortPacket(p)
  BY <1>1, DecodeType, DecodeShort DEF Complete
<1>3. q \in Packet
  BY <1>2, HandlePost DEF HandlerPost
<1>4. ShortPacket(q) /\ (q.type = "MRD" => q.valid)
  BY <1>2, HandleShort
<1>5. FitsWithEnd(Fields(q))
  BY <1>3, <1>4, EncodeFits
<1>6. l \in GoodLine /\ l.hdr = q.type /\ q.type \in PacketTypes
  BY <1>3, EncodeType DEF Packet
<1>7. l.start /\ l.end /\ l.sum = "xor"
  BY <1>5 DEF Encode
<1>8. Process(c, line).out = <<l>>
  BY <1>1 DEF Process
<1>9. ShortRead(l)
  <2>. HIDE DEF l
  <2>. QED
    BY <1>8, ProcessRead DEF Complete
<1>. QED
  BY <1>6, <1>7, <1>8, <1>9 DEF Complete

\* So is what the master transmits; a multiple read starts without values.
LEMMA PacketizeComplete ==
  ASSUME NEW r \in Request
  PROVE  /\ Complete(Packetize(r))
         /\ r.type = "MRD" => /\ Len(Packetize(r).fields) = 1
                              /\ Leading(Packetize(r)) = r.addr
<1> DEFINE l == Packetize(r)
<1>1. l.start /\ l.end /\ l.sum = "xor" /\ l.hdr = r.type /\ r.type \in PacketTypes
  BY DEF Packetize, Request
<1>2. r.type = "MRD" => l.fields = <<AddrText(r.addr)>>
  <2>1. ASSUME r.type = "MRD" PROVE l.fields = <<AddrText(r.addr)>>
    <3>1. l.fields = (<<>> \o <<AddrText(r.addr)>>) \o r.vals
      BY <2>1 DEF Packetize, HasId, HasAddr
    <3>2. r.vals = <<>>
      <4>1. r.vals \in Seq(Text) /\ Len(r.vals) = 0
        BY <2>1 DEF Request, HasValue
      <4>. QED
        BY <4>1, EmptySeq
    <3>3. AddrText(r.addr) \in Text
      BY TextTypes DEF Request
    <3>. HIDE DEF l
    <3>. QED
      BY <3>1, <3>2, <3>3, TupleConcat
  <2>. QED
    BY <2>1
<1>. HIDE DEF l
<1>3. r.type = "MRD" => Len(l.fields) = 1 /\ Leading(l) = r.addr
  BY <1>2 DEF Leading, ToNum, AddrText
<1>4. ShortRead(l)
  BY <1>1, <1>3 DEF ShortRead
<1>. QED
  BY <1>1, <1>3, <1>4 DEF Complete, l

\* The buffer sizes of scbs_comms.hh.
CodeSizes == kMaxPacketLen = 200 /\ kMaxPacketFieldLen = 20 /\ kMaxNumValues = 20

\* With them a multiple read of a voltage or a current has room for every value a
\* packet object can hold.
LEMMA CodeHasRoom ==
  ASSUME CodeSizes, NEW addr \in {kRegAddrSetOutputVoltage, kRegAddrReadOutputCurrent},
         NEW n \in 1 .. kMaxNumValues
  PROVE  RoomFor(addr, n)
<1>1. kMaxPacketContentsLen - kMaxPacketFieldLen - 1 = 170
  BY SMT DEF CodeSizes, kMaxPacketContentsLen, kPacketHeaderLen, kPacketTailLen
<1>2. AddrText(addr).len = 4
  BY SMT DEF AddrText, kRegAddrSetOutputVoltage, kRegAddrReadOutputCurrent
<1>3. Longest(addr) + 1 = 7
  BY DEF Longest
<1>4. n \in Int /\ n <= 20
  BY DEF CodeSizes
<1>5. 4 + (n - 1) * 7 < 170
  BY <1>4
<1>. QED
  BY <1>1, <1>2, <1>3, <1>5 DEF RoomFor

=============================================================================
