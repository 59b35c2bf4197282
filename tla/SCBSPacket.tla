----------------------------- MODULE SCBSPacket -----------------------------
(***************************************************************************)
(* The packet codec of the simulator chain: scbs_comms.hh and              *)
(* scbs_comms.cc.                                                          *)
(*                                                                         *)
(* A sentence on the wire is a Line: the header token, whether its first   *)
(* character is the '$' token, whether the '*' token is present, what the  *)
(* transmitted checksum reads as, and the comma separated fields.  A field *)
(* is a Text: what it reads as and how long it is, never its characters.   *)
(* A Packet is an object of one of the six BSPacket subclasses.            *)
(*                                                                         *)
(* Decode is the FromString chain, Encode is ToString with                 *)
(* PacketizeContents.  Both are what the six subclasses have in common,    *)
(* with the fields of each class given by HasId, HasAddr and HasValue.     *)
(***************************************************************************)
EXTENDS Integers, Sequences, FiniteSets

CONSTANTS
  kMaxPacketLen,       \* 200: size of every sentence buffer
  kMaxPacketFieldLen,  \* 20: size of a value field, with its '\0'
  kMaxNumValues,       \* 20: values an MRDPacket has room for
  IdSpace              \* 2^16: cell IDs are uint16_t

ASSUME PacketAssumption ==
  /\ kMaxPacketLen \in Nat
  /\ kMaxPacketFieldLen \in Nat \ {0}
  /\ kMaxNumValues \in Nat
  /\ IdSpace \in Nat \ {0}

kPacketHeaderLen == 6
kPacketTailLen == 3
kMaxPacketContentsLen == kMaxPacketLen - kPacketHeaderLen - kPacketTailLen

PacketTypes == {"DIS", "MRD", "MWR", "SRD", "SWR", "SRS"}

\* Which fields a packet of each type has, in this order on the wire.
HasId    == {"DIS", "SRD", "SWR", "SRS"}
HasAddr  == {"MRD", "MWR", "SRD", "SWR"}
HasValue == {"MWR", "SWR", "SRS"}

(***************************************************************************)
(* Texts.  k = "num": the text reads as the number n in its position (a    *)
(* decimal ID, a hexadecimal address, a voltage in hundredths of a volt).  *)
(* "nan" starts with the letters strtof reads as not-a-number.  Any other  *)
(* k does not start with a number, so strtoul and strtof read 0.           *)
(***************************************************************************)
Text == [k : {"num", "nan", "version", "ok", "err", "word"}, n : Int, len : Nat]

Id == 0 .. IdSpace - 1

Empty == [k |-> "word", n |-> 0, len |-> 0]

ToNum(t) == IF t.k = "num" THEN t.n ELSE 0

\* strncpy of at most kMaxPacketFieldLen - 1 characters.  Cutting a number
\* keeps the leading digits, which carry its value to the precision modelled.
Cut(t) == IF t.len < kMaxPacketFieldLen THEN t
          ELSE [t EXCEPT !.len = kMaxPacketFieldLen - 1]

\* The decimal text of an ID (%d) and the hexadecimal text of an address (%X).
IdText(id) ==
  [k |-> "num", n |-> id,
   len |-> IF id < 10 THEN 1 ELSE IF id < 100 THEN 2 ELSE IF id < 1000 THEN 3
           ELSE IF id < 10000 THEN 4 ELSE 5]
AddrText(addr) ==
  [k |-> "num", n |-> addr,
   len |-> IF addr < 16 THEN 1 ELSE IF addr < 256 THEN 2
           ELSE IF addr < 4096 THEN 3 ELSE IF addr < 65536 THEN 4 ELSE 8]

(***************************************************************************)
(* Lines and packets.  sum is what the transmitted checksum reads as:      *)
(* "xor" the XOR of the characters between the tokens, "zero" the number   *)
(* 0 (also what strtol returns for a text that is no number), "other"      *)
(* anything else.                                                          *)
(***************************************************************************)
Line == [hdr : PacketTypes \cup {"?"}, start : BOOLEAN, end : BOOLEAN,
         sum : {"xor", "zero", "other"}, fields : Seq(Text)]

\* The fields a FromString takes from a sentence without looking: strtok must
\* find them there.
NumFields(type) == (IF type \in HasId THEN 1 ELSE 0)
                 + (IF type \in HasAddr THEN 1 ELSE 0)
                 + (IF type \in HasValue THEN 1 ELSE 0)
WellFormed(line) ==
  line.hdr \in PacketTypes => Len(line.fields) >= NumFields(line.hdr)

Packet == {p \in [type : PacketTypes, valid : BOOLEAN, id : Id, addr : Int,
                  vals : Seq(Text)] : p.type \in HasValue => Len(p.vals) = 1}

\* Contents: the fields, each behind a comma but the first.
ContentsLen(fields) ==
  LET upto[k \in 0 .. Len(fields)] ==
        IF k = 0 THEN -1 ELSE upto[k-1] + 1 + fields[k].len
  IN  upto[Len(fields)]

(***************************************************************************)
(* ToString.  The number of values an MRD packet prints: one more as long  *)
(* as the contents so far leave room for a field and its delimiter.        *)
(***************************************************************************)
HasRoom_Tight(addr, vals, j) == \* mutant: room for one delimiter more
  ContentsLen(<<AddrText(addr)>> \o SubSeq(vals, 1, j))
    < kMaxPacketContentsLen - kMaxPacketFieldLen - 2

HasRoom(addr, vals, j) ==
  ContentsLen(<<AddrText(addr)>> \o SubSeq(vals, 1, j))
    < kMaxPacketContentsLen - kMaxPacketFieldLen - 1

NumPrinted_OneLess(addr, vals) == \* mutant: i + 1 < num_values
  Cardinality({j \in 0 .. Len(vals) - 2 : HasRoom(addr, vals, j)})

NumPrinted(addr, vals) ==
  Cardinality({j \in 0 .. Len(vals) - 1 :
                 \A i \in 0 .. j : HasRoom(addr, vals, i)})

Fields(p) ==
     (IF p.type \in HasId THEN <<IdText(p.id)>> ELSE <<>>)
  \o (IF p.type \in HasAddr THEN <<AddrText(p.addr)>> ELSE <<>>)
  \o (IF p.type \in HasValue THEN p.vals
      ELSE IF p.type = "MRD" THEN SubSeq(p.vals, 1, NumPrinted(p.addr, p.vals))
      ELSE <<>>)

FitsWithEnd_Field(fields) == \* mutant: the size of a field for that of a packet
  kPacketHeaderLen + 1 + ContentsLen(fields) + 1 < kMaxPacketFieldLen

\* "$BSxxx," contents "*": the '*' is the first character snprintf drops when
\* the sentence does not fit, and with it goes the end token.
FitsWithEnd(fields) ==
  kPacketHeaderLen + 1 + ContentsLen(fields) + 1 < kMaxPacketLen - kPacketTailLen

\* The sentence a packet object prints.
Encode(p) ==
  LET fields == Fields(p)
  IN  [hdr |-> p.type, start |-> TRUE, end |-> FitsWithEnd(fields),
       sum |-> IF FitsWithEnd(fields) THEN "xor" ELSE "zero",
       fields |-> fields]

(***************************************************************************)
(* FromString.  CalculateChecksum() returns 0 when a token is missing.     *)
(***************************************************************************)
ChecksumMatches(line) ==
  IF line.start /\ line.end THEN line.sum = "xor" ELSE line.sum = "zero"

\* BSPacket::FromString(): the base class check that Update() relies on.
IsValid(line) == line.end /\ ChecksumMatches(line) /\ line.hdr \in PacketTypes

\* The object a subclass constructor leaves when its own header comparison
\* fails: default fields, and is_valid_ still TRUE unless the class reset it.
Rejected(type) ==
  [type |-> type, valid |-> type \notin {"MRD", "SRD"}, id |-> 0, addr |-> 0,
   vals |-> IF type \in HasValue THEN <<Empty>> ELSE <<>>]

\* FromString() of the subclass of a line that passed IsValid.
Decode(line) ==
  LET type   == line.hdr
      addrAt == IF type \in HasId THEN 2 ELSE 1
      valsAt == IF type \in HasAddr THEN addrAt + 1 ELSE addrAt
      vals   == [i \in 1 .. Len(line.fields) - valsAt + 1 |->
                   Cut(line.fields[valsAt + i - 1])]
  IN  IF ~ line.start THEN Rejected(type)
      ELSE [type  |-> type,
            valid |-> type # "MRD" \/ Len(vals) <= kMaxNumValues,
            id    |-> IF type \in HasId
                        THEN ToNum(line.fields[1]) % IdSpace ELSE 0,
            addr  |-> IF type \in HasAddr
                        THEN ToNum(line.fields[addrAt]) ELSE 0,
            vals  |-> IF type = "MRD"
                        THEN SubSeq(vals, 1, IF Len(vals) < kMaxNumValues
                                             THEN Len(vals) ELSE kMaxNumValues)
                      ELSE IF type \in HasValue THEN <<vals[1]>>
                      ELSE <<>>]

(***************************************************************************)
(* The master's side, scbs_utils.py: a request as main() parses it from    *)
(* what the user typed, and packetize() with the format strings of main(). *)
(***************************************************************************)
Request == {r \in [type : PacketTypes, id : Id, addr : Nat, vals : Seq(Text)] :
              Len(r.vals) = IF r.type \in HasValue THEN 1 ELSE 0}

Packetize(r) ==
  [hdr |-> r.type, start |-> TRUE, end |-> TRUE, sum |-> "xor",
   fields |->   (IF r.type \in HasId THEN <<IdText(r.id)>> ELSE <<>>)
             \o (IF r.type \in HasAddr THEN <<AddrText(r.addr)>> ELSE <<>>)
             \o r.vals]

=============================================================================
