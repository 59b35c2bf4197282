------------------------------ MODULE SCBSCell ------------------------------
(***************************************************************************)
(* The protocol half of one SCBS object: the register file and the packet  *)
(* handlers of scbs.cc, as operators from a cell and a line to the cell    *)
(* afterwards and the lines it transmits.  The chain (SCBSChain) and its   *)
(* atomic specification (SCBSPack) are both built from Process.            *)
(*                                                                         *)
(* A cell is the state the handlers read and write: cell_id_,              *)
(* output_voltage_ (in hundredths of a volt) and output_current_ (in       *)
(* hundredths of a milliamp).  The PWM level, the status LED and the UART  *)
(* buffer feed nothing back into a handler; they have modules of their own *)
(* (SCBSOutput, SCBSStatusLed, SCBSReceiver).                              *)
(***************************************************************************)
EXTENDS SCBSPacket

kRegAddrSetOutputVoltage    == 4096   \* 0x1000
kRegAddrReadOutputCurrent   == 8192   \* 0x2000
kRegAddrReadFirmwareVersion == 12288  \* 0x3000

kErrCodeNone                  == 0
kErrCodeAddrNotRecognized     == 1
kErrCodePacketLengthExceeded  == 2
kErrCodeWriteNotSupported     == 3
kErrCodeReceivedInvalidPacket == 15

kMaxOutputVoltage == 450
kMinOutputVoltage == 0

Voltage == kMinOutputVoltage .. kMaxOutputVoltage
Current == 0 .. 19995

\* output_voltage_ is a float: a voltage, or not a number.
NotANumber == -1
Setting    == Voltage \cup {NotANumber}

Cell == [id : Id, volt : Setting, amp : Current]

(***************************************************************************)
(* The texts the cell prints: "%.2f" of a setting or a reading, the        *)
(* version string "scbs_pico-0.1.0", "OK" and "ERR:%X".                    *)
(***************************************************************************)
FloatText(n) ==
  IF n = NotANumber THEN [k |-> "nan", n |-> 0, len |-> 3]
  ELSE [k |-> "num", n |-> n,
        len |-> IF n < 1000 THEN 4 ELSE IF n < 10000 THEN 5 ELSE 6]
VersionText == [k |-> "version", n |-> 0, len |-> 15]
CodeText(code) ==
  IF code = kErrCodeNone THEN [k |-> "ok", n |-> 0, len |-> 2]
                         ELSE [k |-> "err", n |-> code, len |-> 5]

Rail_NoMax(v) == \* mutant: only the lower rail
  IF v < kMinOutputVoltage THEN kMinOutputVoltage ELSE v

\* SetOutputVoltage(): what it returns, the voltage railed by the device specs.
Rail(v) ==
  IF v > kMaxOutputVoltage THEN kMaxOutputVoltage
  ELSE IF v < kMinOutputVoltage THEN kMinOutputVoltage ELSE v

\* The setting a text asks for, and gets: strtof, then SetOutputVoltage().  Both
\* comparisons with the rails are false for not-a-number.
SettingOf(text) == IF text.k = "nan" THEN NotANumber ELSE Rail(ToNum(text))

(***************************************************************************)
(* The register file.                                                      *)
(***************************************************************************)
WriteRegister_NoBreak(c, addr, text) == \* mutant: falls into the next case
  [cell |-> IF addr = kRegAddrSetOutputVoltage
              THEN [c EXCEPT !.volt = SettingOf(text)] ELSE c,
   err |-> kErrCodeWriteNotSupported,
   did |-> IF addr = kRegAddrSetOutputVoltage THEN "write" ELSE "nothing"]

WriteRegister(c, addr, text) ==
  IF addr = kRegAddrSetOutputVoltage
    THEN [cell |-> [c EXCEPT !.volt = SettingOf(text)],
          err |-> kErrCodeNone, did |-> "write"]
    ELSE [cell |-> c,
          err  |-> IF addr = kRegAddrReadOutputCurrent
                     THEN kErrCodeWriteNotSupported
                     ELSE kErrCodeAddrNotRecognized,
          did  |-> "nothing"]

Readable == {kRegAddrSetOutputVoltage, kRegAddrReadOutputCurrent,
             kRegAddrReadFirmwareVersion}

ReadRegister(c, addr) ==
  IF addr = kRegAddrSetOutputVoltage THEN FloatText(c.volt)
  ELSE IF addr = kRegAddrReadOutputCurrent THEN FloatText(c.amp)
  ELSE VersionText

(***************************************************************************)
(* What a handler transmits: a packet object, built from values.           *)
(***************************************************************************)
Response(c, text) ==
  [type |-> "SRS", valid |-> FALSE, id |-> c.id, addr |-> 0,
   vals |-> <<Cut(text)>>]

\* TransmitError(): also the success reply, with kErrCodeNone.
Error(c, code) == Response(c, CodeText(code))

\* did: what the handler changed, "write" a register, "name" the cell.
Result(c, p, did) == [cell |-> c, out |-> p, did |-> did]

(***************************************************************************)
(* The handlers.  Each starts with the IsValid() check of the object the   *)
(* subclass constructor left, and each transmits exactly one packet.       *)
(***************************************************************************)
DISPacketHandler_Echo(c, p) == \* mutant: transmits packet_in
  Result([c EXCEPT !.id = (p.id + 1) % IdSpace], p, "name")

DISPacketHandler_NoWrap(c, p) == \* mutant: a cell_id_ of more than 16 bits
  Result([c EXCEPT !.id = p.id + 1], [p EXCEPT !.id = p.id + 1], "name")

DISPacketHandler(c, p) ==
  LET id == (p.id + 1) % IdSpace
  IN  Result([c EXCEPT !.id = id], [p EXCEPT !.id = id], "name")

MWRPacketHandler_IfChanged(c, p) == \* mutant: skips a write that changes nothing
  LET w == WriteRegister(c, p.addr, p.vals[1])
  IN  IF w.cell = c THEN Result(c, p, "nothing") ELSE Result(w.cell, p, w.did)

MWRPacketHandler_NoReturn(c, p) == \* mutant: passes a refused packet on
  LET w == WriteRegister(c, p.addr, p.vals[1])
  IN  Result(w.cell, p, w.did)

MWRPacketHandler(c, p) ==
  LET w == WriteRegister(c, p.addr, p.vals[1])
  IN  Result(w.cell, IF w.err = kErrCodeNone THEN p ELSE Error(c, w.err), w.did)

MRDPacketHandler(c, p) ==
  Result(c,
    IF Len(p.vals) >= kMaxNumValues THEN Error(c, kErrCodePacketLengthExceeded)
    ELSE IF p.addr \notin Readable THEN Error(c, kErrCodeAddrNotRecognized)
    ELSE [p EXCEPT !.vals = Append(@, Cut(ReadRegister(c, p.addr)))],
    "nothing")

SWRPacketHandler_NoReply(c, p) == \* mutant: forwards what it executed
  LET w == WriteRegister(c, p.addr, p.vals[1])
  IN  IF p.id = c.id THEN Result(w.cell, p, w.did) ELSE Result(c, p, "nothing")

SWRPacketHandler(c, p) ==
  LET w == WriteRegister(c, p.addr, p.vals[1])
  IN  IF p.id = c.id THEN Result(w.cell, Error(c, w.err), w.did)
                     ELSE Result(c, p, "nothing")

SRDPacketHandler(c, p) ==
  Result(c,
    IF p.id # c.id THEN p
    ELSE IF p.addr \notin Readable THEN Error(c, kErrCodeAddrNotRecognized)
    ELSE Response(c, ReadRegister(c, p.addr)),
    "nothing")

SRSPacketHandler(c, p) == Result(c, p, "nothing")

Handle(c, p) ==
  CASE ~ p.valid ->
         Result(c, Error(c, kErrCodeReceivedInvalidPacket), "nothing")
    [] p.valid /\ p.type = "DIS" -> DISPacketHandler(c, p)
    [] p.valid /\ p.type = "MRD" -> MRDPacketHandler(c, p)
    [] p.valid /\ p.type = "MWR" -> MWRPacketHandler(c, p)
    [] p.valid /\ p.type = "SRD" -> SRDPacketHandler(c, p)
    [] p.valid /\ p.type = "SWR" -> SWRPacketHandler(c, p)
    [] p.valid /\ p.type = "SRS" -> SRSPacketHandler(c, p)

\* The packet part of Update(): a line that fails IsValid() is dropped without
\* a reply, any other is handled and answered or passed on with one line.
Process(c, line) ==
  IF IsValid(line)
    THEN LET r == Handle(c, Decode(line))
         IN  [cell |-> r.cell, out |-> <<Encode(r.out)>>, did |-> r.did]
    ELSE [cell |-> c, out |-> <<>>, did |-> "nothing"]

\* A cell after power-up: cell_id_ has no initializer and is not set by Init().
BootCells == {[id |-> i, volt |-> 0, amp |-> 0] : i \in Id}

\* What the master reads of a line: a response of OK, or of an error.
IsOk(line)  == line.hdr = "SRS" /\ line.fields[2].k = "ok"
IsErr(line) == line.hdr = "SRS" /\ line.fields[2].k = "err"

=============================================================================
