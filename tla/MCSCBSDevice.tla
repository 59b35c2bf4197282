---------------------------- MODULE MCSCBSDevice ----------------------------
(***************************************************************************)
(* Constants of the model-checking runs of SCBSDevice.                     *)
(***************************************************************************)
EXTENDS SCBSDevice

MCRequest(type, addr, vals) ==
  [type |-> type, id |-> 0, addr |-> addr, vals |-> vals]

Volts(k, n) == <<[k |-> k, n |-> n, len |-> 3]>>

\* Writes of a voltage and of not-a-number, a read of the current, a response on
\* its way, and a sentence with a wrong checksum.
MCLines ==
  {Packetize(MCRequest("MWR", kRegAddrSetOutputVoltage, Volts("num", 330))),
   Packetize(MCRequest("SWR", kRegAddrSetOutputVoltage, Volts("nan", 0))),
   Packetize(MCRequest("MRD", kRegAddrReadOutputCurrent, <<>>)),
   Packetize(MCRequest("SRS", 0, Volts("word", 0))),
   [Packetize(MCRequest("DIS", 0, <<>>)) EXCEPT !.sum = "other"]}
=============================================================================
