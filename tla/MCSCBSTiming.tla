---------------------------- MODULE MCSCBSTiming ----------------------------
(***************************************************************************)
(* Constants of the model-checking runs of SCBSTiming.                     *)
(***************************************************************************)
EXTENDS SCBSTiming

MCRequest(type, id, addr, vals) ==
  [type |-> type, id |-> id, addr |-> addr, vals |-> vals]

MCSizes == 1 .. 21

\* Commands of each type: IDs that wrap, all voltages, versions, long values; the
\* longest request that fits the receive buffer of cell 1, of 199 characters.
MCRequests ==
  {MCRequest("DIS", 65530, 0, <<>>), MCRequest("MRD", 0, kRegAddrSetOutputVoltage, <<>>),
   MCRequest("MRD", 0, kRegAddrReadFirmwareVersion, <<>>),
   MCRequest("SRD", 4, kRegAddrReadFirmwareVersion, <<>>),
   MCRequest("MWR", 0, kRegAddrSetOutputVoltage, <<[k |-> "num", n |-> 330, len |-> 3]>>),
   MCRequest("SWR", 4, kRegAddrReadOutputCurrent, <<[k |-> "num", n |-> 330, len |-> 3]>>),
   MCRequest("SRS", 65535, 0, <<[k |-> "word", n |-> 0, len |-> 181]>>)}

MCReadings == {0, 10713}
=============================================================================
