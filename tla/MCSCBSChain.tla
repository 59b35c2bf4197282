---------------------------- MODULE MCSCBSChain -----------------------------
(***************************************************************************)
(* Constants of the model-checking runs of the chain.                      *)
(***************************************************************************)
EXTENDS SCBSChainRefinement

MCRequest(type, id, addr, vals) ==
  [type |-> type, id |-> id, addr |-> addr, vals |-> vals]

Num(n, len) == <<[k |-> "num", n |-> n, len |-> len]>>
Word        == <<[k |-> "word", n |-> 0, len |-> 3]>>
NaN         == <<[k |-> "nan", n |-> 0, len |-> 3]>>

V == kRegAddrSetOutputVoltage
A == kRegAddrReadOutputCurrent
F == kRegAddrReadFirmwareVersion
X == 28672  \* 0x7000, no register

\* Writes: one above the rail, not-a-number, one to a register that cannot be
\* written; and discovery.
WriteCommands ==
  {MCRequest("MWR", 0, V, NaN), MCRequest("MWR", 0, A, Word),
   MCRequest("SWR", 1, V, Num(999, 4)), MCRequest("DIS", 2, 0, <<>>)}

\* Reads of every register and of none, to all cells and to one; a response on its
\* way, writes and discovery.
MixedCommands ==
  {MCRequest("MRD", 0, F, <<>>), MCRequest("MRD", 0, A, <<>>),
   MCRequest("MRD", 0, X, <<>>), MCRequest("SRD", 2, V, <<>>),
   MCRequest("SRD", 1, F, <<>>), MCRequest("SRD", 1, X, <<>>),
   MCRequest("SRS", 1, 0, Word), MCRequest("MWR", 0, V, Num(330, 3)),
   MCRequest("SWR", 1, V, Word), MCRequest("DIS", 0, 0, <<>>)}

VersionCommand == {MCRequest("MRD", 0, F, <<>>)}

NoCurrent   == {0}
NoFaults    == {}
Garbling    == {"garble"}
AllFaults   == {"garble", "headless", "lose", "power"}
=============================================================================
