---------------------------- MODULE MCSCBSOutput ----------------------------
(***************************************************************************)
(* Constants of the model-checking runs of SCBSOutput.                     *)
(***************************************************************************)
EXTENDS SCBSOutput

\* Every setting, and some beyond both rails.
EveryRequest == -3 .. 455
=============================================================================
