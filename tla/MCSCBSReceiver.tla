--------------------------- MODULE MCSCBSReceiver ---------------------------
(***************************************************************************)
(* Constants of the model-checking runs of SCBSReceiver.                   *)
(***************************************************************************)
EXTENDS SCBSReceiver

MCPlain == {"a", "b"}
=============================================================================
