------------------------ MODULE MCElectrumRpcClient ------------------------
(* Small instances of ElectrumRpcClient for TLC.  The run checks liveness   *)
(* too, so it declares no symmetry.                                         *)
EXTENDS ElectrumRpcClient
=============================================================================
