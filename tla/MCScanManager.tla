--------------------------- MODULE MCScanManager ---------------------------
(* Small instances of ScanManager for TLC.                                 *)
EXTENDS ScanManager
=============================================================================
