------------------------- MODULE MCProviderApproval -------------------------
(* A small instance of ProviderApproval for TLC.                           *)
EXTENDS ProviderApproval

CONSTANTS r1, r2
=============================================================================
