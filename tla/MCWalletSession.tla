--------------------------- MODULE MCWalletSession ---------------------------
(* A small instance of WalletSession for TLC.                              *)
EXTENDS WalletSession

CONSTANTS c1, c2

MCSymmetry == Permutations(Calls)
=============================================================================
