----------------------------- MODULE MCTxHistory -----------------------------
(* Small instances of TxHistory for TLC.                                   *)
EXTENDS TxHistory
CONSTANTS A, B, pay, income

\* A pays somebody, and B is paid by somebody.
MCTxsOf == [a \in Accounts |-> IF a = A THEN {pay} ELSE {income}]
MCPayerOf == [tx \in {pay} |-> A]
=============================================================================
