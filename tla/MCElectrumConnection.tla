------------------------ MODULE MCElectrumConnection -----------------------
(* Small instances of ElectrumConnection for TLC.                          *)
EXTENDS ElectrumConnection

CONSTANTS main, test, t1

\* One server on the test network, so that a pass there ends with its first failure,
\* and all others on the main network, so that a rotation goes on.
MCNetOf == [s \in Servers |-> IF s = t1 THEN test ELSE main]
=============================================================================
