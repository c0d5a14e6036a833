------------------------- MODULE MCEthereumAdapter -------------------------
(* A small instance of EthereumAdapter for TLC.                            *)
EXTENDS EthereumAdapter, TLC

CONSTANTS c1, c2, m1, m2, Main, Test, A, B, Coin, Sent

MCContractOn == [asset \in Assets |-> {Main, Test}]
MCHome == [tx \in Txs |-> [wallet |-> [net |-> Main, acc |-> A], asset |-> Coin]]
MCSymmetry == Permutations(Calls) \cup Permutations(Movers)
=============================================================================
