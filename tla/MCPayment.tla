------------------------------ MODULE MCPayment ------------------------------
(* A small instance of Payment for TLC.                                    *)
EXTENDS Payment

CONSTANTS a1, a2

Coin(id, a, side, value, height) == [id |-> id, owner |-> a, side |-> side, value |-> value, height |-> height]

MCCoins == {Coin(1, a1, "external", 12, 1), Coin(2, a1, "external", 9, 2), Coin(3, a1, "internal", 6, 0),
            Coin(4, a2, "external", 25, 1)}
MCDeposit == Coin(5, a1, "external", 8, 0)
MCIn == [a \in Accounts |-> IF a = a1 THEN 1 ELSE 2]
MCOut == [a \in Accounts |-> IF a = a1 THEN 1 ELSE 2]
Rates(s, m, f) == [slow |-> s, medium |-> m, fast |-> f]
MCRateAnswers == {Rates(1, 3, 3), Rates(3, 1, 2)}

\* The history of the fee market, or what is left without it; a node without EIP-1559.
Market(base, history, cap, suggested, rpc, price) ==
  [base |-> base, history |-> history, suggestedCap |-> cap, suggestedTip |-> suggested, rpcTip |-> rpc,
   gasPrice |-> price]
MCMarkets == {Market(20, <<1, 2, 4>>, 44, 2, 2, 22), Market(20, <<0, 0, 0>>, 70, 0, 0, 20),
              Market(10, <<>>, 5, Unknown, 30, 9),
              Market(0, <<>>, Unknown, Unknown, Unknown, 15), Market(0, <<>>, Unknown, Unknown, Unknown, 0)}
MCEther == [a \in Accounts |-> IF a = a1 THEN [wei |-> 200, tokens |-> 8, count |-> 0]
                                         ELSE [wei |-> 90, tokens |-> 0, count |-> 0]]
=============================================================================
