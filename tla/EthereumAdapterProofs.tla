------------------------ MODULE EthereumAdapterProofs ------------------------
(***************************************************************************)
(* Proofs about EthereumAdapter, for any networks, accounts, transactions, *)
(* queries and movers.                                                     *)
(*                                                                         *)
(* A query asks whatever network the adapter is on at each request, and    *)
(* writes under the key it took at its start.  The invariant says what ties*)
(* the two together as long as nothing overtook the query; what a logout   *)
(* has listed and not yet removed; and where the adapter stands, or who is *)
(* on the way to set it.  A second one says how the map of a cache and its *)
(* stored copy differ while queries load and save them.                    *)
(***************************************************************************)
EXTENDS EthereumAdapter, TLAPS

CallFields == {"kind", "phase", "wallet", "asset", "asked", "txs", "read", "receipts", "balance", "fiat",
               "since", "disturbed"}
HistoryPhases == {"load", "fetch", "reload", "saving", "block", "receipts"}
Flying(k) == k.phase \notin {"idle", "done"}
ScopeOfCall(k) == [wallet |-> k.wallet, asset |-> k.asset]

CallTyped(k) ==
  /\ DOMAIN k = CallFields
  /\ k.phase \in HistoryPhases \cup {"idle", "native", "tokens", "cache", "done"}
  /\ k.phase # "idle" => k.wallet \in Wallets
  /\ k.phase \in HistoryPhases => k.asset \in Assets
  /\ k.txs \in TxMaps /\ k.balance \in Balances /\ (k.read = None \/ k.read \in TxMaps)
  /\ k.phase = "fetch" => k.asked \in Networks
  /\ k.receipts \subseteq Mined /\ k.since \subseteq Mined
  /\ k.phase = "receipts" => k.receipts \subseteq Pending(k.txs)
  /\ k.phase \in {"native", "tokens"} => k.fiat \in Currencies

MoveFields == {"phase", "listed", "to", "back", "alone"}
Picking == {"selecting", "default", "settling"}
MoveTyped(k) ==
  /\ DOMAIN k = MoveFields
  /\ k.phase \in Picking \cup {"idle", "active", "rollback", "init", "session", "mnemonic", "keys", "balances",
                               "histories"}
  /\ k.phase = "init" => k.listed \subseteq Networks
  /\ k.to \in Accounts \cup {None} /\ k.back \in Accounts \cup {None} /\ k.alone \in BOOLEAN
  /\ k.phase \in Picking => k.to \in Accounts

Typed ==
  /\ keys \in Accounts \cup {None} /\ network \in Networks /\ session \in BOOLEAN
  /\ selected \in [acc : Accounts \cup {None}, net : Networks]
  /\ manager \in Accounts \cup {None} /\ astray \in BOOLEAN
  /\ DOMAIN move = Movers /\ \A m \in Movers : MoveTyped(move[m])
  /\ memory \in [Scopes -> TxMaps \cup {None}] /\ stored \in [Scopes -> TxMaps \cup {None}]
  /\ balance \in [memory : [Wallets -> Balances], stored : [Wallets -> Balances]]
  /\ price \in [Currencies -> [age : {"unknown", "fresh", "stale"}, of : Currencies \cup {None}]]
  /\ chain \in [Txs -> Statuses] /\ fiat \in Currencies /\ crossed \subseteq Wallets

CallsTyped == DOMAIN call = Calls /\ \A c \in Calls : CallTyped(call[c])

\* While there is a session, and no rejected switch has led it astray, the adapter stands at
\* the selection or someone is on the way to set it; and while a call that may be rejected
\* is alone, the adapter stands where the call would fall back on.
Follows == keys = None \/ (keys = manager /\ network = selected.net)
OnWay(m) == move[m].phase \in Picking \cup {"active", "rollback", "init", "session", "mnemonic"}
StandsBack(m) ==
  /\ session /\ move[m].back # None /\ move[m].phase \in Picking \cup {"active", "rollback"}
  /\ \A n \in Movers \ {m} : Idle(n)
  /\ astray \/ keys = None \/ (keys = move[m].back /\ network = selected.net)
Selection ==
  /\ session => selected.acc # None
  /\ session /\ ~astray => Follows \/ \E m \in Movers : OnWay(m)
  /\ \A m \in Movers : move[m].phase = "rollback" => move[m].back # None
  /\ \A m \in Movers : move[m].alone => StandsBack(m)

\* One logout runs at a time; it has listed what is stored, but for what queries that it
\* overtook write, and after it there are no keys to begin another query with.
LoggedOut(w) == balance.stored[w] = NoBalance /\ \A asset \in Assets : stored[[wallet |-> w, asset |-> asset]] = None
LogoutLists ==
  /\ \A m, n \in Movers :
       move[m].phase \in {"balances", "histories"} /\ move[n].phase \in {"balances", "histories"} => m = n
  /\ LoggingOut => selected.acc = None
  /\ selected.acc = None =>
       /\ \A c \in Calls : Flying(call[c]) => call[c].wallet \in crossed
       /\ \A m \in Movers, w \in Wallets \ crossed :
            /\ move[m].phase = "balances" => balance.stored[w] = NoBalance \/ w \in move[m].listed
            /\ move[m].phase = "histories" =>
                 /\ balance.stored[w] = NoBalance
                 /\ \A asset \in Assets : LET s == [wallet |-> w, asset |-> asset] IN
                      stored[s] = None \/ s \in move[m].listed
       /\ ~LoggingOut => keys = None /\ \A w \in Wallets \ crossed : LoggedOut(w)

\* What a query that nothing overtook holds is of its key, and so is what is kept.
OwnMap(map, s) == \A tx \in Txs : map[tx] # None => Home[tx] = s
OwnCall(k) ==
  /\ Flying(k) /\ k.wallet \notin crossed =>
       /\ k.wallet.net = network /\ k.asked \in {None, network}
       /\ k.phase \in HistoryPhases =>
            OwnMap(k.txs, ScopeOfCall(k)) /\ (k.read = None \/ OwnMap(k.read, ScopeOfCall(k)))
       /\ k.balance.native \in {None, network} /\ k.balance.tokens \in {None, network}
  /\ k.phase = "tokens" => k.balance.rate \in {None, k.fiat}
KeptIsOwn ==
  /\ \A c \in Calls : OwnCall(call[c])
  /\ \A s \in Scopes : s.wallet \notin crossed =>
       (memory[s] = None \/ OwnMap(memory[s], s)) /\ (stored[s] = None \/ OwnMap(stored[s], s))
  /\ \A w \in Wallets \ crossed :
       /\ balance.memory[w].native \in {None, w.net} /\ balance.memory[w].tokens \in {None, w.net}
       /\ balance.stored[w].native \in {None, w.net} /\ balance.stored[w].tokens \in {None, w.net}
  /\ \A f \in Currencies : price[f].of \in {None, f}

\* A query that met nothing is alone with its map, which its transactions are those of, and
\* gets the receipt of each that it calls pending and that was mined before it began.
SettledIn(k, map) == \A tx \in k.since : Home[tx] = ScopeOfCall(k) => map[tx] # "pending"
AnswerOK(k) ==
  LET map == memory[ScopeOfCall(k)] IN
  /\ k.phase \in HistoryPhases => k.phase # "reload" /\ k.read = None
  /\ k.phase \in {"fetch", "saving", "block", "receipts"} => map # None
  /\ k.phase \in {"block", "receipts"} => map = k.txs
  /\ k.phase \in {"load", "fetch", "block"} => k.receipts = {}
  /\ k.phase = "receipts" =>
       \A tx \in k.since : Home[tx] = ScopeOfCall(k) /\ k.txs[tx] = "pending" => tx \in k.receipts
  /\ k.phase = "saving" /\ k.receipts # {} => SettledIn(k, map)
  /\ k.phase = "done" => SettledIn(k, k.txs)
AnswersSettle ==
  /\ \A c, d \in Calls : c # d /\ call[c].phase \in HistoryPhases /\ call[d].phase \in HistoryPhases =>
       call[c].disturbed
  /\ \A c \in Calls : ~call[c].disturbed /\ call[c].wallet \notin crossed => AnswerOK(call[c])

IInv ==
  /\ Typed /\ CallsTyped /\ Selection /\ LogoutLists /\ KeptIsOwn /\ AnswersSettle

USE ScopesAssumption, NoneAssumption

-----------------------------------------------------------------------------

\* The initial states satisfy the inductive invariant.
LEMMA InitIInv == Init => IInv
<1> SUFFICES ASSUME Init PROVE IInv
  OBVIOUS
<1>1. NoTxs \in TxMaps /\ NoBalance \in Balances
  BY DEF NoTxs, TxMaps, NoBalance, Balances
<1>2. \A c \in Calls : call[c] = NoCall /\ ~call[c].disturbed
  BY DEF Init, NoCall
<1>3. CallTyped(NoCall)
  BY <1>1 DEF CallTyped, CallFields, NoCall, HistoryPhases
<1>4. Typed /\ CallsTyped
  <2>1. keys \in Accounts /\ fiat \in Currencies
    BY DEF Init
  <2>2. NoPrice \in [age : {"unknown", "fresh", "stale"}, of : Currencies \cup {None}]
    BY DEF NoPrice
  <2>3. price \in [Currencies -> [age : {"unknown", "fresh", "stale"}, of : Currencies \cup {None}]]
    BY <2>2 DEF Init
  <2>4. balance \in [memory : [Wallets -> Balances], stored : [Wallets -> Balances]]
    BY <1>1 DEF Init
  <2>5. Typed
    BY <2>1, <2>3, <2>4 DEF Init, Typed, Statuses, NoMove, MoveTyped, MoveFields, Picking
  <2>6. CallsTyped
    BY <1>3 DEF Init, CallsTyped
  <2>7. QED
    BY <2>5, <2>6
<1>5. Selection /\ LogoutLists
  BY <1>2 DEF Init, Selection, Follows, LogoutLists, NoMove, LoggingOut, NoCall, Flying
<1>6. KeptIsOwn
  BY <1>2 DEF Init, KeptIsOwn, OwnCall, NoCall, Flying, NoBalance, NoPrice
<1>7. AnswersSettle
  BY <1>2 DEF AnswersSettle, AnswerOK, NoCall, HistoryPhases
<1>9. QED
  BY <1>4, <1>5, <1>6, <1>7 DEF IInv

-----------------------------------------------------------------------------
(* The world, and what moves the adapter.                                  *)

\* A rate expires, the currency changes, a transaction is mined.
LEMMA WorldIInv ==
  ASSUME IInv, \/ \E f \in Currencies : PriceExpires(f) \/ SetFiatCurrency(f)
               \/ \E tx \in Txs : Mine(tx)
  PROVE  IInv'
<1> USE DEF IInv
<1>1. UNCHANGED <<place, call, history, balance, crossed>>
  BY DEF PriceExpires, SetFiatCurrency, Mine
<1>2. chain' \in [Txs -> Statuses] /\ Mined \subseteq Mined'
  BY DEF PriceExpires, SetFiatCurrency, Mine, Typed, Statuses, Mined
<1>3. /\ price' \in [Currencies -> [age : {"unknown", "fresh", "stale"}, of : Currencies \cup {None}]]
      /\ \A f \in Currencies : price'[f].of \in {None, f}
  <2>1. price' = price \/ \E f \in Currencies : price' = [price EXCEPT ![f].age = "stale"]
    BY DEF PriceExpires, SetFiatCurrency, Mine
  <2>2. CASE price' = price
    BY <2>2 DEF Typed, KeptIsOwn
  <2>3. ASSUME NEW f \in Currencies, price' = [price EXCEPT ![f].age = "stale"]
        PROVE  /\ price' \in [Currencies -> [age : {"unknown", "fresh", "stale"}, of : Currencies \cup {None}]]
               /\ \A g \in Currencies : price'[g].of \in {None, g}
    <3>1. \A g \in Currencies : price'[g] = IF g = f THEN [price[f] EXCEPT !.age = "stale"] ELSE price[g]
      BY <2>3 DEF Typed
    <3>2. \A g \in Currencies : /\ price'[g] \in [age : {"unknown", "fresh", "stale"}, of : Currencies \cup {None}]
                                /\ price'[g].of = price[g].of
      BY <3>1 DEF Typed
    <3>3. QED
      BY <2>3, <3>2 DEF Typed, KeptIsOwn
  <2>4. QED
    BY <2>1, <2>2, <2>3
<1>0. fiat' \in Currencies
  BY DEF PriceExpires, SetFiatCurrency, Mine, Typed
<1>4. Typed' /\ CallsTyped'
  BY <1>0, <1>1, <1>2, <1>3 DEF place, history, Typed, CallsTyped, CallTyped
<1>5. Selection' /\ LogoutLists'
  BY <1>1 DEF place, history, Selection, Follows, OnWay, StandsBack, Idle, LogoutLists, LoggingOut, LoggedOut
<1>6. KeptIsOwn'
  BY <1>1, <1>3 DEF place, history, KeptIsOwn, OwnCall
<1>7. AnswersSettle'
  BY <1>1 DEF history, AnswersSettle, AnswerOK, SettledIn
<1>9. QED
  BY <1>4, <1>5, <1>6, <1>7

\* What an action of the popup has to keep that is no logout: it overtakes the queries if it
\* moves the network.
LEMMA MoveFrame ==
  ASSUME IInv, UNCHANGED <<call, history, balance, world>>, Typed', Selection',
         NEW m \in Movers,
         \A n \in Movers \ {m} : move'[n].phase = move[n].phase /\ move'[n].listed = move[n].listed,
         move[m].phase \notin {"balances", "histories"}, move'[m].phase \notin {"balances", "histories"},
         selected'.acc = None => selected.acc = None, LoggingOut => selected'.acc = None,
         keys' = keys \/ keys' = None \/ selected.acc # None,
         crossed \subseteq crossed', network' = network \/ Overtaken \subseteq crossed'
  PROVE  IInv'
<1> USE DEF IInv, history, world
<1>1. CallsTyped'
  BY DEF CallsTyped, CallTyped, Mined
<1>2. LoggingOut' <=> LoggingOut
  BY DEF LoggingOut
<1>3. LogoutLists'
  <2>1. \A n, o \in Movers :
          move'[n].phase \in {"balances", "histories"} /\ move'[o].phase \in {"balances", "histories"} => n = o
    BY DEF LogoutLists
  <2>2. LoggingOut' => selected'.acc = None
    BY <1>2
  <2>3. ASSUME selected'.acc = None
        PROVE  /\ \A c \in Calls : Flying(call[c]) => call[c].wallet \in crossed'
               /\ ~LoggingOut' => keys' = None /\ \A w \in Wallets \ crossed' : LoggedOut(w)'
    BY <1>2, <2>3 DEF LogoutLists, LoggedOut
  <2>4. ASSUME selected'.acc = None, NEW n \in Movers, NEW w \in Wallets \ crossed'
        PROVE  /\ move'[n].phase = "balances" => balance.stored[w] = NoBalance \/ w \in move'[n].listed
               /\ move'[n].phase = "histories" =>
                    /\ balance.stored[w] = NoBalance
                    /\ \A asset \in Assets : LET s == [wallet |-> w, asset |-> asset] IN
                         stored[s] = None \/ s \in move'[n].listed
    BY <2>4 DEF LogoutLists
  <2>5. QED
    BY <2>1, <2>2, <2>3, <2>4 DEF LogoutLists
<1>4. KeptIsOwn'
  <2>1. \A c \in Calls : OwnCall(call[c])'
    BY DEF KeptIsOwn, OwnCall, Overtaken, InFlight, Flying
  <2>2. QED
    BY <2>1 DEF KeptIsOwn
<1>5. AnswersSettle'
  BY DEF AnswersSettle, AnswerOK, SettledIn
<1>6. QED
  BY <1>1, <1>3, <1>4, <1>5

\* What becomes of the movers when one starts, goes on or ends.
EnterAlone(entered) == entered.back # None /\ selected.acc = manager /\ \A k \in Movers : Idle(k)
LEMMA EnterFacts ==
  ASSUME Typed, NEW m \in Movers, NEW e, MoveTyped(e), Enter(m, e)
  PROVE  /\ DOMAIN move' = Movers /\ \A n \in Movers : MoveTyped(move[n])'
         /\ move'[m].phase = e.phase /\ move'[m].listed = e.listed /\ move'[m].to = e.to /\ move'[m].back = e.back
         /\ move'[m].alone = EnterAlone(e)
         /\ \A n \in Movers \ {m} : move'[n].phase = move[n].phase /\ move'[n].listed = move[n].listed
                                   /\ move'[n].back = move[n].back /\ move'[n].alone = FALSE
<1>1. /\ DOMAIN move' = Movers /\ \A n \in Movers \ {m} : move'[n] = [move[n] EXCEPT !.alone = FALSE]
      /\ move'[m] = [e EXCEPT !.alone = EnterAlone(e)]
  <2>1. move' = [n \in Movers |-> IF n = m THEN [e EXCEPT !.alone = EnterAlone(e)] ELSE [move[n] EXCEPT !.alone = FALSE]]
    BY Zenon DEF Enter, EnterAlone
  <2> DEFINE mine == [e EXCEPT !.alone = EnterAlone(e)]
  <2> HIDE DEF mine
  <2>2. move' = [n \in Movers |-> IF n = m THEN mine ELSE [move[n] EXCEPT !.alone = FALSE]]
    BY <2>1 DEF mine
  <2>3. DOMAIN move' = Movers /\ (\A n \in Movers \ {m} : move'[n] = [move[n] EXCEPT !.alone = FALSE]) /\ move'[m] = mine
    BY <2>2
  <2>4. QED
    BY <2>3 DEF mine
<1>2. \A n \in Movers \ {m} : /\ DOMAIN move'[n] = MoveFields /\ move'[n].phase = move[n].phase
                              /\ move'[n].listed = move[n].listed /\ move'[n].to = move[n].to
                              /\ move'[n].back = move[n].back /\ move'[n].alone = FALSE
  BY <1>1 DEF Typed, MoveTyped, MoveFields
<1>3. /\ DOMAIN move'[m] = MoveFields /\ move'[m].phase = e.phase /\ move'[m].listed = e.listed /\ move'[m].to = e.to
      /\ move'[m].back = e.back
  BY <1>1 DEF MoveTyped, MoveFields
<1>4. "alone" \in DOMAIN e
  BY DEF MoveTyped, MoveFields
<1>5. move'[m].alone = EnterAlone(e)
  BY <1>1, <1>4, Zenon
<1>6. EnterAlone(e) \in BOOLEAN
  BY Zenon DEF EnterAlone
<1>7. MoveTyped(move[m])'
  <2>1. move'[m].alone \in BOOLEAN
    BY <1>5, <1>6, Zenon
  <2>2. QED
    BY <1>3, <2>1 DEF MoveTyped
<1>8. \A n \in Movers \ {m} : MoveTyped(move[n])'
  BY <1>2 DEF Typed, MoveTyped
<1>9. QED
  BY <1>1, <1>2, <1>3, <1>5, <1>7, <1>8

LEMMA StepFacts ==
  ASSUME Typed, NEW m \in Movers, NEW p,
         \/ Goes(m, p) /\ MoveTyped([move[m] EXCEPT !.phase = p])
         \/ Hydrates(m) /\ p = "session"
         \/ Leaves(m) /\ p = "idle"
  PROVE  /\ DOMAIN move' = Movers /\ \A n \in Movers : MoveTyped(move[n])'
         /\ move'[m].phase = p /\ \A n \in Movers \ {m} : move'[n] = move[n]
         /\ \/ Goes(m, p) /\ move'[m].back = move[m].back /\ move'[m].alone = move[m].alone
            \/ ~move'[m].alone /\ p \in {"session", "idle"}
<1>1. DOMAIN move[m] = MoveFields /\ DOMAIN move = Movers /\ \A n \in Movers : MoveTyped(move[n])
  BY DEF Typed, MoveTyped
<1>2. CASE Goes(m, p) /\ MoveTyped([move[m] EXCEPT !.phase = p])
  <2>1. PICK k : k = [move[m] EXCEPT !.phase = p]
    OBVIOUS
  <2>2. move' = [move EXCEPT ![m] = k]
    BY <1>1, <1>2, <2>1 DEF Goes, MoveFields
  <2>3. k.phase = p /\ k.back = move[m].back /\ k.alone = move[m].alone /\ MoveTyped(k)
    BY <1>1, <1>2, <2>1 DEF MoveFields
  <2>4. \A n \in Movers : MoveTyped(move[n])'
    BY <1>1, <2>2, <2>3 DEF MoveTyped
  <2>5. DOMAIN move' = Movers /\ move'[m] = k /\ \A n \in Movers \ {m} : move'[n] = move[n]
    BY <1>1, <2>2
  <2>6. QED
    BY <1>2, <2>3, <2>4, <2>5
<1>3. CASE \/ Hydrates(m) /\ p = "session"
           \/ Leaves(m) /\ p = "idle"
  <2>1. PICK k : k = [NoMove EXCEPT !.phase = p]
    OBVIOUS
  <2>2. move' = [move EXCEPT ![m] = k]
    BY <1>3, <2>1 DEF Hydrates, Leaves, NoMove
  <2>3. k.phase = p /\ ~k.alone /\ MoveTyped(k)
    BY <1>3, <2>1 DEF NoMove, MoveTyped, MoveFields, Picking
  <2>4. QED
    BY <1>1, <1>3, <2>2, <2>3 DEF MoveTyped
<1>4. QED
  BY <1>2, <1>3

\* A call starts: a switch, a creation, a restore or a lock.
LEMMA EnteredIInv ==
  ASSUME IInv, NEW m \in Movers, NEW e, MoveTyped(e), Enter(m, e), Idle(m),
         UNCHANGED <<keys, network, astray, call, history, balance, world, crossed>>,
         selected' \in [acc : Accounts \cup {None}, net : Networks], manager' \in Accounts \cup {None},
         session' \in BOOLEAN,
         e.phase \in Picking \cup {"init", "mnemonic", "keys"}, e.phase = "keys" => ~session',
         session' => selected'.acc # None,
         selected'.acc = None => selected.acc = None, LoggingOut => selected'.acc = None,
         e.back # None =>
           e.phase \in Picking /\ e.back = selected.acc /\ session /\ session' /\ selected'.net = selected.net
  PROVE  IInv'
<1>1. /\ DOMAIN move' = Movers /\ \A n \in Movers : MoveTyped(move[n])'
      /\ move'[m].phase = e.phase /\ move'[m].back = e.back /\ move'[m].alone = EnterAlone(e)
      /\ \A n \in Movers \ {m} : move'[n].phase = move[n].phase /\ move'[n].listed = move[n].listed
                                /\ move'[n].back = move[n].back /\ move'[n].alone = FALSE
  BY EnterFacts DEF IInv
<1>2. Typed'
  BY <1>1 DEF IInv, Typed, history, world
<1>3. Selection'
  <2>1. session' => OnWay(m)'
    BY <1>1 DEF OnWay
  <2>2. \A n \in Movers : move'[n].phase = "rollback" => move'[n].back # None
    BY <1>1 DEF IInv, Selection, Picking
  <2>3. ASSUME move'[m].alone PROVE StandsBack(m)'
    <3>1. EnterAlone(e)
      BY <1>1, <2>3, Zenon
    <3>2. e.back # None /\ selected.acc = manager /\ \A k \in Movers : Idle(k)
      BY <3>1 DEF EnterAlone
    <3>3. astray \/ Follows
      BY <3>2 DEF IInv, Selection, OnWay, Idle, Picking
    <3>4. QED
      BY <1>1, <3>2, <3>3 DEF StandsBack, Follows, Idle
  <2>4. \A n \in Movers : move'[n].alone => StandsBack(n)'
    BY <1>1, <2>3, Zenon
  <2>5. QED
    BY <2>1, <2>2, <2>4 DEF Selection
<1>4. move[m].phase \notin {"balances", "histories"} /\ move'[m].phase \notin {"balances", "histories"}
  BY <1>1 DEF Idle, Picking
<1>5. QED
  BY <1>1, <1>2, <1>3, <1>4, MoveFrame

Asked(m) ==
  \/ \E a \in Accounts :
       \/ \E back \in {None, selected.acc} : SwitchAccount(m, a, back)
       \/ SwitchNetwork(m, a) \/ CreateAccount(m, a) \/ CreateWallet(m, a)
  \/ \E net \in Networks : SwitchEvmNetwork(m, net)
  \/ RestoreWallet(m) \/ Lock(m)

\* What a call is asked with.
LEMMA AskedEnters ==
  ASSUME IInv, NEW m \in Movers, Asked(m)
  PROVE  Idle(m) /\ \E e : MoveTyped(e) /\ Enter(m, e) /\ e.phase \in Picking \cup {"init", "mnemonic", "keys"}
<1>1. Idle(m)
  BY DEF Asked, SwitchAccount, SwitchNetwork, CreateAccount, CreateWallet, SwitchEvmNetwork, RestoreWallet, Lock
<1>2. selected.acc \in Accounts \cup {None}
  BY DEF IInv, Typed
<1>3. ASSUME NEW a \in Accounts, NEW back \in {None, selected.acc}, SwitchAccount(m, a, back)
      PROVE  \E e : MoveTyped(e) /\ Enter(m, e) /\ e.phase \in Picking
  <2>1. PICK e : e = [NoMove EXCEPT !.phase = "selecting", !.to = a, !.back = back]
    OBVIOUS
  <2>2. MoveTyped(e) /\ Enter(m, e) /\ e.phase = "selecting"
    BY <1>2, <1>3, <2>1 DEF SwitchAccount, NoMove, MoveTyped, MoveFields, Picking
  <2>3. QED
    BY <2>2 DEF Picking
<1>4. ASSUME NEW a \in Accounts, SwitchNetwork(m, a)
      PROVE  \E e : MoveTyped(e) /\ Enter(m, e) /\ e.phase \in Picking
  <2>1. PICK e : e = [NoMove EXCEPT !.phase = "default", !.to = a, !.back = selected.acc]
    OBVIOUS
  <2>2. MoveTyped(e) /\ Enter(m, e) /\ e.phase = "default"
    BY <1>2, <1>4, <2>1 DEF SwitchNetwork, NoMove, MoveTyped, MoveFields, Picking
  <2>3. QED
    BY <2>2 DEF Picking
<1>5. ASSUME NEW a \in Accounts, CreateAccount(m, a)
      PROVE  \E e : MoveTyped(e) /\ Enter(m, e) /\ e.phase \in Picking
  <2>1. PICK e : e = [NoMove EXCEPT !.phase = "default", !.to = a]
    OBVIOUS
  <2>2. MoveTyped(e) /\ Enter(m, e) /\ e.phase = "default"
    BY <1>5, <2>1 DEF CreateAccount, NoMove, MoveTyped, MoveFields, Picking
  <2>3. QED
    BY <2>2 DEF Picking
<1>6. ASSUME NEW a \in Accounts, CreateWallet(m, a)
      PROVE  \E e : MoveTyped(e) /\ Enter(m, e) /\ e.phase = "mnemonic"
  <2>1. PICK e : e = [NoMove EXCEPT !.phase = "mnemonic"]
    OBVIOUS
  <2>2. MoveTyped(e) /\ Enter(m, e) /\ e.phase = "mnemonic"
    BY <1>6, <2>1 DEF CreateWallet, NoMove, MoveTyped, MoveFields, Picking
  <2>3. QED
    BY <2>2 DEF Picking
<1>7. ASSUME NEW net \in Networks, SwitchEvmNetwork(m, net)
      PROVE  \E e : MoveTyped(e) /\ Enter(m, e) /\ e.phase = "init"
  <2>1. PICK e : e = [NoMove EXCEPT !.phase = "init", !.listed = {net}]
    OBVIOUS
  <2>2. MoveTyped(e) /\ Enter(m, e) /\ e.phase = "init"
    BY <1>7, <2>1 DEF SwitchEvmNetwork, NoMove, MoveTyped, MoveFields, Picking
  <2>3. QED
    BY <2>2 DEF Picking
<1>8. ASSUME RestoreWallet(m)
      PROVE  \E e : MoveTyped(e) /\ Enter(m, e) /\ e.phase \in Picking
  <2>1. PICK e : e = [NoMove EXCEPT !.phase = "selecting", !.to = selected.acc]
    OBVIOUS
  <2>2. MoveTyped(e) /\ Enter(m, e) /\ e.phase = "selecting"
    BY <1>2, <1>8, <2>1 DEF RestoreWallet, NoMove, MoveTyped, MoveFields, Picking
  <2>3. QED
    BY <2>2 DEF Picking
<1>9. ASSUME Lock(m)
      PROVE  \E e : MoveTyped(e) /\ Enter(m, e) /\ e.phase = "keys"
  <2>1. PICK e : e = [NoMove EXCEPT !.phase = "keys"]
    OBVIOUS
  <2>2. MoveTyped(e) /\ Enter(m, e) /\ e.phase = "keys"
    BY <1>9, <2>1 DEF Lock, NoMove, MoveTyped, MoveFields, Picking
  <2>3. QED
    BY <2>2 DEF Picking
<1>10. QED
  BY <1>1, <1>3, <1>4, <1>5, <1>6, <1>7, <1>8, <1>9 DEF Asked

LEMMA AskedIInv == ASSUME IInv, NEW m \in Movers, Asked(m) PROVE IInv'
<1>1. /\ selected \in [acc : Accounts \cup {None}, net : Networks] /\ manager \in Accounts \cup {None}
      /\ session \in BOOLEAN /\ (session => selected.acc # None) /\ (LoggingOut => selected.acc = None)
  BY DEF IInv, Typed, Selection, LogoutLists
<1>2. ASSUME NEW a \in Accounts, NEW back \in {None, selected.acc}, SwitchAccount(m, a, back) PROVE IInv'
  <2>1. PICK e : e = [NoMove EXCEPT !.phase = "selecting", !.to = a, !.back = back]
    OBVIOUS
  <2>2. MoveTyped(e) /\ e.phase = "selecting" /\ e.back = back /\ Enter(m, e)
    BY <1>1, <1>2, <2>1 DEF SwitchAccount, NoMove, MoveTyped, MoveFields, Picking
  <2>3. QED
    BY <1>1, <1>2, <2>2, EnteredIInv DEF SwitchAccount, Picking
<1>3. ASSUME NEW a \in Accounts, SwitchNetwork(m, a) PROVE IInv'
  <2>1. PICK e : e = [NoMove EXCEPT !.phase = "default", !.to = a, !.back = selected.acc]
    OBVIOUS
  <2>2. MoveTyped(e) /\ e.phase = "default" /\ e.back = selected.acc /\ Enter(m, e)
    BY <1>1, <1>3, <2>1 DEF SwitchNetwork, NoMove, MoveTyped, MoveFields, Picking
  <2>3. QED
    BY <1>1, <1>3, <2>2, EnteredIInv DEF SwitchNetwork, Picking
<1>4. ASSUME NEW a \in Accounts, CreateAccount(m, a) PROVE IInv'
  <2>1. PICK e : e = [NoMove EXCEPT !.phase = "default", !.to = a]
    OBVIOUS
  <2>2. MoveTyped(e) /\ e.phase = "default" /\ e.back = None /\ Enter(m, e)
    BY <1>1, <1>4, <2>1 DEF CreateAccount, NoMove, MoveTyped, MoveFields, Picking
  <2>3. QED
    BY <1>1, <1>4, <2>2, EnteredIInv DEF CreateAccount, Picking
<1>5. ASSUME NEW a \in Accounts, CreateWallet(m, a) PROVE IInv'
  <2>1. PICK e : e = [NoMove EXCEPT !.phase = "mnemonic"]
    OBVIOUS
  <2>2. MoveTyped(e) /\ e.phase = "mnemonic" /\ e.back = None /\ Enter(m, e)
    BY <1>1, <1>5, <2>1 DEF CreateWallet, NoMove, MoveTyped, MoveFields, Picking
  <2>3. ~LoggingOut /\ Idle(m)
    BY <1>5 DEF CreateWallet, LoggingOut, Idle
  <2>4. /\ selected' = [selected EXCEPT !.acc = a] /\ manager' = a /\ session' = TRUE
        /\ UNCHANGED <<keys, network, astray, call, history, balance, world, crossed>>
    BY <1>5 DEF CreateWallet
  <2>5. QED
    BY <1>1, <2>2, <2>3, <2>4, EnteredIInv DEF Picking
<1>6. ASSUME NEW net \in Networks, SwitchEvmNetwork(m, net) PROVE IInv'
  <2>1. PICK e : e = [NoMove EXCEPT !.phase = "init", !.listed = {net}]
    OBVIOUS
  <2>2. MoveTyped(e) /\ e.phase = "init" /\ e.back = None /\ Enter(m, e)
    BY <1>1, <1>6, <2>1 DEF SwitchEvmNetwork, NoMove, MoveTyped, MoveFields, Picking
  <2>3. QED
    BY <1>1, <1>6, <2>2, EnteredIInv DEF SwitchEvmNetwork, Picking
<1>7. CASE RestoreWallet(m)
  <2>1. PICK e : e = [NoMove EXCEPT !.phase = "selecting", !.to = selected.acc]
    OBVIOUS
  <2>2. MoveTyped(e) /\ e.phase = "selecting" /\ e.back = None /\ Enter(m, e)
    BY <1>1, <1>7, <2>1 DEF RestoreWallet, NoMove, MoveTyped, MoveFields, Picking
  <2>3. QED
    BY <1>1, <1>7, <2>2, EnteredIInv DEF RestoreWallet, Picking
<1>8. CASE Lock(m)
  <2>1. PICK e : e = [NoMove EXCEPT !.phase = "keys"]
    OBVIOUS
  <2>2. MoveTyped(e) /\ e.phase = "keys" /\ e.back = None /\ Enter(m, e)
    BY <1>1, <1>8, <2>1 DEF Lock, NoMove, MoveTyped, MoveFields, Picking
  <2>3. QED
    BY <1>1, <1>8, <2>2, EnteredIInv DEF Lock, Picking
<1>9. QED
  BY <1>2, <1>3, <1>4, <1>5, <1>6, <1>7, <1>8 DEF Asked

\* A call goes on, or ends.
LEMMA WentOnIInv ==
  ASSUME IInv, NEW m \in Movers, NEW p,
         \/ Goes(m, p) /\ MoveTyped([move[m] EXCEPT !.phase = p])
         \/ Hydrates(m) /\ p = "session"
         \/ Leaves(m) /\ p = "idle",
         move[m].phase \notin {"idle", "balances", "histories"}, p \notin {"balances", "histories"},
         UNCHANGED <<session, call, history, balance, world>>,
         keys' \in Accounts \cup {None}, network' \in Networks, astray' \in BOOLEAN,
         selected' \in [acc : Accounts \cup {None}, net : Networks], manager' \in Accounts \cup {None},
         keys' = keys \/ keys' = None \/ selected.acc # None,
         selected'.acc = None <=> selected.acc = None,
         crossed \subseteq crossed', crossed' \subseteq Wallets, network' = network \/ Overtaken \subseteq crossed',
         session /\ ~astray' => Follows' \/ p \in Picking \cup {"active", "rollback", "init", "session", "mnemonic"},
         p = "rollback" => move[m].back # None,
         move[m].alone /\ Goes(m, p) =>
           /\ p \in Picking \cup {"active", "rollback"} /\ keys' = keys /\ network' = network
           /\ selected'.net = selected.net /\ (astray => astray')
  PROVE  IInv'
<1>1. /\ DOMAIN move' = Movers /\ \A n \in Movers : MoveTyped(move[n])'
      /\ move'[m].phase = p /\ \A n \in Movers \ {m} : move'[n] = move[n]
      /\ \/ Goes(m, p) /\ move'[m].back = move[m].back /\ move'[m].alone = move[m].alone
         \/ ~move'[m].alone /\ p \in {"session", "idle"}
  BY StepFacts DEF IInv
<1>2. Typed'
  BY <1>1 DEF IInv, Typed, history, world
<1>3. Selection'
  <2>1. session' => selected'.acc # None
    BY DEF IInv, Selection
  <2>2. session' /\ ~astray' => Follows' \/ OnWay(m)'
    BY <1>1 DEF OnWay
  <2>3. \A n \in Movers : move'[n].phase = "rollback" => move'[n].back # None
    BY <1>1 DEF IInv, Selection
  <2>4. ASSUME NEW n \in Movers \ {m} PROVE ~move'[n].alone
    BY <1>1 DEF IInv, Selection, StandsBack, Idle
  <2>5. ASSUME move'[m].alone PROVE StandsBack(m)'
    <3>1. Goes(m, p) /\ move'[m].back = move[m].back /\ move[m].alone
      BY <1>1, <2>5, Zenon
    <3>2. StandsBack(m)
      BY <3>1 DEF IInv, Selection
    <3>3. QED
      BY <1>1, <3>1, <3>2 DEF StandsBack, Idle
  <2>6. QED
    BY <2>1, <2>2, <2>3, <2>4, <2>5 DEF Selection
<1>4. LoggingOut => selected'.acc = None
  BY DEF IInv, LogoutLists
<1>5. QED
  BY <1>1, <1>2, <1>3, <1>4, MoveFrame

\* It ends, or has only the adapter left to hydrate.
LEMMA EndedIInv ==
  ASSUME IInv, NEW m \in Movers, Hydrates(m) \/ Leaves(m), ~Goes(m, "session") \/ ~move[m].alone,
         ~Goes(m, "idle") \/ ~move[m].alone,
         move[m].phase \notin {"idle", "balances", "histories"},
         UNCHANGED <<session, call, history, balance, world>>,
         keys' \in Accounts \cup {None}, network' \in Networks, astray' \in BOOLEAN,
         selected' \in [acc : Accounts \cup {None}, net : Networks], manager' \in Accounts \cup {None},
         keys' = keys \/ keys' = None \/ selected.acc # None,
         selected'.acc = None <=> selected.acc = None,
         crossed \subseteq crossed', crossed' \subseteq Wallets, network' = network \/ Overtaken \subseteq crossed',
         session /\ ~astray' => Follows' \/ Hydrates(m)
  PROVE  IInv'
<1>1. CASE Hydrates(m)
  <2>1. PICK p : p = "session"
    OBVIOUS
  <2>2. Hydrates(m) /\ p = "session" /\ p \notin {"balances", "histories", "rollback"}
    BY <1>1, <2>1
  <2>3. ~(move[m].alone /\ Goes(m, p))
    BY <2>1
  <2>4. QED
    BY <2>2, <2>3, WentOnIInv
<1>2. CASE Leaves(m) /\ ~Hydrates(m)
  <2>1. PICK p : p = "idle"
    OBVIOUS
  <2>2. Leaves(m) /\ p = "idle" /\ p \notin {"balances", "histories", "rollback"}
    BY <1>2, <2>1
  <2>3. ~(move[m].alone /\ Goes(m, p))
    BY <2>1
  <2>4. QED
    BY <1>2, <2>2, <2>3, WentOnIInv
<1>3. QED
  BY <1>1, <1>2

LEMMA NotGoing ==
  ASSUME IInv, NEW m \in Movers, Hydrates(m) \/ Leaves(m)
  PROVE  (~Goes(m, "session") \/ ~move[m].alone) /\ (~Goes(m, "idle") \/ ~move[m].alone)
<1>1. DOMAIN move = Movers /\ MoveTyped(move[m])
  BY DEF IInv, Typed
<1>2. ~move'[m].alone
  BY <1>1 DEF Hydrates, Leaves, NoMove
<1>3. Goes(m, "session") \/ Goes(m, "idle") => move'[m].alone = move[m].alone
  BY <1>1 DEF Goes, MoveTyped, MoveFields
<1>4. QED
  BY <1>2, <1>3, Zenon

Moves(m) ==
  \/ Default(m) \/ Moved(m) \/ Active(m) \/ Rejected(m) \/ RolledBack(m) \/ Superseded(m) \/ Abandoned(m)
  \/ InitNetwork(m) \/ HasSession(m) \/ Hydrate(m) \/ ClearKeys(m)

LEMMA MovesIInv == ASSUME IInv, NEW m \in Movers, Moves(m) PROVE IInv'
<1>1. /\ selected \in [acc : Accounts \cup {None}, net : Networks] /\ manager \in Accounts \cup {None}
      /\ keys \in Accounts \cup {None} /\ network \in Networks /\ astray \in BOOLEAN
      /\ session \in BOOLEAN /\ (session => selected.acc # None) /\ crossed \subseteq Wallets
      /\ MoveTyped(move[m]) /\ Overtaken \subseteq Wallets
      /\ None \notin Accounts
  BY DEF IInv, Typed, Selection, CallsTyped, CallTyped, Overtaken, InFlight
<1>2. /\ UNCHANGED <<session, call, history, balance, world>>
  BY DEF Moves, Default, Moved, Active, Rejected, RolledBack, Superseded, Abandoned, InitNetwork, HasSession, Hydrate, ClearKeys
<1>3. /\ move[m].alone => StandsBack(m)
      /\ move[m].phase = "rollback" => move[m].back # None
      /\ session /\ ~astray => Follows \/ \E n \in Movers : OnWay(n)
  BY DEF IInv, Selection
<1>4. \A p \in Picking \cup {"active", "rollback", "mnemonic"} :
        (p \in Picking => move[m].phase \in Picking) => MoveTyped([move[m] EXCEPT !.phase = p])
  <2>1. SUFFICES ASSUME NEW p \in Picking \cup {"active", "rollback", "mnemonic"}, p \in Picking => move[m].phase \in Picking
                 PROVE  MoveTyped([move[m] EXCEPT !.phase = p])
    OBVIOUS
  <2>2. PICK k : k = [move[m] EXCEPT !.phase = p]
    OBVIOUS
  <2>3. /\ DOMAIN k = MoveFields /\ k.phase = p /\ k.to = move[m].to /\ k.back = move[m].back /\ k.alone = move[m].alone
    BY <1>1, <2>2 DEF MoveTyped, MoveFields
  <2>4. QED
    BY <1>1, <2>1, <2>2, <2>3 DEF MoveTyped, Picking
<1>5. CASE Default(m)
  <2>1. MoveTyped([move[m] EXCEPT !.phase = "settling"])
    BY <1>4, <1>5 DEF Default, Picking
  <2>2. move[m].to \in Accounts
    BY <1>1, <1>5 DEF Default, MoveTyped, Picking
  <2>3. selected' = [selected EXCEPT !.acc = move[m].to]
    BY <1>5 DEF Default
  <2>4. QED
    BY <1>1, <1>2, <1>5, <2>1, <2>2, <2>3, WentOnIInv DEF Default, Picking
<1>6. CASE Moved(m)
  <2>1. MoveTyped([move[m] EXCEPT !.phase = "active"])
    BY <1>4 DEF Picking
  <2>2. move[m].to \in Accounts /\ move[m].phase \notin {"idle", "balances", "histories"}
    BY <1>1, <1>6 DEF Moved, MoveTyped, Picking
  <2>3. CASE Goes(m, "active")
    BY <1>1, <1>2, <1>6, <2>1, <2>2, <2>3, WentOnIInv DEF Moved, Picking
  <2>4. CASE Hydrates(m)
    BY <1>1, <1>2, <1>6, <2>2, <2>4, NotGoing, EndedIInv DEF Moved
  <2>5. QED
    BY <1>6, <2>3, <2>4 DEF Moved
<1>7. CASE Active(m)
  BY <1>1, <1>2, <1>7, NotGoing, EndedIInv DEF Active
<1>8. CASE Rejected(m)
  <2>1. MoveTyped([move[m] EXCEPT !.phase = "rollback"])
    BY <1>4 DEF Picking
  <2>2. move[m].back \in Accounts /\ move[m].phase \notin {"idle", "balances", "histories"}
    BY <1>1, <1>8 DEF Rejected, Rejectable, MoveTyped
  <2>3. QED
    BY <1>1, <1>2, <1>8, <2>1, <2>2, WentOnIInv DEF Rejected, Rejectable
<1>9. CASE RolledBack(m)
  <2>1. manager' = move[m].back /\ move[m].back \in Accounts \cup {None} /\ astray' \in BOOLEAN
    BY <1>1, <1>9 DEF RolledBack, MoveTyped
  <2>2. session /\ ~astray' => Follows'
    <3>1. session /\ ~astray' => move[m].alone /\ ~astray
      BY <1>1, <1>9, Zenon DEF RolledBack
    <3>2. /\ manager' = move[m].back /\ UNCHANGED <<keys, network, selected>>
      BY <1>9 DEF RolledBack
    <3>3. QED
      BY <1>3, <3>1, <3>2 DEF StandsBack, Follows
  <2>4. QED
    BY <1>1, <1>2, <1>9, <2>1, <2>2, NotGoing, EndedIInv DEF RolledBack
<1>10. CASE Superseded(m)
  BY <1>1, <1>2, <1>10, NotGoing, EndedIInv DEF Superseded
<1>11. CASE Abandoned(m)
  BY <1>1, <1>2, <1>11, NotGoing, EndedIInv DEF Abandoned
<1>12. CASE InitNetwork(m)
  <2>1. network' \in Networks
    BY <1>1, <1>12 DEF InitNetwork, MoveTyped
  <2>2. QED
    BY <1>1, <1>2, <1>12, <2>1, NotGoing, EndedIInv DEF InitNetwork
<1>13. CASE HasSession(m)
  <2>1. ~move[m].alone
    BY <1>3, <1>13 DEF HasSession, StandsBack, Picking
  <2>2. MoveTyped([move[m] EXCEPT !.phase = "mnemonic"])
    BY <1>4 DEF Picking
  <2>3. CASE session
    BY <1>1, <1>2, <1>13, <2>1, <2>2, <2>3, WentOnIInv DEF HasSession
  <2>4. CASE ~session
    BY <1>1, <1>2, <1>13, <2>4, NotGoing, EndedIInv DEF HasSession
  <2>5. QED
    BY <2>3, <2>4
<1>14. CASE Hydrate(m)
  <2>1. Follows'
    BY <1>1, <1>14 DEF Hydrate, Follows
  <2>2. QED
    BY <1>1, <1>2, <1>14, <2>1, NotGoing, EndedIInv DEF Hydrate
<1>15. CASE ClearKeys(m)
  <2>1. Follows'
    BY <1>15 DEF ClearKeys, Follows
  <2>2. QED
    BY <1>1, <1>2, <1>15, <2>1, NotGoing, EndedIInv DEF ClearKeys
<1>16. QED
  BY <1>5, <1>6, <1>7, <1>8, <1>9, <1>10, <1>11, <1>12, <1>13, <1>14, <1>15 DEF Moves

-----------------------------------------------------------------------------
(* The queries.                                                            *)

\* A query that holds nothing.
LEMMA NoCallOK == CallTyped(NoCall)' /\ OwnCall(NoCall)' /\ AnswerOK(NoCall)' /\ ~Flying(NoCall)
<1>1. NoTxs \in TxMaps /\ NoBalance \in Balances
  BY DEF NoTxs, TxMaps, NoBalance, Balances
<1>2. CallTyped(NoCall)'
  BY <1>1 DEF CallTyped, NoCall, CallFields, HistoryPhases
<1>3. QED
  BY <1>2 DEF OwnCall, AnswerOK, NoCall, Flying, HistoryPhases

\* What the rest of a query has to keep: it writes under its own key, what is of that key,
\* and may replace the map that another query of its scope is to read.
Rereads(c, d) ==
  /\ call[c].phase \in HistoryPhases /\ call[d].phase = "saving" /\ call[d].read = None
  /\ call'[d] = [call[d] EXCEPT !.read = memory[ScopeOfCall(call[d])]]

LEMMA QueryFrame ==
  ASSUME IInv, NEW c \in Calls, UNCHANGED <<place, chain, fiat, crossed>>, Flying(call[c]) \/ call[c].phase = "done",
         DOMAIN call' = Calls, CallTyped(call[c])', OwnCall(call[c])',
         Flying(call'[c]) => Flying(call[c]) /\ call'[c].wallet = call[c].wallet,
         call'[c].phase \in HistoryPhases =>
           call[c].phase \in HistoryPhases /\ (call[c].disturbed => call'[c].disturbed),
         ~call'[c].disturbed /\ call'[c].wallet \notin crossed => AnswerOK(call[c])',
         \A d \in Calls \ {c} : call'[d] = call[d] \/ Rereads(c, d),
         price' \in [Currencies -> [age : {"unknown", "fresh", "stale"}, of : Currencies \cup {None}]],
         \A f \in Currencies : price'[f].of \in {None, f},
         memory' \in [Scopes -> TxMaps \cup {None}], stored' \in [Scopes -> TxMaps \cup {None}],
         call[c].phase \in HistoryPhases \/ UNCHANGED history,
         \A s \in Scopes \ {ScopeOfCall(call[c])} : memory'[s] = memory[s] /\ stored'[s] = stored[s],
         call[c].phase \in HistoryPhases /\ call[c].wallet \notin crossed =>
           LET s == ScopeOfCall(call[c]) IN
           (memory'[s] = None \/ OwnMap(memory'[s], s)) /\ (stored'[s] = None \/ OwnMap(stored'[s], s)),
         balance' \in [memory : [Wallets -> Balances], stored : [Wallets -> Balances]],
         Flying(call[c]) \/ UNCHANGED balance,
         \A w \in Wallets \ {call[c].wallet} :
           balance'.memory[w] = balance.memory[w] /\ balance'.stored[w] = balance.stored[w],
         Flying(call[c]) /\ call[c].wallet \notin crossed =>
           \A b \in {balance'.memory[call[c].wallet], balance'.stored[call[c].wallet]} :
             b.native \in {None, network} /\ b.tokens \in {None, network}
  PROVE  IInv'
<1> USE DEF IInv
<1>1. /\ UNCHANGED <<keys, network, selected, manager, session, move, astray, crossed>>
      /\ Mined' = Mined /\ (LoggingOut' <=> LoggingOut) /\ (Selection' <=> Selection)
  BY DEF place, Mined, LoggingOut, Selection, Follows, OnWay, StandsBack, Idle
<1>2. \A d \in Calls \ {c} :
        /\ CallTyped(call[d])' /\ OwnCall(call[d])'
        /\ call'[d].phase = call[d].phase /\ call'[d].wallet = call[d].wallet /\ call'[d].disturbed = call[d].disturbed
        /\ call'[d] # call[d] => call[c].phase \in HistoryPhases /\ call[d].phase = "saving"
  <2>1. SUFFICES ASSUME NEW d \in Calls \ {c}, call'[d] # call[d]
                 PROVE  /\ CallTyped(call[d])' /\ OwnCall(call[d])'
                        /\ call'[d].phase = call[d].phase /\ call'[d].wallet = call[d].wallet
                        /\ call'[d].disturbed = call[d].disturbed
                        /\ call[c].phase \in HistoryPhases /\ call[d].phase = "saving"
    <3>1. ASSUME NEW d \in Calls \ {c}, call'[d] = call[d]
          PROVE  CallTyped(call[d])' /\ OwnCall(call[d])'
      <4>1. CallTyped(call[d]) /\ OwnCall(call[d])
        BY DEF CallsTyped, KeptIsOwn
      <4>2. CallTyped(call[d])'
        BY <1>1, <3>1, <4>1 DEF CallTyped
      <4>3. OwnCall(call[d])'
        BY <1>1, <3>1, <4>1 DEF OwnCall
      <4>4. QED
        BY <4>2, <4>3
    <3>2. QED
      BY <3>1
  <2>2. CallTyped(call[d]) /\ OwnCall(call[d]) /\ Rereads(c, d)
    BY <2>1 DEF CallsTyped, KeptIsOwn
  <2>3. ScopeOfCall(call[d]) \in Scopes
    BY <2>2 DEF CallTyped, Rereads, ScopeOfCall, Scopes, HistoryPhases
  <2>4. /\ memory[ScopeOfCall(call[d])] \in TxMaps \cup {None}
        /\ call[d].wallet \notin crossed =>
             memory[ScopeOfCall(call[d])] = None \/ OwnMap(memory[ScopeOfCall(call[d])], ScopeOfCall(call[d]))
    BY <2>3 DEF Typed, KeptIsOwn, ScopeOfCall
  <2>5. /\ DOMAIN call'[d] = CallFields /\ call'[d].read = memory[ScopeOfCall(call[d])]
        /\ \A f \in CallFields \ {"read"} : call'[d][f] = call[d][f]
    BY <2>2 DEF Rereads, CallTyped
  <2>6. /\ call'[d].kind = call[d].kind /\ call'[d].phase = call[d].phase /\ call'[d].wallet = call[d].wallet
        /\ call'[d].asset = call[d].asset /\ call'[d].asked = call[d].asked /\ call'[d].txs = call[d].txs
        /\ call'[d].receipts = call[d].receipts /\ call'[d].balance = call[d].balance
        /\ call'[d].fiat = call[d].fiat /\ call'[d].since = call[d].since
        /\ call'[d].disturbed = call[d].disturbed
    BY <2>5 DEF CallFields
  <2>7. CallTyped(call[d])'
    BY <1>1, <2>2, <2>4, <2>5, <2>6 DEF CallTyped
  <2>8. OwnCall(call[d])'
    BY <1>1, <2>2, <2>4, <2>5, <2>6 DEF OwnCall, ScopeOfCall, Flying
  <2>9. QED
    BY <2>2, <2>6, <2>7, <2>8 DEF Rereads
<1>3. Typed'
  BY <1>1 DEF Typed
<1>4. CallsTyped'
  BY <1>2 DEF CallsTyped
<1>5. LogoutLists'
  <2>1. \A d \in Calls : Flying(call'[d]) => Flying(call[d]) /\ call'[d].wallet = call[d].wallet
    BY <1>2 DEF Flying
  <2>2. ASSUME selected.acc = None
        PROVE  /\ \A w \in Wallets \ crossed : balance'.stored[w] = balance.stored[w]
               /\ \A w \in Wallets \ crossed, asset \in Assets :
                    stored'[[wallet |-> w, asset |-> asset]] = stored[[wallet |-> w, asset |-> asset]]
    BY <2>2 DEF LogoutLists, ScopeOfCall, history, Flying, HistoryPhases, Scopes
  <2>3. QED
    BY <1>1, <2>1, <2>2 DEF LogoutLists, LoggedOut
<1>6. KeptIsOwn'
  <2>1. \A s \in Scopes : s.wallet \notin crossed =>
          (memory'[s] = None \/ OwnMap(memory'[s], s)) /\ (stored'[s] = None \/ OwnMap(stored'[s], s))
    BY DEF KeptIsOwn, history, ScopeOfCall
  <2>2. \A w \in Wallets \ crossed : 
       /\ balance'.memory[w].native \in {None, w.net} /\ balance'.memory[w].tokens \in {None, w.net}
       /\ balance'.stored[w].native \in {None, w.net} /\ balance'.stored[w].tokens \in {None, w.net}
    BY DEF KeptIsOwn, OwnCall
  <2>3. QED
    BY <1>1, <1>2, <2>1, <2>2 DEF KeptIsOwn
<1>7. AnswersSettle'
  <2>1. \A d, e \in Calls : d # e /\ call'[d].phase \in HistoryPhases /\ call'[e].phase \in HistoryPhases =>
          call'[d].disturbed
    BY <1>2 DEF AnswersSettle
  <2>2. ASSUME NEW d \in Calls \ {c}, ~call'[d].disturbed, call'[d].wallet \notin crossed
        PROVE  AnswerOK(call[d])'
    <3>1. AnswerOK(call[d]) /\ ~call[d].disturbed
      BY <1>2, <2>2 DEF AnswersSettle
    <3>2. CASE call[c].phase \in HistoryPhases
      <4>1. call[d].phase \notin HistoryPhases
        BY <3>1, <3>2 DEF AnswersSettle
      <4>2. call'[d] = call[d]
        BY <1>2, <4>1 DEF HistoryPhases
      <4>3. QED
        BY <3>1, <4>1, <4>2 DEF AnswerOK, SettledIn, HistoryPhases
    <3>3. CASE call[c].phase \notin HistoryPhases
      BY <1>2, <3>1, <3>3 DEF AnswerOK, SettledIn, history
    <3>4. QED
      BY <3>2, <3>3
  <2>3. QED
    BY <1>1, <2>1, <2>2 DEF AnswersSettle
<1>8. QED
  BY <1>1, <1>3, <1>4, <1>5, <1>6, <1>7

\* A step of a query that writes nothing.
LEMMA CallFrame ==
  ASSUME IInv, NEW c \in Calls, NEW k, call' = [call EXCEPT ![c] = k],
         UNCHANGED <<place, history, balance, chain, fiat, crossed>>,
         Flying(call[c]) \/ call[c].phase = "done",
         CallTyped(k)', OwnCall(k)',
         Flying(k) => Flying(call[c]) /\ k.wallet = call[c].wallet,
         k.phase \in HistoryPhases => call[c].phase \in HistoryPhases /\ (call[c].disturbed => k.disturbed),
         ~k.disturbed /\ k.wallet \notin crossed => AnswerOK(k)',
         price' \in [Currencies -> [age : {"unknown", "fresh", "stale"}, of : Currencies \cup {None}]],
         \A f \in Currencies : price'[f].of \in {None, f}
  PROVE  IInv'
<1>1. call'[c] = k /\ DOMAIN call' = Calls /\ \A d \in Calls \ {c} : call'[d] = call[d]
  BY DEF IInv, CallsTyped
<1>2. /\ UNCHANGED <<keys, network, selected, manager, session, move, astray, memory, stored, balance, crossed>>
      /\ Mined' = Mined
  BY DEF place, history, Mined
<1>3. CallTyped(call[c])' /\ OwnCall(call[c])'
  BY <1>1
<1>4. ~call'[c].disturbed /\ call'[c].wallet \notin crossed => AnswerOK(call[c])'
  BY <1>1
<1>6. \A s \in Scopes \ {ScopeOfCall(call[c])} : memory'[s] = memory[s] /\ stored'[s] = stored[s]
  BY <1>2
<1>7. memory' \in [Scopes -> TxMaps \cup {None}] /\ stored' \in [Scopes -> TxMaps \cup {None}]
  BY <1>2 DEF IInv, Typed
<1>8. call[c].phase \in HistoryPhases /\ call[c].wallet \notin crossed =>
        LET s == ScopeOfCall(call[c]) IN
        (memory'[s] = None \/ OwnMap(memory'[s], s)) /\ (stored'[s] = None \/ OwnMap(stored'[s], s))
  <2>1. call[c].phase \in HistoryPhases => ScopeOfCall(call[c]) \in Scopes
    BY DEF IInv, CallsTyped, CallTyped, ScopeOfCall, Scopes, HistoryPhases
  <2>2. QED
    BY <1>2, <2>1 DEF IInv, KeptIsOwn, ScopeOfCall
<1>9. balance' \in [memory : [Wallets -> Balances], stored : [Wallets -> Balances]]
  BY <1>2 DEF IInv, Typed
<1>10. Flying(call[c]) /\ call[c].wallet \notin crossed =>
         \A b \in {balance'.memory[call[c].wallet], balance'.stored[call[c].wallet]} :
           b.native \in {None, network} /\ b.tokens \in {None, network}
  <2>1. Flying(call[c]) => call[c].wallet \in Wallets
    BY DEF IInv, CallsTyped, CallTyped, Flying
  <2>2. QED
    BY <1>2, <2>1 DEF IInv, KeptIsOwn, OwnCall
<1>11. Flying(call'[c]) => Flying(call[c]) /\ call'[c].wallet = call[c].wallet
  BY <1>1
<1>12. call'[c].phase \in HistoryPhases =>
         call[c].phase \in HistoryPhases /\ (call[c].disturbed => call'[c].disturbed)
  BY <1>1
<1>13. QED
  BY <1>1, <1>2, <1>3, <1>4, <1>6, <1>7, <1>8, <1>9, <1>10, <1>11, <1>12, QueryFrame DEF history

\* What the invariant says of one query, and of the map it is to write.
LEMMA QueryFacts ==
  ASSUME IInv, NEW c \in Calls
  PROVE  /\ CallTyped(call[c]) /\ OwnCall(call[c]) /\ ScopeOf(c) = ScopeOfCall(call[c])
         /\ ~call[c].disturbed /\ call[c].wallet \notin crossed => AnswerOK(call[c])
         /\ Typed
         /\ call[c].phase \in HistoryPhases =>
              /\ ScopeOf(c) \in Scopes /\ memory[ScopeOf(c)] \in TxMaps \cup {None}
              /\ stored[ScopeOf(c)] \in TxMaps \cup {None}
              /\ call[c].wallet \notin crossed =>
                   /\ memory[ScopeOf(c)] = None \/ OwnMap(memory[ScopeOf(c)], ScopeOf(c))
                   /\ stored[ScopeOf(c)] = None \/ OwnMap(stored[ScopeOf(c)], ScopeOf(c))
<1>1. ScopeOf(c) = ScopeOfCall(call[c])
  BY DEF ScopeOf, ScopeOfCall
<1>2. CallTyped(call[c]) /\ OwnCall(call[c]) /\ Typed
  BY DEF IInv, CallsTyped, KeptIsOwn
<1>3. call[c].phase \in HistoryPhases => ScopeOf(c) \in Scopes /\ ScopeOf(c).wallet = call[c].wallet
  BY <1>2 DEF CallTyped, ScopeOf, Scopes, HistoryPhases
<1>4. QED
  BY <1>1, <1>2, <1>3 DEF IInv, AnswersSettle, Typed, KeptIsOwn

LEMMA NoTxsOK == NoTxs \in TxMaps /\ \A s : OwnMap(NoTxs, s)
  BY DEF NoTxs, TxMaps, OwnMap

\* merge() is saved, and returns what its map holds by now.
LEMMA SavedIInv == ASSUME IInv, NEW c \in Calls, Saved(c) PROVE IInv'
<1> DEFINE cache == IF memory[ScopeOf(c)] = None THEN NoTxs ELSE memory[ScopeOf(c)]
           map == IF call[c].read = None THEN cache ELSE call[c].read
           done == IF call[c].receipts = {} THEN Reconciling(call[c], map)
                     ELSE [call[c] EXCEPT !.phase = "done", !.txs = map, !.read = None]
<1>0. PICK k : k = done
  OBVIOUS
<1>1. call' = [call EXCEPT ![c] = k] /\ call[c].phase = "saving" /\ UNCHANGED <<place, history, balance, world, crossed>>
  BY <1>0 DEF Saved
<1>2. UNCHANGED <<chain, price, network, memory, selected>> /\ Mined' = Mined
  BY <1>1 DEF world, place, history, Mined
<1>3. /\ map \in TxMaps /\ (call[c].wallet \notin crossed => OwnMap(map, ScopeOf(c)))
      /\ ~call[c].disturbed /\ call[c].wallet \notin crossed => memory[ScopeOf(c)] # None /\ map = memory[ScopeOf(c)]
  BY <1>1, QueryFacts, NoTxsOK DEF CallTyped, OwnCall, Flying, HistoryPhases, AnswerOK
<1> HIDE DEF map, cache
<1>4. /\ k.phase = (IF call[c].receipts = {} /\ Pending(map) # {} THEN "block" ELSE "done")
      /\ k.txs = map /\ k.read = None /\ k.wallet = call[c].wallet /\ k.asset = call[c].asset /\ k.receipts = call[c].receipts
      /\ k.balance = call[c].balance /\ k.fiat = call[c].fiat /\ k.since = call[c].since
      /\ k.disturbed = call[c].disturbed /\ DOMAIN k = CallFields
      /\ k.asked = call[c].asked \/ k.asked = None
  BY <1>0, QueryFacts DEF Reconciling, CallTyped, CallFields
<1> HIDE DEF done
<1>5. CallTyped(k)'
  BY <1>1, <1>2, <1>3, <1>4, QueryFacts DEF CallTyped, HistoryPhases
<1>6. OwnCall(k)'
  BY <1>1, <1>2, <1>3, <1>4, QueryFacts DEF OwnCall, HistoryPhases, Flying, ScopeOfCall
<1>7. ASSUME ~k.disturbed, k.wallet \notin crossed PROVE AnswerOK(k)'
  <2>1. /\ AnswerOK(call[c]) /\ memory[ScopeOf(c)] # None /\ map = memory[ScopeOf(c)]
        /\ ScopeOfCall(k) = ScopeOf(c) /\ ScopeOfCall(call[c]) = ScopeOf(c) /\ k.since \subseteq Txs
    BY <1>3, <1>4, <1>7, QueryFacts DEF ScopeOfCall, CallTyped, Mined
  <2>2. k.phase = "done" => SettledIn(k, k.txs)
    BY <1>1, <1>4, <2>1 DEF AnswerOK, SettledIn, Pending
  <2>3. QED
    BY <1>2, <1>4, <2>1, <2>2 DEF AnswerOK, SettledIn, HistoryPhases
<1>9. /\ price' \in [Currencies -> [age : {"unknown", "fresh", "stale"}, of : Currencies \cup {None}]]
      /\ \A f \in Currencies : price'[f].of \in {None, f}
  BY <1>2 DEF IInv, Typed, KeptIsOwn
<1>10. UNCHANGED <<place, history, balance, chain, fiat, crossed>>
  BY <1>1 DEF world
<1>11. Flying(call[c]) /\ k.phase \notin HistoryPhases \ {"block"} /\ call[c].phase \in HistoryPhases
  BY <1>1, <1>4 DEF Flying, HistoryPhases
<1>12. QED
  BY <1>1, <1>4, <1>5, <1>6, <1>7, <1>9, <1>10, <1>11, CallFrame

\* The receipts of what is pending are asked for.
LEMMA BlockIInv == ASSUME IInv, NEW c \in Calls, Block(c) PROVE IInv'
<1>1. PICK lost \in {{}} \cup {{tx} : tx \in Pending(call[c].txs)} :
        call' = [call EXCEPT ![c].phase = "receipts", ![c].disturbed = @ \/ lost # {},
                     ![c].receipts = {tx \in (Pending(call[c].txs) \cap Mined) \ lost :
                                        Home[tx].wallet.net = network}]
  BY DEF Block
<1> DEFINE receipts == {tx \in (Pending(call[c].txs) \cap Mined) \ lost : Home[tx].wallet.net = network}
           asked == [call[c] EXCEPT !.phase = "receipts", !.disturbed = @ \/ lost # {}, !.receipts = receipts]
<1>0. PICK k : k = asked
  OBVIOUS
<1>2. /\ call[c].phase = "block" /\ UNCHANGED <<place, history, balance, world, crossed>>
      /\ call' = [call EXCEPT ![c] = k]
  BY <1>0, <1>1, QueryFacts DEF Block, IInv, CallsTyped, CallTyped, CallFields
<1>3. UNCHANGED <<chain, price, network, memory, selected>> /\ Mined' = Mined
  BY <1>2 DEF world, place, history, Mined
<1>4. receipts \subseteq Mined /\ receipts \subseteq Pending(call[c].txs)
  OBVIOUS
<1>5. /\ k.phase = "receipts" /\ k.receipts = receipts /\ DOMAIN k = CallFields
      /\ k.txs = call[c].txs /\ k.read = call[c].read /\ k.wallet = call[c].wallet /\ k.asset = call[c].asset
      /\ k.balance = call[c].balance /\ k.fiat = call[c].fiat /\ k.since = call[c].since /\ k.asked = call[c].asked
  BY <1>0, QueryFacts DEF CallTyped, CallFields
<1>6. k.disturbed = (call[c].disturbed \/ lost # {})
  BY <1>0, QueryFacts, Zenon DEF CallTyped, CallFields
<1> HIDE DEF asked, receipts
<1>7. CallTyped(k)'
  BY <1>2, <1>3, <1>4, <1>5, QueryFacts DEF CallTyped, HistoryPhases, Pending
<1>8. OwnCall(k)'
  BY <1>2, <1>3, <1>5, QueryFacts DEF OwnCall, HistoryPhases, Flying, ScopeOfCall
<1>9. ASSUME ~k.disturbed, k.wallet \notin crossed PROVE AnswerOK(k)'
  <2>1. /\ AnswerOK(call[c]) /\ OwnCall(call[c]) /\ lost = {}
        /\ ScopeOfCall(k) = ScopeOfCall(call[c]) /\ k.since \subseteq Mined /\ k.since \subseteq Txs
    BY <1>5, <1>6, <1>9, QueryFacts DEF ScopeOfCall, CallTyped, Mined
  <2>2. \A tx \in k.since : Home[tx] = ScopeOfCall(k) /\ k.txs[tx] = "pending" => tx \in k.receipts
    BY <1>2, <1>5, <1>9, <2>1 DEF receipts, OwnCall, Flying, ScopeOfCall, Pending
  <2>3. QED
    BY <1>2, <1>3, <1>5, <2>1, <2>2 DEF AnswerOK, HistoryPhases
<1>11. /\ price' \in [Currencies -> [age : {"unknown", "fresh", "stale"}, of : Currencies \cup {None}]]
       /\ \A f \in Currencies : price'[f].of \in {None, f}
  BY <1>3 DEF IInv, Typed, KeptIsOwn
<1>12. UNCHANGED <<place, history, balance, chain, fiat, crossed>>
  BY <1>2 DEF world
<1>13. Flying(call[c]) /\ call[c].phase \in HistoryPhases
  BY <1>2 DEF Flying, HistoryPhases
<1>14. QED
  BY <1>2, <1>5, <1>6, <1>7, <1>8, <1>9, <1>11, <1>12, <1>13, CallFrame

\* The indexer, or the node, fails.
LEMMA HistoryFailsIInv == ASSUME IInv, NEW c \in Calls, HistoryFails(c) PROVE IInv'
<1> DEFINE failed == [call[c] EXCEPT !.disturbed = TRUE]
           ended == IF call[c].phase = "fetch" THEN Reconciling(failed, call[c].txs)
                                               ELSE [failed EXCEPT !.phase = "done"]
<1>0. PICK k : k = ended
  OBVIOUS
<1>1. /\ call' = [call EXCEPT ![c] = k] /\ call[c].phase \in {"fetch", "block"}
      /\ UNCHANGED <<place, history, balance, world, crossed>>
  BY <1>0 DEF HistoryFails
<1>2. UNCHANGED <<chain, price, network, memory, selected>> /\ Mined' = Mined
  BY <1>1 DEF world, place, history, Mined
<1>3. /\ k.phase \in {"block", "done"} /\ k.disturbed /\ DOMAIN k = CallFields
      /\ k.txs = call[c].txs /\ k.wallet = call[c].wallet /\ k.asset = call[c].asset /\ k.receipts = call[c].receipts
      /\ k.balance = call[c].balance /\ k.fiat = call[c].fiat /\ k.since = call[c].since
      /\ k.asked \in {call[c].asked, None} /\ k.read \in {call[c].read, None}
  BY <1>0, <1>1, QueryFacts DEF Reconciling, CallTyped, CallFields
<1> HIDE DEF ended
<1>4. CallTyped(k)'
  BY <1>1, <1>2, <1>3, QueryFacts DEF CallTyped, HistoryPhases
<1>5. OwnCall(k)'
  BY <1>1, <1>2, <1>3, QueryFacts DEF OwnCall, HistoryPhases, Flying, ScopeOfCall
<1>7. /\ price' \in [Currencies -> [age : {"unknown", "fresh", "stale"}, of : Currencies \cup {None}]]
      /\ \A f \in Currencies : price'[f].of \in {None, f}
  BY <1>2 DEF IInv, Typed, KeptIsOwn
<1>8. UNCHANGED <<place, history, balance, chain, fiat, crossed>>
  BY <1>1 DEF world
<1>9. Flying(call[c]) /\ call[c].phase \in HistoryPhases
  BY <1>1 DEF Flying, HistoryPhases
<1>10. QED
  BY <1>1, <1>3, <1>4, <1>5, <1>7, <1>8, <1>9, CallFrame

\* A query is over, or its balance cannot be read.
LEMMA EndIInv == ASSUME IInv, NEW c \in Calls, NativeFails(c) \/ Return(c) PROVE IInv'
<1>1. /\ call' = [call EXCEPT ![c] = NoCall] /\ call[c].phase \in {"native", "done"}
      /\ UNCHANGED <<place, history, balance, world, crossed>>
  BY DEF NativeFails, Return
<1>2. NoCall.phase \notin HistoryPhases
  BY DEF NoCall, HistoryPhases
<1>3. /\ price' \in [Currencies -> [age : {"unknown", "fresh", "stale"}, of : Currencies \cup {None}]]
      /\ \A f \in Currencies : price'[f].of \in {None, f}
  BY <1>1 DEF IInv, Typed, KeptIsOwn, world
<1>4. UNCHANGED <<place, history, balance, chain, fiat, crossed>> /\ (Flying(call[c]) \/ call[c].phase = "done")
  BY <1>1 DEF world, Flying
<1>5. QED
  BY <1>1, <1>2, <1>3, <1>4, NoCallOK, CallFrame

\* The native balance and the prices arrive.
LEMMA NativeIInv == ASSUME IInv, NEW c \in Calls, Native(c) PROVE IInv'
<1> DEFINE rate == price'[CacheKey(call[c].fiat)].of
           got == [call[c] EXCEPT !.phase = "tokens", !.balance.tokens = network, !.balance.rate = rate]
<1>1. call[c].phase = "native" /\ UNCHANGED <<place, history, balance, fiat, chain, crossed>>
  BY DEF Native
<1>2. UNCHANGED <<chain, network, memory, selected, crossed>> /\ Mined' = Mined
  BY <1>1 DEF place, history, Mined
<1>3. call[c].fiat \in Currencies /\ CacheKey(call[c].fiat) = call[c].fiat
  BY <1>1, QueryFacts DEF CallTyped, CacheKey
<1>4. /\ price' \in [Currencies -> [age : {"unknown", "fresh", "stale"}, of : Currencies \cup {None}]]
      /\ \A f \in Currencies : price'[f].of \in {None, f}
  <2>1. /\ price \in [Currencies -> [age : {"unknown", "fresh", "stale"}, of : Currencies \cup {None}]]
        /\ \A f \in Currencies : price[f].of \in {None, f}
    BY DEF IInv, Typed, KeptIsOwn
  <2>2. price' = price \/ price' = [price EXCEPT ![call[c].fiat] = [age |-> "fresh", of |-> call[c].fiat]]
    BY <1>3 DEF Native
  <2>3. QED
    BY <1>3, <2>1, <2>2
<1>5. rate \in {None, call[c].fiat} /\ rate \in Currencies \cup {None}
  BY <1>3, <1>4
<1>0. PICK k : k = got
  OBVIOUS
<1>6. /\ k.phase = "tokens" /\ DOMAIN k = CallFields
      /\ k.txs = call[c].txs /\ k.wallet = call[c].wallet /\ k.asset = call[c].asset /\ k.receipts = call[c].receipts
      /\ k.fiat = call[c].fiat /\ k.since = call[c].since
      /\ k.disturbed = call[c].disturbed /\ k.asked = call[c].asked /\ k.read = call[c].read
      /\ k.balance = [call[c].balance EXCEPT !.tokens = network, !.rate = rate]
  BY <1>0, QueryFacts DEF CallTyped, CallFields
<1>7. call' = [call EXCEPT ![c] = k]
  <2>1. call' = [call EXCEPT ![c].phase = "tokens", ![c].balance.tokens = network, ![c].balance.rate = rate]
    BY DEF Native
  <2>2. call' = [call EXCEPT ![c] = got]
    BY <2>1, QueryFacts DEF IInv, CallsTyped, CallTyped, CallFields
  <2>3. QED
    BY <1>0, <2>2
<1> HIDE DEF got, rate
<1>8. k.balance \in Balances /\ k.balance.native = call[c].balance.native /\ k.balance.tokens = network /\ k.balance.rate = rate
  <2>1. network \in Networks /\ call[c].balance \in Balances
    BY QueryFacts DEF CallTyped, Typed
  <2>2. k.balance = [native |-> call[c].balance.native, tokens |-> network, rate |-> rate]
    BY <1>6, <2>1 DEF Balances
  <2>3. QED
    BY <1>5, <2>1, <2>2 DEF Balances
<1>9. CallTyped(k)'
  BY <1>1, <1>2, <1>3, <1>6, <1>8, QueryFacts DEF CallTyped, HistoryPhases
<1>10. OwnCall(k)'
  BY <1>1, <1>2, <1>5, <1>6, <1>8, QueryFacts DEF OwnCall, HistoryPhases, Flying
<1>11. AnswerOK(k)'
  BY <1>6 DEF AnswerOK, HistoryPhases
<1>12. Flying(call[c]) /\ k.phase \notin HistoryPhases
  BY <1>1, <1>6 DEF Flying, HistoryPhases
<1>13. QED
  BY <1>1, <1>4, <1>6, <1>7, <1>9, <1>10, <1>11, <1>12, CallFrame

\* What a merge leaves under the key of its query.
LEMMA OverOK ==
  ASSUME NEW old \in TxMaps, NEW new \in TxMaps
  PROVE  Over(old, new) \in TxMaps /\ \A s : OwnMap(old, s) /\ OwnMap(new, s) => OwnMap(Over(old, new), s)
  BY DEF Over, TxMaps, OwnMap

LEMMA MergeOK ==
  ASSUME IInv, NEW c \in Calls, call[c].phase \in HistoryPhases, NEW map \in TxMaps, NEW new \in TxMaps,
         Merge(c, map, new)
  PROVE  /\ memory' \in [Scopes -> TxMaps \cup {None}] /\ stored' \in [Scopes -> TxMaps \cup {None}]
         /\ \A s \in Scopes \ {ScopeOfCall(call[c])} : memory'[s] = memory[s] /\ stored'[s] = stored[s]
         /\ \A s \in {ScopeOfCall(call[c])} :
              /\ memory'[s] = Over(map, new) /\ memory'[s] \in TxMaps /\ memory'[s] # None
              /\ stored'[s] = memory'[s]
         /\ OwnMap(map, ScopeOf(c)) /\ OwnMap(new, ScopeOf(c)) =>
              LET s == ScopeOfCall(call[c]) IN OwnMap(memory'[s], s) /\ OwnMap(stored'[s], s)
<1>1. /\ ScopeOf(c) \in Scopes /\ ScopeOf(c) = ScopeOfCall(call[c]) 
      /\ memory \in [Scopes -> TxMaps \cup {None}] /\ stored \in [Scopes -> TxMaps \cup {None}]
  BY QueryFacts DEF Typed
<1>2. Over(map, new) \in TxMaps /\ (OwnMap(map, ScopeOf(c)) /\ OwnMap(new, ScopeOf(c)) => OwnMap(Over(map, new), ScopeOf(c)))
  BY OverOK
<1>3. /\ memory' = [memory EXCEPT ![ScopeOf(c)] = Over(map, new)]
      /\ stored' = [stored EXCEPT ![ScopeOf(c)] = memory'[ScopeOf(c)]]
  BY DEF Merge
<1> DEFINE merged == Over(map, new)
<1> HIDE DEF merged
<1>4. memory' = [memory EXCEPT ![ScopeOf(c)] = merged] /\ stored' = [stored EXCEPT ![ScopeOf(c)] = merged]
  BY <1>1, <1>3 DEF merged
<1>5. merged \in TxMaps /\ merged # None /\ (OwnMap(map, ScopeOf(c)) /\ OwnMap(new, ScopeOf(c)) => OwnMap(merged, ScopeOf(c)))
  BY <1>2 DEF merged
<1>7. /\ memory' \in [Scopes -> TxMaps \cup {None}] /\ stored' \in [Scopes -> TxMaps \cup {None}]
      /\ \A s \in Scopes \ {ScopeOf(c)} : memory'[s] = memory[s] /\ stored'[s] = stored[s]
      /\ memory'[ScopeOf(c)] = merged /\ stored'[ScopeOf(c)] = merged
  BY <1>1, <1>4, <1>5
<1>8. QED
  BY <1>1, <1>5, <1>7 DEF merged

\* merge() of what a request has answered.
LEMMA BeginMergeIInv ==
  ASSUME IInv, NEW c \in Calls, call[c].phase \in {"fetch", "receipts"}, NEW new \in TxMaps,
         call[c].wallet \notin crossed => OwnMap(new, ScopeOf(c)),
         ~call[c].disturbed /\ call[c].wallet \notin crossed /\ call[c].receipts # {} =>
           SettledIn(call[c], Over(memory[ScopeOf(c)], new)),
         BeginMerge(c, new), UNCHANGED <<place, balance, world, crossed, budget>>
  PROVE  IInv'
<1>0. /\ UNCHANGED <<keys, network, selected, manager, session, move, astray, chain, price, fiat, balance, crossed>> /\ Mined' = Mined
      /\ call[c].phase \in HistoryPhases /\ Flying(call[c])
  BY DEF place, world, Mined, HistoryPhases, Flying
<1>1. CASE memory[ScopeOf(c)] # None
  <2>0. PICK k : k = [call[c] EXCEPT !.phase = "saving", !.asked = None, !.txs = NoTxs]
    OBVIOUS
  <2>1. Merge(c, memory[ScopeOf(c)], new) /\ call' = [call EXCEPT ![c] = k]
    BY <1>1, <2>0, QueryFacts DEF BeginMerge, IInv, CallsTyped, CallTyped, CallFields
  <2>2. /\ k.phase = "saving" /\ k.asked = None /\ k.txs = NoTxs /\ DOMAIN k = CallFields
        /\ k.wallet = call[c].wallet /\ k.asset = call[c].asset /\ k.receipts = call[c].receipts
        /\ k.fiat = call[c].fiat /\ k.since = call[c].since /\ k.balance = call[c].balance
        /\ k.disturbed = call[c].disturbed /\ k.read = call[c].read
    BY <2>0, QueryFacts DEF CallTyped, CallFields
  <2>3. call'[c] = k /\ DOMAIN call' = Calls /\ \A d \in Calls \ {c} : call'[d] = call[d]
    BY <2>1 DEF IInv, CallsTyped
  <2>4. memory[ScopeOf(c)] \in TxMaps /\ (call[c].wallet \notin crossed => OwnMap(memory[ScopeOf(c)], ScopeOf(c)))
    BY <1>0, <1>1, QueryFacts
  <2>5. /\ memory' \in [Scopes -> TxMaps \cup {None}] /\ stored' \in [Scopes -> TxMaps \cup {None}]
        /\ \A s \in Scopes \ {ScopeOfCall(call[c])} : memory'[s] = memory[s] /\ stored'[s] = stored[s]
        /\ \A s \in {ScopeOfCall(call[c])} :
             /\ memory'[s] = Over(memory[ScopeOf(c)], new) /\ memory'[s] \in TxMaps /\ memory'[s] # None
             /\ stored'[s] = memory'[s]
        /\ call[c].wallet \notin crossed =>
             LET s == ScopeOfCall(call[c]) IN OwnMap(memory'[s], s) /\ OwnMap(stored'[s], s)
    BY <1>0, <2>1, <2>4, MergeOK
  <2>6. CallTyped(call[c])'
    BY <1>0, <2>2, <2>3, QueryFacts, NoTxsOK DEF CallTyped, HistoryPhases
  <2>7. OwnCall(call[c])'
    BY <1>0, <2>2, <2>3, QueryFacts, NoTxsOK DEF OwnCall, HistoryPhases, Flying, ScopeOfCall
  <2>8. ASSUME ~call'[c].disturbed, call'[c].wallet \notin crossed PROVE AnswerOK(call[c])'
    <3>1. AnswerOK(call[c]) /\ ScopeOfCall(k) = ScopeOfCall(call[c]) /\ ScopeOf(c) = ScopeOfCall(call[c])
      BY <2>2, <2>3, <2>8, QueryFacts DEF ScopeOfCall
    <3>2. memory'[ScopeOfCall(k)] # None /\ memory'[ScopeOfCall(k)] = Over(memory[ScopeOf(c)], new)
      BY <2>5, <3>1
    <3>3. k.receipts # {} => SettledIn(k, memory'[ScopeOfCall(k)])
      BY <2>2, <2>3, <2>8, <3>1, <3>2 DEF SettledIn, ScopeOfCall
    <3>4. k.read = None
      BY <1>0, <2>2, <3>1 DEF AnswerOK
    <3>5. QED
      BY <2>2, <2>3, <3>2, <3>3, <3>4 DEF AnswerOK, SettledIn, HistoryPhases
  <2>11. /\ price' \in [Currencies -> [age : {"unknown", "fresh", "stale"}, of : Currencies \cup {None}]]
         /\ \A f \in Currencies : price'[f].of \in {None, f}
         /\ balance' \in [memory : [Wallets -> Balances], stored : [Wallets -> Balances]]
         /\ call[c].wallet \notin crossed =>
              \A b \in {balance'.memory[call[c].wallet], balance'.stored[call[c].wallet]} :
                b.native \in {None, network} /\ b.tokens \in {None, network}
    BY <1>0, QueryFacts DEF IInv, Typed, KeptIsOwn, OwnCall, CallTyped, Flying
  <2>12. QED
    BY <1>0, <2>2, <2>3, <2>5, <2>6, <2>7, <2>8, <2>11, QueryFrame
<1>2. CASE memory[ScopeOf(c)] = None
  <2>0. PICK k : k = [call[c] EXCEPT !.phase = "reload", !.asked = None, !.txs = new, !.read = stored[ScopeOf(c)]]
    OBVIOUS
  <2>1. call' = [call EXCEPT ![c] = k] /\ UNCHANGED history
    BY <1>2, <2>0, QueryFacts DEF BeginMerge, IInv, CallsTyped, CallTyped, CallFields
  <2>2. /\ k.phase = "reload" /\ k.asked = None /\ k.txs = new /\ DOMAIN k = CallFields
        /\ k.wallet = call[c].wallet /\ k.asset = call[c].asset /\ k.receipts = call[c].receipts
        /\ k.fiat = call[c].fiat /\ k.since = call[c].since /\ k.balance = call[c].balance
        /\ k.disturbed = call[c].disturbed /\ k.read = stored[ScopeOf(c)]
    BY <2>0, QueryFacts DEF CallTyped, CallFields
  <2>3. CallTyped(k)'
    BY <1>0, <2>2, QueryFacts DEF CallTyped, HistoryPhases
  <2>4. OwnCall(k)'
    BY <1>0, <2>2, QueryFacts DEF OwnCall, HistoryPhases, Flying, ScopeOfCall
  <2>5. ~(~k.disturbed /\ k.wallet \notin crossed)
    BY <1>0, <1>2, <2>2, QueryFacts DEF AnswerOK
  <2>7. /\ price' \in [Currencies -> [age : {"unknown", "fresh", "stale"}, of : Currencies \cup {None}]]
        /\ \A f \in Currencies : price'[f].of \in {None, f}
    BY <1>0 DEF IInv, Typed, KeptIsOwn
  <2>8. UNCHANGED <<place, history, balance, chain, fiat, crossed>>
    BY <1>0, <2>1 DEF place
  <2>9. QED
    BY <1>0, <2>1, <2>2, <2>3, <2>4, <2>5, <2>7, <2>8, CallFrame
<1>3. QED
  BY <1>1, <1>2

\* The indexer lists what happened in the scope that it is asked for.
LEMMA ListingsOK ==
  ASSUME chain \in [Txs -> Statuses], NEW scope, NEW new \in Listings(scope)
  PROVE  new \in TxMaps /\ OwnMap(new, scope)
<1> DEFINE here == {tx \in Txs : Home[tx] = scope}
           listing(unseen, late) ==
             [tx \in Txs |-> IF tx \notin here \ unseen THEN None ELSE IF tx \in late THEN "pending" ELSE chain[tx]]
<1>1. Listings(scope) = {listing(unseen, late) : unseen \in SUBSET here, late \in SUBSET here}
  BY DEF Listings
<1>2. PICK unseen \in SUBSET here, late \in SUBSET here : new = listing(unseen, late)
  <2> HIDE DEF listing, here
  <2>1. QED
    BY <1>1
<1>3. QED
  BY <1>2 DEF TxMaps, Statuses, OwnMap

\* The indexer answers.
LEMMA FetchedIInv == ASSUME IInv, NEW c \in Calls, Fetched(c) PROVE IInv'
<1> DEFINE asked == [ScopeOf(c) EXCEPT !.wallet.net = call[c].asked]
<1>1. PICK new \in Listings(asked) : BeginMerge(c, new)
  BY DEF Fetched
<1>2. call[c].phase = "fetch" /\ UNCHANGED <<place, balance, world, crossed, budget>>
  BY DEF Fetched
<1>3. chain \in [Txs -> Statuses]
  BY QueryFacts DEF Typed
<1>4. new \in TxMaps /\ OwnMap(new, asked)
  BY <1>1, <1>3, ListingsOK
<1>5. ASSUME call[c].wallet \notin crossed PROVE asked = ScopeOf(c)
  <2>1. call[c].asked = call[c].wallet.net /\ call[c].wallet \in Wallets
    BY <1>2, <1>5, QueryFacts DEF OwnCall, CallTyped, Flying
  <2>2. QED
    BY <2>1 DEF ScopeOf, Wallets
<1>6. call[c].wallet \notin crossed => OwnMap(new, ScopeOf(c))
  BY <1>4, <1>5
<1>7. ~call[c].disturbed /\ call[c].wallet \notin crossed => call[c].receipts = {}
  BY <1>2, QueryFacts DEF AnswerOK
<1>8. QED
  BY <1>1, <1>2, <1>4, <1>6, <1>7, BeginMergeIInv

\* The receipts arrive.
LEMMA ReceiptsIInv == ASSUME IInv, NEW c \in Calls, Receipts(c) PROVE IInv'
<1> DEFINE new == [tx \in Txs |-> IF tx \in call[c].receipts THEN chain[tx] ELSE call[c].txs[tx]]
<1>1. /\ call[c].phase = "receipts" /\ call[c].phase \in HistoryPhases /\ Flying(call[c])
      /\ UNCHANGED <<place, balance, world, crossed, budget>>
  BY DEF Receipts, HistoryPhases, Flying
<1>2. CASE call[c].receipts = {}
  <2>0. PICK k : k = [call[c] EXCEPT !.phase = "done"]
    OBVIOUS
  <2>1. call' = [call EXCEPT ![c] = k] /\ UNCHANGED <<place, history, balance, chain, fiat, price, network, crossed>>
    BY <1>1, <1>2, <2>0 DEF Receipts, world, place
  <2>2. /\ k.phase = "done" /\ DOMAIN k = CallFields /\ k.read = call[c].read /\ k.asked = call[c].asked
        /\ k.txs = call[c].txs /\ k.wallet = call[c].wallet /\ k.asset = call[c].asset /\ k.receipts = call[c].receipts
        /\ k.balance = call[c].balance /\ k.fiat = call[c].fiat /\ k.since = call[c].since
        /\ k.disturbed = call[c].disturbed
    BY <2>0, QueryFacts DEF CallTyped, CallFields
  <2>3. CallTyped(k)'
    <3>1. Mined' = Mined
      BY <2>1 DEF Mined
    <3>2. QED
      BY <1>1, <2>2, <3>1, QueryFacts DEF CallTyped, HistoryPhases
  <2>4. OwnCall(k)' /\ ~Flying(k)
    BY <2>2 DEF OwnCall, Flying
  <2>5. ASSUME ~k.disturbed, k.wallet \notin crossed PROVE AnswerOK(k)'
    <3>1. SettledIn(k, k.txs)
      BY <1>1, <1>2, <2>2, <2>5, QueryFacts DEF AnswerOK, SettledIn, ScopeOfCall
    <3>2. QED
      BY <2>2, <3>1 DEF AnswerOK, SettledIn, HistoryPhases
  <2>6. /\ price' \in [Currencies -> [age : {"unknown", "fresh", "stale"}, of : Currencies \cup {None}]]
        /\ \A f \in Currencies : price'[f].of \in {None, f}
    BY <2>1 DEF IInv, Typed, KeptIsOwn
  <2>7. k.phase \notin HistoryPhases
    BY <2>2 DEF HistoryPhases
  <2>8. QED
    BY <1>1, <2>1, <2>2, <2>3, <2>4, <2>5, <2>6, <2>7, CallFrame
<1>3. CASE call[c].receipts # {}
  <2>1. BeginMerge(c, new)
    BY <1>3 DEF Receipts
  <2>2. /\ chain \in [Txs -> Statuses] /\ call[c].txs \in TxMaps /\ call[c].receipts \subseteq Mined
        /\ call[c].receipts \subseteq Pending(call[c].txs) /\ call[c].since \subseteq Mined
    BY <1>1, QueryFacts DEF Typed, CallTyped
  <2>3. new \in TxMaps
    BY <2>2 DEF TxMaps
  <2>4. call[c].wallet \notin crossed => OwnMap(new, ScopeOf(c))
    <3>1. ASSUME call[c].wallet \notin crossed PROVE OwnMap(call[c].txs, ScopeOf(c))
      BY <1>1, <3>1, QueryFacts DEF OwnCall
    <3>2. None # "pending" /\ \A tx \in call[c].receipts : call[c].txs[tx] = "pending"
      BY <2>2 DEF Statuses, Pending
    <3>3. QED
      BY <3>1, <3>2 DEF OwnMap
  <2>5. ASSUME ~call[c].disturbed, call[c].wallet \notin crossed
        PROVE  SettledIn(call[c], Over(memory[ScopeOf(c)], new))
    <3>1. /\ memory[ScopeOf(c)] = call[c].txs /\ ScopeOf(c) = ScopeOfCall(call[c])
          /\ \A tx \in call[c].since :
               Home[tx] = ScopeOfCall(call[c]) /\ call[c].txs[tx] = "pending" => tx \in call[c].receipts
      BY <1>1, <2>5, QueryFacts DEF AnswerOK
    <3>2. \A tx \in call[c].since : Home[tx] = ScopeOfCall(call[c]) => new[tx] # "pending" /\ tx \in Txs
      BY <2>2, <3>1 DEF Mined
    <3>3. \A tx \in call[c].since : new[tx] = None => call[c].txs[tx] = None
      BY <2>2 DEF Mined
    <3>4. None # "pending"
      BY DEF Statuses
    <3>5. QED
      BY <3>1, <3>2, <3>3, <3>4 DEF SettledIn, Over
  <2> HIDE DEF new
  <2>6. QED
    BY <1>1, <2>1, <2>3, <2>4, <2>5, BeginMergeIInv
<1>4. QED
  BY <1>2, <1>3

\* A load() that replaces the map hands the old one to the queries that are to read it.
LEMMA ReplacedOK ==
  ASSUME IInv, NEW c \in Calls, call[c].phase \in HistoryPhases, NEW k,
         call' = [Replaced(ScopeOf(c)) EXCEPT ![c] = k]
  PROVE  /\ call'[c] = k /\ DOMAIN call' = Calls
         /\ \A d \in Calls \ {c} : call'[d] = call[d] \/ Rereads(c, d)
<1>1. \A d \in Calls : ScopeOf(d) = ScopeOfCall(call[d])
  BY DEF ScopeOf, ScopeOfCall
<1>2. call'[c] = k /\ DOMAIN call' = Calls /\ \A d \in Calls \ {c} : call'[d] = Replaced(ScopeOf(c))[d]
  BY DEF Replaced
<1>3. \A d \in Calls \ {c} : call'[d] = call[d] \/ Rereads(c, d)
  BY <1>1, <1>2 DEF Replaced, Rereads
<1>4. QED
  BY <1>2, <1>3

\* The rest of a merge() that had to read storage.
LEMMA ReloadedIInv == ASSUME IInv, NEW c \in Calls, Reloaded(c) PROVE IInv'
<1> DEFINE map == IF call[c].read = None THEN NoTxs ELSE call[c].read
<1>0. PICK k : k = [call[c] EXCEPT !.phase = "saving", !.txs = NoTxs, !.read = None]
  OBVIOUS
<1>1. /\ call[c].phase = "reload" /\ call[c].phase \in HistoryPhases /\ Flying(call[c])
      /\ Merge(c, map, call[c].txs) /\ call' = [Replaced(ScopeOf(c)) EXCEPT ![c] = k]
      /\ UNCHANGED <<place, balance, world, crossed>>
  BY <1>0 DEF Reloaded, HistoryPhases, Flying
<1>2. /\ UNCHANGED <<keys, network, selected, manager, session, move, astray, chain, price, fiat, balance, crossed>> /\ Mined' = Mined
  BY <1>1 DEF place, world, Mined
<1>3. /\ k.phase = "saving" /\ k.read = None /\ k.txs = NoTxs /\ DOMAIN k = CallFields
      /\ k.wallet = call[c].wallet /\ k.asset = call[c].asset /\ k.receipts = call[c].receipts
      /\ k.fiat = call[c].fiat /\ k.since = call[c].since /\ k.balance = call[c].balance
      /\ k.disturbed = call[c].disturbed /\ k.asked = call[c].asked
  BY <1>0, QueryFacts DEF CallTyped, CallFields
<1>4. /\ call'[c] = k /\ DOMAIN call' = Calls
      /\ \A d \in Calls \ {c} : call'[d] = call[d] \/ Rereads(c, d)
  BY <1>1, ReplacedOK
<1>5. /\ map \in TxMaps /\ call[c].txs \in TxMaps
      /\ call[c].wallet \notin crossed => OwnMap(map, ScopeOf(c)) /\ OwnMap(call[c].txs, ScopeOf(c))
  BY <1>1, QueryFacts, NoTxsOK DEF CallTyped, OwnCall
<1> HIDE DEF map
<1>6. /\ memory' \in [Scopes -> TxMaps \cup {None}] /\ stored' \in [Scopes -> TxMaps \cup {None}]
      /\ \A s \in Scopes \ {ScopeOfCall(call[c])} : memory'[s] = memory[s] /\ stored'[s] = stored[s]
      /\ \A s \in {ScopeOfCall(call[c])} :
           /\ memory'[s] \in TxMaps /\ memory'[s] # None
           /\ stored'[s] = memory'[s]
      /\ call[c].wallet \notin crossed =>
           LET s == ScopeOfCall(call[c]) IN OwnMap(memory'[s], s) /\ OwnMap(stored'[s], s)
  BY <1>1, <1>5, MergeOK
<1>7. CallTyped(call[c])'
  BY <1>1, <1>2, <1>3, <1>4, QueryFacts, NoTxsOK DEF CallTyped, HistoryPhases
<1>8. OwnCall(call[c])'
  BY <1>1, <1>2, <1>3, <1>4, QueryFacts, NoTxsOK DEF OwnCall, HistoryPhases, Flying, ScopeOfCall
<1>9. call[c].disturbed \/ call[c].wallet \in crossed
  BY <1>1, QueryFacts DEF AnswerOK
<1>11. /\ price' \in [Currencies -> [age : {"unknown", "fresh", "stale"}, of : Currencies \cup {None}]]
       /\ \A f \in Currencies : price'[f].of \in {None, f}
       /\ balance' \in [memory : [Wallets -> Balances], stored : [Wallets -> Balances]]
       /\ call[c].wallet \notin crossed =>
            \A b \in {balance'.memory[call[c].wallet], balance'.stored[call[c].wallet]} :
              b.native \in {None, network} /\ b.tokens \in {None, network}
  BY <1>1, <1>2, QueryFacts DEF IInv, Typed, KeptIsOwn, OwnCall, CallTyped, Flying
<1>12. QED
  BY <1>1, <1>2, <1>3, <1>4, <1>6, <1>7, <1>8, <1>9, <1>11, QueryFrame

\* The rest of a load() of get().
LEMMA LoadedIInv == ASSUME IInv, NEW c \in Calls, Loaded(c) PROVE IInv'
<1>0. PICK k : k = Asking(call[c], call[c].txs)
  OBVIOUS
<1>1. /\ call[c].phase = "load" /\ call[c].phase \in HistoryPhases /\ Flying(call[c])
      /\ memory' = [memory EXCEPT ![ScopeOf(c)] = call[c].txs] /\ stored' = stored
      /\ call' = [Replaced(ScopeOf(c)) EXCEPT ![c] = k]
      /\ UNCHANGED <<place, balance, world, crossed>>
  BY <1>0 DEF Loaded, HistoryPhases, Flying
<1>2. /\ UNCHANGED <<keys, network, selected, manager, session, move, astray, chain, price, fiat, balance, crossed>> /\ Mined' = Mined
  BY <1>1 DEF place, world, Mined
<1>3. \/ k = NoCall
      \/ /\ k.phase = "fetch" /\ k.read = call[c].read /\ k.txs = call[c].txs /\ DOMAIN k = CallFields
         /\ k.wallet = call[c].wallet /\ k.asset = call[c].asset /\ k.receipts = call[c].receipts
         /\ k.fiat = call[c].fiat /\ k.since = call[c].since /\ k.balance = call[c].balance
         /\ k.disturbed = call[c].disturbed /\ k.asked = network
  BY <1>0, QueryFacts DEF Asking, CallTyped, CallFields
<1>4. /\ call'[c] = k /\ DOMAIN call' = Calls
      /\ \A d \in Calls \ {c} : call'[d] = call[d] \/ Rereads(c, d)
  BY <1>1, ReplacedOK
<1>5. /\ call[c].txs \in TxMaps /\ call[c].txs # None
      /\ call[c].wallet \notin crossed => OwnMap(call[c].txs, ScopeOfCall(call[c]))
      /\ ScopeOf(c) \in Scopes /\ ScopeOf(c) = ScopeOfCall(call[c])
  BY <1>1, QueryFacts DEF CallTyped, OwnCall
<1>6. /\ memory' \in [Scopes -> TxMaps \cup {None}] /\ stored' \in [Scopes -> TxMaps \cup {None}]
      /\ \A s \in Scopes \ {ScopeOfCall(call[c])} : memory'[s] = memory[s]
      /\ memory'[ScopeOfCall(call[c])] = call[c].txs
  BY <1>1, <1>5, QueryFacts DEF Typed
<1>7. CallTyped(call[c])'
  BY <1>1, <1>2, <1>3, <1>4, QueryFacts, NoCallOK DEF CallTyped, HistoryPhases, Typed
<1>8. OwnCall(call[c])'
  BY <1>1, <1>2, <1>3, <1>4, QueryFacts, NoCallOK DEF OwnCall, HistoryPhases, Flying, ScopeOfCall
<1>9. ASSUME ~call'[c].disturbed, call'[c].wallet \notin crossed PROVE AnswerOK(call[c])'
  <2>1. CASE k = NoCall
    BY <1>4, <2>1, NoCallOK
  <2>2. CASE k # NoCall
    <3>1. AnswerOK(call[c]) /\ ScopeOfCall(k) = ScopeOfCall(call[c]) /\ memory'[ScopeOfCall(k)] # None
      BY <1>3, <1>4, <1>5, <1>6, <1>9, <2>2, QueryFacts DEF ScopeOfCall
    <3>2. k.phase = "fetch" /\ k.read = None /\ k.receipts = {}
      BY <1>1, <1>3, <2>2, <3>1 DEF AnswerOK
    <3>3. QED
      BY <1>4, <3>1, <3>2 DEF AnswerOK
  <2>3. QED
    BY <2>1, <2>2
<1>12. /\ price' \in [Currencies -> [age : {"unknown", "fresh", "stale"}, of : Currencies \cup {None}]]
       /\ \A f \in Currencies : price'[f].of \in {None, f}
       /\ balance' \in [memory : [Wallets -> Balances], stored : [Wallets -> Balances]]
       /\ call[c].wallet \notin crossed =>
            \A b \in {balance'.memory[call[c].wallet], balance'.stored[call[c].wallet]} :
              b.native \in {None, network} /\ b.tokens \in {None, network}
  BY <1>1, <1>2, QueryFacts DEF IInv, Typed, KeptIsOwn, OwnCall, CallTyped, Flying
<1>13. /\ \A s \in Scopes \ {ScopeOfCall(call[c])} : memory'[s] = memory[s] /\ stored'[s] = stored[s]
       /\ call[c].wallet \notin crossed =>
            LET s == ScopeOfCall(call[c]) IN
            (memory'[s] = None \/ OwnMap(memory'[s], s)) /\ (stored'[s] = None \/ OwnMap(stored'[s], s))
  BY <1>1, <1>5, <1>6, QueryFacts
<1>14. /\ Flying(k) => Flying(call[c]) /\ k.wallet = call[c].wallet
       /\ k.phase \in HistoryPhases =>
            call[c].phase \in HistoryPhases /\ (call[c].disturbed => k.disturbed)
  <2>1. CASE k = NoCall
    BY <2>1, NoCallOK DEF NoCall, HistoryPhases
  <2>2. CASE k # NoCall
    <3>1. k.wallet = call[c].wallet /\ k.disturbed = call[c].disturbed
      BY <1>3, <2>2
    <3>2. QED
      BY <1>1, <3>1
  <2>3. QED
    BY <2>1, <2>2
<1>15. QED
  BY <1>1, <1>2, <1>4, <1>6, <1>7, <1>8, <1>9, <1>12, <1>13, <1>14, QueryFrame

\* A balance query ends, and keeps what it has read.
LEMMA BalanceIInv == ASSUME IInv, NEW c \in Calls, Tokens(c) \/ CachedBalance(c) PROVE IInv'
<1>1. /\ call[c].phase \in {"tokens", "cache"} /\ Flying(call[c]) /\ call[c].phase \notin HistoryPhases
      /\ call' = [call EXCEPT ![c] = NoCall] /\ UNCHANGED <<place, history, world, crossed>>
  BY DEF Tokens, CachedBalance, Flying, HistoryPhases
<1>2. /\ UNCHANGED <<keys, network, selected, manager, session, move, astray, chain, price, fiat, memory, stored, crossed>>
  BY <1>1 DEF place, world, history
<1>3. call'[c] = NoCall /\ DOMAIN call' = Calls /\ \A d \in Calls \ {c} : call'[d] = call[d]
  BY <1>1 DEF IInv, CallsTyped
<1>4. /\ call[c].wallet \in Wallets /\ call[c].balance \in Balances
      /\ call[c].wallet \notin crossed => call[c].balance.native \in {None, network} /\ call[c].balance.tokens \in {None, network}
      /\ balance \in [memory : [Wallets -> Balances], stored : [Wallets -> Balances]]
      /\ call[c].wallet \notin crossed =>
           \A b \in {balance.memory[call[c].wallet], balance.stored[call[c].wallet]} :
             b.native \in {None, network} /\ b.tokens \in {None, network}
  BY <1>1, QueryFacts DEF CallTyped, OwnCall, Flying, Typed, IInv, KeptIsOwn
<1>5. /\ balance' \in [memory : [Wallets -> Balances], stored : [Wallets -> Balances]]
      /\ \A w \in Wallets \ {call[c].wallet} :
           balance'.memory[w] = balance.memory[w] /\ balance'.stored[w] = balance.stored[w]
      /\ balance'.memory[call[c].wallet] \in {call[c].balance, balance.memory[call[c].wallet]}
      /\ balance'.stored[call[c].wallet] = (IF call[c].phase = "tokens" THEN call[c].balance
                                                                       ELSE balance.stored[call[c].wallet])
      /\ call[c].phase = "tokens" => balance'.memory[call[c].wallet] = call[c].balance
  <2>1. CASE Tokens(c)
    BY <1>4, <2>1 DEF Tokens, BalanceSet
  <2>2. CASE CachedBalance(c)
    BY <1>4, <2>2 DEF CachedBalance
  <2>3. QED
    BY <2>1, <2>2
<1>6. call[c].wallet \notin crossed =>
        \A b \in {balance'.memory[call[c].wallet], balance'.stored[call[c].wallet]} :
          b.native \in {None, network} /\ b.tokens \in {None, network}
  BY <1>4, <1>5
<1>7. CallTyped(call[c])' /\ OwnCall(call[c])' /\ AnswerOK(call[c])' /\ ~Flying(call'[c])
      /\ call'[c].phase \notin HistoryPhases
  BY <1>3, NoCallOK DEF NoCall, HistoryPhases
<1>9. /\ price' \in [Currencies -> [age : {"unknown", "fresh", "stale"}, of : Currencies \cup {None}]]
      /\ \A f \in Currencies : price'[f].of \in {None, f}
      /\ memory' \in [Scopes -> TxMaps \cup {None}] /\ stored' \in [Scopes -> TxMaps \cup {None}]
  BY <1>2 DEF IInv, Typed, KeptIsOwn
<1>10. \A s \in Scopes \ {ScopeOfCall(call[c])} : memory'[s] = memory[s] /\ stored'[s] = stored[s]
  BY <1>2
<1>11. UNCHANGED <<place, chain, fiat, crossed, history>>
  BY <1>1 DEF world
<1>12. QED
  BY <1>1, <1>3, <1>5, <1>6, <1>7, <1>9, <1>10, <1>11, QueryFrame

\* What the start of a query has to keep: one that overlaps others, for a history, disturbs them.
Disturbs(d) == call'[d] = [call[d] EXCEPT !.disturbed = @ \/ d \in InFlight]

LEMMA StartFrame ==
  ASSUME IInv, NEW c \in Calls, call[c].phase = "idle", keys # None, NEW k,
         UNCHANGED <<place, history, balance, world>>,
         crossed' = IF LoggingOut THEN crossed \cup {[net |-> network, acc |-> keys]} ELSE crossed,
         call'[c] = k, DOMAIN call' = Calls, CallTyped(k), OwnCall(k)', AnswerOK(k)',
         k = NoCall \/ k.wallet = [net |-> network, acc |-> keys],
         \A d \in Calls \ {c} : call'[d] = call[d] \/ Disturbs(d),
         k.phase \in HistoryPhases =>
           /\ InFlight # {} => k.disturbed
           /\ \A d \in Calls \ {c} : Disturbs(d)
  PROVE  IInv'
<1>1. /\ UNCHANGED <<keys, network, selected, manager, session, move, astray, memory, stored, balance, chain, price, fiat>>
      /\ Mined' = Mined /\ (LoggingOut' <=> LoggingOut) /\ (Selection' <=> Selection)
  BY DEF place, history, world, Mined, LoggingOut, Selection, Follows, OnWay, StandsBack, Idle
<1>2. [net |-> network, acc |-> keys] \in Wallets
  BY DEF IInv, Typed, Wallets
<1>3. crossed \subseteq crossed' /\ crossed' \subseteq Wallets
  BY <1>2 DEF IInv, Typed
<1>4. \A d \in Calls \ {c} :
        /\ call'[d].phase = call[d].phase /\ call'[d].wallet = call[d].wallet /\ call'[d].asset = call[d].asset
        /\ call'[d].txs = call[d].txs /\ call'[d].wallet = call[d].wallet /\ call'[d].read = call[d].read
        /\ call'[d].receipts = call[d].receipts /\ call'[d].balance = call[d].balance /\ call'[d].fiat = call[d].fiat
        /\ call'[d].since = call[d].since /\ call'[d].asked = call[d].asked /\ DOMAIN call'[d] = CallFields
  <2>1. SUFFICES ASSUME NEW d \in Calls \ {c}
                 PROVE  /\ \A f \in CallFields \ {"disturbed"} : call'[d][f] = call[d][f]
                        /\ DOMAIN call'[d] = CallFields
    BY DEF CallFields
  <2>2. DOMAIN call[d] = CallFields
    BY <2>1, QueryFacts DEF CallTyped
  <2>3. QED
    BY <2>1, <2>2 DEF Disturbs
<1>5. \A d \in Calls \ {c} : (call[d].disturbed => call'[d].disturbed) /\ (Disturbs(d) /\ d \in InFlight => call'[d].disturbed)
  <2>1. SUFFICES ASSUME NEW d \in Calls \ {c}, Disturbs(d)
                 PROVE  (call[d].disturbed => call'[d].disturbed) /\ (d \in InFlight => call'[d].disturbed)
    BY Zenon
  <2>2. "disturbed" \in DOMAIN call[d]
    BY <2>1, QueryFacts DEF CallTyped, CallFields
  <2>3. call'[d].disturbed = (call[d].disturbed \/ d \in InFlight)
    BY <2>1, <2>2, Zenon DEF Disturbs
  <2>4. QED
    BY <2>3, Zenon
<1>6. Typed'
  BY <1>1, <1>3 DEF IInv, Typed
<1>7. \A d \in Calls \ {c} : CallTyped(call[d])'
  BY <1>1, <1>4, QueryFacts DEF CallTyped
<1>8. CallsTyped'
  BY <1>1, <1>7 DEF CallsTyped, CallTyped
<1>9. LogoutLists'
  <2>1. selected.acc = None => LoggingOut
    BY DEF IInv, LogoutLists
  <2>2. selected.acc = None => \A d \in Calls : Flying(call'[d]) => call'[d].wallet \in crossed'
    BY <1>3, <1>4, <2>1, NoCallOK DEF IInv, LogoutLists, Flying
  <2>3. QED
    BY <1>1, <1>3, <2>1, <2>2 DEF IInv, LogoutLists, LoggedOut
<1>10. \A d \in Calls \ {c} : OwnCall(call[d])'
  <2>1. SUFFICES ASSUME NEW d \in Calls \ {c} PROVE OwnCall(call[d])'
    OBVIOUS
  <2>2. OwnCall(call[d]) /\ ScopeOfCall(call'[d]) = ScopeOfCall(call[d]) /\ (Flying(call'[d]) <=> Flying(call[d]))
    BY <1>4, <2>1, QueryFacts DEF ScopeOfCall, Flying
  <2>3. QED
    BY <1>1, <1>3, <1>4, <2>1, <2>2 DEF OwnCall
<1>11. KeptIsOwn'
  BY <1>1, <1>3, <1>10 DEF IInv, KeptIsOwn, OwnCall
<1>12. ASSUME NEW d \in Calls \ {c}, ~call'[d].disturbed, call'[d].wallet \notin crossed' PROVE AnswerOK(call[d])'
  <2>1. AnswerOK(call[d])
    BY <1>3, <1>4, <1>5, <1>12, QueryFacts
  <2>2. ScopeOfCall(call'[d]) = ScopeOfCall(call[d])
    BY <1>4 DEF ScopeOfCall
  <2>3. QED
    BY <1>1, <1>4, <2>1, <2>2 DEF AnswerOK, SettledIn
<1>13. AnswersSettle'
  <2>1. ASSUME NEW d \in Calls, NEW e \in Calls, d # e, call'[d].phase \in HistoryPhases, call'[e].phase \in HistoryPhases
        PROVE  call'[d].disturbed
    <3>1. CASE d # c /\ e # c
      BY <1>4, <1>5, <2>1, <3>1 DEF IInv, AnswersSettle
    <3>2. CASE d = c
      BY <1>4, <2>1, <3>2 DEF InFlight, HistoryPhases
    <3>3. CASE e = c
      BY <1>4, <1>5, <2>1, <3>3 DEF InFlight, HistoryPhases
    <3>4. QED
      BY <3>1, <3>2, <3>3
  <2>2. \A d \in Calls : ~call'[d].disturbed /\ call'[d].wallet \notin crossed' => AnswerOK(call[d])'
    <3>1. AnswerOK(call[c])'
      OBVIOUS
    <3>2. QED
      BY <1>12, <3>1
  <2>3. QED
    BY <2>1, <2>2 DEF AnswersSettle
<1>15. QED
  BY <1>1, <1>6, <1>8, <1>9, <1>11, <1>13 DEF IInv

\* A query as it begins.
LEMMA BegunOK ==
  ASSUME NEW kind, NEW asset, NEW q, q = Begun(kind, asset)
  PROVE  /\ DOMAIN q = CallFields /\ q.kind = kind /\ q.phase = "idle" /\ q.asset = asset /\ q.asked = None
         /\ q.wallet = [net |-> network, acc |-> keys]
         /\ q.txs = NoTxs /\ q.read = None /\ q.receipts = {} /\ q.balance = NoBalance /\ q.fiat = None
         /\ q.since = Mined /\ (InFlight # {} => q.disturbed)
<1>1. /\ DOMAIN q = CallFields /\ q.kind = kind /\ q.phase = "idle" /\ q.asset = asset /\ q.asked = None
      /\ q.wallet = [net |-> network, acc |-> keys]
      /\ q.txs = NoTxs /\ q.read = None /\ q.receipts = {} /\ q.balance = NoBalance /\ q.fiat = None
      /\ q.since = Mined
  BY DEF Begun, NoCall, CallFields
<1> DEFINE others == InFlight # {}
<1>2. q = [NoCall EXCEPT !.kind = kind, !.wallet = [net |-> network, acc |-> keys], !.asset = asset,
                         !.since = Mined, !.disturbed = others]
  BY DEF Begun
<1> HIDE DEF others
<1>3. q.disturbed = others
  BY <1>2 DEF NoCall
<1>4. QED
  BY <1>1, <1>3, Zenon DEF others

LEMMA StartBalanceIInv ==
  ASSUME IInv, NEW c \in Calls, StartBalance(c) \/ StartCachedBalance(c)
  PROVE  IInv'
<1> DEFINE w == [net |-> network, acc |-> keys]
<1>1. /\ call[c].phase = "idle" /\ keys # None /\ UNCHANGED <<place, history, balance, world>>
      /\ crossed' = IF LoggingOut THEN crossed \cup {w} ELSE crossed
  BY DEF StartBalance, StartCachedBalance
<1>2. w \in Wallets /\ w.net = network /\ network \in Networks /\ fiat \in Currencies
      /\ balance \in [memory : [Wallets -> Balances], stored : [Wallets -> Balances]]
  BY <1>1 DEF IInv, Typed, Wallets
<1>3. w \notin crossed =>
        balance.stored[w].native \in {None, network} /\ balance.stored[w].tokens \in {None, network}
  BY <1>2 DEF IInv, KeptIsOwn
<1> HIDE DEF w
<1>4. NoTxs \in TxMaps /\ NoBalance \in Balances /\ (Mined' = Mined) /\ network' = network
  BY <1>1, NoTxsOK DEF NoBalance, Balances, world, Mined, place
<1>5. PICK k : /\ call' = [call EXCEPT ![c] = k] /\ DOMAIN k = CallFields /\ k.wallet = w /\ k.asked = None
               /\ k.txs = NoTxs /\ k.read = None /\ k.receipts = {} /\ k.since = Mined
               /\ \/ /\ k.phase = "native" /\ k.fiat = fiat /\ k.balance.native = network /\ k.balance.tokens = None
                     /\ k.balance \in Balances
                  \/ k.phase = "cache" /\ k.balance = balance.stored[w]
  <2>1. CASE StartBalance(c)
    <3>1. PICK q : q = Begun("balance", None)
      OBVIOUS
    <3>2. PICK k : k = [q EXCEPT !.phase = "native", !.balance.native = network, !.fiat = fiat]
      OBVIOUS
    <3>3. q.balance = NoBalance /\ DOMAIN q = CallFields
      BY <3>1, BegunOK
    <3>4. k.balance = [NoBalance EXCEPT !.native = network]
      BY <3>2, <3>3 DEF CallFields
    <3>5. k.balance = [native |-> network, tokens |-> None, rate |-> None]
      BY <3>4 DEF NoBalance
    <3>6. k.phase = "native" /\ k.fiat = fiat /\ DOMAIN k = CallFields /\ k.wallet = w /\ k.asked = None
          /\ k.txs = NoTxs /\ k.read = None /\ k.receipts = {} /\ k.since = Mined
      BY <3>1, <3>2, BegunOK DEF CallFields, w
    <3>7. call' = [call EXCEPT ![c] = k]
      BY <2>1, <3>1, <3>2 DEF StartBalance
    <3>8. k.balance \in Balances /\ k.balance.native = network /\ k.balance.tokens = None
      BY <1>2, <3>5 DEF Balances
    <3>9. QED
      BY <3>6, <3>7, <3>8, Zenon
  <2>2. CASE StartCachedBalance(c)
    <3>1. PICK q : q = Begun("cachedBalance", None)
      OBVIOUS
    <3>2. q.wallet = w
      BY <3>1, BegunOK DEF w
    <3>3. PICK k : k = [q EXCEPT !.phase = "cache", !.balance = balance.stored[w]]
      OBVIOUS
    <3>4. /\ k.phase = "cache" /\ k.balance = balance.stored[w] /\ DOMAIN k = CallFields /\ k.wallet = w /\ k.asked = None
          /\ k.txs = NoTxs /\ k.read = None /\ k.receipts = {} /\ k.since = Mined
      BY <3>1, <3>2, <3>3, BegunOK DEF CallFields
    <3>5. call' = [call EXCEPT ![c] = k]
      BY <2>2, <3>1, <3>2, <3>3 DEF StartCachedBalance
    <3>6. QED
      BY <3>4, <3>5
  <2>3. QED
    BY <2>1, <2>2
<1>6. CallTyped(k)
  BY <1>2, <1>4, <1>5 DEF CallTyped, HistoryPhases
<1>7. OwnCall(k)'
  BY <1>1, <1>2, <1>3, <1>4, <1>5 DEF OwnCall, HistoryPhases
<1>8. k.phase \notin HistoryPhases /\ AnswerOK(k)'
  BY <1>5 DEF HistoryPhases, AnswerOK
<1>9. call'[c] = k /\ DOMAIN call' = Calls /\ \A d \in Calls \ {c} : call'[d] = call[d]
  BY <1>5 DEF IInv, CallsTyped
<1>10. k.wallet = [net |-> network, acc |-> keys]
       /\ crossed' = IF LoggingOut THEN crossed \cup {[net |-> network, acc |-> keys]} ELSE crossed
  BY <1>1, <1>5 DEF w
<1>11. QED
  BY <1>1, <1>6, <1>7, <1>8, <1>9, <1>10, StartFrame

LEMMA StartHistoryIInv ==
  ASSUME IInv, NEW c \in Calls, NEW kind, NEW asset \in Assets, StartHistory(c, kind, asset)
  PROVE  IInv'
<1> DEFINE w == [net |-> network, acc |-> keys]
           s == [wallet |-> w, asset |-> asset]
           seen == IF stored[s] = None THEN NoTxs ELSE stored[s]
<1>1. /\ call[c].phase = "idle" /\ keys # None /\ UNCHANGED <<place, history, balance, world>>
      /\ crossed' = IF LoggingOut THEN crossed \cup {w} ELSE crossed
  BY DEF StartHistory
<1>2. /\ w \in Wallets /\ w.net = network /\ network \in Networks /\ s \in Scopes /\ s.wallet = w
      /\ memory \in [Scopes -> TxMaps \cup {None}] /\ stored \in [Scopes -> TxMaps \cup {None}]
  BY <1>1 DEF IInv, Typed, Wallets, Scopes
<1>3. /\ seen \in TxMaps
      /\ w \notin crossed => OwnMap(seen, s) /\ (memory[s] = None \/ OwnMap(memory[s], s))
      /\ memory[s] # None => memory[s] \in TxMaps
  BY <1>2, NoTxsOK DEF IInv, KeptIsOwn
<1>4. /\ NoTxs \in TxMaps /\ NoBalance \in Balances /\ Mined' = Mined
      /\ UNCHANGED <<network, memory, stored>>
  BY <1>1, NoTxsOK DEF NoBalance, Balances, world, Mined, place, history
<1>5. PICK q : q = Begun(kind, asset)
  OBVIOUS
<1>6. /\ DOMAIN q = CallFields /\ q.phase = "idle" /\ q.asset = asset /\ q.asked = None
      /\ q.wallet = w /\ q.txs = NoTxs /\ q.read = None /\ q.receipts = {} /\ q.balance = NoBalance /\ q.fiat = None
      /\ q.since = Mined /\ (InFlight # {} => q.disturbed)
  BY <1>5, BegunOK
<1>7. PICK k : k = IF memory[s] # None THEN Asking(q, memory[s]) ELSE [q EXCEPT !.phase = "load", !.txs = seen]
  OBVIOUS
<1>8. /\ call'[c] = k /\ DOMAIN call' = Calls
      /\ \A d \in Calls \ {c} : Disturbs(d)
  <2>1. call' = [d \in Calls |->
           IF d # c THEN [call[d] EXCEPT !.disturbed = @ \/ d \in InFlight]
           ELSE IF memory[s] # None THEN Asking(q, memory[s])
           ELSE [q EXCEPT !.phase = "load", !.txs = seen]]
    BY <1>5, <1>6 DEF StartHistory
  <2> DEFINE disturbed(d) == [call[d] EXCEPT !.disturbed = @ \/ d \in InFlight]
  <2> HIDE DEF s, seen, disturbed
  <2>5. DOMAIN call' = Calls /\ \A d \in Calls \ {c} : call'[d] = disturbed(d)
    BY <2>1 DEF disturbed
  <2>2. DOMAIN call' = Calls /\ \A d \in Calls \ {c} : Disturbs(d)
    BY <2>5, Zenon DEF Disturbs, disturbed
  <2>3. call'[c] = k
    BY <1>7, <2>1
  <2>4. QED
    BY <2>2, <2>3
<1> HIDE DEF w, s, seen
<1>9. \/ k = NoCall
      \/ /\ DOMAIN k = CallFields /\ k.asset = asset
         /\ k.wallet = w /\ k.read = None /\ k.receipts = {} /\ k.balance = NoBalance /\ k.fiat = None
         /\ k.since = Mined /\ k.disturbed = q.disturbed
         /\ \/ k.phase = "load" /\ memory[s] = None /\ k.txs = seen /\ k.asked = None
            \/ k.phase = "fetch" /\ memory[s] # None /\ k.txs = memory[s] /\ k.asked = network
  BY <1>6, <1>7 DEF Asking, CallFields
<1>10. CASE k = NoCall
  <2>1. CallTyped(k) /\ OwnCall(k)' /\ AnswerOK(k)' /\ k.phase \notin HistoryPhases
    BY <1>10, NoTxsOK, NoCallOK, <1>4 DEF CallTyped, NoCall, HistoryPhases, CallFields
  <2>2. \A d \in Calls \ {c} : call'[d] = call[d] \/ Disturbs(d)
    BY <1>8
  <2>3. crossed' = IF LoggingOut THEN crossed \cup {[net |-> network, acc |-> keys]} ELSE crossed
    BY <1>1 DEF w
  <2>4. QED
    BY <1>1, <1>8, <1>10, <2>1, <2>2, <2>3, StartFrame
<1>11. CASE k # NoCall
  <2>1. s = ScopeOfCall(k) /\ k.wallet = [net |-> network, acc |-> keys]
    BY <1>9, <1>11 DEF ScopeOfCall, s, w
  <2>2. CallTyped(k)
    BY <1>2, <1>3, <1>4, <1>9, <1>11 DEF CallTyped, HistoryPhases
  <2>3. OwnCall(k)'
    BY <1>1, <1>2, <1>3, <1>4, <1>9, <1>11, <2>1 DEF OwnCall, NoBalance
  <2>4. AnswerOK(k)'
    BY <1>4, <1>9, <1>11, <2>1 DEF AnswerOK
  <2>6. InFlight # {} => k.disturbed
    <3>1. k.disturbed = q.disturbed
      BY <1>9, <1>11
    <3>2. QED
      BY <1>6, <3>1
  <2>7. crossed' = IF LoggingOut THEN crossed \cup {[net |-> network, acc |-> keys]} ELSE crossed
    BY <1>1 DEF w
  <2>8. QED
    BY <1>1, <1>8, <2>1, <2>2, <2>3, <2>4, <2>6, <2>7, StartFrame
<1>12. QED
  BY <1>10, <1>11

-----------------------------------------------------------------------------
(* The logout, and the death of the worker.                                *)

LEMMA LogoutIInv == ASSUME IInv, NEW m \in Movers, Logout(m) PROVE IInv'
<1> USE DEF IInv
<1>1. /\ move[m].phase = "idle" /\ session /\ selected.acc # None /\ session' = FALSE
      /\ selected' = [acc |-> None, net |-> DefaultNetwork] /\ manager' = None /\ crossed' = crossed \cup Overtaken
      /\ UNCHANGED <<keys, network, astray, call, memory, stored, fiat, price, chain>> /\ Mined' = Mined
  BY DEF Logout, history, world, Mined, Idle
<1>2. /\ DOMAIN move' = Movers /\ \A n \in Movers : MoveTyped(move[n])'
      /\ move'[m].phase = "balances" /\ ~move'[m].alone
      /\ \A n \in Movers \ {m} : move'[n].phase = move[n].phase /\ move'[n].back = move[n].back /\ ~move'[n].alone
      /\ \A w \in Wallets : balance.stored[w] # NoBalance => w \in move'[m].listed
  <2>1. PICK e : e = [NoMove EXCEPT !.phase = "balances", !.listed = {w \in Wallets : balance.stored[w] # NoBalance}]
    OBVIOUS
  <2>2. /\ MoveTyped(e) /\ e.phase = "balances" /\ e.back = None /\ Enter(m, e)
        /\ e.listed = {w \in Wallets : balance.stored[w] # NoBalance}
    BY <2>1 DEF Logout, NoMove, MoveTyped, MoveFields, Picking
  <2>3. ~EnterAlone(e)
    BY <2>2 DEF EnterAlone
  <2>4. /\ DOMAIN move' = Movers /\ \A n \in Movers : MoveTyped(move[n])'
        /\ move'[m].phase = e.phase /\ move'[m].listed = e.listed
        /\ move'[m].alone = EnterAlone(e)
        /\ \A n \in Movers \ {m} : move'[n].phase = move[n].phase /\ move'[n].back = move[n].back
                                   /\ move'[n].alone = FALSE
    BY <2>2, EnterFacts, Zenon
  <2>5. \A w \in Wallets : balance.stored[w] # NoBalance => w \in move'[m].listed
    BY <2>2, <2>4
  <2>6. QED
    BY <2>2, <2>3, <2>4, <2>5
<1>3. \A n \in Movers : move[n].phase \notin {"balances", "histories"}
  BY <1>1 DEF LogoutLists, LoggingOut
<1>4. NoBalance \in Balances /\ NoBalance.native = None /\ NoBalance.tokens = None
  BY DEF NoBalance, Balances
<1>5. /\ balance' \in [memory : [Wallets -> Balances], stored : [Wallets -> Balances]]
      /\ balance'.stored = balance.stored /\ \A w \in Wallets : balance'.memory[w] = NoBalance
  BY <1>4 DEF Logout, Typed
<1>6. Overtaken \subseteq Wallets /\ \A c \in Calls : Flying(call[c]) => call[c].wallet \in Overtaken
  BY DEF Overtaken, InFlight, Flying, CallsTyped, CallTyped
<1>7. Typed'
  <2>1. selected' \in [acc : Accounts \cup {None}, net : Networks] /\ crossed' \subseteq Wallets
    BY <1>1, <1>6 DEF Typed
  <2>2. QED
    BY <1>1, <1>2, <1>5, <2>1 DEF Typed
<1>8. CallsTyped' /\ Selection'
  BY <1>1, <1>2 DEF CallsTyped, CallTyped, Selection
<1>9. LogoutLists'
  BY <1>1, <1>2, <1>3, <1>5, <1>6 DEF LogoutLists, LoggingOut
<1>10. KeptIsOwn'
  <2>1. \A c \in Calls : OwnCall(call[c])'
    BY <1>1 DEF KeptIsOwn, OwnCall
  <2>2. QED
    BY <1>1, <1>4, <1>5, <2>1 DEF KeptIsOwn
<1>11. AnswersSettle'
  BY <1>1 DEF AnswersSettle, AnswerOK, SettledIn
<1>13. QED
  BY <1>7, <1>8, <1>9, <1>10, <1>11

LEMMA RemoveBalancesIInv == ASSUME IInv, NEW m \in Movers, RemoveBalances(m) PROVE IInv'
<1> USE DEF IInv
<1>1. /\ move[m].phase = "balances" /\ crossed' = crossed \cup Overtaken /\ memory' = [s \in Scopes |-> None]
      /\ UNCHANGED <<keys, network, session, selected, manager, astray, stored, fiat, price, chain>> /\ Mined' = Mined
  BY DEF RemoveBalances, world, Mined
<1>2. /\ DOMAIN move' = Movers /\ \A n \in Movers \ {m} : move'[n] = move[n]
      /\ MoveTyped(move[m])' /\ move'[m].phase = "histories" /\ move'[m].alone = move[m].alone
      /\ \A s \in Scopes : stored[s] # None => s \in move'[m].listed
  BY DEF RemoveBalances, Typed, MoveTyped, MoveFields, Picking
<1>3. /\ selected.acc = None /\ ~session
      /\ \A n \in Movers : move[n].phase \in {"balances", "histories"} => n = m
  BY <1>1 DEF LogoutLists, LoggingOut, Selection
<1>4. NoBalance \in Balances /\ NoBalance.native = None /\ NoBalance.tokens = None
  BY DEF NoBalance, Balances
<1>5. /\ balance' \in [memory : [Wallets -> Balances], stored : [Wallets -> Balances]]
      /\ balance'.memory = balance.memory
      /\ \A w \in Wallets : balance'.stored[w] = IF w \in move[m].listed THEN NoBalance ELSE balance.stored[w]
  BY <1>4 DEF RemoveBalances, Typed
<1>6. Overtaken \subseteq Wallets
  BY DEF Overtaken, InFlight, CallsTyped, CallTyped
<1>7. \A c \in Calls :
        /\ CallTyped(call[c])' /\ call'[c].phase = call[c].phase /\ call'[c].wallet = call[c].wallet
        /\ call'[c].disturbed = call[c].disturbed /\ call'[c].balance = call[c].balance /\ call'[c].fiat = call[c].fiat
        /\ call[c].phase = "done" => call'[c] = call[c]
  <2>1. SUFFICES ASSUME NEW c \in Calls
        PROVE  /\ CallTyped(call[c])' /\ call'[c].phase = call[c].phase /\ call'[c].wallet = call[c].wallet
               /\ call'[c].disturbed = call[c].disturbed /\ call'[c].balance = call[c].balance /\ call'[c].fiat = call[c].fiat
               /\ call[c].phase = "done" => call'[c] = call[c]
    OBVIOUS
  <2>2. call'[c] = IF call[c].phase = "saving" /\ call[c].read = None
                     THEN [call[c] EXCEPT !.read = memory[ScopeOf(c)]] ELSE call[c]
    BY DEF RemoveBalances
  <2>3. CallTyped(call[c])
    BY QueryFacts
  <2>4. CASE call[c].phase = "saving" /\ call[c].read = None
    <3>1. memory[ScopeOf(c)] \in TxMaps \cup {None}
      BY <2>4, QueryFacts DEF HistoryPhases
    <3>2. call'[c] = [call[c] EXCEPT !.read = memory[ScopeOf(c)]]
      BY <2>2, <2>4
    <3>3. /\ DOMAIN call'[c] = CallFields /\ call'[c].read = memory[ScopeOf(c)]
          /\ \A f \in CallFields \ {"read"} : call'[c][f] = call[c][f]
      BY <2>3, <3>2 DEF CallTyped, CallFields
    <3>4. /\ call'[c].kind = call[c].kind /\ call'[c].phase = call[c].phase /\ call'[c].wallet = call[c].wallet
          /\ call'[c].asset = call[c].asset /\ call'[c].asked = call[c].asked /\ call'[c].txs = call[c].txs
          /\ call'[c].receipts = call[c].receipts /\ call'[c].balance = call[c].balance
          /\ call'[c].fiat = call[c].fiat /\ call'[c].since = call[c].since
          /\ call'[c].disturbed = call[c].disturbed
      BY <3>3 DEF CallFields
    <3>5. CallTyped(call[c])'
      BY <1>1, <2>3, <3>1, <3>3, <3>4 DEF CallTyped
    <3>6. QED
      BY <2>4, <3>4, <3>5
  <2>5. CASE ~(call[c].phase = "saving" /\ call[c].read = None)
    <3>1. call'[c] = call[c]
      BY <2>2, <2>5
    <3>2. QED
      BY <1>1, <2>3, <3>1 DEF CallTyped
  <2>6. QED
    BY <2>4, <2>5
<1>8. \A c \in Calls : Flying(call'[c]) => call'[c].wallet \in crossed'
  BY <1>1, <1>7 DEF Overtaken, InFlight, Flying
<1>9. Typed'
  BY <1>1, <1>2, <1>5, <1>6 DEF Typed
<1>10. CallsTyped' /\ Selection'
  <2>1. DOMAIN call' = Calls
    BY DEF RemoveBalances
  <2>2. CallsTyped'
    BY <1>7, <2>1 DEF CallsTyped
  <2>3. Selection'
    BY <1>1, <1>2, <1>3 DEF Selection, StandsBack, Idle, Picking
  <2>4. QED
    BY <2>2, <2>3
<1>11. LogoutLists'
  <2>1. \A w \in Wallets \ crossed : balance'.stored[w] = NoBalance
    BY <1>1, <1>3, <1>5 DEF LogoutLists
  <2>2. \A w \in Wallets, asset \in Assets : [wallet |-> w, asset |-> asset] \in Scopes
    BY DEF Scopes
  <2>3. LoggingOut'
    BY <1>2 DEF LoggingOut
  <2>4. \A n, o \in Movers :
          move'[n].phase \in {"balances", "histories"} /\ move'[o].phase \in {"balances", "histories"} => n = o
    BY <1>2, <1>3
  <2>5. \A n \in Movers : move'[n].phase # "balances" /\ (move'[n].phase = "histories" => n = m)
    BY <1>2, <1>3
  <2>6. ASSUME NEW n \in Movers, NEW w \in Wallets \ crossed', move'[n].phase = "histories"
        PROVE  /\ balance'.stored[w] = NoBalance
               /\ \A asset \in Assets : LET s == [wallet |-> w, asset |-> asset] IN
                    stored'[s] = None \/ s \in move'[n].listed
    BY <1>1, <1>2, <2>1, <2>2, <2>5, <2>6
  <2>7. QED
    BY <1>1, <1>3, <1>8, <2>3, <2>4, <2>5, <2>6 DEF LogoutLists
<1>12. KeptIsOwn'
  <2>1. ASSUME NEW c \in Calls PROVE OwnCall(call[c])'
    <3>1. OwnCall(call[c])
      BY QueryFacts
    <3>2. QED
      BY <1>7, <1>8, <2>1, <3>1 DEF OwnCall
  <2>2. \A s \in Scopes : s.wallet \notin crossed' =>
          memory'[s] = None /\ (stored'[s] = None \/ OwnMap(stored'[s], s))
    BY <1>1 DEF KeptIsOwn
  <2>3. \A w \in Wallets \ crossed' :
          /\ balance'.memory[w].native \in {None, w.net} /\ balance'.memory[w].tokens \in {None, w.net}
          /\ balance'.stored[w].native \in {None, w.net} /\ balance'.stored[w].tokens \in {None, w.net}
    BY <1>1, <1>4, <1>5 DEF KeptIsOwn
  <2>4. QED
    BY <1>1, <2>1, <2>2, <2>3 DEF KeptIsOwn
<1>13. AnswersSettle'
  <2>1. \A c, d \in Calls : c # d /\ call'[c].phase \in HistoryPhases /\ call'[d].phase \in HistoryPhases =>
          call'[c].disturbed
    BY <1>7 DEF AnswersSettle
  <2>2. ASSUME NEW c \in Calls, ~call'[c].disturbed, call'[c].wallet \notin crossed' PROVE AnswerOK(call[c])'
    <3>1. AnswerOK(call[c]) /\ call[c].phase \notin HistoryPhases
      BY <1>1, <1>7, <1>8, <2>2, QueryFacts DEF Flying, HistoryPhases
    <3>2. CASE call[c].phase = "done"
      BY <1>7, <3>1, <3>2 DEF AnswerOK, SettledIn, HistoryPhases
    <3>3. CASE call[c].phase # "done"
      BY <1>7, <3>1, <3>3 DEF AnswerOK, HistoryPhases
    <3>4. QED
      BY <3>2, <3>3
  <2>3. QED
    BY <2>1, <2>2 DEF AnswersSettle
<1>15. QED
  BY <1>9, <1>10, <1>11, <1>12, <1>13

LEMMA RemoveHistoriesIInv == ASSUME IInv, NEW m \in Movers, RemoveHistories(m) PROVE IInv'
<1> USE DEF IInv
<1>1. /\ move[m].phase = "histories" /\ keys' = None
      /\ UNCHANGED <<network, session, selected, manager, astray, call, memory, balance, fiat, price, chain, crossed>> /\ Mined' = Mined
  BY DEF RemoveHistories, world, Mined
<1>2. /\ DOMAIN move' = Movers /\ \A n \in Movers \ {m} : move'[n] = move[n]
      /\ MoveTyped(move[m])' /\ move'[m].phase = "idle" /\ ~move'[m].alone
  BY DEF RemoveHistories, Leaves, Typed, NoMove, MoveTyped, MoveFields, Picking
<1>3. /\ selected.acc = None /\ ~session
      /\ \A n \in Movers : move[n].phase \in {"balances", "histories"} => n = m
  BY <1>1 DEF LogoutLists, LoggingOut, Selection
<1>4. \A s \in Scopes : stored'[s] = IF s \in move[m].listed THEN None ELSE stored[s]
  BY DEF RemoveHistories
<1>5. stored' \in [Scopes -> TxMaps \cup {None}]
  BY DEF RemoveHistories, Typed
<1>6. Typed'
  BY <1>1, <1>2, <1>5 DEF Typed
<1>7. CallsTyped' /\ Selection'
  BY <1>1, <1>2, <1>3 DEF CallsTyped, CallTyped, Selection, StandsBack, Idle, Picking
<1>8. LogoutLists'
  <2>1. ~LoggingOut' /\ \A n \in Movers : move'[n].phase \notin {"balances", "histories"}
    BY <1>2, <1>3 DEF LoggingOut
  <2>2. \A w \in Wallets, asset \in Assets : [wallet |-> w, asset |-> asset] \in Scopes
    BY DEF Scopes
  <2>3. \A w \in Wallets \ crossed : LoggedOut(w)'
    BY <1>1, <1>3, <1>4, <2>2 DEF LogoutLists, LoggedOut
  <2>4. QED
    BY <1>1, <1>3, <2>1, <2>3 DEF LogoutLists
<1>9. KeptIsOwn'
  <2>1. \A c \in Calls : OwnCall(call[c])'
    BY <1>1 DEF KeptIsOwn, OwnCall
  <2>2. QED
    BY <1>1, <1>4, <2>1 DEF KeptIsOwn
<1>10. AnswersSettle'
  BY <1>1 DEF AnswersSettle, AnswerOK, SettledIn
<1>12. QED
  BY <1>6, <1>7, <1>8, <1>9, <1>10

LEMMA RestartIInv == ASSUME IInv, Restart PROVE IInv'
<1> USE DEF IInv
<1>1. /\ keys' = (IF session THEN selected.acc ELSE None) /\ network' = selected.net
      /\ move' = [m \in Movers |-> NoMove] /\ call' = [c \in Calls |-> NoCall]
      /\ manager' = selected.acc /\ astray' = FALSE
      /\ memory' = [s \in Scopes |-> None] /\ price' = [f \in Currencies |-> NoPrice]
      /\ crossed' = (IF LoggingOut THEN Wallets ELSE crossed)
      /\ UNCHANGED <<selected, session, stored, fiat, chain>>
  BY DEF Restart
<1>2. NoBalance \in Balances /\ NoBalance.native = None /\ NoBalance.tokens = None
  BY DEF NoBalance, Balances
<1>3. /\ balance' \in [memory : [Wallets -> Balances], stored : [Wallets -> Balances]]
      /\ balance'.stored = balance.stored /\ \A w \in Wallets : balance'.memory[w] = NoBalance
  BY <1>2 DEF Restart, Typed
<1>4. DOMAIN call' = Calls /\ \A c \in Calls : call'[c] = NoCall /\ NoCall.phase = "idle" /\ NoCall.wallet = None
  BY <1>1 DEF NoCall
<1>5. DOMAIN move' = Movers /\ \A m \in Movers : MoveTyped(move[m])' /\ move'[m].phase = "idle" /\ ~move'[m].alone
  BY <1>1 DEF NoMove, MoveTyped, MoveFields, Picking
<1>6. /\ price' \in [Currencies -> [age : {"unknown", "fresh", "stale"}, of : Currencies \cup {None}]]
      /\ \A f \in Currencies : price'[f].of = None
  BY <1>1 DEF NoPrice
<1>7. crossed \subseteq crossed' /\ crossed' \subseteq Wallets
  BY <1>1 DEF Typed
<1>8. Typed'
  BY <1>1, <1>3, <1>5, <1>6, <1>7 DEF Typed
<1>9. CallsTyped'
  <2>1. CallTyped(NoCall)'
    BY NoCallOK
  <2>2. \A c \in Calls : CallTyped(call[c])'
    BY <1>4, <2>1 DEF CallTyped
  <2>3. QED
    BY <1>4, <2>2 DEF CallsTyped
<1>10. Selection'
  BY <1>1, <1>5 DEF Selection, Follows
<1>11. LogoutLists'
  <2>1. ~LoggingOut' /\ \A m \in Movers : move'[m].phase \notin {"balances", "histories"}
    BY <1>5 DEF LoggingOut
  <2>2. \A c \in Calls : ~Flying(call'[c])
    BY <1>4 DEF Flying
  <2>3. selected.acc = None => keys' = None
    BY <1>1
  <2>4. selected.acc = None => \A w \in Wallets \ crossed' : LoggedOut(w)'
    BY <1>1, <1>3 DEF LogoutLists, LoggedOut
  <2>5. QED
    BY <1>1, <2>1, <2>2, <2>3, <2>4 DEF LogoutLists
<1>12. KeptIsOwn'
  <2>1. \A c \in Calls : OwnCall(call[c])'
    BY <1>4 DEF OwnCall, Flying
  <2>2. QED
    BY <1>1, <1>2, <1>3, <1>6, <1>7, <2>1 DEF KeptIsOwn
<1>13. AnswersSettle'
  BY <1>4 DEF AnswersSettle, AnswerOK, HistoryPhases
<1>15. QED
  BY <1>8, <1>9, <1>10, <1>11, <1>12, <1>13

-----------------------------------------------------------------------------
(* Every step keeps the inductive invariant.                               *)

LEMMA NextIInv == IInv /\ [Next]_vars => IInv'
<1> SUFFICES ASSUME IInv, [Next]_vars PROVE IInv'
  OBVIOUS
<1>1. ASSUME NEW c \in Calls, NEW kind \in {"history", "cached"}, NEW asset \in Assets, StartHistory(c, kind, asset)
      PROVE  IInv'
  BY <1>1, StartHistoryIInv
<1>2. ASSUME NEW c \in Calls, StartBalance(c) \/ StartCachedBalance(c) PROVE IInv'
  BY <1>2, StartBalanceIInv
<1>3. ASSUME NEW c \in Calls, QueryStep(c) PROVE IInv'
  <2>1. CASE Loaded(c)
    BY <2>1, LoadedIInv
  <2>2. CASE Fetched(c)
    BY <2>2, FetchedIInv
  <2>3. CASE Reloaded(c)
    BY <2>3, ReloadedIInv
  <2>4. CASE Saved(c)
    BY <2>4, SavedIInv
  <2>5. CASE Block(c)
    BY <2>5, BlockIInv
  <2>6. CASE Receipts(c)
    BY <2>6, ReceiptsIInv
  <2>7. CASE HistoryFails(c)
    BY <2>7, HistoryFailsIInv
  <2>8. CASE Native(c)
    BY <2>8, NativeIInv
  <2>9. CASE NativeFails(c) \/ Return(c)
    BY <2>9, EndIInv
  <2>10. CASE Tokens(c) \/ CachedBalance(c)
    BY <2>10, BalanceIInv
  <2>11. QED
    BY <1>3, <2>1, <2>2, <2>3, <2>4, <2>5, <2>6, <2>7, <2>8, <2>9, <2>10 DEF QueryStep
<1>4. ASSUME NEW m \in Movers, Asked(m) \/ Moves(m)
      PROVE  IInv'
  BY <1>4, AskedIInv, MovesIInv
<1>5. ASSUME NEW m \in Movers, Logout(m) PROVE IInv'
  BY <1>5, LogoutIInv
<1>6. ASSUME NEW m \in Movers, RemoveBalances(m) PROVE IInv'
  BY <1>6, RemoveBalancesIInv
<1>7. ASSUME NEW m \in Movers, RemoveHistories(m) PROVE IInv'
  BY <1>7, RemoveHistoriesIInv
<1>8. CASE Restart
  BY <1>8, RestartIInv
<1>9. ASSUME \/ \E f \in Currencies : PriceExpires(f) \/ SetFiatCurrency(f)
             \/ \E tx \in Txs : Mine(tx)
      PROVE  IInv'
  BY <1>9, WorldIInv
<1>10. CASE UNCHANGED vars
  <2>1. UNCHANGED <<keys, network, selected, manager, session, move, astray, call, memory, stored, balance, fiat, price, chain, crossed>>
    BY <1>10 DEF vars, place, history, world
  <2>2. Mined' = Mined /\ (LoggingOut' <=> LoggingOut)
    BY <2>1 DEF Mined, LoggingOut
  <2>3. Typed' /\ Selection' /\ LogoutLists'
    BY <2>1, <2>2 DEF IInv, Typed, Selection, Follows, OnWay, StandsBack, Idle, LogoutLists, LoggedOut
  <2>4. CallsTyped'
    BY <2>1, <2>2 DEF IInv, CallsTyped, CallTyped
  <2>5. KeptIsOwn'
    BY <2>1, <2>2 DEF IInv, KeptIsOwn, OwnCall
  <2>6. AnswersSettle'
    BY <2>1, <2>2 DEF IInv, AnswersSettle, AnswerOK, SettledIn
  <2>7. QED
    BY <2>3, <2>4, <2>5, <2>6 DEF IInv
<1>11. QED
  BY <1>1, <1>2, <1>3, <1>4, <1>5, <1>6, <1>7, <1>8, <1>9, <1>10, Zenon DEF Next, Step, MoveStep, Asked, Moves

-----------------------------------------------------------------------------
(* The two views of a cache: its map, and its stored copy as load() takes it.  *)

AsRead(s) == IF stored[s] = None THEN NoTxs ELSE stored[s]
ReadsOK(k) ==
  /\ k.phase = "load" /\ ScopeOfCall(k) \notin outdated.scopes => k.txs = AsRead(ScopeOfCall(k))
  /\ k.phase = "reload" /\ ScopeOfCall(k) \notin outdated.scopes => k.read = stored[ScopeOfCall(k)]
  /\ k.phase = "cache" /\ k.wallet \notin outdated.wallets => k.balance = balance.stored[k.wallet]
HistoryAgrees(s) == memory[s] = None \/ memory[s] = AsRead(s) \/ (stored[s] = None /\ s.wallet \in crossed)
BalanceAgrees(w) == balance.memory[w] \in {NoBalance, balance.stored[w]} \/ w \in crossed
Emptied ==
  selected.acc = None =>
    \A w \in Wallets \ crossed :
      /\ balance.memory[w] = NoBalance
      /\ (\A m \in Movers : move[m].phase # "balances") =>
           \A asset \in Assets : memory[[wallet |-> w, asset |-> asset]] = None
Views ==
  /\ outdated \in [scopes : SUBSET Scopes, wallets : SUBSET Wallets]
  /\ \A c \in Calls : ReadsOK(call[c])
  /\ \A s \in Scopes \ outdated.scopes : HistoryAgrees(s)
  /\ \A w \in Wallets \ outdated.wallets : BalanceAgrees(w)
  /\ Emptied

\* A query that is reading a stored copy was doing so before, or has just begun to.
Reads(c) == call[c].phase \in {"load", "reload", "cache"}
StillReads(c) ==
  /\ call'[c].phase = call[c].phase /\ call'[c].wallet = call[c].wallet /\ call'[c].asset = call[c].asset
  /\ call'[c].txs = call[c].txs /\ call'[c].read = call[c].read /\ call'[c].balance = call[c].balance
BeginsToRead(c) ==
  /\ UNCHANGED <<stored, balance>>
  /\ call'[c].phase = "load" => call'[c].txs = AsRead(ScopeOfCall(call'[c]))
  /\ call'[c].phase = "reload" => call'[c].read = stored[ScopeOfCall(call'[c])]
  /\ call'[c].phase = "cache" => call'[c].balance = balance.stored[call'[c].wallet]

LEMMA ViewsFrame ==
  ASSUME IInv', Views, Outdating, \A c \in Calls : Reads(c)' => StillReads(c) \/ BeginsToRead(c),
         \A s \in Scopes \ outdated.scopes : HistoryAgrees(s)',
         \A w \in Wallets \ outdated.wallets : BalanceAgrees(w)',
         Emptied'
  PROVE  Views'
<1>1. outdated' = [scopes |-> outdated'.scopes, wallets |-> outdated'.wallets]
  BY DEF Outdating
<1>2. outdated'.scopes =
        {s \in Scopes :
           \/ stored'[s] # stored[s] /\ \E c \in Calls : Loading(c, s) /\ Loading(c, s)'
           \/ /\ s \in outdated.scopes
              /\ memory'[s] \notin {None, stored'[s]} \/ \E c \in Calls : Loading(c, s)'}
  BY DEF Outdating
<1>3. outdated'.wallets =
        {w \in Wallets :
           \/ balance'.stored[w] # balance.stored[w] /\ \E c \in Calls : Caching(c, w) /\ Caching(c, w)'
           \/ /\ w \in outdated.wallets
              /\ \/ balance'.memory[w] \notin {NoBalance, balance'.stored[w]}
                 \/ \E c \in Calls : Caching(c, w)'}
  BY DEF Outdating
<1>4. outdated' \in [scopes : SUBSET Scopes, wallets : SUBSET Wallets]
  <2>1. outdated'.scopes \in SUBSET Scopes /\ outdated'.wallets \in SUBSET Wallets
    BY <1>2, <1>3
  <2>2. QED
    BY <1>1, <2>1
<1>5. ASSUME NEW c \in Calls PROVE ReadsOK(call[c])'
  <2>1. CallTyped(call[c])'
    BY DEF IInv, CallsTyped
  <2>2. ASSUME call'[c].phase \in {"load", "reload"}, ScopeOfCall(call[c])' \notin outdated'.scopes
        PROVE  ReadsOK(call[c])'
    <3>1. PICK s : s = ScopeOfCall(call[c])'
      OBVIOUS
    <3>2. s \in Scopes /\ s \notin outdated'.scopes
      BY <2>1, <2>2, <3>1 DEF CallTyped, ScopeOfCall, Scopes, HistoryPhases
    <3>3. Loading(c, s)'
      BY <2>2, <3>1 DEF Loading, ScopeOf, ScopeOfCall
    <3>4. s \notin outdated.scopes
      BY <1>2, <3>2, <3>3
    <3>5. CASE StillReads(c)
      <4>1. Loading(c, s) /\ ScopeOfCall(call[c]) = s
        BY <2>2, <3>1, <3>5 DEF Loading, ScopeOf, ScopeOfCall, StillReads
      <4>2. stored'[s] = stored[s]
        BY <1>2, <3>2, <3>3, <4>1
      <4>3. ReadsOK(call[c])
        BY DEF Views
      <4>4. QED
        BY <2>2, <3>1, <3>4, <3>5, <4>1, <4>2, <4>3 DEF ReadsOK, StillReads, AsRead
    <3>6. CASE BeginsToRead(c)
      BY <2>2, <3>6 DEF ReadsOK, BeginsToRead, AsRead
    <3>7. QED
      BY <2>2, <3>5, <3>6 DEF Reads
  <2>3. ASSUME call'[c].phase = "cache", call'[c].wallet \notin outdated'.wallets
        PROVE  ReadsOK(call[c])'
    <3>1. PICK w : w = call'[c].wallet
      OBVIOUS
    <3>2. w \in Wallets /\ w \notin outdated'.wallets /\ Caching(c, w)'
      BY <2>1, <2>3, <3>1 DEF CallTyped, Caching
    <3>3. w \notin outdated.wallets
      BY <1>3, <3>2
    <3>4. CASE StillReads(c)
      <4>1. Caching(c, w)
        BY <2>3, <3>1, <3>4 DEF Caching, StillReads
      <4>2. balance'.stored[w] = balance.stored[w]
        BY <1>3, <3>2, <4>1
      <4>3. ReadsOK(call[c])
        BY DEF Views
      <4>4. QED
        BY <2>3, <3>1, <3>3, <3>4, <4>2, <4>3 DEF ReadsOK, StillReads
    <3>5. CASE BeginsToRead(c)
      BY <2>3, <3>5 DEF ReadsOK, BeginsToRead
    <3>6. QED
      BY <2>3, <3>4, <3>5 DEF Reads
  <2>4. CASE /\ call'[c].phase \in {"load", "reload"} => ScopeOfCall(call[c])' \in outdated'.scopes
             /\ call'[c].phase = "cache" => call'[c].wallet \in outdated'.wallets
    BY <2>4 DEF ReadsOK
  <2>5. QED
    BY <2>2, <2>3, <2>4
<1>6. ASSUME NEW s \in Scopes \ outdated'.scopes PROVE HistoryAgrees(s)'
  <2>1. CASE s \in outdated.scopes
    <3>1. memory'[s] \in {None, stored'[s]}
      BY <1>2, <1>6, <2>1
    <3>2. QED
      BY <3>1 DEF HistoryAgrees, AsRead
  <2>2. QED
    BY <2>1
<1>7. ASSUME NEW w \in Wallets \ outdated'.wallets PROVE BalanceAgrees(w)'
  <2>1. CASE w \in outdated.wallets
    BY <1>3, <1>7, <2>1 DEF BalanceAgrees
  <2>2. QED
    BY <2>1
<1>8. QED
  BY <1>4, <1>5, <1>6, <1>7 DEF Views

\* A step that writes neither cache.
LEMMA QuietViews ==
  ASSUME IInv', Views, Outdating, UNCHANGED <<history, balance>>, crossed \subseteq crossed',
         selected'.acc = None => selected.acc = None,
         \A n \in Movers : move'[n].phase = "balances" <=> move[n].phase = "balances",
         \A c \in Calls : Reads(c)' => StillReads(c) \/ BeginsToRead(c)
  PROVE  Views'
<1>1. \A s \in Scopes \ outdated.scopes : HistoryAgrees(s)'
  BY DEF Views, history, HistoryAgrees, AsRead
<1>2. \A w \in Wallets \ outdated.wallets : BalanceAgrees(w)'
  BY DEF Views, BalanceAgrees
<1>3. Emptied'
  BY DEF Views, Emptied, history
<1>4. QED
  BY <1>1, <1>2, <1>3, ViewsFrame

\* A step of a query that writes its history, in memory or in both.
LEMMA WriteViews ==
  ASSUME IInv, IInv', Views, Outdating, NEW c \in Calls, UNCHANGED <<place, balance, crossed>>,
         call[c].phase \in HistoryPhases, ~Reads(c)',
         \A d \in Calls \ {c} : call'[d] = call[d] \/ Rereads(c, d),
         \A s \in Scopes \ {ScopeOfCall(call[c])} : memory'[s] = memory[s] /\ stored'[s] = stored[s],
         \A s \in {ScopeOfCall(call[c])} : s \notin outdated.scopes => HistoryAgrees(s)'
  PROVE  Views'
<1>1. \A d \in Calls : Reads(d)' => StillReads(d)
  <2>1. ASSUME NEW d \in Calls \ {c}, Rereads(c, d) PROVE ~Reads(d)'
    <3>1. CallTyped(call[d]) /\ call[d].phase = "saving" /\ call'[d] = [call[d] EXCEPT !.read = memory[ScopeOfCall(call[d])]]
      BY <2>1 DEF IInv, CallsTyped, Rereads
    <3>2. call'[d].phase = "saving"
      BY <3>1 DEF CallTyped, CallFields
    <3>3. QED
      BY <3>2 DEF Reads
  <2>2. QED
    BY <2>1 DEF StillReads
<1>2. ASSUME NEW s \in Scopes \ outdated.scopes PROVE HistoryAgrees(s)'
  <2>1. CASE s # ScopeOfCall(call[c])
    BY <2>1 DEF Views, HistoryAgrees, AsRead
  <2>2. QED
    BY <2>1
<1>3. \A w \in Wallets \ outdated.wallets : BalanceAgrees(w)'
  BY DEF Views, BalanceAgrees
<1>4. Emptied'
  <2>1. selected.acc = None => call[c].wallet \in crossed
    BY DEF IInv, LogoutLists, Flying, HistoryPhases
  <2>2. ASSUME selected.acc = None, NEW w \in Wallets \ crossed, NEW asset \in Assets
        PROVE  memory'[[wallet |-> w, asset |-> asset]] = memory[[wallet |-> w, asset |-> asset]]
    BY <2>1, <2>2 DEF ScopeOfCall, Scopes
  <2>3. QED
    BY <2>2 DEF Views, Emptied, place
<1>5. QED
  BY <1>1, <1>2, <1>3, <1>4, ViewsFrame

\* What the indexer or the node answers is merged, or there is nothing to merge.
LEMMA AnswerMerges ==
  ASSUME IInv, NEW c \in Calls, Fetched(c) \/ Receipts(c)
  PROVE  /\ call[c].phase \in {"fetch", "receipts"} /\ UNCHANGED <<place, balance, crossed>>
         /\ \/ call' = [call EXCEPT ![c].phase = "done"] /\ UNCHANGED history
            \/ \E new \in TxMaps : BeginMerge(c, new)
<1>0. Typed /\ CallTyped(call[c])
  BY QueryFacts
<1>1. CASE Fetched(c)
  <2>1. PICK new \in Listings([ScopeOf(c) EXCEPT !.wallet.net = call[c].asked]) : BeginMerge(c, new)
    BY <1>1 DEF Fetched
  <2>2. new \in TxMaps
    BY <1>0, <2>1, ListingsOK DEF Typed
  <2>3. QED
    BY <1>1, <2>1, <2>2 DEF Fetched
<1>2. CASE Receipts(c)
  <2> DEFINE new == [t \in Txs |-> IF t \in call[c].receipts THEN chain[t] ELSE call[c].txs[t]]
  <2>1. new \in TxMaps
    BY <1>0 DEF Typed, CallTyped, TxMaps
  <2>2. \/ call' = [call EXCEPT ![c].phase = "done"] /\ UNCHANGED history
        \/ BeginMerge(c, new)
    BY <1>2 DEF Receipts
  <2>3. call[c].phase = "receipts" /\ UNCHANGED <<place, balance, crossed>>
    BY <1>2 DEF Receipts
  <2> HIDE DEF new
  <2>4. QED
    BY <2>1, <2>2, <2>3
<1>3. QED
  BY <1>1, <1>2

LEMMA MergingViews ==
  ASSUME IInv, IInv', Views, Outdating, NEW c \in Calls, Fetched(c) \/ Receipts(c) \/ Reloaded(c)
  PROVE  Views'
<1>1. /\ call[c].phase \in {"fetch", "receipts", "reload"} /\ call[c].phase \in HistoryPhases
      /\ UNCHANGED <<place, balance, crossed>>
  BY AnswerMerges DEF Reloaded, HistoryPhases
<1>2. ScopeOf(c) = ScopeOfCall(call[c]) /\ ScopeOf(c) \in Scopes /\ DOMAIN call = Calls /\ CallTyped(call[c])
  BY <1>1, QueryFacts DEF IInv, CallsTyped
<1>3. ASSUME NEW map \in TxMaps, NEW new \in TxMaps, Merge(c, map, new), ~Reads(c)',
             \A d \in Calls \ {c} : call'[d] = call[d] \/ Rereads(c, d)
      PROVE  Views'
  <2>1. /\ \A s \in Scopes \ {ScopeOfCall(call[c])} : memory'[s] = memory[s] /\ stored'[s] = stored[s]
        /\ \A s \in {ScopeOfCall(call[c])} : memory'[s] # None /\ stored'[s] = memory'[s]
    BY <1>1, <1>3, MergeOK
  <2>2. \A s \in {ScopeOfCall(call[c])} : HistoryAgrees(s)'
    BY <2>1 DEF HistoryAgrees, AsRead
  <2>3. QED
    BY <1>1, <1>3, <2>1, <2>2, WriteViews
<1>4. ASSUME NEW new \in TxMaps, BeginMerge(c, new) PROVE Views'
  <2>1. CASE memory[ScopeOf(c)] # None
    <3>1. Merge(c, memory[ScopeOf(c)], new) /\ memory[ScopeOf(c)] \in TxMaps
      BY <1>1, <1>4, <2>1, QueryFacts DEF BeginMerge
    <3>2. call' = [call EXCEPT ![c].phase = "saving", ![c].asked = None, ![c].txs = NoTxs]
      BY <1>4, <2>1 DEF BeginMerge
    <3>3. ~Reads(c)' /\ \A d \in Calls \ {c} : call'[d] = call[d]
      BY <1>2, <3>2 DEF Reads, CallTyped, CallFields
    <3>4. QED
      BY <1>3, <1>4, <3>1, <3>3
  <2>2. CASE memory[ScopeOf(c)] = None
    <3>1. UNCHANGED history /\ call' = [call EXCEPT ![c].phase = "reload", ![c].asked = None, ![c].txs = new,
                                                   ![c].read = stored[ScopeOf(c)]]
      BY <1>4, <2>2 DEF BeginMerge
    <3>2. /\ call'[c].phase = "reload" /\ call'[c].read = stored[ScopeOf(c)]
          /\ call'[c].wallet = call[c].wallet /\ call'[c].asset = call[c].asset
          /\ \A d \in Calls \ {c} : call'[d] = call[d]
      BY <1>2, <3>1 DEF CallTyped, CallFields
    <3>3. BeginsToRead(c)
      BY <1>1, <1>2, <3>1, <3>2 DEF BeginsToRead, ScopeOfCall, history
    <3>4. \A d \in Calls : Reads(d)' => StillReads(d) \/ BeginsToRead(d)
      BY <3>2, <3>3 DEF StillReads
    <3>5. QED
      BY <1>1, <3>1, <3>4, QuietViews DEF place
  <2>3. QED
    BY <2>1, <2>2
<1>5. CASE call' = [call EXCEPT ![c].phase = "done"] /\ UNCHANGED history
  <2>1. ~Reads(c)' /\ \A d \in Calls \ {c} : call'[d] = call[d]
    BY <1>2, <1>5 DEF Reads, CallTyped, CallFields
  <2>2. \A d \in Calls : Reads(d)' => StillReads(d)
    BY <2>1 DEF StillReads
  <2>3. QED
    BY <1>1, <1>5, <2>2, QuietViews DEF place
<1>6. CASE Reloaded(c)
  <2>1. PICK map : map = IF call[c].read = None THEN NoTxs ELSE call[c].read
    OBVIOUS
  <2>2. PICK k : k = [call[c] EXCEPT !.phase = "saving", !.txs = NoTxs, !.read = None]
    OBVIOUS
  <2>3. Merge(c, map, call[c].txs) /\ call' = [Replaced(ScopeOf(c)) EXCEPT ![c] = k]
    BY <1>6, <2>1, <2>2 DEF Reloaded
  <2>4. map \in TxMaps /\ call[c].txs \in TxMaps /\ k.phase = "saving"
    BY <1>2, <2>1, <2>2, NoTxsOK DEF CallTyped, CallFields
  <2>5. call'[c] = k /\ \A d \in Calls \ {c} : call'[d] = call[d] \/ Rereads(c, d)
    BY <1>1, <2>3, ReplacedOK
  <2>6. ~Reads(c)'
    BY <2>4, <2>5 DEF Reads
  <2>7. QED
    BY <1>3, <2>3, <2>4, <2>5, <2>6
<1>7. QED
  BY <1>4, <1>5, <1>6, AnswerMerges

\* load() makes what it has read the map of the cache.
LEMMA LoadedViews ==
  ASSUME IInv, IInv', Views, Outdating, NEW c \in Calls, Loaded(c)
  PROVE  Views'
<1>1. /\ call[c].phase = "load" /\ call[c].phase \in HistoryPhases /\ stored' = stored
      /\ memory' = [memory EXCEPT ![ScopeOf(c)] = call[c].txs] /\ UNCHANGED <<place, balance, crossed>>
  BY DEF Loaded, HistoryPhases
<1>2. ScopeOf(c) = ScopeOfCall(call[c]) /\ ScopeOf(c) \in Scopes /\ CallTyped(call[c]) /\ Typed
  BY <1>1, QueryFacts
<1>3. PICK k : k = Asking(call[c], call[c].txs)
  OBVIOUS
<1>4. call' = [Replaced(ScopeOf(c)) EXCEPT ![c] = k]
  BY <1>3 DEF Loaded
<1>5. k.phase \in {"idle", "fetch"}
  BY <1>2, <1>3 DEF Asking, NoCall, CallTyped, CallFields
<1>6. ~Reads(c)' /\ \A d \in Calls \ {c} : call'[d] = call[d] \/ Rereads(c, d)
  BY <1>1, <1>4, <1>5, ReplacedOK DEF Reads
<1>7. \A s \in Scopes \ {ScopeOfCall(call[c])} : memory'[s] = memory[s] /\ stored'[s] = stored[s]
  BY <1>1, <1>2
<1>8. \A s \in {ScopeOfCall(call[c])} : s \notin outdated.scopes => HistoryAgrees(s)'
  <2>1. memory'[ScopeOf(c)] = call[c].txs
    BY <1>1, <1>2 DEF Typed
  <2>2. ScopeOf(c) \notin outdated.scopes => call[c].txs = AsRead(ScopeOf(c))
    BY <1>1, <1>2 DEF Views, ReadsOK
  <2>3. QED
    BY <1>1, <1>2, <2>1, <2>2 DEF HistoryAgrees, AsRead
<1>9. QED
  BY <1>1, <1>6, <1>7, <1>8, WriteViews

\* The other steps of a history query, and the first of a balance query.
LEMMA WritelessViews ==
  ASSUME IInv, IInv', Views, Outdating, NEW c \in Calls,
         Saved(c) \/ Block(c) \/ HistoryFails(c) \/ Native(c) \/ NativeFails(c) \/ Return(c)
  PROVE  Views'
<1>1. UNCHANGED <<place, history, balance, crossed>>
  BY DEF Saved, Block, HistoryFails, Native, NativeFails, Return
<1>2. DOMAIN call = Calls /\ CallTyped(call[c])
  BY DEF IInv, CallsTyped
<1>3. ~Reads(c)' /\ \A d \in Calls \ {c} : call'[d] = call[d]
  <2> DEFINE goes(k) == call' = [call EXCEPT ![c] = k] /\ k.phase \in {"block", "done", "receipts", "tokens"}
  <2>0. ASSUME NEW k, goes(k) PROVE ~Reads(c)' /\ \A d \in Calls \ {c} : call'[d] = call[d]
    BY <1>2, <2>0 DEF Reads
  <2>1. CASE Saved(c)
    <3> DEFINE cache == IF memory[ScopeOf(c)] = None THEN NoTxs ELSE memory[ScopeOf(c)]
               map == IF call[c].read = None THEN cache ELSE call[c].read
    <3>1. PICK k : k = IF call[c].receipts = {} THEN Reconciling(call[c], map)
                       ELSE [call[c] EXCEPT !.phase = "done", !.txs = map, !.read = None]
      OBVIOUS
    <3>2. call' = [call EXCEPT ![c] = k]
      BY <2>1, <3>1 DEF Saved
    <3> HIDE DEF map, cache
    <3>3. k.phase \in {"block", "done"}
      BY <1>2, <3>1 DEF Reconciling, CallTyped, CallFields
    <3>4. QED
      BY <2>0, <3>2, <3>3
  <2>2. CASE HistoryFails(c)
    <3> DEFINE failed == [call[c] EXCEPT !.disturbed = TRUE]
    <3>1. PICK k : k = IF call[c].phase = "fetch" THEN Reconciling(failed, call[c].txs)
                                                  ELSE [failed EXCEPT !.phase = "done"]
      OBVIOUS
    <3>2. call' = [call EXCEPT ![c] = k]
      BY <2>2, <3>1 DEF HistoryFails
    <3>3. k.phase \in {"block", "done"}
      BY <1>2, <3>1 DEF Reconciling, CallTyped, CallFields
    <3>4. QED
      BY <2>0, <3>2, <3>3
  <2>5. CASE Block(c)
    <3>1. PICK lost \in {{}} \cup {{tx} : tx \in Pending(call[c].txs)} :
            call' = [call EXCEPT ![c].phase = "receipts", ![c].disturbed = @ \/ lost # {},
                         ![c].receipts = {tx \in (Pending(call[c].txs) \cap Mined) \ lost :
                                            Home[tx].wallet.net = network}]
      BY <2>5 DEF Block
    <3> DEFINE receipts == {tx \in (Pending(call[c].txs) \cap Mined) \ lost : Home[tx].wallet.net = network}
    <3>2. PICK k : k = [call[c] EXCEPT !.phase = "receipts", !.disturbed = @ \/ lost # {}, !.receipts = receipts]
      OBVIOUS
    <3>3. call' = [call EXCEPT ![c] = k] /\ k.phase = "receipts"
      BY <1>2, <3>1, <3>2 DEF CallTyped, CallFields
    <3>4. QED
      BY <2>0, <3>3
  <2>6. CASE Native(c)
    <3> DEFINE rate == price'[CacheKey(call[c].fiat)].of
    <3>1. PICK k : k = [call[c] EXCEPT !.phase = "tokens", !.balance.tokens = network, !.balance.rate = rate]
      OBVIOUS
    <3>2. call' = [call EXCEPT ![c] = k]
      BY <1>2, <2>6, <3>1 DEF Native, CallTyped, CallFields
    <3>3. k.phase = "tokens"
      BY <1>2, <3>1 DEF CallTyped, CallFields
    <3>4. QED
      BY <2>0, <3>2, <3>3
  <2>3. CASE NativeFails(c) \/ Return(c)
    BY <1>2, <2>3 DEF NativeFails, Return, Reads, NoCall
  <2>4. QED
    BY <2>1, <2>2, <2>3, <2>5, <2>6
<1>4. \A d \in Calls : Reads(d)' => StillReads(d)
  BY <1>3 DEF StillReads
<1>5. QED
  BY <1>1, <1>4, QuietViews DEF place

\* A query begins.
LEMMA StartViews ==
  ASSUME IInv, IInv', Views, Outdating, NEW c \in Calls,
         \/ \E kind \in {"history", "cached"}, asset \in Assets : StartHistory(c, kind, asset)
         \/ StartBalance(c) \/ StartCachedBalance(c)
  PROVE  Views'
<1>1. UNCHANGED <<place, history, balance>> /\ crossed \subseteq crossed'
  BY DEF StartHistory, StartBalance, StartCachedBalance
<1>2. DOMAIN call = Calls /\ \A d \in Calls : CallTyped(call[d])
  BY DEF IInv, CallsTyped
<1>3. ASSUME NEW kind \in {"history", "cached"}, NEW asset \in Assets, StartHistory(c, kind, asset)
      PROVE  \A d \in Calls : Reads(d)' => StillReads(d) \/ BeginsToRead(d)
  <2>1. PICK q : q = Begun(kind, asset)
    OBVIOUS
  <2>2. DOMAIN q = CallFields /\ q.asset = asset /\ q.wallet = [net |-> network, acc |-> keys]
    BY <2>1, BegunOK
  <2>3. PICK s : s = [wallet |-> q.wallet, asset |-> asset]
    OBVIOUS
  <2>4. PICK k : k = IF memory[s] # None THEN Asking(q, memory[s])
                     ELSE [q EXCEPT !.phase = "load", !.txs = AsRead(s)]
    OBVIOUS
  <2>5. /\ \A d \in Calls \ {c} : Disturbs(d)
        /\ call'[c] = k
    <3>1. call' = [d \in Calls |->
             IF d # c THEN [call[d] EXCEPT !.disturbed = @ \/ d \in InFlight]
             ELSE IF memory[s] # None THEN Asking(q, memory[s])
             ELSE [q EXCEPT !.phase = "load", !.txs = IF stored[s] = None THEN NoTxs ELSE stored[s]]]
      BY <1>3, <2>1, <2>3 DEF StartHistory
    <3> DEFINE disturbed(d) == [call[d] EXCEPT !.disturbed = @ \/ d \in InFlight]
    <3>2. \A d \in Calls : call'[d] = IF d # c THEN disturbed(d) ELSE k
      BY <2>4, <3>1 DEF AsRead
    <3> HIDE DEF disturbed
    <3>3. \A d \in Calls \ {c} : call'[d] = disturbed(d)
      BY <3>2
    <3>4. \A d \in Calls \ {c} : Disturbs(d)
      BY <3>3, Zenon DEF Disturbs, disturbed
    <3>5. QED
      BY <3>2, <3>4
  <2>6. \A d \in Calls \ {c} : StillReads(d)
    <3>1. SUFFICES ASSUME NEW d \in Calls \ {c} PROVE \A f \in CallFields \ {"disturbed"} : call'[d][f] = call[d][f]
      BY DEF StillReads, CallFields
    <3>2. DOMAIN call[d] = CallFields
      BY <1>2 DEF CallTyped
    <3>3. Disturbs(d)
      BY <2>5
    <3>4. QED
      BY <3>2, <3>3 DEF Disturbs
  <2>7. Reads(c)' => k.phase = "load" /\ k.txs = AsRead(s) /\ ScopeOfCall(k) = s
    BY <2>2, <2>3, <2>4, <2>5 DEF Reads, Asking, NoCall, CallFields, ScopeOfCall
  <2>8. Reads(c)' => BeginsToRead(c)
    BY <1>1, <2>5, <2>7 DEF BeginsToRead, history
  <2>9. QED
    BY <2>6, <2>8
<1>4. ASSUME StartBalance(c) PROVE \A d \in Calls : Reads(d)' => StillReads(d) \/ BeginsToRead(d)
  <2>1. PICK q : q = Begun("balance", None)
    OBVIOUS
  <2>2. DOMAIN q = CallFields
    BY <2>1, BegunOK
  <2>3. call' = [call EXCEPT ![c] = [q EXCEPT !.phase = "native", !.balance.native = network, !.fiat = fiat]]
    BY <1>4, <2>1 DEF StartBalance
  <2>4. ~Reads(c)' /\ \A d \in Calls \ {c} : call'[d] = call[d]
    BY <1>2, <2>2, <2>3 DEF Reads, CallFields
  <2>5. QED
    BY <2>4 DEF StillReads
<1>5. ASSUME StartCachedBalance(c) PROVE \A d \in Calls : Reads(d)' => StillReads(d) \/ BeginsToRead(d)
  <2>1. PICK q : q = Begun("cachedBalance", None)
    OBVIOUS
  <2>2. DOMAIN q = CallFields
    BY <2>1, BegunOK
  <2>3. call' = [call EXCEPT ![c] = [q EXCEPT !.phase = "cache", !.balance = balance.stored[q.wallet]]]
    BY <1>5, <2>1 DEF StartCachedBalance
  <2>4. /\ call'[c].phase = "cache" /\ call'[c].balance = balance.stored[call'[c].wallet]
        /\ \A d \in Calls \ {c} : call'[d] = call[d]
    BY <1>2, <2>2, <2>3 DEF CallFields
  <2>5. BeginsToRead(c)
    BY <1>1, <2>4 DEF BeginsToRead, history
  <2>6. QED
    BY <2>4, <2>5 DEF StillReads
<1>6. \A d \in Calls : Reads(d)' => StillReads(d) \/ BeginsToRead(d)
  BY <1>3, <1>4, <1>5
<1>7. QED
  BY <1>1, <1>6, QuietViews DEF place

\* A balance query ends, and keeps what it has read.
LEMMA BalanceViews ==
  ASSUME IInv, IInv', Views, Outdating, NEW c \in Calls, Tokens(c) \/ CachedBalance(c)
  PROVE  Views'
<1>1. /\ call[c].phase \in {"tokens", "cache"} /\ Flying(call[c])
      /\ call' = [call EXCEPT ![c] = NoCall] /\ UNCHANGED <<place, history, crossed>>
  BY DEF Tokens, CachedBalance, Flying
<1>2. /\ DOMAIN call = Calls /\ call[c].wallet \in Wallets
      /\ balance \in [memory : [Wallets -> Balances], stored : [Wallets -> Balances]]
  BY <1>1 DEF IInv, CallsTyped, CallTyped, Typed
<1>3. \A d \in Calls : Reads(d)' => StillReads(d)
  BY <1>1, <1>2 DEF Reads, StillReads, NoCall
<1>4. /\ \A w \in Wallets \ {call[c].wallet} :
           balance'.memory[w] = balance.memory[w] /\ balance'.stored[w] = balance.stored[w]
      /\ call[c].phase = "tokens" => balance'.memory[call[c].wallet] = balance'.stored[call[c].wallet]
      /\ call[c].phase = "cache" =>
           /\ balance'.stored[call[c].wallet] = balance.stored[call[c].wallet]
           /\ balance'.memory[call[c].wallet] \in {call[c].balance, balance.memory[call[c].wallet]}
  <2>1. CASE Tokens(c)
    BY <1>2, <2>1 DEF Tokens, BalanceSet
  <2>2. CASE CachedBalance(c)
    BY <1>2, <2>2 DEF CachedBalance
  <2>3. QED
    BY <2>1, <2>2
<1>5. ASSUME NEW w \in Wallets \ outdated.wallets PROVE BalanceAgrees(w)'
  <2>1. BalanceAgrees(w) /\ ReadsOK(call[c])
    BY DEF Views
  <2>2. CASE w # call[c].wallet
    BY <1>1, <1>4, <2>1, <2>2 DEF BalanceAgrees
  <2>3. CASE w = call[c].wallet /\ call[c].phase = "tokens"
    BY <1>4, <2>3 DEF BalanceAgrees
  <2>4. CASE w = call[c].wallet /\ call[c].phase = "cache"
    BY <1>1, <1>4, <2>1, <2>4 DEF BalanceAgrees, ReadsOK
  <2>5. QED
    BY <1>1, <2>2, <2>3, <2>4
<1>6. \A s \in Scopes \ outdated.scopes : HistoryAgrees(s)'
  BY <1>1 DEF Views, HistoryAgrees, AsRead, history
<1>7. Emptied'
  <2>1. selected.acc = None => call[c].wallet \in crossed
    BY <1>1 DEF IInv, LogoutLists
  <2>2. QED
    BY <1>1, <1>4, <2>1 DEF Views, Emptied, place, history
<1>8. QED
  BY <1>3, <1>5, <1>6, <1>7, ViewsFrame

\* The movers that touch no cache, and the world.
LEMMA ElsewhereViews ==
  ASSUME IInv, IInv', Views, Outdating,
         \/ \E m \in Movers : Asked(m) \/ Moves(m)
         \/ \E f \in Currencies : PriceExpires(f) \/ SetFiatCurrency(f)
         \/ \E tx \in Txs : Mine(tx)
  PROVE  Views'
<1>1. CASE \/ \E f \in Currencies : PriceExpires(f) \/ SetFiatCurrency(f)
           \/ \E tx \in Txs : Mine(tx)
  <2>1. UNCHANGED <<place, call, history, balance, crossed>>
    BY <1>1 DEF PriceExpires, SetFiatCurrency, Mine
  <2>2. QED
    BY <2>1, QuietViews DEF place, Reads, StillReads
<1>2. ASSUME NEW m \in Movers, Asked(m) \/ Moves(m) PROVE Views'
  <2>1. UNCHANGED <<call, history, balance>> /\ crossed \subseteq crossed'
    BY <1>2 DEF Asked, SwitchAccount, SwitchNetwork, CreateAccount, CreateWallet, SwitchEvmNetwork, RestoreWallet, Lock,
                Moves, Default, Moved, Active, Rejected, RolledBack, Superseded, Abandoned, InitNetwork, HasSession,
                Hydrate, ClearKeys
  <2>2. DOMAIN move = Movers /\ \A n \in Movers : MoveTyped(move[n])
    BY DEF IInv, Typed
  <2>3. selected'.acc = None => selected.acc = None
    <3>1. selected \in [acc : Accounts \cup {None}, net : Networks]
      BY DEF IInv, Typed
    <3>2. CASE Asked(m)
      BY <3>1, <3>2 DEF Asked, SwitchAccount, SwitchNetwork, CreateAccount, CreateWallet, SwitchEvmNetwork, RestoreWallet,
                   Lock
    <3>3. CASE Default(m) \/ Rejected(m)
      BY <2>2, <3>1, <3>3 DEF Default, Rejected, Rejectable, MoveTyped, Picking
    <3>4. CASE Moves(m) /\ ~Default(m) /\ ~Rejected(m)
      BY <3>4 DEF Moves, Moved, Active, RolledBack, Superseded, Abandoned, InitNetwork, HasSession, Hydrate, ClearKeys
    <3>5. QED
      BY <1>2, <3>2, <3>3, <3>4
  <2>4. move[m].phase # "balances" /\ move'[m].phase # "balances"
        /\ \A n \in Movers \ {m} : move'[n].phase = move[n].phase
    <3>1. CASE Asked(m)
      BY <3>1, AskedEnters, EnterFacts DEF IInv, Idle, Picking
    <3>2. CASE Moves(m)
      BY <2>2, <3>2 DEF Moves, Default, Moved, Active, Rejected, Rejectable, RolledBack, Superseded, Abandoned, InitNetwork,
                   HasSession, Hydrate, ClearKeys, Goes, Hydrates, Leaves, NoMove, MoveTyped, MoveFields
    <3>3. QED
      BY <1>2, <3>1, <3>2
  <2>5. QED
    BY <2>1, <2>3, <2>4, QuietViews DEF Reads, StillReads
<1>3. QED
  BY <1>1, <1>2

\* A logout, and the death of the worker, empty the maps and what is stored.
LEMMA ClearingViews ==
  ASSUME IInv, IInv', Views, Outdating,
         Restart \/ \E m \in Movers : Logout(m) \/ RemoveBalances(m) \/ RemoveHistories(m)
  PROVE  Views'
<1>1. \A w \in Wallets, asset \in Assets : [wallet |-> w, asset |-> asset] \in Scopes
  BY DEF Scopes
<1>2. /\ balance \in [memory : [Wallets -> Balances], stored : [Wallets -> Balances]]
      /\ DOMAIN move = Movers /\ \A n \in Movers : MoveTyped(move[n])
      /\ \A c \in Calls : CallTyped(call[c])
  BY DEF IInv, Typed, CallsTyped
<1>3. CASE Restart
  <2>1. /\ \A c \in Calls : ~Reads(c)'
        /\ \A s \in Scopes : memory'[s] = None
        /\ \A w \in Wallets : balance'.memory[w] = NoBalance
    BY <1>2, <1>3 DEF Restart, Reads, NoCall
  <2>2. (\A s \in Scopes : HistoryAgrees(s)') /\ (\A w \in Wallets : BalanceAgrees(w)') /\ Emptied'
    BY <1>1, <2>1 DEF HistoryAgrees, BalanceAgrees, Emptied
  <2>3. QED
    BY <2>1, <2>2, ViewsFrame
<1>4. ASSUME NEW m \in Movers, Logout(m) PROVE Views'
  <2>1. /\ UNCHANGED <<call, memory, stored>> /\ crossed \subseteq crossed'
        /\ \A w \in Wallets : balance'.memory[w] = NoBalance
        /\ move'[m].phase = "balances"
    BY <1>2, <1>4 DEF Logout, history, Enter, NoMove
  <2>2. \A c \in Calls : StillReads(c)
    BY <2>1 DEF StillReads
  <2>3. \A s \in Scopes \ outdated.scopes : HistoryAgrees(s)'
    BY <2>1 DEF Views, HistoryAgrees, AsRead
  <2>4. (\A w \in Wallets : BalanceAgrees(w)') /\ Emptied'
    BY <2>1 DEF BalanceAgrees, Emptied
  <2>5. QED
    BY <2>2, <2>3, <2>4, ViewsFrame
<1>5. ASSUME NEW m \in Movers, RemoveBalances(m) PROVE Views'
  <2>1. /\ selected.acc = None /\ selected' = selected /\ crossed \subseteq crossed'
        /\ \A s \in Scopes : memory'[s] = None
        /\ \A w \in Wallets : balance'.memory[w] = balance.memory[w]
    BY <1>2, <1>5 DEF RemoveBalances, IInv, LogoutLists, LoggingOut
  <2>2. \A c \in Calls : Reads(c)' => StillReads(c)
    <3>1. SUFFICES ASSUME NEW c \in Calls, Reads(c)' PROVE StillReads(c)
      OBVIOUS
    <3>2. call'[c] = IF call[c].phase = "saving" /\ call[c].read = None
                       THEN [call[c] EXCEPT !.read = memory[ScopeOf(c)]] ELSE call[c]
      BY <1>5 DEF RemoveBalances
    <3>3. call[c].phase = "saving" /\ call[c].read = None => call'[c].phase = "saving"
      BY <1>2, <3>2 DEF CallTyped, CallFields
    <3>4. call'[c] = call[c]
      BY <3>1, <3>2, <3>3 DEF Reads
    <3>5. QED
      BY <3>4 DEF StillReads
  <2>3. \A w \in Wallets \ crossed : balance.memory[w] = NoBalance
    BY <2>1 DEF Views, Emptied
  <2>4. (\A s \in Scopes : HistoryAgrees(s)') /\ (\A w \in Wallets : BalanceAgrees(w)') /\ Emptied'
    BY <1>1, <2>1, <2>3 DEF HistoryAgrees, BalanceAgrees, Emptied
  <2>5. QED
    BY <2>2, <2>4, ViewsFrame
<1>6. ASSUME NEW m \in Movers, RemoveHistories(m) PROVE Views'
  <2>1. /\ selected.acc = None /\ UNCHANGED <<selected, call, memory, balance, crossed>>
        /\ \A n \in Movers : move[n].phase # "balances"
    BY <1>6 DEF RemoveHistories, IInv, LogoutLists, LoggingOut
  <2>2. \A c \in Calls : StillReads(c)
    BY <2>1 DEF StillReads
  <2>3. \A w \in Wallets \ crossed : /\ balance.memory[w] = NoBalance
                                     /\ \A asset \in Assets : memory[[wallet |-> w, asset |-> asset]] = None
    BY <2>1 DEF Views, Emptied
  <2>4. \A s \in Scopes : s.wallet \notin crossed => memory[s] = None
    BY <2>3 DEF Scopes
  <2>5. \A s \in Scopes \ outdated.scopes : HistoryAgrees(s)'
    <3>1. SUFFICES ASSUME NEW s \in Scopes \ outdated.scopes, s.wallet \in crossed PROVE HistoryAgrees(s)'
      BY <2>1, <2>4 DEF HistoryAgrees
    <3>2. stored'[s] \in {None, stored[s]}
      BY <1>6 DEF RemoveHistories
    <3>3. QED
      BY <2>1, <3>1, <3>2 DEF Views, HistoryAgrees, AsRead
  <2>6. (\A w \in Wallets \ outdated.wallets : BalanceAgrees(w)') /\ Emptied'
    BY <2>1, <2>3 DEF Views, BalanceAgrees, Emptied
  <2>7. QED
    BY <2>2, <2>5, <2>6, ViewsFrame
<1>7. QED
  BY <1>3, <1>4, <1>5, <1>6

LEMMA NextViews == IInv /\ IInv' /\ Views /\ [Next]_vars => Views'
<1> SUFFICES ASSUME IInv, IInv', Views, [Next]_vars PROVE Views'
  OBVIOUS
<1>1. CASE UNCHANGED vars
  <2>1. UNCHANGED <<selected, move, call, memory, stored, balance, crossed, outdated>>
    BY <1>1 DEF vars, place, history
  <2>2. QED
    BY <2>1 DEF Views, ReadsOK, HistoryAgrees, BalanceAgrees, Emptied, AsRead
<1>2. CASE Next
  <2>1. Step /\ Outdating
    BY <1>2 DEF Next
  <2>2. ASSUME NEW c \in Calls,
               \/ \E kind \in {"history", "cached"}, asset \in Assets : StartHistory(c, kind, asset)
               \/ StartBalance(c) \/ StartCachedBalance(c)
        PROVE  Views'
    BY <2>1, <2>2, StartViews
  <2>3. ASSUME NEW c \in Calls, QueryStep(c) PROVE Views'
    <3>1. CASE Fetched(c) \/ Receipts(c) \/ Reloaded(c)
      BY <2>1, <3>1, MergingViews
    <3>2. CASE Loaded(c)
      BY <2>1, <3>2, LoadedViews
    <3>3. CASE Saved(c) \/ Block(c) \/ HistoryFails(c) \/ Native(c) \/ NativeFails(c) \/ Return(c)
      BY <2>1, <3>3, WritelessViews
    <3>4. CASE Tokens(c) \/ CachedBalance(c)
      BY <2>1, <3>4, BalanceViews
    <3>5. QED
      BY <2>3, <3>1, <3>2, <3>3, <3>4 DEF QueryStep
  <2>4. ASSUME \/ \E m \in Movers : Asked(m) \/ Moves(m)
               \/ \E f \in Currencies : PriceExpires(f) \/ SetFiatCurrency(f)
               \/ \E tx \in Txs : Mine(tx)
        PROVE  Views'
    BY <2>1, <2>4, ElsewhereViews
  <2>5. ASSUME Restart \/ \E m \in Movers : Logout(m) \/ RemoveBalances(m) \/ RemoveHistories(m) PROVE Views'
    BY <2>1, <2>5, ClearingViews
  <2>6. QED
    BY <2>1, <2>2, <2>3, <2>4, <2>5, Zenon DEF Step, MoveStep, Asked, Moves
<1>3. QED
  BY <1>1, <1>2

-----------------------------------------------------------------------------
(* The theorems.                                                           *)

\* The invariant holds in every reachable state.
THEOREM InductiveInvariant == Spec => []IInv
  BY InitIInv, NextIInv, PTL DEF Spec

\* So do the two views of the caches, whichever queries overlap.
THEOREM ViewsInvariant == Spec => [](IInv /\ Views)
<1>1. Init => Views
  BY DEF Init, Views, ReadsOK, HistoryAgrees, BalanceAgrees, Emptied, NoCall
<1>2. QED
  BY <1>1, InitIInv, NextIInv, NextViews, PTL DEF Spec

\* Whatever switches, creations, restores, locks and deaths of the worker overlap, when they
\* are through the unlocked adapter stands at the account manager's account and the preferred
\* network: a call that succeeds ends in a hydrateEthAdapter() that reads both when it sets
\* the adapter, and a switch that is rejected on its own sets both back.  Exempt, until the
\* next hydration, is a rejected switch that others superseded or overlapped.
THEOREM AdapterEndsAtSelection == Spec => []AdapterFollowsSelection
<1>1. IInv => AdapterFollowsSelection
  BY DEF IInv, Selection, Follows, OnWay, Picking, Idle, AdapterFollowsSelection
<1>2. QED
  BY <1>1, InductiveInvariant, PTL

\* wallet.logout removes what is stored of every wallet, although clear() lists the keys of
\* a cache in one turn and removes them in another, but for the queries that it overtook.
THEOREM LogoutIsComplete == Spec => []LogoutWipes
<1>1. IInv => LogoutWipes
  BY DEF IInv, LogoutLists, LoggedOut, LogoutWipes
<1>2. QED
  BY <1>1, InductiveInvariant, PTL

\* What ChainTransactionHistoryCache and ChainBalanceCache keep under a key was read on the
\* network of the key, although each request asks the network that the adapter is on then,
\* unless a switch or a logout overtook a query of the wallet.
THEOREM KeptWhereItWasRead == Spec => []KeptUnderOwnKey
<1>1. IInv /\ Views => TypeOK
  <2> SUFFICES ASSUME IInv, Views PROVE TypeOK
    OBVIOUS
  <2>1. Typed /\ \A c \in Calls : CallTyped(call[c])
    BY DEF IInv, CallsTyped
  <2>2. \A c \in Calls :
          /\ call[c].phase \in {"idle", "load", "fetch", "reload", "saving", "block", "receipts",
                                "native", "tokens", "cache", "done"}
          /\ call[c].phase # "idle" => call[c].wallet \in Wallets
          /\ call[c].txs \in TxMaps /\ call[c].balance \in Balances
          /\ call[c].read = None \/ call[c].read \in TxMaps
          /\ call[c].receipts \subseteq Mined
    BY <2>1 DEF CallTyped, HistoryPhases
  <2>3. \A m \in Movers :
          /\ move[m].phase \in {"idle", "selecting", "default", "settling", "active", "rollback", "init",
                               "session", "mnemonic", "keys", "balances", "histories"}
          /\ {move[m].to, move[m].back} \subseteq Accounts \cup {None}
    BY <2>1 DEF Typed, MoveTyped, Picking
  <2>4. QED
    BY <2>1, <2>2, <2>3 DEF TypeOK, Typed, Views
<1>2. IInv /\ Views => KeptUnderOwnKey
  <2> SUFFICES ASSUME IInv, Views PROVE KeptUnderOwnKey
    OBVIOUS
  <2>1. ASSUME NEW w \in Wallets \ crossed, NEW tx \in Txs, NEW asset \in Assets,
               stored[[wallet |-> w, asset |-> asset]] # None,
               stored[[wallet |-> w, asset |-> asset]][tx] # None
        PROVE  Home[tx] = [wallet |-> w, asset |-> asset]
    <3>1. PICK s \in Scopes : s = [wallet |-> w, asset |-> asset]
      BY DEF Scopes
    <3>2. s.wallet \notin crossed /\ stored[s] # None /\ stored[s][tx] # None
      BY <2>1, <3>1
    <3>3. OwnMap(stored[s], s)
      BY <3>2 DEF IInv, KeptIsOwn
    <3>4. QED
      BY <3>1, <3>2, <3>3 DEF OwnMap
  <2>2. \A w \in Wallets \ crossed :
          balance.stored[w].native \in {None, w.net} /\ balance.stored[w].tokens \in {None, w.net}
    BY DEF IInv, KeptIsOwn
  <2>3. \A c \in Calls : call[c].phase = "tokens" => call[c].balance.rate \in {None, call[c].fiat}
    BY DEF IInv, KeptIsOwn, OwnCall
  <2>4. QED
    BY <1>1, <2>1, <2>2, <2>3 DEF KeptUnderOwnKey
<1>3. QED
  BY <1>2, ViewsInvariant, PTL

\* getTransactionHistory() that met no failure, no switch and no other query has settled what
\* was mined before it began: the receipts catch what the indexer still lists as pending.
THEOREM AnswersAreSettled == Spec => []AnswerIsSettled
<1>1. IInv => AnswerIsSettled
  <2> SUFFICES ASSUME IInv, NEW c \in Calls,
                      call[c].phase = "done", ~call[c].disturbed, call[c].wallet \notin crossed
               PROVE  \A tx \in call[c].since : Home[tx] = ScopeOf(c) => call[c].txs[tx] # "pending"
    BY DEF AnswerIsSettled
  <2>1. AnswerOK(call[c]) /\ ScopeOf(c) = ScopeOfCall(call[c])
    BY QueryFacts
  <2>2. QED
    BY <2>1 DEF AnswerOK, SettledIn
<1>2. QED
  BY <1>1, InductiveInvariant, PTL

\* The map of a cache and its stored copy agree, although each query loads a map of its own
\* and saves it whole, and loads, merges and saves overlap: exempt are a scope or wallet whose
\* stored copy changed under a query that was reading it, until the two agree again, and what
\* a switch or a logout overtook.
THEOREM ViewsStayTogether == Spec => []MemoryIsStored
<1>1. Views => MemoryIsStored
  <2> SUFFICES ASSUME Views, NEW w \in Wallets \ crossed
               PROVE  /\ w \notin outdated.wallets => balance.memory[w] \in {NoBalance, balance.stored[w]}
                      /\ \A asset \in Assets :
                           LET scope == [wallet |-> w, asset |-> asset] IN
                           scope \notin outdated.scopes =>
                             \/ memory[scope] \in {None, stored[scope]}
                             \/ memory[scope] = NoTxs /\ stored[scope] = None
    BY DEF MemoryIsStored
  <2>1. w \notin outdated.wallets => balance.memory[w] \in {NoBalance, balance.stored[w]}
    BY DEF Views, BalanceAgrees
  <2>2. ASSUME NEW scope \in Scopes \ outdated.scopes, scope.wallet = w
        PROVE  memory[scope] \in {None, stored[scope]} \/ (memory[scope] = NoTxs /\ stored[scope] = None)
    BY <2>2 DEF Views, HistoryAgrees, AsRead
  <2>3. \A asset \in Assets : [wallet |-> w, asset |-> asset] \in Scopes
    BY DEF Scopes
  <2>4. QED
    BY <2>1, <2>2, <2>3
<1>2. QED
  BY <1>1, ViewsInvariant, PTL

\* Outside a logout no merge() drops a transaction that a history holds, however queries
\* overlap, but for a history whose stored copy changed under a query that was reading it:
\* what a query merges into is otherwise what is stored.
THEOREM HistoryIsNeverLost == Spec => HistoryNeverLost
<1>1. ASSUME IInv, Views, Next, ~LoggingOut, NEW s \in Scopes \ outdated.scopes, NEW tx \in Txs,
             stored[s] # None, stored[s][tx] # None
      PROVE  stored'[s] # None /\ stored'[s][tx] # None
  <2>1. ASSUME NEW c \in Calls, NEW map \in TxMaps, NEW new \in TxMaps, call[c].phase \in HistoryPhases, Merge(c, map, new),
               s = ScopeOf(c) => map[tx] # None
        PROVE  stored'[s] # None /\ stored'[s][tx] # None
    <3>1. ScopeOf(c) = ScopeOfCall(call[c]) /\ ScopeOf(c) \in Scopes /\ Typed
      BY <1>1, <2>1, QueryFacts
    <3>2. /\ s # ScopeOf(c) => stored'[s] = stored[s]
          /\ s = ScopeOf(c) => stored'[s] = Over(map, new) /\ stored'[s] # None
      BY <1>1, <2>1, <3>1, MergeOK DEF ScopeOfCall
    <3>3. map[tx] # None => Over(map, new)[tx] # None
      BY DEF Over
    <3>4. QED
      BY <1>1, <2>1, <3>2, <3>3
  <2>2. memory[s] = None \/ memory[s] = stored[s]
    BY <1>1 DEF Views, HistoryAgrees, AsRead
  <2>3. ASSUME NEW c \in Calls, Fetched(c) \/ Receipts(c) PROVE stored'[s] # None /\ stored'[s][tx] # None
    <3>1. call[c].phase \in HistoryPhases
      BY <1>1, <2>3, AnswerMerges DEF HistoryPhases
    <3>2. CASE stored' = stored
      BY <1>1, <3>2
    <3>3. ASSUME NEW new \in TxMaps, BeginMerge(c, new), memory[ScopeOf(c)] # None
          PROVE  stored'[s] # None /\ stored'[s][tx] # None
      <4>1. Merge(c, memory[ScopeOf(c)], new) /\ memory[ScopeOf(c)] \in TxMaps
        BY <1>1, <3>1, <3>3, QueryFacts DEF BeginMerge
      <4>2. s = ScopeOf(c) => memory[ScopeOf(c)][tx] # None
        BY <1>1, <2>2, <3>3
      <4>3. QED
        BY <2>1, <3>1, <4>1, <4>2
    <3>4. QED
      BY <1>1, <2>3, <3>2, <3>3, AnswerMerges DEF BeginMerge, history
  <2>4. ASSUME NEW c \in Calls, Reloaded(c) PROVE stored'[s] # None /\ stored'[s][tx] # None
    <3>1. PICK map : map = IF call[c].read = None THEN NoTxs ELSE call[c].read
      OBVIOUS
    <3>2. call[c].phase = "reload" /\ call[c].phase \in HistoryPhases /\ Merge(c, map, call[c].txs)
      BY <2>4, <3>1 DEF Reloaded, HistoryPhases
    <3>3. map \in TxMaps /\ call[c].txs \in TxMaps /\ ScopeOf(c) = ScopeOfCall(call[c])
      BY <1>1, <3>1, <3>2, QueryFacts, NoTxsOK DEF CallTyped
    <3>4. s = ScopeOf(c) => map = stored[s]
      BY <1>1, <3>1, <3>2, <3>3 DEF Views, ReadsOK
    <3>5. QED
      BY <1>1, <2>1, <3>2, <3>3, <3>4
  <2>5. ASSUME NEW c \in Calls, QueryStep(c) PROVE stored'[s] # None /\ stored'[s][tx] # None
    <3>1. CASE Loaded(c) \/ Saved(c) \/ Block(c) \/ HistoryFails(c) \/ Native(c) \/ NativeFails(c)
                 \/ Tokens(c) \/ CachedBalance(c) \/ Return(c)
      <4>1. stored' = stored
        BY <3>1 DEF Loaded, Saved, Block, HistoryFails, Native, NativeFails, Tokens, CachedBalance, Return, history
      <4>2. QED
        BY <1>1, <4>1
    <3>2. QED
      BY <2>3, <2>4, <2>5, <3>1 DEF QueryStep
  <2>6. \A m \in Movers : ~RemoveHistories(m)
    BY <1>1 DEF RemoveHistories, LoggingOut
  <2>7. ASSUME \/ \E c \in Calls, kind \in {"history", "cached"}, asset \in Assets : StartHistory(c, kind, asset)
               \/ \E c \in Calls : StartBalance(c) \/ StartCachedBalance(c)
               \/ \E f \in Currencies : PriceExpires(f) \/ SetFiatCurrency(f)
               \/ \E t \in Txs : Mine(t)
               \/ Restart
               \/ \E m \in Movers : Asked(m) \/ Moves(m) \/ Logout(m) \/ RemoveBalances(m)
        PROVE  stored'[s] # None /\ stored'[s][tx] # None
    <3>1. stored' = stored
      BY <2>7 DEF StartHistory, StartBalance, StartCachedBalance, PriceExpires, SetFiatCurrency, Mine, Restart,
                  Asked, SwitchAccount, SwitchNetwork, CreateAccount, CreateWallet, SwitchEvmNetwork, RestoreWallet, Lock,
                  Moves, Default, Moved, Active, Rejected, RolledBack, Superseded, Abandoned, InitNetwork, HasSession,
                  Hydrate, ClearKeys, Logout, RemoveBalances, history
    <3>2. QED
      BY <1>1, <3>1
  <2>8. Step
    BY <1>1 DEF Next
  <2>9. QED
    BY <2>5, <2>6, <2>7, <2>8, Zenon DEF Step, MoveStep, Asked, Moves
<1>2. IInv /\ Views /\ [Next]_vars =>
        [~LoggingOut =>
           \A s \in Scopes \ outdated.scopes, tx \in Txs :
             stored[s] # None /\ stored[s][tx] # None => stored'[s] # None /\ stored'[s][tx] # None]_vars
  BY <1>1
<1>3. QED
  BY <1>2, ViewsInvariant, PTL DEF Spec, HistoryNeverLost
=============================================================================
