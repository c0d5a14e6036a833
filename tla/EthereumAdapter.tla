--------------------------- MODULE EthereumAdapter ---------------------------
(***************************************************************************)
(* The Ethereum side of the background: the adapter's current address and  *)
(* network, its history and balance queries, the two chain caches behind   *)
(* them, and the actions of the popup that move the adapter under a query. *)
(*                                                                         *)
(* Code between two awaits is one action.  A query keeps the scope it took *)
(* at its start, and asks whatever network the adapter is on at each       *)
(* request.  A transaction is pending or settled (confirmed or failed); a  *)
(* balance is the network its native and its token parts were read from,   *)
(* and the currency of its rate.  An account is its EVM address: accounts  *)
(* of the same index on two Bitcoin networks are one here, so that a switch*)
(* between any two may change the Bitcoin network and be rejected.         *)
(***************************************************************************)
EXTENDS Integers

CONSTANTS
  Networks,       \* the EVM networks
  DefaultNetwork, \* the one of defaultPreferences
  Accounts,       \* the wallet's accounts, each with its EVM address
  Assets,         \* the native coin and the tokens
  ContractOn,     \* the networks on which an asset exists
  Txs,            \* the transactions that were broadcast
  Home,           \* the scope a transaction happens in
  Currencies,     \* the fiat currencies
  Calls,          \* the popup's queries
  Movers,         \* the popup's actions that move the adapter
  None,           \* no account, no cache, no answer
  MaxCalls,       \* how many queries, switches of account or Bitcoin network, creations
                  \* and restores the popup asks for
  MaxEvents       \* how many switches of EVM network, locks, logouts, expiries, failures and
                  \* deaths of the worker

Wallets == [net : Networks, acc : Accounts]
Scopes  == [wallet : Wallets, asset : Assets]
ASSUME ScopesAssumption ==
  /\ Home \in [Txs -> Scopes] /\ ContractOn \in [Assets -> SUBSET Networks]
  /\ DefaultNetwork \in Networks /\ Accounts # {} /\ Currencies # {}

Statuses == {"pending", "settled"}
TxMaps == [Txs -> Statuses \cup {None}]
ASSUME NoneAssumption ==
  /\ None \notin Networks \cup Accounts \cup Assets \cup Currencies
  /\ None \notin Statuses /\ None \notin TxMaps

VARIABLES
  keys,      \* the account whose address hdNode derives, or None
  network,   \* this.network and this.provider
  selected,  \* the preferences: activeAccountIndex and activeEvmNetwork
  manager,   \* accountManager.activeAccountIndex, which getEvmAddressIndex() reads
  session,   \* is the session password there?
  move,      \* the actions that move the adapter
  astray,    \* a switch was rejected that others had overlapped, and no adapter hydrated since
  call,      \* the queries
  memory,    \* the Map of ChainTransactionHistoryCache
  stored,    \* its entries of browser.storage.local
  balance,   \* the Map of ChainBalanceCache and its stored entries
  fiat,      \* preferences.fiatCurrency
  price,     \* AssetPriceService.cache: each key's rate, by its currency and age
  chain,     \* the transactions, not mined yet or settled
  crossed,   \* the wallets with a query that a switch or a logout overtook,
             \* or with a logout that the worker's death cut short
  outdated,  \* the scopes and wallets whose stored copy changed under a query that was
             \* reading it, until the two views agree again
  budget     \* what the bounds have left

place   == <<keys, network, selected, manager, session, move, astray>>
history == <<memory, stored>>
world   == <<fiat, price, chain>>
vars    == <<place, call, history, balance, world, crossed, budget, outdated>>

NoTxs == [tx \in Txs |-> None]
NoBalance == [native |-> None, tokens |-> None, rate |-> None]
NoPrice == [age |-> "unknown", of |-> None]
NoCall == [kind |-> None, phase |-> "idle", wallet |-> None, asset |-> None,
           asked |-> None,        \* the network of the outstanding request
           txs |-> NoTxs,         \* the transactions it holds
           read |-> None,         \* what storage answers, or a map that was replaced
           receipts |-> {},       \* the receipts it will get
           balance |-> NoBalance, \* the balance so far
           fiat |-> None,         \* the currency it is asked in
           since |-> {},          \* what was mined when it began
           disturbed |-> FALSE]   \* did a request fail, or another query overlap?
NoMove == [phase |-> "idle", listed |-> {},
           to |-> None,           \* the account it goes to
           back |-> None,         \* the account it falls back on, if it may be rejected
           alone |-> FALSE]       \* did nothing else move the adapter since it began?

Init ==
  /\ keys = CHOOSE a \in Accounts : TRUE
  /\ network = DefaultNetwork
  /\ selected = [acc |-> keys, net |-> network]
  /\ manager = keys
  /\ astray = FALSE
  /\ session = TRUE
  /\ move = [m \in Movers |-> NoMove]
  /\ call = [c \in Calls |-> NoCall]
  /\ memory = [s \in Scopes |-> None]
  /\ stored = [s \in Scopes |-> None]
  /\ balance = [memory |-> [w \in Wallets |-> NoBalance], stored |-> [w \in Wallets |-> NoBalance]]
  /\ fiat = CHOOSE f \in Currencies : TRUE
  /\ price = [f \in Currencies |-> NoPrice]
  /\ chain = [tx \in Txs |-> "pending"]
  /\ crossed = {}
  /\ budget = [calls |-> MaxCalls, events |-> MaxEvents]
  /\ outdated = [scopes |-> {}, wallets |-> {}]

Spend(what) == budget[what] > 0 /\ budget' = [budget EXCEPT ![what] = @ - 1]

ScopeOf(c) == [wallet |-> call[c].wallet, asset |-> call[c].asset]
Mined == {tx \in Txs : chain[tx] = "settled"}
Pending(txs) == {tx \in Txs : txs[tx] = "pending"}
InFlight == {c \in Calls : call[c].phase \notin {"idle", "done"}}
LoggingOut == \E m \in Movers : move[m].phase \in {"balances", "histories"}

-----------------------------------------------------------------------------
(* ChainTransactionHistoryCache.                                           *)

\* Faulty variant: the answer replaces what was cached.
Latest(old, new) == new

Over(old, new) == [tx \in Txs |-> IF new[tx] # None THEN new[tx] ELSE old[tx]]

\* Faulty variant: the entries go under the adapter's network of the moment.
MergeUnderCurrent(c, map, new) ==
  LET scope == [ScopeOf(c) EXCEPT !.wallet.net = network] IN
  /\ memory' = [memory EXCEPT ![scope] = Over(map, new)]
  /\ stored' = [stored EXCEPT ![scope] = memory'[scope]]

\* Faulty variant: the map is saved before it is filled.
MergeSavesFirst(c, map, new) ==
  /\ memory' = [memory EXCEPT ![ScopeOf(c)] = Over(map, new)]
  /\ stored' = [stored EXCEPT ![ScopeOf(c)] = map]

\* merge() once load() has the map: fill it, make it the cache, save it whole.
Merge(c, map, new) ==
  /\ memory' = [memory EXCEPT ![ScopeOf(c)] = Over(map, new)]
  /\ stored' = [stored EXCEPT ![ScopeOf(c)] = memory'[ScopeOf(c)]]

\* merge(new), with load() from memory, or from storage after a clear().
BeginMerge(c, new) ==
  IF memory[ScopeOf(c)] # None
    THEN /\ Merge(c, memory[ScopeOf(c)], new)
         /\ call' = [call EXCEPT ![c].phase = "saving", ![c].asked = None,
                                 ![c].txs = NoTxs]
    ELSE /\ call' = [call EXCEPT ![c].phase = "reload", ![c].asked = None, ![c].txs = new,
                                 ![c].read = stored[ScopeOf(c)]]
         /\ UNCHANGED history

\* A load() that read storage makes its own map the cache, also when another load() of
\* the scope was faster; a query that is to read the replaced map keeps that one.
Replaced(scope) ==
  [c \in Calls |->
     IF call[c].phase = "saving" /\ ScopeOf(c) = scope /\ call[c].read = None
       THEN [call[c] EXCEPT !.read = memory[scope]] ELSE call[c]]

-----------------------------------------------------------------------------
(* Histories.                                                              *)

\* The indexer of the network of the moment is asked; a token that is not on that
\* network is answered from the cache, and so is getCachedTransactionHistory(): such a
\* query is over.
Asking(query, map) ==
  IF query.kind = "cached" \/ network \notin ContractOn[query.asset]
    THEN NoCall
    ELSE [query EXCEPT !.phase = "fetch", !.txs = map, !.asked = network]

Begun(kind, asset) ==
  [NoCall EXCEPT !.kind = kind, !.wallet = [net |-> network, acc |-> keys], !.asset = asset,
                 !.since = Mined, !.disturbed = InFlight # {}]

\* getTransactionHistory() and getCachedTransactionHistory() up to their first await;
\* without keys there is no address.
StartHistory(c, kind, asset) ==
  /\ call[c].phase = "idle" /\ keys # None
  /\ Spend("calls")
  /\ LET query == Begun(kind, asset)
         scope == [wallet |-> query.wallet, asset |-> asset]
     IN  call' = [d \in Calls |->
           IF d # c THEN [call[d] EXCEPT !.disturbed = @ \/ d \in InFlight]
           ELSE IF memory[scope] # None THEN Asking(query, memory[scope])
           ELSE [query EXCEPT !.phase = "load",
                              !.txs = IF stored[scope] = None THEN NoTxs ELSE stored[scope]]]
  /\ crossed' = IF LoggingOut THEN crossed \cup {[net |-> network, acc |-> keys]} ELSE crossed
  /\ UNCHANGED <<place, history, balance, world>>

\* The rest of load(), and of get().
Loaded(c) ==
  /\ call[c].phase = "load"
  /\ memory' = [memory EXCEPT ![ScopeOf(c)] = call[c].txs]
  /\ call' = [Replaced(ScopeOf(c)) EXCEPT ![c] = Asking(call[c], call[c].txs)]
  /\ UNCHANGED <<place, stored, balance, world, crossed, budget>>

\* What the indexer may list: it lags behind the chain, and does not list every transaction
\* that was broadcast yet.
Listings(scope) ==
  LET here == {tx \in Txs : Home[tx] = scope} IN
  {[tx \in Txs |-> IF tx \notin here \ unseen THEN None
                   ELSE IF tx \in late THEN "pending" ELSE chain[tx]] :
     unseen \in SUBSET here, late \in SUBSET here}

Fetched(c) ==
  /\ call[c].phase = "fetch"
  /\ \E new \in Listings([ScopeOf(c) EXCEPT !.wallet.net = call[c].asked]) : BeginMerge(c, new)
  /\ UNCHANGED <<place, balance, world, crossed, budget>>

Reloaded(c) ==
  /\ call[c].phase = "reload"
  /\ Merge(c, IF call[c].read = None THEN NoTxs ELSE call[c].read, call[c].txs)
  /\ call' = [Replaced(ScopeOf(c)) EXCEPT
                ![c] = [call[c] EXCEPT !.phase = "saving", !.txs = NoTxs, !.read = None]]
  /\ UNCHANGED <<place, balance, world, crossed, budget>>

\* reconcilePendingTransactions() up to its first await.
Reconciling(query, txs) ==
  [query EXCEPT !.txs = txs, !.asked = None, !.read = None,
                !.phase = IF Pending(txs) = {} THEN "done" ELSE "block"]

\* merge() is saved, and returns what its map holds by now.
Saved(c) ==
  /\ call[c].phase = "saving"
  /\ LET cache == IF memory[ScopeOf(c)] = None THEN NoTxs ELSE memory[ScopeOf(c)]
         map   == IF call[c].read = None THEN cache ELSE call[c].read
     IN  call' = [call EXCEPT ![c] =
           IF call[c].receipts = {} THEN Reconciling(call[c], map)
             ELSE [call[c] EXCEPT !.phase = "done", !.txs = map, !.read = None]]
  /\ UNCHANGED <<place, history, balance, world, crossed, budget>>

\* The block number arrives, and the receipts are asked for, of the network of the
\* moment; one that does not come leaves its transaction pending.
Block(c) ==
  /\ call[c].phase = "block"
  /\ \E lost \in {{}} \cup {{tx} : tx \in Pending(call[c].txs)} :
       /\ IF lost = {} THEN UNCHANGED budget ELSE Spend("events")
       /\ call' = [call EXCEPT ![c].phase = "receipts", ![c].disturbed = @ \/ lost # {},
                     ![c].receipts = {tx \in (Pending(call[c].txs) \cap Mined) \ lost :
                                        Home[tx].wallet.net = network}]
  /\ UNCHANGED <<place, history, balance, world, crossed>>

\* Faulty variant: the receipts are read and not merged.
ReceiptsUnmerged(c) ==
  /\ call[c].phase = "receipts"
  /\ call' = [call EXCEPT ![c].phase = "done"] /\ UNCHANGED history
  /\ UNCHANGED <<place, balance, world, crossed, budget>>

\* The receipts arrive; if there is one, all the transactions are merged again, as this
\* query has seen them.
Receipts(c) ==
  /\ call[c].phase = "receipts"
  /\ IF call[c].receipts = {}
       THEN call' = [call EXCEPT ![c].phase = "done"] /\ UNCHANGED history
       ELSE BeginMerge(c, [tx \in Txs |-> IF tx \in call[c].receipts THEN chain[tx]
                                                                     ELSE call[c].txs[tx]])
  /\ UNCHANGED <<place, balance, world, crossed, budget>>

\* The indexer fails, which leaves the cached transactions to reconcile, or the node
\* does, which leaves them as they are.
HistoryFails(c) ==
  /\ call[c].phase \in {"fetch", "block"}
  /\ Spend("events")
  /\ call' = [call EXCEPT ![c] =
       LET failed == [call[c] EXCEPT !.disturbed = TRUE] IN
       IF call[c].phase = "fetch" THEN Reconciling(failed, call[c].txs)
                                  ELSE [failed EXCEPT !.phase = "done"]]
  /\ UNCHANGED <<place, history, balance, world, crossed>>

-----------------------------------------------------------------------------
(* Balances and prices.                                                    *)

\* getBalance() up to its first await, for the native balance and the prices.
StartBalance(c) ==
  /\ call[c].phase = "idle" /\ keys # None
  /\ Spend("calls")
  /\ call' = [call EXCEPT ![c] = [Begun("balance", None) EXCEPT
                !.phase = "native", !.balance.native = network, !.fiat = fiat]]
  /\ crossed' = IF LoggingOut THEN crossed \cup {[net |-> network, acc |-> keys]} ELSE crossed
  /\ UNCHANGED <<place, history, balance, world>>

CacheKey(f) == f

\* The native balance and the prices have arrived, and the tokens are asked for, on the
\* network of the moment.  getUsdPrices() takes a fresh price as it is, asks for
\* another, and falls back on the stale one when the answer does not come.
Native(c) ==
  /\ call[c].phase = "native"
  /\ LET key == CacheKey(call[c].fiat) IN
     \/ price[key].age = "fresh" /\ UNCHANGED <<price, budget>>
     \/ price[key].age # "fresh" /\ Spend("events") /\ UNCHANGED price
     \/ /\ price[key].age # "fresh"
        /\ price' = [price EXCEPT ![key] = [age |-> "fresh", of |-> call[c].fiat]]
        /\ UNCHANGED budget
  /\ call' = [call EXCEPT ![c].phase = "tokens", ![c].balance.tokens = network,
                          ![c].balance.rate = price'[CacheKey(call[c].fiat)].of]
  /\ UNCHANGED <<place, history, balance, fiat, chain, crossed>>

\* The native balance cannot be read: the query rejects.
NativeFails(c) ==
  /\ call[c].phase = "native"
  /\ Spend("events")
  /\ call' = [call EXCEPT ![c] = NoCall]
  /\ UNCHANGED <<place, history, balance, world, crossed>>

BalanceSet(wallet, amount) ==
  [balance EXCEPT !.memory[wallet] = amount, !.stored[wallet] = amount]

\* The tokens arrive, a failed one as zero, and ChainBalanceCache.set() keeps it all.
Tokens(c) ==
  /\ call[c].phase = "tokens"
  /\ balance' = BalanceSet(call[c].wallet, call[c].balance)
  /\ call' = [call EXCEPT ![c] = NoCall]
  /\ UNCHANGED <<place, history, world, crossed, budget>>

\* getCachedBalance() and ChainBalanceCache.get() when memory has nothing.
StartCachedBalance(c) ==
  /\ call[c].phase = "idle" /\ keys # None
  /\ Spend("calls")
  /\ LET query == Begun("cachedBalance", None) IN
     /\ balance.memory[query.wallet] = NoBalance
     /\ call' = [call EXCEPT ![c] = [query EXCEPT !.phase = "cache",
                                       !.balance = balance.stored[query.wallet]]]
  /\ crossed' = IF LoggingOut THEN crossed \cup {[net |-> network, acc |-> keys]} ELSE crossed
  /\ UNCHANGED <<place, history, balance, world>>

CachedBalance(c) ==
  /\ call[c].phase = "cache"
  /\ balance' = IF call[c].balance = NoBalance THEN balance
                ELSE [balance EXCEPT !.memory[call[c].wallet] = call[c].balance]
  /\ call' = [call EXCEPT ![c] = NoCall]
  /\ UNCHANGED <<place, history, world, crossed, budget>>

\* The popup has the answer of a history query.
Return(c) ==
  /\ call[c].phase = "done"
  /\ call' = [call EXCEPT ![c] = NoCall]
  /\ UNCHANGED <<place, history, balance, world, crossed, budget>>

\* A rate grows older than PRICE_CACHE_MS.
PriceExpires(f) ==
  /\ price[f].age = "fresh"
  /\ Spend("events")
  /\ price' = [price EXCEPT ![f].age = "stale"]
  /\ UNCHANGED <<place, call, history, balance, fiat, chain, crossed>>

SetFiatCurrency(f) ==
  /\ f # fiat
  /\ Spend("events")
  /\ fiat' = f
  /\ UNCHANGED <<place, call, history, balance, price, chain, crossed>>

\* A transaction is mined.
Mine(tx) ==
  /\ chain[tx] = "pending"
  /\ chain' = [chain EXCEPT ![tx] = "settled"]
  /\ UNCHANGED <<place, call, history, balance, fiat, price, crossed, budget>>

-----------------------------------------------------------------------------
(* The actions of the popup that move the adapter.                         *)

Overtaken == {call[c].wallet : c \in InFlight}

Idle(m) == move[m].phase = "idle"

\* A call starts; one that may be rejected is alone if no other runs and the two selections
\* agree.
Enter(m, entered) ==
  move' = [n \in Movers |->
    IF n = m THEN [entered EXCEPT !.alone = entered.back # None /\ selected.acc = manager
                                              /\ \A k \in Movers : Idle(k)]
             ELSE [move[n] EXCEPT !.alone = FALSE]]
Goes(m, phase) == move' = [move EXCEPT ![m].phase = phase]
Hydrates(m) == move' = [move EXCEPT ![m] = [NoMove EXCEPT !.phase = "session"]]
Leaves(m) == move' = [move EXCEPT ![m] = NoMove]

\* accounts.switch sets the preference in its first turn.  If the Bitcoin network changes it
\* may be rejected, and falls back on the account that was selected.
SwitchAccount(m, a, back) ==
  /\ Idle(m) /\ session /\ back \in {None, selected.acc}
  /\ Spend("calls")
  /\ selected' = [selected EXCEPT !.acc = a]
  /\ Enter(m, [NoMove EXCEPT !.phase = "selecting", !.to = a, !.back = back])
  /\ UNCHANGED <<keys, network, manager, session, astray, call, history, balance, world, crossed>>

\* wallet.switchNetwork, which will select an account of the other Bitcoin network.
SwitchNetwork(m, a) ==
  /\ Idle(m) /\ session
  /\ Spend("calls")
  /\ Enter(m, [NoMove EXCEPT !.phase = "default", !.to = a, !.back = selected.acc])
  /\ UNCHANGED <<keys, network, selected, manager, session, astray, call, history, balance, world,
                 crossed>>

\* accounts.create, up to the save of the new account: add() makes it the active one.
CreateAccount(m, a) ==
  /\ Idle(m) /\ session
  /\ Spend("calls")
  /\ manager' = selected.acc
  /\ Enter(m, [NoMove EXCEPT !.phase = "default", !.to = a])
  /\ UNCHANGED <<keys, network, selected, session, astray, call, history, balance, world, crossed>>

\* wallet.restore, of a popup that opens or has unlocked: the selection is kept, and the
\* account manager is set to it.
RestoreWallet(m) ==
  /\ Idle(m) /\ selected.acc # None
  /\ Spend("calls")
  /\ session' = TRUE
  /\ Enter(m, [NoMove EXCEPT !.phase = "selecting", !.to = selected.acc])
  /\ UNCHANGED <<keys, network, selected, manager, astray, call, history, balance, world, crossed>>

\* wallet.create after a logout, up to the mnemonic: the popup asks for it when its other
\* calls have come back.
CreateWallet(m, a) ==
  /\ selected.acc = None /\ \A n \in Movers : Idle(n)
  /\ Spend("calls")
  /\ selected' = [selected EXCEPT !.acc = a] /\ manager' = a
  /\ session' = TRUE
  /\ Enter(m, [NoMove EXCEPT !.phase = "mnemonic"])
  /\ UNCHANGED <<keys, network, astray, call, history, balance, world, crossed>>

\* ensureDefaultAccount() and deriveNextAccount(): setActiveAccountIndex() sets the
\* preference; an account that was just added is the active one already.
Default(m) ==
  /\ move[m].phase = "default" /\ selected.acc # None
  /\ selected' = [selected EXCEPT !.acc = move[m].to]
  /\ manager' \in {manager, move[m].to}
  /\ Goes(m, "settling")
  /\ UNCHANGED <<keys, network, session, astray, call, history, balance, world, crossed, budget>>

\* accountManager.init() with the account of this call, for the first or only time.
Moved(m) ==
  /\ move[m].phase \in {"selecting", "settling"} /\ selected.acc # None
  /\ manager' = move[m].to
  /\ IF move[m].phase = "settling" THEN Goes(m, "active") ELSE Hydrates(m)
  /\ UNCHANGED <<keys, network, selected, session, astray, call, history, balance, world, crossed,
                 budget>>

\* accountManager.init() with the preference, once wallet.switchNetwork is connected, or at
\* the end of accounts.create.
Active(m) ==
  /\ move[m].phase = "active" /\ selected.acc # None
  /\ manager' = selected.acc
  /\ Hydrates(m)
  /\ UNCHANGED <<keys, network, selected, session, astray, call, history, balance, world, crossed,
                 budget>>

Rejectable(m) ==
  /\ move[m].phase \in {"selecting", "default", "settling", "active"} /\ selected.acc # None
  /\ move[m].back # None

\* The switch fails: the preference is set back, and the adapter is not hydrated.
Rejected(m) ==
  /\ Rejectable(m)
  /\ selected' = [selected EXCEPT !.acc = move[m].back]
  /\ Goes(m, "rollback")
  /\ UNCHANGED <<keys, network, manager, session, astray, call, history, balance, world, crossed,
                 budget>>

\* Faulty variant: the account manager is not set back.
PreferencesOnly(m) ==
  /\ move[m].phase = "rollback" /\ selected.acc # None
  /\ Leaves(m) /\ astray' = (astray \/ ~move[m].alone)
  /\ UNCHANGED <<keys, network, selected, manager, session, call, history, balance, world, crossed,
                 budget>>

\* The account manager is set back too, and the call rejects.
RolledBack(m) ==
  /\ move[m].phase = "rollback" /\ selected.acc # None
  /\ manager' = move[m].back
  /\ Leaves(m) /\ astray' = (astray \/ ~move[m].alone)
  /\ UNCHANGED <<keys, network, selected, session, call, history, balance, world, crossed, budget>>

\* Another connect() superseded the switch's own: it rejects as it is.
Superseded(m) ==
  /\ Rejectable(m) /\ move[m].phase \in {"selecting", "active"}
  /\ Leaves(m) /\ astray' = TRUE
  /\ UNCHANGED <<keys, network, selected, manager, session, call, history, balance, world, crossed,
                 budget>>

\* A wallet that is gone meanwhile has neither an account nor a mnemonic.
Abandoned(m) ==
  /\ move[m].phase \in {"selecting", "default", "settling", "active", "rollback", "mnemonic"}
  /\ selected.acc = None
  /\ Leaves(m)
  /\ UNCHANGED <<keys, network, selected, manager, session, astray, call, history, balance, world,
                 crossed, budget>>

\* wallet.switchEvmNetwork: the preference is set in the turn the popup asks.
SwitchEvmNetwork(m, net) ==
  /\ Idle(m)
  /\ Spend("events")
  /\ selected' = [selected EXCEPT !.net = net]
  /\ Enter(m, [NoMove EXCEPT !.phase = "init", !.listed = {net}])
  /\ UNCHANGED <<keys, network, manager, session, astray, call, history, balance, world, crossed>>

\* The preference is saved, and the adapter's init() with the network of the request.
InitNetwork(m) ==
  /\ move[m].phase = "init"
  /\ network' \in move[m].listed
  /\ crossed' = IF network' = network THEN crossed ELSE crossed \cup Overtaken
  /\ Hydrates(m)
  /\ UNCHANGED <<keys, selected, manager, session, astray, call, history, balance, world, budget>>

\* rehydrateEthAdapterForActiveAccount() knows whether there is a password.
HasSession(m) ==
  /\ move[m].phase = "session"
  /\ IF session THEN Goes(m, "mnemonic") ELSE Leaves(m)
  /\ UNCHANGED <<keys, network, selected, manager, session, astray, call, history, balance, world,
                 crossed, budget>>

\* It has the mnemonic: hydrateEthAdapter() reads the account and the network now.
Hydrate(m) ==
  /\ move[m].phase = "mnemonic" /\ selected.acc # None
  /\ Leaves(m)
  /\ keys' = manager /\ network' = selected.net /\ astray' = FALSE
  /\ crossed' = IF network' = network THEN crossed ELSE crossed \cup Overtaken
  /\ UNCHANGED <<selected, manager, session, call, history, balance, world, budget>>

\* wallet.lock: the session, then the keys.
Lock(m) ==
  /\ Idle(m) /\ session
  /\ Spend("events")
  /\ session' = FALSE
  /\ Enter(m, [NoMove EXCEPT !.phase = "keys"])
  /\ UNCHANGED <<keys, network, selected, manager, astray, call, history, balance, world, crossed>>

ClearKeys(m) ==
  /\ move[m].phase = "keys"
  /\ keys' = None
  /\ Leaves(m)
  /\ UNCHANGED <<network, selected, manager, session, astray, call, history, balance, world, crossed,
                 budget>>

\* wallet.logout once walletManager.logout() has gone through: clear() of the balances
\* empties the map and lists the stored keys.
Logout(m) ==
  /\ Idle(m) /\ session /\ selected.acc # None
  /\ Spend("events")
  /\ session' = FALSE
  /\ selected' = [acc |-> None, net |-> DefaultNetwork] /\ manager' = None
  /\ balance' = [balance EXCEPT !.memory = [w \in Wallets |-> NoBalance]]
  /\ Enter(m, [NoMove EXCEPT !.phase = "balances",
                             !.listed = {w \in Wallets : balance.stored[w] # NoBalance}])
  /\ crossed' = crossed \cup Overtaken
  /\ UNCHANGED <<keys, network, astray, call, history, world>>

\* The listed balances are removed, and clear() of the histories does the same.
RemoveBalances(m) ==
  /\ move[m].phase = "balances"
  /\ balance' = [balance EXCEPT !.stored = [w \in Wallets |->
                   IF w \in move[m].listed THEN NoBalance ELSE @[w]]]
  /\ memory' = [s \in Scopes |-> None]
  /\ call' = [c \in Calls |-> IF call[c].phase = "saving" /\ call[c].read = None
                                THEN [call[c] EXCEPT !.read = memory[ScopeOf(c)]] ELSE call[c]]
  /\ move' = [move EXCEPT ![m].phase = "histories", ![m].listed = {s \in Scopes : stored[s] # None}]
  /\ crossed' = crossed \cup Overtaken
  /\ UNCHANGED <<keys, network, selected, manager, session, astray, stored, world, budget>>

\* Faulty variant: the stored histories stay.
RemoveNoHistories(m) ==
  /\ move[m].phase = "histories"
  /\ keys' = None
  /\ Leaves(m)
  /\ UNCHANGED <<network, selected, manager, session, astray, call, history, balance, world, crossed, budget>>

\* The listed histories are removed, and the keys cleared.
RemoveHistories(m) ==
  /\ move[m].phase = "histories"
  /\ stored' = [s \in Scopes |-> IF s \in move[m].listed THEN None ELSE stored[s]]
  /\ keys' = None
  /\ Leaves(m)
  /\ UNCHANGED <<network, selected, manager, session, astray, call, memory, balance, world, crossed,
                 budget>>

\* The service worker dies, and ensureChainAdaptersReady() starts it from storage.
Restart ==
  /\ Spend("events")
  /\ manager' = selected.acc
  /\ keys' = IF session THEN selected.acc ELSE None
  /\ network' = selected.net
  /\ astray' = FALSE
  /\ move' = [m \in Movers |-> NoMove]
  /\ call' = [c \in Calls |-> NoCall]
  /\ memory' = [s \in Scopes |-> None]
  /\ balance' = [balance EXCEPT !.memory = [w \in Wallets |-> NoBalance]]
  /\ price' = [f \in Currencies |-> NoPrice]
  /\ crossed' = IF LoggingOut THEN Wallets ELSE crossed
  /\ UNCHANGED <<selected, session, stored, fiat, chain>>

QueryStep(c) ==
  \/ Loaded(c) \/ Fetched(c) \/ Reloaded(c) \/ Saved(c) \/ Block(c) \/ Receipts(c)
  \/ HistoryFails(c)
  \/ Native(c) \/ NativeFails(c) \/ Tokens(c) \/ CachedBalance(c) \/ Return(c)

MoveStep(m) ==
  \/ Default(m) \/ Moved(m) \/ Active(m)
  \/ Rejected(m) \/ RolledBack(m) \/ Superseded(m) \/ Abandoned(m)
  \/ InitNetwork(m) \/ HasSession(m) \/ Hydrate(m)
  \/ ClearKeys(m) \/ RemoveBalances(m) \/ RemoveHistories(m)

Step ==
  \/ \E c \in Calls, kind \in {"history", "cached"}, asset \in Assets : StartHistory(c, kind, asset)
  \/ \E c \in Calls : StartBalance(c) \/ StartCachedBalance(c) \/ QueryStep(c)
  \/ \E m \in Movers, a \in Accounts :
       \/ \E back \in {None, selected.acc} : SwitchAccount(m, a, back)
       \/ SwitchNetwork(m, a) \/ CreateAccount(m, a) \/ CreateWallet(m, a)
  \/ \E m \in Movers, net \in Networks : SwitchEvmNetwork(m, net)
  \/ \E m \in Movers : RestoreWallet(m) \/ Lock(m) \/ Logout(m) \/ MoveStep(m)
  \/ Restart
  \/ \E f \in Currencies : PriceExpires(f) \/ SetFiatCurrency(f)
  \/ \E tx \in Txs : Mine(tx)

\* What the properties have to know of the past: a stored copy that changes under a query
\* that is reading it is outdated in that query's hands.
Loading(c, s) == call[c].phase \in {"load", "reload"} /\ ScopeOf(c) = s
Caching(c, w) == call[c].phase = "cache" /\ call[c].wallet = w
Outdating ==
  outdated' =
    [scopes |-> {s \in Scopes :
       \/ stored'[s] # stored[s] /\ \E c \in Calls : Loading(c, s) /\ Loading(c, s)'
       \/ /\ s \in outdated.scopes
          /\ memory'[s] \notin {None, stored'[s]} \/ \E c \in Calls : Loading(c, s)'},
     wallets |-> {w \in Wallets :
       \/ balance'.stored[w] # balance.stored[w] /\ \E c \in Calls : Caching(c, w) /\ Caching(c, w)'
       \/ /\ w \in outdated.wallets
          /\ \/ balance'.memory[w] \notin {NoBalance, balance'.stored[w]}
             \/ \E c \in Calls : Caching(c, w)'}]

Next == Step /\ Outdating

Spec == Init /\ [][Next]_vars

-----------------------------------------------------------------------------
(* Properties.                                                             *)

Balances == [native : Networks \cup {None}, tokens : Networks \cup {None},
             rate : Currencies \cup {None}]

\* Every variable stays in its set.
TypeOK ==
  /\ keys \in Accounts \cup {None} /\ network \in Networks /\ session \in BOOLEAN
  /\ selected \in [acc : Accounts \cup {None}, net : Networks]
  /\ manager \in Accounts \cup {None} /\ astray \in BOOLEAN
  /\ \A m \in Movers :
       /\ move[m].phase \in {"idle", "selecting", "default", "settling", "active", "rollback", "init",
                            "session", "mnemonic", "keys", "balances", "histories"}
       /\ {move[m].to, move[m].back} \subseteq Accounts \cup {None}
  /\ \A c \in Calls :
       /\ call[c].phase \in {"idle", "load", "fetch", "reload", "saving", "block", "receipts",
                             "native", "tokens", "cache", "done"}
       /\ call[c].phase # "idle" => call[c].wallet \in Wallets
       /\ call[c].txs \in TxMaps /\ call[c].balance \in Balances
       /\ call[c].read = None \/ call[c].read \in TxMaps
       /\ call[c].receipts \subseteq Mined
  /\ \A s \in Scopes :
       (memory[s] = None \/ memory[s] \in TxMaps) /\ (stored[s] = None \/ stored[s] \in TxMaps)
  /\ balance \in [memory : [Wallets -> Balances], stored : [Wallets -> Balances]]
  /\ \A f \in Currencies : price[f] \in [age : {"unknown", "fresh", "stale"},
                                         of : Currencies \cup {None}]
  /\ chain \in [Txs -> Statuses] /\ fiat \in Currencies
  /\ crossed \subseteq Wallets
  /\ outdated \in [scopes : SUBSET Scopes, wallets : SUBSET Wallets]

\* What is kept for an address on a network was read there: a history or a balance of
\* another network only gets under its key when a switch overtook the query; and the rate
\* of a balance is one of the currency it is asked in.
KeptUnderOwnKey ==
  /\ TypeOK
  /\ \A w \in Wallets : w \notin crossed =>
       /\ \A tx \in Txs, asset \in Assets :
            LET scope == [wallet |-> w, asset |-> asset] IN
            stored[scope] # None /\ stored[scope][tx] # None => Home[tx] = scope
       /\ balance.stored[w].native \in {None, w.net} /\ balance.stored[w].tokens \in {None, w.net}
  /\ \A c \in Calls :
       call[c].phase = "tokens" => call[c].balance.rate \in {None, call[c].fiat}

\* The two views of a cache agree, whichever queries of it overlap: the map in memory is what
\* storage holds, except once the stored copy changed under a query that was reading it (then
\* load() makes the map it read the cache) and for what a logout overtook.
MemoryIsStored ==
  \A w \in Wallets : w \notin crossed =>
    /\ w \notin outdated.wallets => balance.memory[w] \in {NoBalance, balance.stored[w]}
    /\ \A asset \in Assets :
         LET scope == [wallet |-> w, asset |-> asset] IN
         scope \notin outdated.scopes =>
           \/ memory[scope] \in {None, stored[scope]}
           \/ memory[scope] = NoTxs /\ stored[scope] = None

\* Unless a logout removes it, a transaction once stored is lost only from a scope whose
\* stored copy changed under a query that was reading it: never by an answer that does not
\* list it, nor by a query that began, loaded or merged before it was stored.
HistoryNeverLost ==
  [][~LoggingOut =>
       \A s \in Scopes \ outdated.scopes, tx \in Txs :
         stored[s] # None /\ stored[s][tx] # None => stored'[s] # None /\ stored'[s][tx] # None]_vars

\* A query that met no failure, no switch and no other query does not call a transaction
\* pending that was mined before it began, however far the indexer lags behind.
AnswerIsSettled ==
  \A c \in Calls :
    call[c].kind = "history" /\ call[c].phase = "done" /\ ~call[c].disturbed
      /\ call[c].wallet \notin crossed
    => \A tx \in call[c].since : Home[tx] = ScopeOf(c) => call[c].txs[tx] # "pending"

\* When the switches, creations and restores are through, the unlocked adapter stands at the
\* account manager's account and the preferred network, however they overlapped, and also
\* after a switch that was rejected on its own.  Exempt, until the next hydration: a switch
\* that was superseded or overlapped by another and rejects, which moves or leaves the
\* account manager without hydrating the adapter.
AdapterFollowsSelection ==
  session /\ keys # None /\ ~astray /\ (\A m \in Movers : Idle(m)) =>
    keys = manager /\ network = selected.net

\* After a logout nothing of the wallet is kept, but for what a query that the logout
\* overtook writes afterwards and what the worker's death kept it from removing.
LogoutWipes ==
  selected.acc = None /\ keys = None /\ ~LoggingOut =>
    \A w \in Wallets : w \notin crossed =>
      /\ balance.stored[w] = NoBalance
      /\ \A asset \in Assets : stored[[wallet |-> w, asset |-> asset]] = None
=============================================================================
