----------------------------- MODULE ScanManager -----------------------------
(***************************************************************************)
(* Address discovery: ScanManager (address, history and UTXO caches, their *)
(* load from storage, the hot, backfill and forward scans), the scan       *)
(* runtime that starts scans, and the account operations of WalletManager  *)
(* that move the preferences and the account manager under it.             *)
(*                                                                         *)
(* Code between two awaits is one action.  A storage read or write takes   *)
(* effect when it is issued, in issue order, and the code goes on later.   *)
(* Only the receive chain is modelled: the change chain runs the same code *)
(* on maps of its own, without hot scans.  A batch covers a whole scan.    *)
(***************************************************************************)
EXTENDS Integers, FiniteSetsExt

CONSTANTS
  Accounts,        \* the accounts, on whatever network
  Existing,        \* those the wallet has at the start
  None,            \* no account, no cache entry, no stored value
  Scans,           \* which of "hot", "backfill" and "forward" are run
  Operations,      \* which of "switch", "create" and "network" are performed
  GapLimit,        \* config.externalGapLimit
  Lookahead,       \* config.hotReceiveLookahead
  MaxCoin,         \* highest index that is ever paid to
  MaxReceives,     \* how many payments arrive
  MaxOperations,   \* how many account operations are performed
  MaxFaults,       \* how often a request fails, the connection drops or the worker dies
  AddressReuse     \* may an address be paid again after it was spent from?

ASSUME AccountsAssumption == Existing \subseteq Accounts /\ None \notin Accounts
ASSUME NumbersAssumption ==
  GapLimit \in Nat /\ Lookahead \in Nat \ {0} /\ MaxCoin \in Nat
ASSUME BudgetAssumption ==
  /\ MaxReceives \in Nat /\ MaxOperations \in Nat /\ MaxFaults \in Nat
  /\ Operations \subseteq {"switch", "create", "network"}

VARIABLES
  prefs,         \* the account the preferences name
  mgr,           \* accountManager's active account; also names the storage keys
  op,            \* the account operation in progress
  known,         \* the accounts in accountManager.accounts
  epoch,         \* epoch
  initialized,   \* initializedEpoch === epoch
  load,          \* the running runInit(): its epoch, what it waits for, what it read
  requested,     \* an init() for this epoch waits in initQueue
  addr,          \* addressCacheReceive: whose address an index holds, everUsed
  hist,          \* historyCacheReceive
  utxo,          \* the indices of utxoCacheReceive
  scanned,       \* highestScannedReceive
  used,          \* highestUsedReceive; nextReceiveIndex is one more
  stored,        \* browser.storage.local, by account
  activeKey,     \* activeScanKey of the scan runtime
  task,          \* the scan of every kind
  connected,     \* electrumService.status === 'connected'
  coin,          \* the block chain: what happened to every address
  cut,           \* the addresses of which a scan recorded the use, but not the coins
  mixed,         \* the accounts that an operation left with another's data in storage
  budget         \* what the bounds have left

memory    == <<epoch, initialized, load, requested, addr, hist, utxo, scanned, used>>
selection == <<prefs, mgr, op, known>>
vars == <<selection, memory, stored, activeKey, task, connected, coin, cut, mixed, budget>>

Indexes == 0 .. (MaxCoin + GapLimit + Lookahead)

NoAddresses == [i \in Indexes |-> None]
NoHistory   == [i \in Indexes |-> "none"]

NoScan == [phase |-> "idle", epoch |-> 0, account |-> None, todo |-> {}, held |-> FALSE]
NoLoad == [phase |-> "idle", epoch |-> 0, read |-> None]

Init ==
  /\ prefs \in Existing
  /\ mgr = prefs
  /\ op = [kind |-> "none", target |-> prefs, prev |-> prefs, phase |-> "idle"]
  /\ known = Existing
  /\ epoch = 0
  /\ initialized = FALSE
  /\ load = NoLoad
  /\ requested = FALSE
  /\ addr = NoAddresses
  /\ hist = NoHistory
  /\ utxo = {}
  /\ scanned = -1
  /\ used = -1
  /\ stored = [a \in Accounts |-> [addr |-> None, hist |-> None, utxo |-> None]]
  /\ activeKey = None
  /\ task = [k \in Scans |-> NoScan]
  /\ connected = TRUE
  /\ coin = [a \in Accounts |-> [i \in 0..MaxCoin |-> "none"]]
  /\ cut = {}
  /\ mixed = {}
  /\ budget = [receives |-> MaxReceives, operations |-> MaxOperations,
               faults |-> MaxFaults]

Spend(what) == budget[what] > 0 /\ budget' = [budget EXCEPT ![what] = @ - 1]

-----------------------------------------------------------------------------
(* Contexts and derived values.                                            *)

\* currentContext() and scanKey(): nothing while the preferences and the account
\* manager disagree.
Context == IF prefs = mgr THEN mgr ELSE None

\* isCurrentContext(ctx) for the context that scan k was started in.
Current(k) == Context # None /\ task[k].account = Context /\ task[k].epoch = epoch

Larger(m, n) == IF m > n THEN m ELSE n

HighestOf(S) == IF S = {} THEN -1 ELSE Max(S)

\* isLiveIndex(): an unconfirmed transaction, or a coin.
Live(i) == hist[i] = "pending" \/ i \in utxo

\* What is cut once the scans in S end here.
CutShort(S) ==
  cut \cup UNION {{<<task[k].account, i>> : i \in {j \in task[k].todo : hist[j] # "none"}} :
                  k \in {k \in S : task[k].phase = "utxo"}}

\* Faulty variant: the window is one index short.
BackfillIndicesShort ==
  {i \in Indexes : /\ i <= scanned /\ i < Larger(0, used) + GapLimit
                   /\ addr[i] # None
                   /\ Live(i) \/ ~addr[i].used}

\* The indices runBackfillScan() picks.
BackfillIndices ==
  {i \in Indexes : /\ i <= scanned /\ i <= Larger(0, used) + GapLimit
                   /\ addr[i] # None
                   /\ Live(i) \/ ~addr[i].used}

\* derive(): missing entries come from the account manager's active account.
Derived(lo, hi) ==
  [i \in Indexes |-> IF i \in lo..hi /\ addr[i] = None
                       THEN [owner |-> mgr, used |-> FALSE] ELSE addr[i]]

\* What the server says of the address that index i holds.
On(i) == IF i <= MaxCoin THEN coin[addr[i].owner][i] ELSE "none"

Funded(a, i) == i <= MaxCoin /\ coin[a][i] \in {"pending", "confirmed"}

-----------------------------------------------------------------------------
(* Loading and clearing the caches.                                        *)

\* The running load starts to read under account a.
Loading(e, a) == [phase |-> "address", epoch |-> e, read |-> stored[a].addr]

\* init() for the current epoch, while it is not initialized.
RequestInit ==
  IF load.phase = "idle"
    THEN load' = Loading(epoch, mgr) /\ UNCHANGED requested
    ELSE requested' = (requested \/ load.epoch # epoch) /\ UNCHANGED load

\* clear() followed by init(), with a as the active account.
ClearAndInit(a) ==
  /\ epoch' = epoch + 1
  /\ initialized' = FALSE
  /\ addr' = NoAddresses /\ hist' = NoHistory /\ utxo' = {}
  /\ scanned' = -1 /\ used' = -1
  /\ IF load.phase = "idle"
       THEN load' = Loading(epoch + 1, a) /\ requested' = FALSE
       ELSE requested' = TRUE /\ UNCHANGED load

\* Faulty variant: the init() behind a superseded load is lost.
LoadSupersededEndsQueue ==
  /\ load.phase # "idle" /\ load.epoch # epoch
  /\ load' = NoLoad
  /\ requested' = FALSE
  /\ UNCHANGED <<selection, epoch, initialized, addr, hist, utxo, scanned, used,
                 stored, activeKey, task, connected, coin, cut, budget, mixed>>

\* The load finds its epoch gone; the next init() of the queue starts.
LoadSuperseded ==
  /\ load.phase # "idle" /\ load.epoch # epoch
  /\ load' = IF requested THEN Loading(epoch, mgr) ELSE NoLoad
  /\ requested' = FALSE
  /\ UNCHANGED <<selection, epoch, initialized, addr, hist, utxo, scanned, used,
                 stored, activeKey, task, connected, coin, cut, budget, mixed>>

\* Faulty variant: the epoch is not checked after the read.
LoadAddressUnfenced ==
  /\ load.phase = "address"
  /\ IF load.read = None
       THEN /\ stored' = [stored EXCEPT ![mgr].addr = addr]
            /\ UNCHANGED <<addr, task>>
       ELSE /\ addr' = load.read
            /\ task' = [k \in Scans |-> [task[k] EXCEPT !.held = FALSE]]
            /\ UNCHANGED stored
  /\ load' = [load EXCEPT !.phase = "history", !.read = stored[mgr].hist]
  /\ UNCHANGED <<selection, epoch, initialized, requested, hist, utxo, scanned, used,
                 activeKey, connected, coin, cut, budget, mixed>>

\* loadAddress() goes on: nothing stored makes it save the cache as it is.
LoadAddress ==
  /\ load.phase = "address" /\ load.epoch = epoch
  /\ IF load.read = None
       THEN /\ stored' = [stored EXCEPT ![mgr].addr = addr]
            /\ UNCHANGED <<addr, task>>
       ELSE /\ addr' = load.read
            /\ task' = [k \in Scans |-> [task[k] EXCEPT !.held = FALSE]]
            /\ UNCHANGED stored
  /\ load' = [load EXCEPT !.phase = "history", !.read = stored[mgr].hist]
  /\ UNCHANGED <<selection, epoch, initialized, requested, hist, utxo, scanned, used,
                 activeKey, connected, coin, cut, budget, mixed>>

LoadHistory ==
  /\ load.phase = "history" /\ load.epoch = epoch
  /\ IF load.read = None
       THEN stored' = [stored EXCEPT ![mgr].hist = hist] /\ UNCHANGED hist
       ELSE hist' = load.read /\ UNCHANGED stored
  /\ load' = [load EXCEPT !.phase = "utxo", !.read = stored[mgr].utxo]
  /\ UNCHANGED <<selection, epoch, initialized, requested, addr, utxo, scanned, used,
                 activeKey, task, connected, coin, cut, budget, mixed>>

\* loadUtxo() goes on, then the highest indices are computed and init() resolves.
LoadUtxo ==
  /\ load.phase = "utxo" /\ load.epoch = epoch
  /\ IF load.read = None
       THEN stored' = [stored EXCEPT ![mgr].utxo = utxo] /\ UNCHANGED utxo
       ELSE utxo' = load.read /\ UNCHANGED stored
  /\ scanned' = HighestOf({i \in Indexes : addr[i] # None})
  /\ used' = HighestOf({i \in Indexes : hist[i] # "none"})
  /\ initialized' = TRUE
  /\ load' = NoLoad
  /\ UNCHANGED <<selection, epoch, requested, addr, hist, activeKey, task, connected,
                 coin, cut, budget, mixed>>

-----------------------------------------------------------------------------
(* Starting a scan: the scan runtime.                                      *)

Entered(k, phase, todo) ==
  [task EXCEPT ![k] = [phase |-> phase, epoch |-> epoch, account |-> Context,
                       todo |-> todo, held |-> TRUE]]

Ended(k) == [task EXCEPT ![k] = NoScan]

\* The part of scan k before its first await, in the current context.
Enter(k) ==
  CASE k = "hot" /\ connected ->
         /\ addr' = Derived(used + 1, used + Lookahead)
         /\ scanned' = Larger(scanned, used + Lookahead)
         /\ stored' = [stored EXCEPT ![mgr].addr = addr']
         /\ task' = Entered(k, "derived", (used + 1)..(used + Lookahead))
    [] k = "backfill" /\ connected /\ BackfillIndices # {} ->
         /\ task' = Entered(k, "history", BackfillIndices)
         /\ UNCHANGED <<addr, scanned, stored>>
    [] k = "forward" ->
         /\ task' = Entered(k, "pass", {})
         /\ UNCHANGED <<addr, scanned, stored>>
    [] OTHER ->
         /\ task' = Ended(k)
         /\ UNCHANGED <<addr, scanned, stored>>

\* A running scan of kind k is joined; but clear() has emptied the maps of those, so that one
\* of an older epoch is not found, can never become current again, and is forgotten.
MayStart(k) == task[k].phase = "idle" \/ (task[k].phase # "ensure" /\ task[k].epoch # epoch)

\* An alarm, the foreground poll, a connection or an action starts scan k: the key is
\* the active one, or the caches are initialized, or init() is awaited.
StartScan(k) ==
  /\ MayStart(k)
  /\ Context # None
  /\ IF activeKey = Context \/ initialized
       THEN /\ activeKey' = Context
            /\ Enter(k)
            /\ UNCHANGED <<load, requested>>
       ELSE /\ RequestInit
            /\ task' = Entered(k, "ensure", {})
            /\ UNCHANGED <<activeKey, addr, scanned, stored>>
  /\ cut' = CutShort({k})
  /\ UNCHANGED <<selection, epoch, initialized, hist, utxo, used, connected, coin, budget, mixed>>

\* Faulty variant: init() is not awaited.
EnsuredEarly(k) ==
  /\ task[k].phase = "ensure"
  /\ IF Context = task[k].account
       THEN activeKey' = Context /\ Enter(k)
       ELSE task' = Ended(k) /\ UNCHANGED <<activeKey, addr, scanned, stored>>
  /\ UNCHANGED <<selection, epoch, initialized, load, requested, hist, utxo, used,
                 connected, coin, cut, budget, mixed>>

\* The awaited init() has resolved, whether it loaded anything or was superseded.
Ensured(k) ==
  /\ task[k].phase = "ensure"
  /\ load.phase = "idle" \/ load.epoch # task[k].epoch
  /\ ~(requested /\ task[k].epoch = epoch)
  /\ IF Context = task[k].account
       THEN activeKey' = Context /\ Enter(k)
       ELSE task' = Ended(k) /\ UNCHANGED <<activeKey, addr, scanned, stored>>
  /\ UNCHANGED <<selection, epoch, initialized, load, requested, hist, utxo, used,
                 connected, coin, cut, budget, mixed>>

-----------------------------------------------------------------------------
(* A running scan.                                                         *)

\* A resumed scan finds that its context is gone.
Abandon(k) ==
  /\ task[k].phase \notin {"idle", "ensure"}
  /\ ~Current(k)
  /\ task' = Ended(k)
  /\ cut' = CutShort({k})
  /\ UNCHANGED <<selection, memory, stored, activeKey, connected, coin, budget, mixed>>

\* A pass of runForwardScan(): derive up to the gap limit, or stop.
ForwardPass(k) ==
  /\ task[k].phase = "pass" /\ Current(k)
  /\ LET window == Larger(0, used) + GapLimit - scanned
         range  == (scanned + 1)..(scanned + window)
     IN  IF window <= 0
           THEN task' = Ended(k) /\ UNCHANGED <<addr, scanned, stored>>
           ELSE /\ addr' = Derived(scanned + 1, scanned + window)
                /\ scanned' = scanned + window
                /\ stored' = [stored EXCEPT ![mgr].addr = addr']
                /\ task' = [task EXCEPT ![k].phase = "derived", ![k].todo = range]
  /\ UNCHANGED <<selection, epoch, initialized, load, requested, hist, utxo, used,
                 activeKey, connected, coin, cut, budget, mixed>>

\* Where scan k goes when its batch is over: forwardExtendMaxPasses may end the loop.
AfterBatch(k) ==
  IF k = "forward" THEN {[task EXCEPT ![k].phase = "pass"], Ended(k)} ELSE {Ended(k)}

\* The derived addresses are saved: ask for the histories of the indices that have one.
Ask(k) ==
  /\ task[k].phase = "derived" /\ Current(k)
  /\ LET live  == IF k = "hot" THEN {i \in Indexes : Live(i)} ELSE {}
         batch == {i \in task[k].todo \cup live : addr[i] # None}
     IN  IF connected /\ batch # {}
           THEN task' = [task EXCEPT ![k].phase = "history", ![k].todo = batch,
                                     ![k].held = TRUE]
           ELSE task' \in AfterBatch(k)
  /\ UNCHANGED <<selection, memory, stored, activeKey, connected, coin, cut, budget, mixed>>

\* Faulty variant: every index asked for counts as used.
HistoriesMarkAll(k) ==
  /\ task[k].phase = "history" /\ Current(k) /\ connected
  /\ LET asked == {i \in task[k].todo : addr[i] # None}
         seen  == {i \in asked : On(i) # "none"}
     IN  /\ hist' = [i \in Indexes |->
                       IF i \in seen
                         THEN IF On(i) = "pending" THEN "pending" ELSE "settled"
                         ELSE hist[i]]
         /\ addr' = [i \in Indexes |->
                       IF i \in asked THEN [addr[i] EXCEPT !.used = TRUE] ELSE addr[i]]
         /\ used' = Larger(used, HighestOf(seen))
  /\ stored' = [stored EXCEPT ![mgr].hist = hist']
  /\ task' = [task EXCEPT ![k].phase = "utxo"]
  /\ UNCHANGED <<selection, epoch, initialized, load, requested, utxo, scanned, activeKey,
                 connected, coin, cut, budget, mixed>>

\* The histories arrive: caches and highestUsed move, and the history cache is saved.
Histories(k) ==
  /\ task[k].phase = "history" /\ Current(k) /\ connected
  /\ LET seen == {i \in task[k].todo : addr[i] # None /\ On(i) # "none"}
     IN  /\ hist' = [i \in Indexes |->
                       IF i \in seen
                         THEN IF On(i) = "pending" THEN "pending" ELSE "settled"
                         ELSE hist[i]]
         /\ addr' = [i \in Indexes |->
                       IF i \in seen /\ task[k].held THEN [addr[i] EXCEPT !.used = TRUE]
                                                     ELSE addr[i]]
         /\ used' = Larger(used, HighestOf(seen))
  /\ stored' = [stored EXCEPT ![mgr].hist = hist']
  /\ task' = [task EXCEPT ![k].phase = "utxo"]
  /\ UNCHANGED <<selection, epoch, initialized, load, requested, utxo, scanned, activeKey,
                 connected, coin, cut, budget, mixed>>

\* The UTXOs arrive, and the UTXO cache is saved.
Utxos(k) ==
  /\ task[k].phase = "utxo" /\ Current(k) /\ connected
  /\ LET batch  == {i \in task[k].todo : addr[i] # None}
         funded == {i \in batch : Funded(addr[i].owner, i)}
     IN  /\ utxo' = (utxo \ batch) \cup funded
         /\ used' = Larger(used, HighestOf(funded))
  /\ stored' = [stored EXCEPT ![mgr].utxo = utxo']
  /\ task' = [task EXCEPT ![k].phase = "save"]
  /\ UNCHANGED <<selection, epoch, initialized, load, requested, addr, hist, scanned,
                 activeKey, connected, coin, cut, budget, mixed>>

SaveAddresses(k) ==
  /\ task[k].phase = "save" /\ Current(k)
  /\ stored' = [stored EXCEPT ![mgr].addr = addr]
  /\ task' \in AfterBatch(k)
  /\ UNCHANGED <<selection, memory, activeKey, connected, coin, cut, budget, mixed>>

\* A request of scan k is answered with an error: the scan rejects.
ScanFails(k) ==
  /\ task[k].phase \in {"history", "utxo"}
  /\ Spend("faults")
  /\ task' = Ended(k)
  /\ cut' = CutShort({k})
  /\ UNCHANGED <<selection, memory, stored, activeKey, connected, coin, mixed>>

\* The connection drops, and every outstanding request with it.
WithoutRequests ==
  [k \in Scans |-> IF task[k].phase \in {"history", "utxo"} THEN NoScan ELSE task[k]]

Disconnect ==
  /\ connected
  /\ Spend("faults")
  /\ connected' = FALSE
  /\ task' = WithoutRequests
  /\ cut' = CutShort(Scans)
  /\ UNCHANGED <<selection, memory, stored, activeKey, coin, mixed>>

Connect ==
  /\ ~connected
  /\ connected' = TRUE
  /\ UNCHANGED <<selection, memory, stored, activeKey, task, coin, cut, budget, mixed>>

-----------------------------------------------------------------------------
(* Account operations.                                                     *)

\* The history of index i of account a is in storage.
Recorded(a, i) == stored[a].hist # None /\ stored[a].hist[i] # "none"

\* Is what is stored for account a at index i about another account, or about a use that
\* never was?
Foreign(a, i) ==
  \/ stored[a].addr # None /\ stored[a].addr[i] # None /\ stored[a].addr[i].owner # a
  \/ /\ i > MaxCoin \/ coin[a][i] = "none"
     /\ Recorded(a, i) \/ (stored[a].utxo # None /\ i \in stored[a].utxo)

\* Which accounts an operation leaves with a mixture, now that it is over.
NoteMixed == mixed' = mixed \cup {a \in Accounts : \E i \in Indexes : Foreign(a, i)}

\* switchAccount(), createAccount() or switchNetwork() up to its first await.  A
\* switch moves the preferences first; a network switch also drops the connection.
BeginOperation(kind, a) ==
  /\ op.phase = "idle"
  /\ kind \in Operations
  /\ Spend("operations")
  /\ IF kind = "create" THEN a \notin known ELSE a \in known
  /\ prefs' = IF kind = "create" THEN prefs ELSE a
  /\ op' = [kind |-> kind, target |-> a, prev |-> prefs, phase |-> "begun"]
  /\ IF kind = "network"
       THEN connected' = FALSE /\ task' = WithoutRequests /\ cut' = CutShort(Scans)
       ELSE UNCHANGED <<connected, task, cut>>
  /\ UNCHANGED <<mgr, known, memory, stored, activeKey, coin, mixed>>

\* The account manager moves.  switchAccount() clears the caches in the same turn;
\* createAccount() and switchNetwork() still have something to await.
MoveAccount ==
  /\ op.phase = "begun"
  /\ mgr' = op.target
  /\ prefs' = op.target
  /\ known' = known \cup {op.target}
  /\ IF op.kind = "switch"
       THEN op' = [op EXCEPT !.phase = "idle"] /\ ClearAndInit(op.target)
       ELSE op' = [op EXCEPT !.phase = "moved"] /\ UNCHANGED memory
  /\ UNCHANGED <<stored, activeKey, task, connected, coin, cut, budget, mixed>>

\* The rest of createAccount(), or of switchNetwork() once it is connected.
FinishOperation ==
  /\ op.phase = "moved"
  /\ op.kind = "network" => connected
  /\ op' = [op EXCEPT !.phase = "idle"]
  /\ ClearAndInit(mgr)
  /\ NoteMixed
  /\ UNCHANGED <<prefs, mgr, known, stored, activeKey, task, connected, coin, cut, budget>>

\* switchNetwork() fails and puts the preferences back.
RollBack ==
  /\ op.kind = "network" /\ op.phase \in {"begun", "moved"}
  /\ Spend("faults")
  /\ prefs' = op.prev
  /\ op' = [op EXCEPT !.phase = "rollback"]
  /\ connected' = FALSE
  /\ task' = WithoutRequests
  /\ cut' = CutShort(Scans)
  /\ UNCHANGED <<mgr, known, memory, stored, activeKey, coin, mixed>>

\* accountManager.init() of the rollback, then clear() and init().
RolledBack ==
  /\ op.phase = "rollback"
  /\ mgr' = op.prev
  /\ op' = [op EXCEPT !.phase = "idle"]
  /\ ClearAndInit(op.prev)
  /\ NoteMixed
  /\ UNCHANGED <<prefs, known, stored, activeKey, task, connected, coin, cut, budget>>

-----------------------------------------------------------------------------
(* The service worker and the block chain.                                 *)

\* The worker dies and starts again from storage.
Restart ==
  /\ Spend("faults")
  /\ mgr' = prefs
  /\ known' \in {known, known \cup {op.target}}
  /\ op' = [op EXCEPT !.phase = "idle"]
  /\ epoch' = epoch + 1
  /\ initialized' = FALSE
  /\ load' = NoLoad
  /\ requested' = FALSE
  /\ addr' = NoAddresses /\ hist' = NoHistory /\ utxo' = {}
  /\ scanned' = -1 /\ used' = -1
  /\ activeKey' = None
  /\ task' = [k \in Scans |-> NoScan]
  /\ connected' = FALSE
  /\ cut' = CutShort(Scans)
  /\ NoteMixed
  /\ UNCHANGED <<prefs, stored, coin>>

Receive(a, i) ==
  /\ Spend("receives")
  /\ coin[a][i] \in IF AddressReuse THEN {"none", "spent"} ELSE {"none"}
  /\ coin' = [coin EXCEPT ![a][i] = "pending"]
  /\ UNCHANGED <<selection, memory, stored, activeKey, task, connected, cut, mixed>>

\* A payment confirms, or a confirmed coin is spent.
Advance(a, i) ==
  /\ coin[a][i] \in {"pending", "confirmed"}
  /\ coin' = [coin EXCEPT ![a][i] = IF @ = "pending" THEN "confirmed" ELSE "spent"]
  /\ UNCHANGED <<selection, memory, stored, activeKey, task, connected, cut, budget, mixed>>

Load == LoadSuperseded \/ LoadAddress \/ LoadHistory \/ LoadUtxo

Resume(k) ==
  Ensured(k) \/ Abandon(k) \/ ForwardPass(k) \/ Ask(k) \/ Histories(k) \/ Utxos(k)
             \/ SaveAddresses(k)

Proceed == MoveAccount \/ FinishOperation \/ RolledBack

Next ==
  \/ Load
  \/ \E k \in Scans : StartScan(k)
  \/ \E k \in Scans : Resume(k)
  \/ \E k \in Scans : ScanFails(k)
  \/ Disconnect
  \/ Connect
  \/ \E kind \in Operations, a \in Accounts : BeginOperation(kind, a)
  \/ Proceed
  \/ RollBack
  \/ Restart
  \/ \E a \in Accounts, i \in 0..MaxCoin : Receive(a, i)
  \/ \E a \in Accounts, i \in 0..MaxCoin : Advance(a, i)

\* Awaits end, the alarms of background/index.ts fire and the service reconnects;
\* nobody has to pay, spend or operate.
Fairness ==
  /\ WF_vars(Load)
  /\ WF_vars(Proceed)
  /\ WF_vars(Connect)
  /\ \A k \in Scans : WF_vars(Resume(k))
  /\ \A k \in Scans \ {"hot"} : WF_vars(StartScan(k))

Spec == Init /\ [][Next]_vars /\ Fairness

-----------------------------------------------------------------------------
(* Properties.                                                             *)

AddressCaches == [Indexes -> {None} \cup [owner : Accounts, used : BOOLEAN]]
HistoryCaches == [Indexes -> {"none", "pending", "settled"}]

ASSUME NoneAssumption ==
  /\ None \notin [owner : Accounts, used : BOOLEAN]
  /\ None \notin AddressCaches
  /\ None \notin HistoryCaches
  /\ \A S \in SUBSET Indexes : S # None

\* Every variable stays in its set.
TypeOK ==
  /\ prefs \in Accounts /\ mgr \in Accounts
  /\ op \in [kind : {"none", "switch", "create", "network"}, target : Accounts,
             prev : Accounts, phase : {"idle", "begun", "moved", "rollback"}]
  /\ known \in SUBSET Accounts
  /\ epoch \in Nat
  /\ initialized \in BOOLEAN /\ requested \in BOOLEAN /\ connected \in BOOLEAN
  /\ load.phase \in {"idle", "address", "history", "utxo"} /\ load.epoch \in 0..epoch
  /\ load.read \in {None} \cup (CASE load.phase = "address" -> AddressCaches
                                  [] load.phase = "history" -> HistoryCaches
                                  [] OTHER -> SUBSET Indexes)
  /\ addr \in AddressCaches /\ hist \in HistoryCaches /\ utxo \in SUBSET Indexes
  /\ scanned \in Indexes \cup {-1} /\ used \in Indexes \cup {-1}
  /\ stored \in [Accounts -> [addr : {None} \cup AddressCaches,
                              hist : {None} \cup HistoryCaches,
                              utxo : {None} \cup SUBSET Indexes]]
  /\ activeKey \in Accounts \cup {None}
  /\ task \in [Scans -> [phase : {"idle", "ensure", "pass", "derived", "history", "utxo", "save"},
                         epoch : 0..epoch, account : Accounts \cup {None},
                         todo : SUBSET Indexes, held : BOOLEAN]]
  /\ coin \in [Accounts -> [0..MaxCoin -> {"none", "pending", "confirmed", "spent"}]]
  /\ cut \in SUBSET (Accounts \X Indexes) /\ mixed \subseteq Accounts
  /\ \A what \in DOMAIN budget : budget[what] \in Nat

\* Whatever the order of operations, loads and scans, what is stored for an account is
\* about that account: its addresses, and only indices that were really used.
StoredCachesBelongToTheirAccount == \A a \in Accounts, i \in Indexes : ~Foreign(a, i)

\* The same but for what createAccount() and switchNetwork() do between the move of the
\* account manager and the clear() that comes only later: no switch, superseded load or
\* abandoned scan ever mixes two accounts.
MixedOnlyBeforeClear ==
  \A a \in Accounts \ mixed, i \in Indexes :
    Foreign(a, i) => a = mgr /\ op.phase \in {"moved", "rollback"}

\* While one account stays selected, a recorded use is never forgotten: however the loads
\* and saves of the worker's starts and of the scans follow each other, none overwrites the
\* history with less.  (With operations on accounts one may: a scan that does not await
\* init() saves a history of which nothing is loaded.)
HistoryNeverForgotten ==
  [][\A a \in Accounts, i \in Indexes : Recorded(a, i) => Recorded(a, i)']_vars

\* Once the caches are initialized, memory knows all that storage knows, and a coin of the
\* active account at a derived index that the wallet has not found is still looked at: by
\* the next backfill, or by a scan under way.
NoBlindSpot ==
  /\ TypeOK
  /\ Context # None /\ initialized =>
       \A i \in Indexes :
         /\ Recorded(mgr, i) => hist[i] # "none"
         /\ addr[i] # None /\ Funded(mgr, i) /\ i \notin utxo =>
              \/ hist[i] = "pending" \/ ~addr[i].used \/ <<mgr, i>> \in cut
              \/ \E k \in Scans : Current(k) /\ task[k].phase = "utxo" /\ i \in task[k].todo

\* A coin of the account that stays selected is found, or spent; but those whose address
\* was recorded by a scan that was cut short before it read the coins.
UncutFundsDiscovered ==
  \A a \in Accounts, i \in 0..MaxCoin :
    prefs = a /\ Funded(a, i) /\ <<a, i>> \notin cut ~>
      prefs # a \/ ~Funded(a, i) \/ <<a, i>> \in cut \/ (mgr = a /\ i \in utxo)

\* Whatever supersedes a load, the caches of the account in use end up initialized: the
\* init() that follows a clear() is not lost in the queue behind the load it superseded.
EventuallyInitialized == []<>(op.phase = "idle" /\ initialized)
=============================================================================
