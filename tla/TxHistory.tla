------------------------------ MODULE TxHistory ------------------------------
(***************************************************************************)
(* The Bitcoin transaction history: TxHistoryService, whose write queue    *)
(* runs get() and addOptimisticPending() one after the other, the payment  *)
(* that records itself there, and the operations of WalletManager that     *)
(* move the active account, and with it the storage key, under the queue.  *)
(*                                                                         *)
(* Code between two awaits is one action.  An entry keeps what tells two   *)
(* entries apart here: its status, whether it has confirmations, and the   *)
(* account whose addresses decided its type and its amount.                *)
(***************************************************************************)
EXTENDS Integers, Sequences

CONSTANTS
  Accounts,      \* the accounts, on whatever network
  Txs,           \* the transactions
  TxsOf,         \* those that touch an address of an account
  Payments,      \* those that the wallet itself sends
  PayerOf,       \* the account that sends a payment
  None,          \* no account, no entry, nothing stored
  MaxQueued,     \* how many calls of the service wait at a time
  MaxMoves,      \* how many operations on accounts are performed
  MaxTroubles    \* how many requests or connections fail and workers die

ASSUME TxsAssumption ==
  /\ TxsOf \in [Accounts -> SUBSET Txs] /\ Payments \subseteq Txs
  /\ PayerOf \in [Payments -> Accounts] /\ \A tx \in Payments : tx \in TxsOf[PayerOf[tx]]
ASSUME BoundsAssumption ==
  {MaxQueued, MaxMoves, MaxTroubles} \subseteq Nat

\* What the history of an account holds of each transaction.
Entries == [status : {"pending", "confirmed"}, conf : BOOLEAN, of : Accounts \cup {None}]
Caches == [Txs -> Entries \cup {None}]

ASSUME NoneAssumption ==
  None \notin Accounts /\ None \notin Txs /\ None \notin Entries /\ None \notin Caches
  /\ None \notin {"none", "mempool", "mined"}

VARIABLES
  mgr,        \* accountManager's active account; it names the storage key
  move,       \* the operation on accounts in progress
  view,       \* the account whose addresses and histories the scan manager holds
  scanned,    \* the heights that scans recorded: "none", "mempool" or "mined"
  chain,      \* the same, on the block chain
  sending,    \* the payments whose broadcast is awaited
  cache,      \* txHistoryCache
  stored,     \* browser.storage.local, by account
  queue,      \* writeQueue: the calls that are not settled
  job,        \* the first of them, which is running
  budget,     \* what the bounds have left
  seen        \* for the properties: what operations on accounts overtook

accounts == <<mgr, move>>
world    == <<scanned, chain>>
system == <<accounts, view, world, sending, cache, stored, queue, job, budget>>
vars == <<system, seen>>

Empty == [tx \in Txs |-> None]
NoMove == [phase |-> "idle", prev |-> None]
NoJob == [phase |-> "idle", read |-> None, todo |-> Empty, tx |-> None,
          height |-> None, cached |-> None, entry |-> None]

Init ==
  /\ mgr \in Accounts
  /\ move = NoMove
  /\ view = mgr
  /\ scanned = [a \in Accounts |-> [tx \in Txs |-> "none"]]
  /\ chain = [tx \in Txs |-> "none"]
  /\ sending = {}
  /\ cache = Empty
  /\ stored = [a \in Accounts |-> None]
  /\ queue = <<>>
  /\ job = NoJob
  /\ budget = [moves |-> MaxMoves, troubles |-> MaxTroubles]
  /\ seen = [over |-> FALSE, dirty |-> FALSE, mixed |-> {}]

Spend(what) == budget[what] > 0 /\ budget' = [budget EXCEPT ![what] = @ - 1]

Entry(status, conf, of) == [status |-> status, conf |-> conf, of |-> of]

-----------------------------------------------------------------------------
(* The write queue.                                                        *)

Get == [kind |-> "get", tx |-> None]
Record(tx) == [kind |-> "record", tx |-> tx]

\* The calls in q are what is left: the first one issues its read in loadTxHistory().
\* Without an active account getCacheKey() throws, and so do all that wait.
Proceed(q) ==
  IF q = <<>> \/ mgr = None
    THEN queue' = <<>> /\ job' = NoJob
    ELSE queue' = q /\ job' = [NoJob EXCEPT !.phase = "load", !.read = stored[mgr]]

\* withLock(): at once, or behind the calls that are not settled.
WithLock(call) ==
  IF queue = <<>> THEN Proceed(<<call>>) ELSE queue' = Append(queue, call) /\ UNCHANGED job

\* Faulty variant: the rejection is passed on to the calls behind it.
RejectAll == Proceed(<<>>)

\* The call is rejected; the chain catches the error and goes on.
Reject == Proceed(Tail(queue))

-----------------------------------------------------------------------------
(* runGet() and addOptimisticPending().                                    *)

\* Faulty variant: entries that are confirmed are asked for again.
DueAlways(c, tx) == TRUE

\* The transactions of the histories that get() asks the server for.
Due(c, tx) == c[tx] = None \/ c[tx].status = "pending"

\* Faulty variant: an entry that is there is kept.
ChangedIfNew(cached, entry) == cached = None

\* Whether the new entry replaces the one seen before the request.
Changed(cached, entry) ==
  cached = None \/ entry.status # cached.status \/ entry.conf # cached.conf

\* A mined transaction whose proof is missing stays pending.
Status(conf, proved) == IF conf /\ proved THEN "confirmed" ELSE "pending"

\* The histories that the scan manager holds.
Histories == [tx \in Txs |-> IF view = None \/ scanned[view][tx] = "none"
                                THEN None ELSE scanned[view][tx]]

\* The next request of the loop over the histories in todo; after the last, the save.
\* saveTxHistory() computes its key at this moment.
LoopOn(c, todo) ==
  LET due == {tx \in Txs : todo[tx] # None /\ Due(c, tx)} IN
    IF due # {}
      THEN /\ \E tx \in due :
                job' = [job EXCEPT !.phase = "raw", !.todo = [todo EXCEPT ![tx] = None],
                                   !.height = todo[tx], !.tx = tx, !.cached = c[tx]]
           /\ UNCHANGED <<queue, stored>>
      ELSE IF mgr = None
        THEN Reject /\ UNCHANGED stored
        ELSE /\ stored' = [stored EXCEPT ![mgr] = c]
             /\ job' = [NoJob EXCEPT !.phase = "save"]
             /\ UNCHANGED queue

\* What follows loadTxHistory(), with c in the cache.  Both calls then ask for the price,
\* a get() with a copy of the histories, a record only if the entry is not there yet.
AfterLoad(c) ==
  IF Head(queue).kind = "get"
    THEN job' = [NoJob EXCEPT !.phase = "price", !.todo = Histories] /\ UNCHANGED queue
    ELSE IF c[Head(queue).tx] # None
      THEN Proceed(Tail(queue))
      ELSE job' = [NoJob EXCEPT !.phase = "price"] /\ UNCHANGED queue

\* The cache when loadTxHistory() found something.
Take(read) == read

\* loadTxHistory() has read.  If nothing is stored it saves the cache as it is.
Loaded ==
  /\ job.phase = "load"
  /\ IF job.read # None
       THEN /\ cache' = Take(job.read)
            /\ AfterLoad(cache')
            /\ UNCHANGED stored
       ELSE /\ UNCHANGED cache
            /\ IF mgr = None
                 THEN Reject /\ UNCHANGED stored
                 ELSE /\ stored' = [stored EXCEPT ![mgr] = cache]
                      /\ job' = [NoJob EXCEPT !.phase = "saveEmpty"]
                      /\ UNCHANGED queue
  /\ UNCHANGED <<accounts, view, world, sending, budget>>

EmptySaved ==
  /\ job.phase = "saveEmpty"
  /\ AfterLoad(cache)
  /\ UNCHANGED <<accounts, view, world, sending, cache, stored, budget>>

\* The price is there: get() goes through the histories, addOptimisticPending() sets
\* its entry and saves.
Priced ==
  /\ job.phase = "price"
  /\ LET call == Head(queue) IN
       IF call.kind = "get"
         THEN LoopOn(cache, job.todo) /\ UNCHANGED cache
         ELSE /\ cache' = [cache EXCEPT ![call.tx] = Entry("pending", FALSE, PayerOf[call.tx])]
              /\ LoopOn(cache', Empty)
  /\ UNCHANGED <<accounts, view, world, sending, budget>>

\* The raw transaction is there; buildTxEntry() looks at the addresses of this moment,
\* then asks for the parents of the inputs and, if mined, for the proof.
RawArrives ==
  /\ job.phase = "raw"
  /\ job' = [job EXCEPT !.phase = "build",
                        !.entry = Entry("pending", chain[job.tx] = "mined", view)]
  /\ UNCHANGED <<accounts, view, world, sending, cache, stored, queue, budget>>

\* The entry is complete.  The proof is asked for when the scan recorded a height; if it
\* is missing or wrong, the transaction stays pending.
Built(proved) ==
  /\ job.phase = "build"
  /\ IF proved THEN UNCHANGED budget ELSE job.entry.conf /\ job.height = "mined" /\ Spend("troubles")
  /\ LET entry == [job.entry EXCEPT !.status = Status(job.entry.conf, proved)]
     IN cache' = IF Changed(job.cached, entry) THEN [cache EXCEPT ![job.tx] = entry] ELSE cache
  /\ LoopOn(cache', job.todo)
  /\ UNCHANGED <<accounts, view, world, sending>>

\* saveTxHistory() is over: the call resolves.
Saved ==
  /\ job.phase = "save"
  /\ Proceed(Tail(queue))
  /\ UNCHANGED <<accounts, view, world, sending, cache, stored, budget>>

\* A request of get() fails: the price, the transaction or one of its parents.  A
\* record does without the price.
RequestFails ==
  /\ Spend("troubles")
  /\ job.phase \in {"price", "raw", "build"} /\ Head(queue).kind = "get"
  /\ Reject
  /\ UNCHANGED <<accounts, view, world, sending, cache, stored>>

-----------------------------------------------------------------------------
(* Calls of the service.                                                   *)

\* The popup asks for the transactions.
AskHistory ==
  /\ mgr # None /\ Len(queue) < MaxQueued
  /\ WithLock(Get)
  /\ UNCHANGED <<accounts, view, world, sending, cache, stored, budget>>

\* sendPayment() has signed with the active account and broadcasts.
Broadcast(tx) ==
  /\ mgr = PayerOf[tx] /\ view = mgr /\ chain[tx] = "none"
  /\ chain' = [chain EXCEPT ![tx] = "mempool"]
  /\ sending' = sending \cup {tx}
  /\ UNCHANGED <<accounts, view, scanned, cache, stored, queue, job, budget>>

\* The server has answered the broadcast: the payment records itself.
BroadcastAnswered(tx) ==
  /\ tx \in sending
  /\ WithLock(Record(tx))
  /\ sending' = sending \ {tx}
  /\ UNCHANGED <<accounts, view, world, cache, stored, budget>>

\* The server has taken the payment, but its answer is lost: sendPayment() throws.
BroadcastLost(tx) ==
  /\ tx \in sending
  /\ Spend("troubles")
  /\ sending' = sending \ {tx}
  /\ UNCHANGED <<accounts, view, world, cache, stored, queue, job>>

-----------------------------------------------------------------------------
(* Operations on accounts.                                                 *)

MayMove == move.phase = "idle" /\ mgr # None /\ Spend("moves")

\* switchAccount(): the account manager has moved, and the scan manager is cleared in
\* the same step.
MoveAccount(a) ==
  /\ MayMove
  /\ mgr' = a
  /\ view' = None
  /\ move' = [phase |-> "loading", prev |-> mgr]
  /\ UNCHANGED <<world, sending, cache, stored, queue, job>>

\* createAccount(): the account manager has moved and reads the accounts once more
\* before the scan manager is cleared.
CreateAccount(a) ==
  /\ MayMove
  /\ a # mgr /\ mgr' = a
  /\ move' = [phase |-> "creating", prev |-> mgr]
  /\ UNCHANGED <<view, world, sending, cache, stored, queue, job>>

\* A change of network: the account manager moves before the connection is tried.
MoveNetwork(a) ==
  /\ MayMove
  /\ a # mgr /\ mgr' = a
  /\ move' = [phase |-> "connecting", prev |-> mgr]
  /\ UNCHANGED <<view, world, sending, cache, stored, queue, job>>

\* The connection is there, or the accounts are read: the scan manager is cleared.
Connected ==
  /\ move.phase \in {"connecting", "creating"}
  /\ move' = [move EXCEPT !.phase = "loading"]
  /\ view' = None
  /\ UNCHANGED <<mgr, world, sending, cache, stored, queue, job, budget>>

\* The connection fails: back to the previous account.  The rollback does not reset
\* the history service.
ConnectFails ==
  /\ move.phase = "connecting"
  /\ Spend("troubles")
  /\ mgr' = move.prev
  /\ view' = None
  /\ move' = [move EXCEPT !.phase = "restoring"]
  /\ UNCHANGED <<world, sending, cache, stored, queue, job>>

\* scanManager.init() has loaded the histories of the active account.
ScansLoaded ==
  /\ view = None /\ mgr # None /\ move.phase # "wiping"
  /\ view' = mgr
  /\ UNCHANGED <<accounts, world, sending, cache, stored, queue, job, budget>>

\* Faulty variant: the operation ends without historyService.reset().
FinishMoveUnreset ==
  /\ move.phase \in {"loading", "restoring"} /\ view = mgr
  /\ UNCHANGED cache
  /\ move' = NoMove
  /\ UNCHANGED <<mgr, view, world, sending, stored, queue, job, budget>>

\* The operation ends, with historyService.reset() unless it was rolled back.
FinishMove ==
  /\ move.phase \in {"loading", "restoring"} /\ view = mgr
  /\ cache' = IF move.phase = "loading" THEN Empty ELSE cache
  /\ move' = NoMove
  /\ UNCHANGED <<mgr, view, world, sending, stored, queue, job, budget>>

\* logout(): what scans and history stored for the active account is removed.
Logout ==
  /\ MayMove
  /\ scanned' = [scanned EXCEPT ![mgr] = [tx \in Txs |-> "none"]]
  /\ stored' = [stored EXCEPT ![mgr] = None]
  /\ view' = None
  /\ move' = [phase |-> "wiping", prev |-> mgr]
  /\ UNCHANGED <<mgr, chain, sending, cache, queue, job>>

\* clearCache() is over; accountManager.destroy() follows at once.
Wiped ==
  /\ move.phase = "wiping"
  /\ cache' = Empty
  /\ mgr' = None
  /\ move' = NoMove
  /\ UNCHANGED <<view, world, sending, stored, queue, job, budget>>

\* The same wallet is restored, on any network.
RestoreWallet(a) ==
  /\ mgr = None
  /\ mgr' = a
  /\ UNCHANGED <<move, view, world, sending, cache, stored, queue, job, budget>>

\* The worker dies.  The next one starts from the preferences, which name the account.
Restart ==
  /\ Spend("troubles")
  /\ move.phase = "idle"
  /\ view' = None
  /\ cache' = Empty
  /\ sending' = {}
  /\ queue' = <<>> /\ job' = NoJob
  /\ UNCHANGED <<accounts, world, stored>>

-----------------------------------------------------------------------------
(* The block chain, and the scans that follow it.                          *)

Arrive(tx) ==
  /\ tx \notin Payments /\ chain[tx] = "none"
  /\ chain' = [chain EXCEPT ![tx] = "mempool"]
  /\ UNCHANGED <<accounts, view, scanned, sending, cache, stored, queue, job, budget>>

Mine(tx) ==
  /\ chain[tx] = "mempool"
  /\ chain' = [chain EXCEPT ![tx] = "mined"]
  /\ UNCHANGED <<accounts, view, scanned, sending, cache, stored, queue, job, budget>>

\* A scan of the active account records the height of a transaction.
Scan(tx) ==
  /\ mgr # None /\ view = mgr /\ tx \in TxsOf[mgr]
  /\ scanned[mgr][tx] # chain[tx]
  /\ scanned' = [scanned EXCEPT ![mgr][tx] = chain[tx]]
  /\ UNCHANGED <<accounts, view, chain, sending, cache, stored, queue, job, budget>>

JobStep ==
  \/ Loaded \/ EmptySaved \/ Priced \/ RawArrives
  \/ \E proved \in BOOLEAN : Built(proved)
  \/ Saved \/ RequestFails

MoveStep == Connected \/ ConnectFails \/ ScansLoaded \/ FinishMove \/ Wiped

Step ==
  \/ JobStep
  \/ MoveStep
  \/ AskHistory
  \/ \E tx \in Payments : Broadcast(tx) \/ BroadcastAnswered(tx) \/ BroadcastLost(tx)
  \/ \E a \in Accounts : MoveAccount(a) \/ CreateAccount(a) \/ MoveNetwork(a) \/ RestoreWallet(a)
  \/ Logout
  \/ Restart
  \/ \E tx \in Txs : Arrive(tx) \/ Mine(tx) \/ Scan(tx)

-----------------------------------------------------------------------------
(* What the properties except.  No action reads it.                         *)

\* The call in front begins with this step.
Begins == queue = <<>> \/ Len(queue') < Len(queue)

\* The call in front is overtaken: an operation on accounts is or was in progress since
\* it began, or it records a payment whose account has been left before that.
Overtaken ==
  /\ queue' # <<>>
  /\ \/ move'.phase # "idle"
     \/ IF Begins THEN Head(queue').kind = "record" /\ PayerOf[Head(queue').tx] # mgr'
                  ELSE seen.over

\* The cache is what an overtaken call left, or was loaded from what one wrote.
Dirty ==
  /\ cache' # Empty
  /\ IF ~seen.over /\ job.phase = "load" /\ cache' = job.read
       THEN mgr \in seen.mixed
       ELSE seen.dirty \/ (seen.over /\ cache' # cache)

\* The accounts whose history was written by an overtaken call, or from such a cache.
Mixed ==
  {a \in Accounts :
     /\ stored'[a] # None
     /\ a \in seen.mixed \/ (stored'[a] # stored[a] /\ (seen.over \/ Dirty))}

Next == Step /\ seen' = [over |-> Overtaken, dirty |-> Dirty, mixed |-> Mixed]

\* Awaited promises settle, scans come back to every address that is not settled, and
\* an open popup asks for the transactions again and again.
Fairness ==
  /\ WF_system(JobStep) /\ WF_system(MoveStep) /\ WF_system(AskHistory)
  /\ \A tx \in Payments : WF_system(BroadcastAnswered(tx) \/ BroadcastLost(tx))
  /\ \A tx \in Txs : WF_system(Scan(tx))

Spec == Init /\ [][Next]_vars /\ Fairness

-----------------------------------------------------------------------------
Heights == {"none", "mempool", "mined"}
Calls == [kind : {"get", "record"}, tx : Txs \cup {None}]

TypeOK ==
  /\ mgr \in Accounts \cup {None}
  /\ move \in [phase : {"idle", "connecting", "creating", "loading", "restoring", "wiping"},
               prev : Accounts \cup {None}]
  /\ view \in Accounts \cup {None}
  /\ scanned \in [Accounts -> [Txs -> Heights]] /\ chain \in [Txs -> Heights]
  /\ sending \subseteq Payments
  /\ cache \in Caches /\ stored \in [Accounts -> Caches \cup {None}]
  /\ queue \in Seq(Calls)
  /\ job.phase \in {"idle", "load", "saveEmpty", "price", "raw", "build", "save"}
  /\ job.todo \in [Txs -> Heights \cup {None}] /\ job.tx \in Txs \cup {None}
  /\ job.read \in Caches \cup {None} /\ job.height \in Heights \cup {None}
  /\ {job.cached, job.entry} \subseteq Entries \cup {None}
  /\ \A what \in DOMAIN budget : budget[what] \in Nat
  /\ seen \in [over : BOOLEAN, dirty : BOOLEAN, mixed : SUBSET Accounts]

Listed(a, tx) == stored[a] # None /\ stored[a][tx] # None

\* The storage key follows the account manager, also under a call that is running.  What
\* goes wrong then stays where it was written: a history that was written neither by an
\* overtaken call nor from the cache that one left consists of transactions of its
\* account, described from its side, also after a switch or a rollback that the cache of
\* another account outlives.
StoredHistoryIsOwn ==
  /\ TypeOK
  /\ \A a \in Accounts \ seen.mixed, tx \in Txs :
       Listed(a, tx) => tx \in TxsOf[a] /\ stored[a][tx].of = a

\* No write takes back what the history of an account already told, whatever is stored: an
\* entry stays and a confirmation is final.  Only a call that an operation on accounts
\* overtakes may do so, and a logout.
HistoryOnlyGrows ==
  [][\A a \in Accounts, tx \in Txs :
       Listed(a, tx) =>
         \/ Listed(a, tx)' /\ (stored[a][tx].status = "confirmed"
                                 => stored'[a][tx].status = "confirmed")
         \/ seen.over
         \/ move'.phase = "wiping" /\ move'.prev = a]_vars

Recording(tx) == \E i \in 1..Len(queue) : queue[i] = Record(tx)

\* When the record of a payment leaves the queue, also behind a get() that fails, the
\* payment is in the history of the account that paid, unless the worker died, the wallet
\* was left, or an operation on accounts overtook the record itself.
PaymentRecorded ==
  [][\A tx \in Payments :
       Recording(tx) /\ ~Recording(tx)' =>
         \/ Listed(PayerOf[tx], tx)'
         \/ view' = None \/ mgr = None
         \/ seen.over /\ Head(queue) = Record(tx)]_vars

\* While an account stays selected and the popup looks, its mined transactions end up
\* confirmed in the history, also those that were first recorded by the payment.
HistoryCatchesUp ==
  <>[](\A tx \in Txs :
         mgr # None /\ tx \in TxsOf[mgr] /\ chain[tx] = "mined"
           => Listed(mgr, tx) /\ stored[mgr][tx].status = "confirmed")
=============================================================================
