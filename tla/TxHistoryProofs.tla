--------------------------- MODULE TxHistoryProofs ---------------------------
(***************************************************************************)
(* Proofs about TxHistory, for any accounts, transactions, payments and    *)
(* bounds, with operations on accounts at any moment of any call: what an  *)
(* overtaken call did not write is the account's own, no other call takes  *)
(* anything back, and a payment is recorded for the account that paid.     *)
(*                                                                         *)
(* The cache names no account.  The invariant says whose it is at every    *)
(* moment, unless an overtaken call left it: the active account's, or the  *)
(* previous one's while a change of network may still be rolled back,      *)
(* since the rollback does not reset it.                                   *)
(***************************************************************************)
EXTENDS TxHistory, TLAPS

AllCalls == {Get} \cup {Record(tx) : tx \in Payments}

\* The entries of c are account a's, and d takes back nothing of what c tells.
Own(c, a) == \A tx \in Txs : c[tx] # None => tx \in TxsOf[a] /\ c[tx].of = a
Keeps(c, d) ==
  \A tx \in Txs : c[tx] # None =>
    d[tx] # None /\ (c[tx].status = "confirmed" => d[tx].status = "confirmed")

Watched == seen' = [over |-> Overtaken, dirty |-> Dirty, mixed |-> Mixed]

Typed ==
  /\ mgr \in Accounts \cup {None} /\ view \in Accounts \cup {None}
  /\ move \in [phase : {"idle", "connecting", "creating", "loading", "restoring", "wiping"},
               prev : Accounts \cup {None}]
  /\ scanned \in [Accounts -> [Txs -> Heights]] /\ chain \in [Txs -> Heights]
  /\ sending \subseteq Payments
  /\ cache \in Caches /\ stored \in [Accounts -> Caches \cup {None}]
  /\ \A what \in DOMAIN budget : budget[what] \in Nat
  /\ seen \in [over : BOOLEAN, dirty : BOOLEAN, mixed : SUBSET Accounts]

JobTyped ==
  /\ job \in [phase : {"idle", "load", "saveEmpty", "price", "raw", "build", "save"},
              read : Caches \cup {None}, todo : [Txs -> Heights \cup {None}], tx : Txs \cup {None},
              height : Heights \cup {None}, cached : Entries \cup {None}, entry : Entries \cup {None}]
  /\ job.phase \in {"raw", "build"} => job.tx \in Txs
  /\ job.phase = "build" => job.entry # None

\* What scans recorded of an account are its transactions.
ScansAreOwn == \A a \in Accounts, tx \in Txs : scanned[a][tx] # "none" => tx \in TxsOf[a]

\* An operation on accounts knows where it came from; the scan manager is at the account,
\* unless the operation has not cleared it yet.
MoveOK ==
  /\ move.phase # "idle" => mgr # None /\ move.prev \in Accounts
  /\ move.phase = "restoring" => mgr = move.prev
  /\ move.phase \notin {"connecting", "creating"} => view \in {None, mgr}
  /\ move.phase = "wiping" => view = None

\* Whose the cache is.
CacheOf ==
  /\ move.phase = "idle" => IF mgr = None THEN cache = Empty ELSE Own(cache, mgr)
  /\ move.phase \in {"connecting", "restoring"} => Own(cache, move.prev)
CacheIsOwn == ~seen.dirty => CacheOf

StoredIsOwn == \A a \in Accounts \ seen.mixed : stored[a] # None => Own(stored[a], a)

\* The queue, and the call in front that nothing has overtaken: what it asks for and builds
\* is the active account's, and its cache keeps what is stored.
Front ==
  /\ move.phase = "idle" /\ mgr # None
  /\ Head(queue).kind = "record" => PayerOf[Head(queue).tx] = mgr
  /\ job.phase = "load" => job.read = stored[mgr]
  /\ job.phase = "saveEmpty" => stored[mgr] = cache
  /\ \A tx \in Txs : job.todo[tx] # None => view = mgr /\ tx \in TxsOf[mgr]
  /\ job.phase \in {"raw", "build"} =>
       /\ view = mgr /\ job.tx \in TxsOf[mgr]
       /\ job.cached = cache[job.tx] /\ (job.cached # None => job.cached.status = "pending")
       /\ Head(queue).kind = "get"
  /\ job.phase = "build" => job.entry.of = mgr
  /\ job.phase \in {"saveEmpty", "price", "raw", "build", "save"} /\ stored[mgr] # None =>
       Keeps(stored[mgr], cache)
  /\ job.phase = "price" /\ Head(queue).kind = "record" => cache[Head(queue).tx] = None
  /\ job.phase = "save" /\ Head(queue).kind = "record" => Listed(mgr, Head(queue).tx)
QueueOK ==
  /\ queue \in Seq(AllCalls)
  /\ queue = <<>> => job = NoJob /\ ~seen.over
  /\ queue # <<>> => job.phase # "idle"
  /\ queue # <<>> /\ ~seen.over => Front

IInv ==
  Typed /\ JobTyped /\ ScansAreOwn /\ MoveOK /\ CacheIsOwn /\ StoredIsOwn /\ QueueOK

USE TxsAssumption, NoneAssumption, BoundsAssumption

-----------------------------------------------------------------------------

\* The initial states satisfy the inductive invariant.
LEMMA InitIInv == Init => IInv
<1> SUFFICES ASSUME Init PROVE IInv
  OBVIOUS
<1>1. Empty \in Caches /\ Empty \in [Txs -> Heights \cup {None}]
  BY DEF Empty, Caches
<1>2. Typed /\ JobTyped
  BY <1>1 DEF Init, Typed, JobTyped, NoMove, NoJob, Heights
<1>3. ScansAreOwn /\ MoveOK /\ CacheIsOwn /\ StoredIsOwn
  BY DEF Init, ScansAreOwn, MoveOK, CacheIsOwn, CacheOf, StoredIsOwn, NoMove, Own, Empty
<1>4. QueueOK
  BY DEF Init, QueueOK, NoJob
<1>5. QED
  BY <1>2, <1>3, <1>4 DEF IInv

\* The empty cache is anybody's.
LEMMA EmptyIsOwn == Empty \in Caches /\ Empty \in [Txs -> Heights \cup {None}]
                    /\ (\A tx \in Txs : Empty[tx] = None) /\ \A a : Own(Empty, a)
BY DEF Empty, Caches, Own

\* A bound is never passed.
LEMMA SpendOK ==
  ASSUME Typed, NEW what, budget' = budget \/ Spend(what)
  PROVE  \A w \in DOMAIN budget' : budget'[w] \in Nat
BY DEF Typed, Spend

\* What the properties except is Boolean and sets of accounts.
LEMMA SeenTyped ==
  ASSUME Typed, Watched
  PROVE  /\ seen' \in [over : BOOLEAN, dirty : BOOLEAN, mixed : SUBSET Accounts]
         /\ seen'.over = Overtaken /\ seen'.dirty = Dirty /\ seen'.mixed = Mixed
<1>1. Overtaken \in BOOLEAN
  BY DEF Overtaken, Typed
<1>2. Dirty \in BOOLEAN
  BY DEF Dirty, Typed
<1>3. Mixed \in SUBSET Accounts
  BY DEF Mixed
<1> HIDE DEF Overtaken, Dirty, Mixed
<1>4. QED
  BY <1>1, <1>2, <1>3 DEF Watched

\* A cache that stays is still whose it was: also the one that a load is about to repeat.
LEMMA CacheStays ==
  ASSUME IInv, Watched, cache' = cache, ~seen'.dirty
  PROVE  CacheOf
<1>1. ~Dirty
  BY SeenTyped DEF IInv
<1>2. CASE cache = Empty
  BY <1>2, EmptyIsOwn DEF CacheOf
<1>3. CASE cache # Empty /\ ~seen.over /\ job.phase = "load" /\ cache = job.read
  <2>1. queue # <<>> /\ mgr \notin seen.mixed
    BY <1>1, <1>3 DEF Dirty, IInv, QueueOK, NoJob
  <2>2. Front
    BY <1>3, <2>1 DEF IInv, QueueOK
  <2>3. cache = stored[mgr] /\ mgr \in Accounts /\ cache # None /\ move.phase = "idle"
    BY <1>3, <2>2 DEF Front, IInv, Typed
  <2>4. QED
    BY <2>1, <2>3 DEF CacheOf, IInv, StoredIsOwn
<1>4. CASE cache # Empty /\ ~(~seen.over /\ job.phase = "load" /\ cache = job.read)
  <2>1. ~seen.dirty
    BY <1>1, <1>4 DEF Dirty
  <2>2. QED
    BY <2>1 DEF IInv, CacheIsOwn
<1>5. QED
  BY <1>2, <1>3, <1>4

\* What is stored stays whose it is when nothing is written.
LEMMA StoredStays ==
  ASSUME IInv, Watched, \A a \in Accounts : stored'[a] \in {stored[a], None}
  PROVE  StoredIsOwn'
<1>1. \A a \in Accounts \ seen'.mixed : stored'[a] # None => a \notin seen.mixed /\ stored'[a] = stored[a]
  BY SeenTyped DEF Mixed, IInv
<1>2. QED
  BY <1>1 DEF IInv, StoredIsOwn, Own

-----------------------------------------------------------------------------
(* The write queue.                                                        *)

\* The next call of the queue begins by reading what is stored for the active account.
LEMMA ProceedOK ==
  ASSUME Typed, Watched, NEW q \in Seq(AllCalls), Proceed(q), mgr' = mgr, stored' = stored,
         queue = <<>> \/ Len(q) < Len(queue)
  PROVE  JobTyped' /\ QueueOK'
<1>1. CASE q = <<>> \/ mgr = None
  <2>1. queue' = <<>> /\ job' = NoJob /\ ~seen'.over
    BY <1>1, SeenTyped DEF Proceed, Overtaken
  <2>2. JobTyped'
    BY EmptyIsOwn, <2>1 DEF JobTyped, NoJob
  <2>3. QueueOK'
    BY <2>1 DEF QueueOK
  <2>4. QED
    BY <2>2, <2>3
<1>2. CASE ~(q = <<>> \/ mgr = None)
  <2>1. /\ queue' = q /\ q # <<>>
        /\ job' = [phase |-> "load", read |-> stored[mgr], todo |-> Empty, tx |-> None,
                   height |-> None, cached |-> None, entry |-> None]
    BY <1>2 DEF Proceed, NoJob
  <2>2. JobTyped'
    BY EmptyIsOwn, <1>2, <2>1 DEF Typed, JobTyped
  <2>3. Begins
    BY <2>1 DEF Begins
  <2>4. ~seen'.over => move'.phase = "idle" /\ (Head(q).kind = "record" => PayerOf[Head(q).tx] = mgr)
    BY <2>1, <2>3, SeenTyped DEF Overtaken
  <2>5. ~seen'.over => Front'
    BY EmptyIsOwn, <1>2, <2>1, <2>4 DEF Front
  <2>6. QED
    BY <2>1, <2>2, <2>5 DEF QueueOK
<1>3. QED
  BY <1>1, <1>2

\* The call in front goes on: it is overtaken if it was.
LEMMA GoesOn ==
  ASSUME Typed, Watched, queue # <<>>, Len(queue') >= Len(queue), queue' # <<>>, queue \in Seq(AllCalls),
         ~seen'.over
  PROVE  ~seen.over /\ move'.phase = "idle"
<1>1. ~Begins
  <2>1. Len(queue) \in Nat
    OBVIOUS
  <2>2. ~(Len(queue') < Len(queue))
    BY <2>1
  <2>3. QED
    BY <2>2 DEF Begins
<1>2. QED
  BY <1>1, SeenTyped DEF Overtaken

-----------------------------------------------------------------------------
(* The steps of the running job.                                           *)

\* What a step of the job writes into the storage is what is then in the cache.
Writes == stored' = stored \/ (mgr # None /\ stored' = [stored EXCEPT ![mgr] = cache'])

\* What a step of the job has to keep.
LEMMA JobFrame ==
  ASSUME IInv, Watched, queue # <<>>, UNCHANGED <<accounts, view, world, sending>>,
         cache' \in Caches, Writes, JobTyped', QueueOK', budget' = budget \/ Spend("troubles"),
         job.phase # "load" /\ ~seen.over /\ Own(cache, mgr) => Own(cache', mgr),
         job.phase # "load" \/ cache' = cache \/ cache' = job.read
  PROVE  IInv'
<1>1. mgr' = mgr /\ move' = move /\ view' = view /\ scanned' = scanned /\ chain' = chain
  BY DEF accounts, world
<1>2. Typed'
  <2>1. stored' \in [Accounts -> Caches \cup {None}]
    BY DEF Writes, IInv, Typed
  <2>2. \A w \in DOMAIN budget' : budget'[w] \in Nat
    BY SpendOK DEF IInv
  <2>3. seen' \in [over : BOOLEAN, dirty : BOOLEAN, mixed : SUBSET Accounts]
    BY SeenTyped DEF IInv
  <2>4. QED
    BY <1>1, <2>1, <2>2, <2>3 DEF IInv, Typed
<1>3. ScansAreOwn' /\ MoveOK'
  BY <1>1 DEF IInv, ScansAreOwn, MoveOK
<1>4. ASSUME ~seen'.dirty PROVE CacheOf'
  <2>1. CASE cache' = cache
    <3>1. CacheOf
      BY <1>4, <2>1, CacheStays
    <3>2. QED
      BY <1>1, <2>1, <3>1 DEF CacheOf, Own
  <2>2. CASE cache' = Empty
    BY <2>2, EmptyIsOwn DEF CacheOf, Own
  <2>3. CASE cache' # cache /\ cache' # Empty
    <3>1. ~Dirty
      BY <1>4, SeenTyped DEF IInv
    <3>2. ~seen.over
      BY <2>3, <3>1 DEF Dirty
    <3>3. Front /\ mgr \in Accounts /\ move.phase = "idle"
      BY <3>2 DEF IInv, QueueOK, Front, Typed
    <3>4. CASE job.phase = "load"
      <4>1. cache' = job.read /\ job.read = stored[mgr] /\ mgr \notin seen.mixed
        BY <2>3, <3>1, <3>2, <3>3, <3>4 DEF Dirty, Front
      <4>2. Own(stored[mgr], mgr)
        BY <3>3, <4>1 DEF IInv, StoredIsOwn
      <4>3. QED
        BY <1>1, <3>3, <4>1, <4>2 DEF CacheOf, Own
    <3>5. CASE job.phase # "load"
      <4>1. ~seen.dirty
        BY <2>3, <3>1, <3>2, <3>5 DEF Dirty
      <4>2. Own(cache, mgr)
        BY <3>3, <4>1 DEF IInv, CacheIsOwn, CacheOf
      <4>3. Own(cache', mgr)
        BY <3>2, <3>5, <4>2
      <4>4. QED
        BY <1>1, <3>3, <4>3 DEF CacheOf, Own
    <3>6. QED
      BY <3>4, <3>5
  <2>4. QED
    BY <2>1, <2>2, <2>3
<1>5. CacheIsOwn'
  BY <1>4 DEF CacheIsOwn
<1>6. StoredIsOwn'
  <2>1. CASE stored' = stored
    BY <2>1, StoredStays DEF IInv, Typed
  <2>2. CASE mgr # None /\ stored' = [stored EXCEPT ![mgr] = cache']
    <3>1. ASSUME NEW a \in Accounts \ seen'.mixed, stored'[a] # None PROVE Own(stored'[a], a)
      <4>1. a \notin seen.mixed /\ (stored'[a] # stored[a] => ~seen.over /\ ~Dirty)
        BY <3>1, SeenTyped DEF Mixed, IInv
      <4>2. CASE stored'[a] = stored[a]
        BY <3>1, <4>1, <4>2 DEF IInv, StoredIsOwn
      <4>3. CASE stored'[a] # stored[a]
        <5>1. a = mgr /\ stored'[a] = cache'
          BY <2>2, <4>3 DEF IInv, Typed
        <5>2. ~seen.over /\ ~seen'.dirty
          BY <4>1, <4>3, SeenTyped DEF IInv
        <5>3. move.phase = "idle"
          BY <5>2 DEF IInv, QueueOK, Front
        <5>4. CacheOf' /\ mgr' # None /\ move'.phase = "idle"
          BY <1>1, <1>4, <2>2, <5>2, <5>3
        <5>5. QED
          BY <1>1, <5>1, <5>4 DEF CacheOf, Own
      <4>4. QED
        BY <4>2, <4>3
    <3>2. QED
      BY <3>1 DEF StoredIsOwn, Own
  <2>3. QED
    BY <2>1, <2>2 DEF Writes
<1>7. QED
  BY <1>2, <1>3, <1>5, <1>6 DEF IInv

\* What an undisturbed step of the job writes keeps what was stored.
Saves == ~seen.over /\ stored' # stored /\ mgr # None /\ stored[mgr] # None => Keeps(stored[mgr], cache')

\* The loop over the histories goes on, or the cache is saved: the histories are the
\* account's, the cache keeps what was stored and has the payment that is recorded.
LEMMA LoopOK ==
  ASSUME IInv, Watched, queue # <<>>, NEW c \in Caches, cache' = c, UNCHANGED <<mgr, move, view>>,
         NEW todo \in [Txs -> Heights \cup {None}], LoopOn(c, todo),
         ~seen.over => /\ \A tx \in Txs : todo[tx] # None =>
                            view = mgr /\ tx \in TxsOf[mgr] /\ Head(queue).kind = "get"
                       /\ stored[mgr] # None => Keeps(stored[mgr], c)
                       /\ Head(queue).kind = "record" => c[Head(queue).tx] # None
  PROVE  JobTyped' /\ QueueOK' /\ Writes /\ Saves
<1> DEFINE due == {tx \in Txs : todo[tx] # None /\ Due(c, tx)}
<1>0. queue \in Seq(AllCalls) /\ Typed /\ JobTyped
  BY DEF IInv, QueueOK
<1>1. Head(queue) \in AllCalls /\ Tail(queue) \in Seq(AllCalls) /\ Len(Tail(queue)) < Len(queue)
  BY <1>0
<1>2. CASE due # {}
  <2>1. PICK tx \in due :
          job' = [job EXCEPT !.phase = "raw", !.todo = [todo EXCEPT ![tx] = None],
                             !.height = todo[tx], !.tx = tx, !.cached = c[tx]]
    BY <1>2 DEF LoopOn
  <2>2. queue' = queue /\ stored' = stored
    BY <1>2 DEF LoopOn
  <2>3. /\ job'.phase = "raw" /\ job'.todo = [todo EXCEPT ![tx] = None]
        /\ job'.height = todo[tx] /\ job'.tx = tx /\ job'.cached = c[tx]
        /\ job'.read = job.read /\ job'.entry = job.entry
    BY <1>0, <2>1 DEF JobTyped
  <2>4. JobTyped'
    <3>1. tx \in Txs /\ c[tx] \in Entries \cup {None}
      BY DEF Caches
    <3>2. QED
      BY <1>0, <2>1, <2>3, <3>1 DEF JobTyped
  <2>5. ASSUME ~seen'.over PROVE Front'
    <3>1. ~seen.over
      BY <1>0, <2>2, <2>5, GoesOn
    <3>2. Front /\ tx \in Txs /\ todo[tx] # None
      BY <3>1 DEF IInv, QueueOK
    <3>3. c[tx] # None => c[tx].status = "pending"
      BY DEF Due
    <3>4. QED
      BY <2>2, <2>3, <3>1, <3>2, <3>3 DEF Front
  <2>6. QueueOK'
    BY <1>0, <2>2, <2>3, <2>5 DEF QueueOK
  <2>7. QED
    BY <2>2, <2>4, <2>6 DEF Writes, Saves
<1>3. CASE due = {} /\ mgr = None
  <2>1. Proceed(Tail(queue)) /\ stored' = stored
    BY <1>3 DEF LoopOn, Reject
  <2>2. QED
    BY <1>0, <1>1, <2>1, ProceedOK DEF Writes, Saves
<1>4. CASE due = {} /\ mgr # None
  <2>1. stored' = [stored EXCEPT ![mgr] = c] /\ job' = [NoJob EXCEPT !.phase = "save"] /\ queue' = queue
    BY <1>4 DEF LoopOn
  <2>2. JobTyped'
    BY EmptyIsOwn, <2>1 DEF JobTyped, NoJob
  <2>3. ASSUME ~seen'.over PROVE Front'
    <3>1. ~seen.over
      BY <1>0, <2>1, <2>3, GoesOn
    <3>2. Front
      BY <3>1 DEF IInv, QueueOK
    <3>3. stored'[mgr] = c /\ c # None
      BY <1>0, <1>4, <2>1 DEF Typed
    <3>4. job'.phase = "save" /\ \A tx \in Txs : job'.todo[tx] = None
      BY EmptyIsOwn, <2>1 DEF NoJob
    <3>5. Keeps(c, c)
      BY DEF Keeps
    <3>6. QED
      BY <2>1, <3>1, <3>2, <3>3, <3>4, <3>5 DEF Front, Listed
  <2>4. QueueOK'
    BY <1>0, <2>1, <2>3 DEF QueueOK, NoJob
  <2>5. QED
    BY <1>4, <2>1, <2>2, <2>4 DEF Writes, Saves
<1>5. QED
  BY <1>2, <1>3, <1>4

\* Both calls ask for the price after they have read, but for a record that is there.
LEMMA AfterLoadOK ==
  ASSUME IInv, Watched, queue # <<>>, NEW c \in Caches, AfterLoad(c), cache' = c,
         UNCHANGED <<mgr, move, view, scanned, stored>>,
         ~seen.over /\ stored[mgr] # None => Keeps(stored[mgr], c)
  PROVE  JobTyped' /\ QueueOK'
<1>0. queue \in Seq(AllCalls) /\ Typed /\ JobTyped
  BY DEF IInv, QueueOK
<1>1. Head(queue) \in AllCalls /\ Tail(queue) \in Seq(AllCalls) /\ Len(Tail(queue)) < Len(queue)
  BY <1>0
<1>2. CASE Head(queue).kind # "get" /\ c[Head(queue).tx] # None
  BY <1>0, <1>1, <1>2, ProceedOK DEF AfterLoad
<1>3. CASE ~(Head(queue).kind # "get" /\ c[Head(queue).tx] # None)
  <2> DEFINE todo == IF Head(queue).kind = "get" THEN Histories ELSE Empty
  <2>1. queue' = queue /\ job' = [NoJob EXCEPT !.phase = "price", !.todo = todo]
    BY <1>3 DEF AfterLoad, NoJob
  <2>2. todo \in [Txs -> Heights \cup {None}]
    BY <1>0, EmptyIsOwn DEF Histories, Typed
  <2>3. ASSUME ~seen.over PROVE \A tx \in Txs : todo[tx] # None => view = mgr /\ tx \in TxsOf[mgr]
    <3>1. Front /\ view \in {None, mgr} /\ mgr \in Accounts
      BY <2>3 DEF IInv, QueueOK, Front, MoveOK, Typed
    <3>2. QED
      BY <3>1, EmptyIsOwn DEF Histories, IInv, ScansAreOwn
  <2> HIDE DEF todo
  <2>4. JobTyped' /\ job'.phase = "price" /\ job'.todo = todo
    BY <2>1, <2>2 DEF JobTyped, NoJob
  <2>5. ASSUME ~seen'.over PROVE Front'
    <3>1. ~seen.over
      BY <1>0, <2>1, <2>5, GoesOn
    <3>2. Front
      BY <3>1 DEF IInv, QueueOK
    <3>3. Head(queue).kind = "record" => c[Head(queue).tx] = None
      BY <1>1, <1>3
    <3>4. QED
      BY <2>1, <2>3, <2>4, <3>1, <3>2, <3>3 DEF Front
  <2>6. QueueOK'
    BY <1>0, <2>1, <2>4, <2>5 DEF QueueOK
  <2>7. QED
    BY <2>4, <2>6
<1>4. QED
  BY <1>2, <1>3

\* A job that runs has its call in front.
LEMMA JobRuns ==
  ASSUME IInv, job.phase # "idle"
  PROVE  queue # <<>> /\ queue \in Seq(AllCalls) /\ Head(queue) \in AllCalls /\ (~seen.over => Front)
BY DEF IInv, QueueOK, NoJob

\* The read of loadTxHistory() returns.
LEMMA LoadedIInv == ASSUME IInv, Watched, Loaded PROVE IInv' /\ Saves
<1>1. /\ queue # <<>> /\ (~seen.over => Front) /\ budget' = budget
      /\ UNCHANGED <<accounts, view, world, sending>> /\ UNCHANGED <<mgr, move, view, scanned>>
      /\ queue \in Seq(AllCalls) /\ job.phase = "load"
  BY JobRuns DEF Loaded, accounts, world
<1>2. CASE job.read # None
  <2>1. cache' = job.read /\ AfterLoad(cache') /\ stored' = stored
    BY <1>2 DEF Loaded, Take
  <2>2. cache' \in Caches
    BY <1>2, <2>1 DEF IInv, JobTyped
  <2>3. ~seen.over /\ stored[mgr] # None => Keeps(stored[mgr], cache')
    BY <1>1, <2>1 DEF Front, Keeps
  <2>4. JobTyped' /\ QueueOK'
    BY <1>1, <2>1, <2>2, <2>3, AfterLoadOK
  <2>5. QED
    BY <1>1, <2>1, <2>2, <2>4, JobFrame DEF Writes, Saves
<1>3. CASE job.read = None /\ mgr = None
  <2>1. cache' = cache /\ stored' = stored /\ Proceed(Tail(queue))
    BY <1>3 DEF Loaded, Reject
  <2>2. Tail(queue) \in Seq(AllCalls) /\ Len(Tail(queue)) < Len(queue) /\ cache \in Caches /\ Typed
    BY <1>1 DEF IInv, Typed
  <2>3. JobTyped' /\ QueueOK'
    BY <1>1, <2>1, <2>2, ProceedOK
  <2>4. QED
    BY <1>1, <2>1, <2>2, <2>3, JobFrame DEF Writes, Saves
<1>4. CASE job.read = None /\ mgr # None
  <2>1. /\ cache' = cache /\ stored' = [stored EXCEPT ![mgr] = cache]
        /\ job' = [NoJob EXCEPT !.phase = "saveEmpty"] /\ queue' = queue
    BY <1>4 DEF Loaded
  <2>2. JobTyped'
    BY EmptyIsOwn, <2>1 DEF JobTyped, NoJob
  <2>3. ASSUME ~seen'.over PROVE Front'
    <3>1. ~seen.over
      BY <1>1, <2>1, <2>3, GoesOn DEF IInv
    <3>2. Front
      BY <1>1, <3>1
    <3>3. stored'[mgr] = cache
      BY <1>4, <2>1 DEF IInv, Typed
    <3>4. job'.phase = "saveEmpty" /\ \A tx \in Txs : job'.todo[tx] = None
      BY EmptyIsOwn, <2>1 DEF NoJob
    <3>5. QED
      BY <1>1, <2>1, <3>2, <3>3, <3>4 DEF Front, Keeps
  <2>4. QueueOK'
    BY <1>1, <2>1, <2>3 DEF QueueOK, NoJob
  <2>5. cache' \in Caches /\ Writes
    BY <1>4, <2>1 DEF IInv, Typed, Writes
  <2>6. Saves
    BY <1>1, <1>4 DEF Saves, Front
  <2>7. QED
    BY <1>1, <2>1, <2>2, <2>4, <2>5, <2>6, JobFrame
<1>5. QED
  BY <1>2, <1>3, <1>4

\* The cache was saved as it is, and the call goes on with it.
LEMMA EmptySavedIInv == ASSUME IInv, Watched, EmptySaved PROVE IInv'
<1>1. /\ queue # <<>> /\ (~seen.over => Front) /\ UNCHANGED <<mgr, move, view, scanned>>
      /\ UNCHANGED <<accounts, view, world, sending, cache, stored, budget>> /\ AfterLoad(cache)
      /\ job.phase = "saveEmpty" /\ cache \in Caches
  BY JobRuns DEF EmptySaved, accounts, world, IInv, Typed
<1>2. ~seen.over /\ stored[mgr] # None => Keeps(stored[mgr], cache)
  BY <1>1 DEF Front
<1>3. JobTyped' /\ QueueOK'
  BY <1>1, <1>2, AfterLoadOK
<1>4. QED
  BY <1>1, <1>3, JobFrame DEF Writes

\* The price is there: the loop over the histories begins, or a payment gets its entry.
LEMMA PricedIInv == ASSUME IInv, Watched, Priced PROVE IInv' /\ Saves
<1> DEFINE k == Head(queue)
<1>1. /\ queue # <<>> /\ (~seen.over => Front) /\ UNCHANGED <<mgr, move, view>>
      /\ UNCHANGED <<accounts, view, world, sending, budget>>
      /\ job.phase = "price" /\ cache \in Caches /\ k \in AllCalls
  BY JobRuns DEF Priced, accounts, IInv, Typed
<1>2. CASE k.kind = "get"
  <2>1. LoopOn(cache, job.todo) /\ cache' = cache
    BY <1>2 DEF Priced
  <2>2. job.todo \in [Txs -> Heights \cup {None}]
    BY DEF IInv, JobTyped
  <2>3. ~seen.over => /\ \A tx \in Txs : job.todo[tx] # None =>
                            view = mgr /\ tx \in TxsOf[mgr] /\ Head(queue).kind = "get"
                      /\ stored[mgr] # None => Keeps(stored[mgr], cache)
                      /\ Head(queue).kind = "record" => cache[Head(queue).tx] # None
    BY <1>1, <1>2 DEF Front
  <2>4. JobTyped' /\ QueueOK' /\ Writes /\ Saves
    BY <1>1, <2>1, <2>2, <2>3, LoopOK
  <2>5. QED
    BY <1>1, <2>1, <2>4, JobFrame
<1>3. CASE k.kind # "get"
  <2> DEFINE e == Entry("pending", FALSE, PayerOf[k.tx])
             c == [cache EXCEPT ![k.tx] = e]
  <2>1. k.tx \in Payments /\ k.tx \in Txs /\ k.kind = "record"
    BY <1>1, <1>3 DEF AllCalls, Get, Record
  <2>2. cache' = c /\ LoopOn(c, Empty)
    BY <1>3 DEF Priced
  <2>3. e \in Entries /\ e.of = PayerOf[k.tx] /\ e # None
    <3> DEFINE payer == PayerOf[k.tx]
    <3>1. payer \in Accounts
      BY <2>1
    <3> HIDE DEF payer
    <3>2. Entry("pending", FALSE, payer) \in Entries /\ Entry("pending", FALSE, payer).of = payer
      BY <3>1 DEF Entry, Entries
    <3>3. QED
      BY <3>2 DEF payer
  <2> HIDE DEF e
  <2>4. c \in Caches /\ c[k.tx] # None
    BY <1>1, <2>1, <2>3 DEF Caches
  <2>5. ASSUME ~seen.over PROVE PayerOf[k.tx] = mgr /\ cache[k.tx] = None
    BY <1>1, <2>1, <2>5 DEF Front
  <2>6. ~seen.over /\ Own(cache, mgr) => Own(c, mgr)
    BY <1>1, <2>1, <2>3, <2>5 DEF Own, Caches
  <2>7. ~seen.over /\ stored[mgr] # None => Keeps(stored[mgr], c)
    BY <1>1, <2>1, <2>3, <2>5 DEF Keeps, Caches, Front
  <2>8. JobTyped' /\ QueueOK' /\ Writes /\ Saves
    <3>1. ~seen.over => /\ \A tx \in Txs : Empty[tx] # None =>
                              view = mgr /\ tx \in TxsOf[mgr] /\ Head(queue).kind = "get"
                        /\ stored[mgr] # None => Keeps(stored[mgr], c)
                        /\ Head(queue).kind = "record" => c[Head(queue).tx] # None
      BY EmptyIsOwn, <2>4, <2>7
    <3> HIDE DEF c
    <3>2. QED
      BY EmptyIsOwn, <1>1, <2>2, <2>4, <3>1, LoopOK
  <2> HIDE DEF c
  <2>9. QED
    BY <1>1, <2>2, <2>4, <2>6, <2>8, JobFrame
<1>4. QED
  BY <1>2, <1>3

\* The raw transaction arrives, and the entry is of the account whose addresses are there.
LEMMA RawArrivesIInv == ASSUME IInv, Watched, RawArrives PROVE IInv'
<1> DEFINE conf == (chain[job.tx] = "mined")
           e == Entry("pending", conf, view)
<1>1. /\ queue # <<>> /\ (~seen.over => Front) /\ UNCHANGED <<mgr, move, view>>
      /\ UNCHANGED <<accounts, view, world, sending, cache, stored, queue, budget>>
      /\ job.phase = "raw" /\ queue \in Seq(AllCalls)
  BY JobRuns DEF RawArrives, accounts
<1>2. job' = [job EXCEPT !.phase = "build", !.entry = e]
  BY DEF RawArrives
<1>3. conf \in BOOLEAN /\ view \in Accounts \cup {None}
  BY DEF IInv, Typed
<1> HIDE DEF conf
<1>4. e \in Entries /\ e # None /\ e.of = view
  BY <1>3 DEF Entry, Entries
<1> HIDE DEF e
<1>5. JobTyped'
  BY <1>1, <1>2, <1>4 DEF IInv, JobTyped
<1>6. ASSUME ~seen'.over PROVE Front'
  <2>1. ~seen.over
    BY <1>1, <1>6, GoesOn DEF IInv
  <2>2. QED
    BY <1>1, <1>2, <1>4, <2>1 DEF IInv, JobTyped, Front, Listed
<1>7. QueueOK'
  BY <1>1, <1>2, <1>6 DEF QueueOK, IInv, JobTyped
<1>8. cache' \in Caches
  BY <1>1 DEF IInv, Typed
<1>9. QED
  BY <1>1, <1>5, <1>7, <1>8, JobFrame DEF Writes

\* An entry is complete; it replaces one that was pending, so that nothing is taken back.
LEMMA BuiltIInv == ASSUME IInv, Watched, NEW proved \in BOOLEAN, Built(proved) PROVE IInv' /\ Saves
<1> DEFINE e == [job.entry EXCEPT !.status = Status(job.entry.conf, proved)]
           c == IF Changed(job.cached, e) THEN [cache EXCEPT ![job.tx] = e] ELSE cache
<1>1. /\ queue # <<>> /\ (~seen.over => Front) /\ UNCHANGED <<mgr, move, view>>
      /\ UNCHANGED <<accounts, view, world, sending>>
      /\ budget' = budget \/ Spend("troubles")
      /\ job.phase = "build" /\ cache \in Caches
  BY JobRuns DEF Built, accounts, IInv, Typed
<1>2. /\ job.entry \in Entries /\ job.tx \in Txs
      /\ job.todo \in [Txs -> Heights \cup {None}]
  BY <1>1 DEF IInv, JobTyped
<1>3. e \in Entries /\ e.of = job.entry.of /\ e # None
  BY <1>2 DEF Entries, Status
<1>4. cache' = c /\ LoopOn(c, job.todo)
  BY DEF Built
<1> HIDE DEF e
<1>5. c \in Caches
  BY <1>1, <1>2, <1>3 DEF Caches
<1>6. ~seen.over /\ Own(cache, mgr) => Own(c, mgr)
  BY <1>1, <1>2, <1>3 DEF Own, Caches, Front
<1>7. ~seen.over /\ stored[mgr] # None => Keeps(stored[mgr], c)
  BY <1>1, <1>2, <1>3 DEF Keeps, Caches, Front
<1> HIDE DEF c
<1>8. ~seen.over => /\ \A tx \in Txs : job.todo[tx] # None =>
                          view = mgr /\ tx \in TxsOf[mgr] /\ Head(queue).kind = "get"
                    /\ stored[mgr] # None => Keeps(stored[mgr], c)
                    /\ Head(queue).kind = "record" => c[Head(queue).tx] # None
  BY <1>1, <1>7 DEF Front
<1>9. JobTyped' /\ QueueOK' /\ Writes /\ Saves
  BY <1>1, <1>2, <1>4, <1>5, <1>8, LoopOK
<1>10. cache' \in Caches /\ (~seen.over /\ Own(cache, mgr) => Own(cache', mgr))
  BY <1>4, <1>5, <1>6
<1>11. QED
  BY <1>1, <1>9, <1>10, JobFrame

\* The call is over, saved or rejected, and the next one reads.
LEMMA JobEndsIInv == ASSUME IInv, Watched, Saved \/ RequestFails PROVE IInv'
<1>1. /\ queue # <<>> /\ queue \in Seq(AllCalls) /\ mgr' = mgr
      /\ UNCHANGED <<accounts, view, world, sending, cache, stored>> /\ Proceed(Tail(queue))
      /\ budget' = budget \/ Spend("troubles")
  BY JobRuns DEF Saved, RequestFails, Reject, accounts
<1>2. Tail(queue) \in Seq(AllCalls) /\ Len(Tail(queue)) < Len(queue) /\ cache' \in Caches /\ Typed
  BY <1>1 DEF IInv, Typed
<1>3. JobTyped' /\ QueueOK'
  BY <1>1, <1>2, ProceedOK
<1>4. QED
  BY <1>1, <1>2, <1>3, JobFrame DEF Writes

-----------------------------------------------------------------------------
(* The calls of the service and the payments.                              *)

\* What a step outside the job has to keep: the cache and what is stored stay.
LEMMA OtherFrame ==
  ASSUME IInv, Watched, Typed', ScansAreOwn', MoveOK', JobTyped', QueueOK', cache' = cache,
         \A a \in Accounts : stored'[a] \in {stored[a], None},
         CacheOf => CacheOf'
  PROVE  IInv'
<1>1. CacheIsOwn'
  BY CacheStays DEF CacheIsOwn
<1>2. QED
  BY <1>1, StoredStays DEF IInv

\* A call is queued.
LEMMA CallIInv ==
  ASSUME IInv, Watched, NEW k \in AllCalls, WithLock(k), sending' \subseteq sending,
         k = Get => mgr # None,
         UNCHANGED <<accounts, view, world, cache, stored, budget>>
  PROVE  IInv'
<1>1. mgr' = mgr /\ move' = move /\ scanned' = scanned /\ chain' = chain /\ queue \in Seq(AllCalls)
  BY DEF accounts, world, IInv, QueueOK
<1>2. JobTyped' /\ QueueOK'
  <2>1. CASE queue = <<>>
    <3>1. <<k>> \in Seq(AllCalls) /\ Proceed(<<k>>) /\ Typed
      BY <2>1 DEF WithLock, IInv
    <3>2. QED
      BY <1>1, <2>1, <3>1, ProceedOK
  <2>2. CASE queue # <<>>
    <3>1. queue' = Append(queue, k) /\ job' = job
      BY <2>2 DEF WithLock
    <3>2. queue' \in Seq(AllCalls) /\ queue' # <<>> /\ Head(queue') = Head(queue) /\ Len(queue') >= Len(queue)
      BY <1>1, <2>2, <3>1
    <3>3. JobTyped'
      BY <3>1 DEF IInv, JobTyped
    <3>4. ASSUME ~seen'.over PROVE Front'
      <4>1. ~seen.over
        BY <1>1, <2>2, <3>2, <3>4, GoesOn DEF IInv
      <4>2. Front
        BY <2>2, <4>1 DEF IInv, QueueOK
      <4>3. QED
        BY <1>1, <3>1, <3>2, <4>2 DEF Front, Listed, Keeps
    <3>5. QueueOK'
      BY <2>2, <3>1, <3>2, <3>4 DEF IInv, QueueOK
    <3>6. QED
      BY <3>3, <3>5
  <2>3. QED
    BY <2>1, <2>2
<1>3. Typed'
  BY <1>1, SeenTyped DEF IInv, Typed
<1>4. ScansAreOwn' /\ MoveOK' /\ (CacheOf => CacheOf')
  BY <1>1 DEF IInv, ScansAreOwn, MoveOK, CacheOf, Own
<1>5. \A a \in Accounts : stored'[a] \in {stored[a], None}
  OBVIOUS
<1>6. QED
  BY <1>2, <1>3, <1>4, <1>5, OtherFrame

\* The job does not move, and its call is overtaken if it was.
LEMMA JobStays ==
  ASSUME IInv, Watched, queue' = queue, job' = job,
         ~seen.over /\ queue # <<>> => /\ mgr' = mgr /\ (view # None => view' = view)
                                      /\ cache' = cache /\ stored' = stored
  PROVE  JobTyped' /\ QueueOK'
<1>1. JobTyped'
  BY DEF IInv, JobTyped
<1>2. queue \in Seq(AllCalls)
  BY DEF IInv, QueueOK
<1>3. ASSUME queue # <<>>, ~seen'.over PROVE Front'
  <2>1. ~seen.over /\ move'.phase = "idle"
    BY <1>2, <1>3, GoesOn DEF IInv
  <2>2. Front /\ mgr' = mgr /\ mgr # None /\ cache' = cache /\ stored' = stored
    BY <1>3, <2>1 DEF IInv, QueueOK, Front
  <2>3. view = mgr => view' = view
    BY <1>3, <2>1, <2>2
  <2>4. QED
    BY <2>1, <2>2, <2>3 DEF Front, Listed, Keeps
<1>4. queue = <<>> => ~seen'.over
  BY SeenTyped DEF Overtaken, IInv
<1>5. QueueOK'
  BY <1>2, <1>3, <1>4 DEF IInv, QueueOK
<1>6. QED
  BY <1>1, <1>5

\* A broadcast and its answer change no history.
LEMMA SendingIInv ==
  ASSUME IInv, Watched, NEW tx \in Payments, Broadcast(tx) \/ BroadcastLost(tx)
  PROVE  IInv'
<1>1. /\ mgr' = mgr /\ move' = move /\ view' = view /\ scanned' = scanned
      /\ UNCHANGED <<cache, stored, queue, job>> /\ sending' \subseteq Payments
      /\ chain' \in [Txs -> Heights]
      /\ \A w \in DOMAIN budget' : budget'[w] \in Nat
  BY SpendOK DEF Broadcast, BroadcastLost, accounts, world, IInv, Typed, Heights
<1>2. JobTyped' /\ QueueOK'
  BY <1>1, JobStays
<1>3. Typed'
  BY <1>1, SeenTyped DEF IInv, Typed
<1>4. ScansAreOwn' /\ MoveOK' /\ (CacheOf => CacheOf')
  BY <1>1 DEF IInv, ScansAreOwn, MoveOK, CacheOf, Own
<1>5. QED
  BY <1>1, <1>2, <1>3, <1>4, OtherFrame

\* Every call of the service keeps the invariant.
LEMMA CallsIInv ==
  ASSUME IInv, Watched,
         AskHistory \/ \E tx \in Payments : Broadcast(tx) \/ BroadcastAnswered(tx) \/ BroadcastLost(tx)
  PROVE  IInv'
<1>1. CASE AskHistory
  BY <1>1, CallIInv DEF AskHistory, AllCalls
<1>2. ASSUME NEW tx \in Payments, BroadcastAnswered(tx) PROVE IInv'
  <2>1. Record(tx) \in AllCalls /\ Record(tx) # Get
    BY DEF AllCalls, Record, Get
  <2>2. QED
    BY <1>2, <2>1, CallIInv DEF BroadcastAnswered
<1>3. QED
  BY <1>1, <1>2, SendingIInv

-----------------------------------------------------------------------------
(* Operations on accounts, the chain and its scans.                        *)

\* An operation on accounts begins: the call in front is overtaken.
LEMMA MovesBegin ==
  ASSUME IInv, Watched,
         Logout \/ \E a \in Accounts : MoveAccount(a) \/ CreateAccount(a) \/ MoveNetwork(a)
  PROVE  IInv'
<1>1. /\ mgr \in Accounts /\ move.phase = "idle" /\ UNCHANGED <<cache, queue, job, sending, chain>>
      /\ \A w \in DOMAIN budget' : budget'[w] \in Nat
  BY SpendOK DEF Logout, MoveAccount, CreateAccount, MoveNetwork, MayMove, world, IInv, Typed
<1>2. CacheOf => Own(cache, mgr)
  BY <1>1 DEF CacheOf
<1>3. CASE Logout
  <2>1. /\ scanned' \in [Accounts -> [Txs -> Heights]] /\ stored' \in [Accounts -> Caches \cup {None}]
        /\ mgr' = mgr /\ view' = None /\ move' = [phase |-> "wiping", prev |-> mgr]
        /\ \A a \in Accounts : stored'[a] \in {stored[a], None}
    BY <1>1, <1>3 DEF Logout, IInv, Typed, Heights
  <2>2. Typed' /\ MoveOK' /\ CacheOf'
    BY <1>1, <2>1, SeenTyped DEF IInv, Typed, MoveOK, CacheOf
  <2>3. ScansAreOwn'
    BY <1>1, <1>3 DEF Logout, IInv, Typed, ScansAreOwn
  <2>4. JobTyped'
    BY <1>1 DEF IInv, JobTyped
  <2>5. queue # <<>> => seen'.over
    BY <1>1, <2>1, SeenTyped DEF Overtaken, IInv
  <2>6. queue = <<>> => ~seen'.over
    BY <1>1, SeenTyped DEF Overtaken, IInv
  <2>7. QueueOK'
    BY <1>1, <2>5, <2>6 DEF IInv, QueueOK
  <2>8. QED
    BY <1>1, <2>1, <2>2, <2>3, <2>4, <2>7, OtherFrame
<1>4. ASSUME NEW a \in Accounts, MoveAccount(a) \/ CreateAccount(a) \/ MoveNetwork(a) PROVE IInv'
  <2>1. /\ UNCHANGED <<scanned, stored>> /\ mgr' = a /\ view' \in Accounts \cup {None}
        /\ \/ view' = None /\ move' = [phase |-> "loading", prev |-> mgr]
           \/ move' = [phase |-> "connecting", prev |-> mgr]
           \/ move' = [phase |-> "creating", prev |-> mgr]
    BY <1>4 DEF MoveAccount, CreateAccount, MoveNetwork, world, IInv, Typed
  <2>2. Typed' /\ MoveOK'
    BY <1>1, <2>1, SeenTyped DEF IInv, Typed, MoveOK
  <2>3. CacheOf => CacheOf'
    BY <1>1, <1>2, <2>1 DEF CacheOf, Own
  <2>4. ScansAreOwn'
    BY <2>1 DEF IInv, ScansAreOwn
  <2>5. JobTyped'
    BY <1>1 DEF IInv, JobTyped
  <2>6. move'.phase # "idle"
    BY <2>1
  <2>7. /\ queue # <<>> => seen'.over
        /\ queue = <<>> => ~seen'.over
    BY <1>1, <2>6, SeenTyped DEF Overtaken, IInv
  <2>8. QueueOK'
    BY <1>1, <2>7 DEF IInv, QueueOK
  <2>9. QED
    BY <1>1, <2>1, <2>2, <2>3, <2>4, <2>5, <2>8, OtherFrame
<1>5. QED
  BY <1>3, <1>4

\* An operation on accounts ends, with the cache reset or the previous account's again.
LEMMA MovesEnd ==
  ASSUME IInv, Watched, Connected \/ ConnectFails \/ FinishMove \/ Wiped
  PROVE  IInv'
<1>1. /\ mgr \in Accounts /\ move.prev \in Accounts /\ move.phase # "idle" /\ (queue # <<>> => seen.over)
      /\ UNCHANGED <<stored, queue, job, sending, chain, scanned>>
  BY DEF Connected, ConnectFails, FinishMove, Wiped, world, IInv, Typed, MoveOK, QueueOK, Front
<1>2. \A w \in DOMAIN budget' : budget'[w] \in Nat
  BY SpendOK DEF Connected, ConnectFails, FinishMove, Wiped, IInv
<1>3. ScansAreOwn' /\ StoredIsOwn'
  BY <1>1, StoredStays DEF IInv, ScansAreOwn
<1>4. JobTyped' /\ QueueOK'
  BY <1>1, JobStays
<1>5. CASE Connected
  <2>1. Typed' /\ MoveOK' /\ CacheOf' /\ cache' = cache
    BY <1>1, <1>2, <1>5, SeenTyped DEF Connected, IInv, Typed, MoveOK, CacheOf
  <2>2. QED
    BY <1>1, <1>3, <1>4, <2>1, OtherFrame
<1>6. CASE ConnectFails
  <2>1. Typed' /\ MoveOK' /\ cache' = cache
    BY <1>1, <1>2, <1>6, SeenTyped DEF ConnectFails, IInv, Typed, MoveOK
  <2>2. CacheOf => CacheOf'
    BY <1>6 DEF ConnectFails, CacheOf, Own
  <2>3. QED
    BY <1>1, <1>3, <1>4, <2>1, <2>2, OtherFrame
<1>7. CASE FinishMove
  <2>1. /\ mgr' = mgr /\ view' = view /\ move' = [phase |-> "idle", prev |-> None] /\ view = mgr
        /\ \/ cache' = Empty
           \/ cache' = cache /\ move.phase = "restoring" /\ mgr = move.prev
    BY <1>7 DEF FinishMove, NoMove, IInv, MoveOK
  <2>2. Typed' /\ MoveOK'
    BY <1>1, <1>2, <2>1, EmptyIsOwn, SeenTyped DEF IInv, Typed, MoveOK
  <2>3. CASE cache' = Empty
    <3>1. CacheIsOwn'
      BY EmptyIsOwn, <2>3 DEF CacheIsOwn, CacheOf, Own
    <3>2. QED
      BY <1>3, <1>4, <2>2, <3>1 DEF IInv
  <2>4. CASE cache' = cache /\ move.phase = "restoring" /\ mgr = move.prev
    <3>1. CacheOf => CacheOf'
      BY <1>1, <2>1, <2>4 DEF CacheOf, Own
    <3>2. QED
      BY <1>1, <1>3, <1>4, <2>2, <2>4, <3>1, OtherFrame
  <2>5. QED
    BY <2>1, <2>3, <2>4
<1>8. CASE Wiped
  <2>1. /\ mgr' = None /\ view' = view /\ view = None /\ cache' = Empty
        /\ move' = [phase |-> "idle", prev |-> None]
    BY <1>8 DEF Wiped, NoMove, IInv, MoveOK
  <2>2. Typed' /\ MoveOK'
    BY <1>1, <1>2, <2>1, EmptyIsOwn, SeenTyped DEF IInv, Typed, MoveOK
  <2>3. CacheIsOwn'
    BY <2>1 DEF CacheIsOwn, CacheOf, Empty
  <2>4. QED
    BY <1>3, <1>4, <2>2, <2>3 DEF IInv
<1>9. QED
  BY <1>5, <1>6, <1>7, <1>8

\* The worker starts again.
LEMMA RestartIInv == ASSUME IInv, Watched, Restart PROVE IInv'
<1>1. /\ UNCHANGED <<mgr, move, scanned, chain, stored>> /\ view' = None /\ cache' = Empty
      /\ sending' = {} /\ queue' = <<>> /\ job' = NoJob /\ move.phase = "idle"
      /\ \A w \in DOMAIN budget' : budget'[w] \in Nat
  BY SpendOK DEF Restart, accounts, world, IInv
<1>2. Typed'
  BY <1>1, EmptyIsOwn, SeenTyped DEF IInv, Typed
<1>3. ScansAreOwn' /\ MoveOK' /\ CacheIsOwn'
  BY <1>1, EmptyIsOwn DEF IInv, ScansAreOwn, MoveOK, CacheIsOwn, CacheOf, Own
<1>4. StoredIsOwn'
  BY <1>1, StoredStays
<1>5. JobTyped'
  BY <1>1, EmptyIsOwn DEF JobTyped, NoJob
<1>6. QueueOK'
  <2>1. ~seen'.over
    BY <1>1, SeenTyped DEF Overtaken, IInv
  <2>2. QED
    BY <1>1, <2>1 DEF QueueOK
<1>7. QED
  BY <1>2, <1>3, <1>4, <1>5, <1>6 DEF IInv

\* The wallet is restored, or the scan manager loads.
LEMMA LoadsIInv ==
  ASSUME IInv, Watched, ScansLoaded \/ \E a \in Accounts : RestoreWallet(a)
  PROVE  IInv'
<1>1. CASE ScansLoaded
  <2>1. /\ UNCHANGED <<mgr, move, scanned, chain, sending, cache, stored, queue, job, budget>>
        /\ view = None /\ view' = mgr /\ mgr \in Accounts /\ move.phase # "wiping"
    BY <1>1 DEF ScansLoaded, accounts, world, IInv, Typed
  <2>2. JobTyped' /\ QueueOK'
    BY <2>1, JobStays
  <2>3. Typed'
    BY <2>1, SeenTyped DEF IInv, Typed
  <2>4. ScansAreOwn' /\ MoveOK' /\ (CacheOf => CacheOf')
    BY <2>1 DEF IInv, ScansAreOwn, MoveOK, CacheOf, Own
  <2>5. QED
    BY <2>1, <2>2, <2>3, <2>4, OtherFrame
<1>2. ASSUME NEW a \in Accounts, RestoreWallet(a) PROVE IInv'
  <2>1. /\ UNCHANGED <<move, view, scanned, chain, sending, cache, stored, queue, job, budget>>
        /\ mgr = None /\ mgr' = a /\ move.phase = "idle" /\ view = None
    BY <1>2 DEF RestoreWallet, world, IInv, MoveOK, Typed
  <2>2. queue # <<>> => seen.over
    BY <2>1 DEF IInv, QueueOK, Front
  <2>3. JobTyped' /\ QueueOK'
    BY <2>1, <2>2, JobStays
  <2>4. Typed'
    BY <1>2, <2>1, SeenTyped DEF IInv, Typed
  <2>5. ScansAreOwn' /\ MoveOK'
    BY <2>1 DEF IInv, ScansAreOwn, MoveOK
  <2>6. CacheOf => CacheOf'
    BY EmptyIsOwn, <2>1 DEF CacheOf, Own
  <2>7. QED
    BY <2>1, <2>3, <2>4, <2>5, <2>6, OtherFrame
<1>3. QED
  BY <1>1, <1>2

\* The chain goes on, and a scan records what is the account's.
LEMMA ChainIInv ==
  ASSUME IInv, Watched, NEW tx \in Txs, Arrive(tx) \/ Mine(tx) \/ Scan(tx) PROVE IInv'
<1>1. UNCHANGED <<mgr, move, view, sending, cache, stored, queue, job, budget>>
  BY DEF Arrive, Mine, Scan, accounts
<1>2. chain' \in [Txs -> Heights] /\ scanned' \in [Accounts -> [Txs -> Heights]] /\ ScansAreOwn'
  <2>1. CASE Arrive(tx) \/ Mine(tx)
    BY <2>1 DEF Arrive, Mine, IInv, Typed, Heights, ScansAreOwn
  <2>2. CASE Scan(tx)
    BY <2>2 DEF Scan, IInv, Typed, ScansAreOwn
  <2>3. QED
    BY <2>1, <2>2
<1>3. JobTyped' /\ QueueOK'
  BY <1>1, JobStays
<1>4. Typed'
  BY <1>1, <1>2, SeenTyped DEF IInv, Typed
<1>5. MoveOK' /\ (CacheOf => CacheOf')
  BY <1>1 DEF IInv, MoveOK, CacheOf, Own
<1>6. QED
  BY <1>1, <1>2, <1>3, <1>4, <1>5, OtherFrame

\* Nothing happens.
LEMMA StutterIInv == ASSUME IInv, UNCHANGED vars PROVE IInv'
<1>1. UNCHANGED <<mgr, move, view, scanned, chain, sending, cache, stored, queue, job, budget, seen>>
  BY DEF vars, system, accounts, world
<1>2. Typed' /\ JobTyped' /\ ScansAreOwn' /\ MoveOK'
  BY <1>1 DEF IInv, Typed, JobTyped, ScansAreOwn, MoveOK
<1>3. CacheIsOwn' /\ StoredIsOwn'
  BY <1>1 DEF IInv, CacheIsOwn, CacheOf, StoredIsOwn, Own
<1>4. QueueOK'
  BY <1>1 DEF IInv, QueueOK, Front, Listed, Keeps
<1>5. QED
  BY <1>2, <1>3, <1>4 DEF IInv

\* Every step preserves the inductive invariant.
LEMMA NextIInv == ASSUME IInv, [Next]_vars PROVE IInv'
<1>1. CASE Next
  <2>1. Watched /\ Step
    BY <1>1 DEF Next, Watched
  <2>2. CASE JobStep
    BY <2>1, <2>2, LoadedIInv, EmptySavedIInv, PricedIInv, RawArrivesIInv, BuiltIInv, JobEndsIInv DEF JobStep
  <2>3. CASE MoveStep
    BY <2>1, <2>3, MovesEnd, LoadsIInv DEF MoveStep
  <2>4. QED
    BY <2>1, <2>2, <2>3, CallsIInv, MovesBegin, RestartIInv, LoadsIInv, ChainIInv DEF Step
<1>2. QED
  BY <1>1, StutterIInv

-----------------------------------------------------------------------------
(* The theorems.                                                           *)

\* Every reachable state satisfies the inductive invariant.
THEOREM InductiveInvariant == Spec => []IInv
BY InitIInv, NextIInv, PTL DEF Spec

\* TxHistoryService.saveTxHistory(), whose key is computed when it writes, with operations
\* on accounts at any moment: a history written neither by an overtaken call nor from the
\* cache that one left consists of the account's own transactions, described from its side.
THEOREM StoredUnderOwnKey == Spec => []StoredHistoryIsOwn
<1>1. IInv => TypeOK
  <2> SUFFICES ASSUME IInv PROVE TypeOK
    OBVIOUS
  <2>1. AllCalls \subseteq Calls
    BY DEF AllCalls, Calls, Get, Record
  <2>2. queue \in Seq(Calls)
    BY <2>1 DEF IInv, QueueOK
  <2>3. QED
    BY <2>2 DEF IInv, Typed, JobTyped, TypeOK
<1>2. IInv => StoredHistoryIsOwn
  BY <1>1 DEF IInv, StoredIsOwn, Own, Listed, StoredHistoryIsOwn
<1>3. QED
  BY <1>2, InductiveInvariant, PTL

\* The storage is written by the job alone, and by a logout.
LEMMA JobWrites ==
  ASSUME IInv, Loaded \/ Priced \/ \E proved \in BOOLEAN : Built(proved)
  PROVE  Writes
<1>1. CASE Loaded
  BY <1>1 DEF Loaded, AfterLoad, Reject, Writes
<1>2. ASSUME NEW todo, LoopOn(cache', todo) PROVE Writes
  BY <1>2 DEF LoopOn, Reject, Writes
<1>3. CASE Priced
  <2>1. LoopOn(cache', job.todo) \/ LoopOn(cache', Empty)
    BY <1>3 DEF Priced
  <2>2. QED
    BY <1>2, <2>1
<1>4. ASSUME NEW proved \in BOOLEAN, Built(proved) PROVE Writes
  <2>1. LoopOn(cache', job.todo)
    BY <1>4 DEF Built
  <2>2. QED
    BY <1>2, <2>1
<1>5. QED
  BY <1>1, <1>3, <1>4

\* No write takes back what the history of an account told, whatever is stored: an entry
\* stays, and a confirmation is final, until a logout removes it, unless an operation on
\* accounts overtook the call that writes.
THEOREM HistoryGrows == Spec => HistoryOnlyGrows
<1> DEFINE Grows(a, tx) ==
      Listed(a, tx) =>
        \/ Listed(a, tx)' /\ (stored[a][tx].status = "confirmed"
                                => stored'[a][tx].status = "confirmed")
        \/ seen.over
        \/ move'.phase = "wiping" /\ move'.prev = a
<1>1. ASSUME IInv, [Next]_vars, NEW a \in Accounts, NEW tx \in Txs PROVE Grows(a, tx)
  <2>1. CASE stored' = stored
    BY <2>1 DEF Listed
  <2>2. CASE Saves /\ Writes /\ cache' \in Caches
    BY <1>1, <2>1, <2>2 DEF Saves, Writes, IInv, Typed, Listed, Keeps
  <2>3. CASE Next /\ (Loaded \/ Priced \/ \E proved \in BOOLEAN : Built(proved))
    <3>1. Watched
      BY <2>3 DEF Next, Watched
    <3>2. Saves /\ Writes /\ IInv'
      BY <1>1, <2>3, <3>1, JobWrites, LoadedIInv, PricedIInv, BuiltIInv
    <3>3. QED
      BY <2>2, <3>2 DEF IInv, Typed
  <2>4. CASE Logout
    BY <1>1, <2>4 DEF Logout, Listed, IInv, Typed
  <2>5. CASE stored' # stored
    <3>1. Next
      BY <1>1, <2>5 DEF vars, system
    <3>2. Logout \/ Loaded \/ Priced \/ \E proved \in BOOLEAN : Built(proved)
      BY <2>5, <3>1 DEF Next, Step, JobStep, MoveStep, EmptySaved, RawArrives, Saved, RequestFails,
         Connected, ConnectFails, ScansLoaded, FinishMove, Wiped, AskHistory, Broadcast, BroadcastAnswered,
         BroadcastLost, MoveAccount, CreateAccount, MoveNetwork, RestoreWallet, Restart, Arrive, Mine, Scan
    <3>3. QED
      BY <2>3, <2>4, <3>1, <3>2
  <2>6. QED
    BY <2>1, <2>5
<1>2. ASSUME IInv, [Next]_vars PROVE \A a \in Accounts, tx \in Txs : Grows(a, tx)
  BY <1>1, <1>2
<1>3. QED
  BY <1>2, InductiveInvariant, PTL DEF Spec, HistoryOnlyGrows

\* A record leaves the queue from its front, unless all calls go.
LEMMA LeavesFromFront ==
  ASSUME IInv, NEW tx \in Payments, Recording(tx), ~Recording(tx)', Proceed(Tail(queue)), mgr # None
  PROVE  Head(queue) = Record(tx)
<1>1. PICK i \in 1..Len(queue) : queue[i] = Record(tx)
  BY DEF Recording
<1>2. queue \in Seq(AllCalls) /\ queue # <<>>
  BY <1>1 DEF IInv, QueueOK
<1>3. CASE i = 1
  BY <1>1, <1>2, <1>3
<1>4. CASE i # 1
  <2> DEFINE j == i - 1
  <2>0. Len(Tail(queue)) = Len(queue) - 1 /\ \A n \in 1..(Len(queue) - 1) : Tail(queue)[n] = queue[n + 1]
    BY <1>2
  <2>1. j \in 1..Len(Tail(queue)) /\ Tail(queue)[j] = Record(tx) /\ Tail(queue) # <<>>
    <3>1. Len(queue) \in Nat /\ j \in 1..(Len(queue) - 1) /\ j + 1 = i
      BY <1>1, <1>2, <1>4
    <3> HIDE DEF j
    <3>2. j \in 1..Len(Tail(queue)) /\ Tail(queue)[j] = Record(tx)
      BY <1>1, <2>0, <3>1
    <3>3. Tail(queue) # <<>>
      <4>1. Len(<<>>) = 0
        OBVIOUS
      <4>2. Len(Tail(queue)) # 0
        <5>1. SUFFICES ASSUME Len(Tail(queue)) = 0 PROVE FALSE
          OBVIOUS
        <5>2. j \in 1..0
          BY <3>2, <5>1
        <5>3. QED
          BY <5>2
      <4>3. QED
        BY <4>1, <4>2
    <3>4. QED
      BY <3>2, <3>3
  <2>2. queue' = Tail(queue)
    BY <2>1 DEF Proceed
  <2>3. QED
    BY <2>1, <2>2 DEF Recording
<1>5. QED
  BY <1>3, <1>4

\* addOptimisticPending() behind withLock(): when the record of a payment leaves the queue,
\* the payment is in the history of the account that paid, unless the worker died, the
\* wallet was left, or an operation on accounts overtook the record itself.
THEOREM PaymentsAreRecorded == Spec => PaymentRecorded
<1> DEFINE Recorded(tx) ==
      Recording(tx) /\ ~Recording(tx)' =>
        \/ Listed(PayerOf[tx], tx)'
        \/ view' = None \/ mgr = None
        \/ seen.over /\ Head(queue) = Record(tx)
<1>1. ASSUME IInv, [Next]_vars, NEW tx \in Payments, Recording(tx), ~Recording(tx)', mgr # None, view' # None
      PROVE  Listed(PayerOf[tx], tx)' \/ (seen.over /\ Head(queue) = Record(tx))
  <2>1. queue' # queue
    BY <1>1 DEF Recording
  <2>2. queue # <<>> /\ queue \in Seq(AllCalls)
    BY <1>1 DEF Recording, IInv, QueueOK
  <2>3. ~ \E k \in AllCalls : WithLock(k)
    <3>1. ASSUME NEW k \in AllCalls, WithLock(k) PROVE FALSE
      <4>1. queue' = Append(queue, k)
        BY <2>2, <3>1 DEF WithLock
      <4>2. QED
        BY <1>1, <2>2, <4>1 DEF Recording
    <3>2. QED
      BY <3>1
  <2>4. Get \in AllCalls /\ \A t \in Payments : Record(t) \in AllCalls
    BY DEF AllCalls
  <2>5. CASE Proceed(Tail(queue)) /\ stored' = stored
             /\ (Head(queue) = Record(tx) /\ ~seen.over => Listed(mgr, tx))
    <3>1. Head(queue) = Record(tx)
      BY <1>1, <2>5, LeavesFromFront
    <3>2. ~seen.over => PayerOf[tx] = mgr
      BY <1>1, <2>2, <3>1 DEF IInv, QueueOK, Front, Record
    <3>3. QED
      BY <2>5, <3>1, <3>2 DEF Listed
  <2>6. ASSUME NEW c, AfterLoad(c), stored' = stored, job.phase # "idle",
               ~seen.over => stored[mgr] = c /\ c # None
        PROVE  Proceed(Tail(queue)) /\ stored' = stored
               /\ (Head(queue) = Record(tx) /\ ~seen.over => Listed(mgr, tx))
    BY <2>1, <2>6 DEF AfterLoad, Record, Listed
  <2>7. CASE Loaded
    <3>1. /\ cache' = job.read /\ AfterLoad(cache') /\ stored' = stored /\ job.read # None
          /\ job.phase = "load"
      BY <1>1, <2>1, <2>7 DEF Loaded, Take
    <3>2. ~seen.over => stored[mgr] = cache' /\ cache' # None
      BY <1>1, <2>2, <3>1 DEF IInv, QueueOK, Front
    <3>3. QED
      BY <2>5, <2>6, <3>1, <3>2
  <2>8. CASE EmptySaved
    <3>1. AfterLoad(cache) /\ stored' = stored /\ job.phase = "saveEmpty"
      BY <2>8 DEF EmptySaved
    <3>2. ~seen.over => stored[mgr] = cache /\ cache # None
      BY <1>1, <2>2, <3>1 DEF IInv, QueueOK, Front, Typed
    <3>3. QED
      BY <2>5, <2>6, <3>1, <3>2
  <2>9. CASE Saved
    <3>1. Proceed(Tail(queue)) /\ stored' = stored /\ job.phase = "save"
      BY <2>9 DEF Saved
    <3>2. Head(queue) = Record(tx) /\ ~seen.over => Listed(mgr, tx)
      BY <1>1, <2>2, <3>1 DEF IInv, QueueOK, Front, Record
    <3>3. QED
      BY <2>5, <3>1, <3>2
  <2>10. CASE RequestFails
    <3>1. Proceed(Tail(queue)) /\ stored' = stored /\ Head(queue).kind = "get"
      BY <2>10 DEF RequestFails, Reject
    <3>2. QED
      BY <2>5, <3>1 DEF Record
  <2>11. ~Priced /\ ~RawArrives /\ ~ \E proved \in BOOLEAN : Built(proved)
    BY <1>1, <2>1 DEF Priced, RawArrives, Built, LoopOn
  <2>12. QED
    BY <1>1, <2>1, <2>3, <2>4, <2>7, <2>8, <2>9, <2>10, <2>11
    DEF Next, Step, JobStep, MoveStep, Connected, ConnectFails, ScansLoaded, FinishMove, Wiped, AskHistory,
        Broadcast, BroadcastAnswered, BroadcastLost, MoveAccount, CreateAccount, MoveNetwork, RestoreWallet,
        Logout, Restart, Arrive, Mine, Scan, vars, system
<1>2. ASSUME IInv, [Next]_vars PROVE \A tx \in Payments : Recorded(tx)
  BY <1>1, <1>2
<1>3. QED
  BY <1>2, InductiveInvariant, PTL DEF Spec, PaymentRecorded
=============================================================================
