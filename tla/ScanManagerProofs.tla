--------------------------- MODULE ScanManagerProofs ---------------------------
(***************************************************************************)
(* The safety of ScanManager, for every set of accounts, every gap limit,  *)
(* lookahead and highest index, and any number of payments, operations and *)
(* failures: two accounts mix only in the window before clear(), and never *)
(* where accounts are only switched; as long as one account stays selected *)
(* no use is forgotten and, if no address is paid again after it was spent *)
(* from, the scans have no blind spot.                                     *)
(***************************************************************************)
EXTENDS ScanManager, WellFoundedInduction, TLAPS

-----------------------------------------------------------------------------
(* The inductive invariants.                                               *)

\* A history of use speaks of indices that are ever paid to.
InReach(h) == \A i \in Indexes : h[i] # "none" => i <= MaxCoin

\* Address i of account a has been paid to.
Paid(a, i) == i <= MaxCoin /\ coin[a][i] # "none"

OwnAddresses(a, c) == \A i \in Indexes : c[i] # None => c[i].owner = a
OwnHistory(a, h)   == \A i \in Indexes : h[i] # "none" => Paid(a, i)
OwnCoins(a, u)     == \A i \in u : Paid(a, i)

\* Between the move of the account manager and the clear() of the operation.
InWindow == op.phase \in {"moved", "rollback"}

\* Outside the window, the caches and what the load has read are the account's own.
MemoryIsOwn ==
  ~InWindow /\ mgr \notin mixed =>
    /\ OwnAddresses(mgr, addr) /\ OwnHistory(mgr, hist) /\ OwnCoins(mgr, utxo)
    /\ load.epoch = epoch /\ load.read # None =>
         /\ load.phase = "address" => OwnAddresses(mgr, load.read)
         /\ load.phase = "history" => OwnHistory(mgr, load.read)
         /\ load.phase = "utxo" => OwnCoins(mgr, load.read)

StoredRecords == [addr : {None} \cup AddressCaches, hist : {None} \cup HistoryCaches,
                  utxo : {None} \cup SUBSET Indexes]

TaskRecords(e) ==
  [phase : {"idle", "ensure", "pass", "derived", "history", "utxo", "save"}, epoch : 0..e,
   account : Accounts \cup {None}, todo : SUBSET Indexes, held : BOOLEAN]

\* The types by parts, with the reach of what is recorded.
SelectionOK ==
  /\ prefs \in Accounts /\ mgr \in Accounts
  /\ op \in [kind : {"none", "switch", "create", "network"}, target : Accounts,
             prev : Accounts, phase : {"idle", "begun", "moved", "rollback"}]
  /\ known \in SUBSET Accounts

CachesOK ==
  /\ addr \in AddressCaches /\ hist \in HistoryCaches /\ utxo \in SUBSET Indexes
  /\ scanned \in Indexes \cup {-1} /\ used \in Indexes \cup {-1}
  /\ used <= MaxCoin /\ InReach(hist)

LoadOK ==
  /\ epoch \in Nat /\ initialized \in BOOLEAN /\ requested \in BOOLEAN
  /\ load.phase \in {"idle", "address", "history", "utxo"} /\ load.epoch \in 0..epoch
  /\ load.phase = "address" => load.read \in {None} \cup AddressCaches
  /\ load.phase = "history" => /\ load.read \in {None} \cup HistoryCaches
                               /\ load.read # None => InReach(load.read)
  /\ load.phase \in {"idle", "utxo"} => load.read \in {None} \cup SUBSET Indexes

StoredOK ==
  /\ stored \in [Accounts -> StoredRecords]
  /\ \A a \in Accounts : stored[a].hist # None => InReach(stored[a].hist)

TasksOK(T, e) ==
  /\ T \in [Scans -> TaskRecords(e)]
  /\ \A k \in Scans : T[k].phase # "idle" => T[k].account \in Accounts

RestOK ==
  /\ activeKey \in Accounts \cup {None} /\ connected \in BOOLEAN
  /\ coin \in [Accounts -> [0..MaxCoin -> {"none", "pending", "confirmed", "spent"}]]
  /\ cut \in SUBSET (Accounts \X Indexes) /\ mixed \subseteq Accounts
  /\ \A what \in DOMAIN budget : budget[what] \in Nat

TypeInv == SelectionOK /\ CachesOK /\ LoadOK /\ StoredOK /\ TasksOK(task, epoch) /\ RestOK

MixInv == TypeInv /\ MemoryIsOwn /\ MixedOnlyBeforeClear

\* Without operations: one account, and no scan enters before the caches are loaded.
OneAccount ==
  /\ op.phase = "idle" /\ prefs = mgr
  /\ ~requested
  /\ load.phase # "idle" => load.epoch = epoch /\ ~initialized
  /\ activeKey # None => initialized
  /\ \A k \in Scans : task[k].phase # "idle" =>
       /\ task[k].epoch = epoch /\ task[k].account = mgr
       /\ initialized \/ (task[k].phase = "ensure" /\ load.phase # "idle")

Here == stored[mgr]

\* What memory is of storage, at every stage of a load.
Loaded ==
  /\ OwnAddresses(mgr, addr)
  /\ Here.addr # None => OwnAddresses(mgr, Here.addr)
  /\ Here.hist # None => OwnHistory(mgr, Here.hist)
  /\ ~initialized /\ load.phase \in {"idle", "address"} => addr = NoAddresses
  /\ ~initialized /\ load.phase # "utxo" => hist = NoHistory
  /\ ~initialized => utxo = {}
  /\ load.phase = "address" => load.read = Here.addr
  /\ load.phase = "history" => load.read = Here.hist
  /\ load.phase = "utxo" => load.read = Here.utxo /\ hist = Here.hist
  /\ load.phase \in {"history", "utxo"} => addr = Here.addr
  /\ initialized => hist = Here.hist /\ utxo = Here.utxo

\* Used addresses have a history.  Unless addresses are paid again, a funded one that is used
\* and settled and whose coin is not there is being read, or was cut.
UsedIsKnown(c, h) == \A i \in Indexes : c[i] # None /\ c[i].used => h[i] # "none"
Missed(c, h, u, i) ==
  /\ ~AddressReuse
  /\ c[i] # None /\ c[i].used /\ Funded(mgr, i)
  /\ h[i] # "pending" /\ i \notin u /\ <<mgr, i>> \notin cut

Sighted ==
  /\ initialized =>
       /\ UsedIsKnown(addr, hist)
       /\ Here.addr # None
       /\ \A i \in Indexes : Here.addr[i] # None /\ Here.addr[i].used => addr[i] # None /\ addr[i].used
       /\ \A i \in Indexes : Missed(addr, hist, utxo, i) =>
            \E k \in Scans : task[k].phase = "utxo" /\ i \in task[k].todo
  /\ ~initialized /\ Here.addr # None =>
       \A i \in Indexes : Here.addr[i] # None /\ Here.addr[i].used =>
         /\ Here.hist # None /\ Here.hist[i] # "none"
         /\ ~Missed(Here.addr, Here.hist, IF Here.utxo = None THEN {} ELSE Here.utxo, i)

ScanInv == TypeInv /\ OneAccount /\ Loaded /\ Sighted

-----------------------------------------------------------------------------
(* Operators.                                                              *)

LEMMA LeastNumber ==
  ASSUME NEW S \in SUBSET Nat, S # {}
  PROVE  \E i \in S : \A j \in S : i <= j
<1> DEFINE R == {p \in Nat \X Nat : p[1] < p[2]}
<1>1. IsWellFoundedOn(R, Nat)
  BY NatLessThanWellFounded, Zenon DEF OpToRel
<1>2. PICK i \in S : \A j \in S : ~(<<j, i>> \in R)
  <2> HIDE DEF R
  <2> QED
    BY <1>1, WFMin
<1>3. \A j \in S : ~(j < i)
  BY <1>2
<1>4. QED
  BY <1>3

\* The highest index of a set is one of its members.
LEMMA HighestIsIn ==
  ASSUME NEW S \in SUBSET Indexes
  PROVE  HighestOf(S) \in S \cup {-1}
<1> DEFINE N == MaxCoin + GapLimit + Lookahead
<1>1. N \in Nat /\ Indexes = 0..N
  BY NumbersAssumption DEF Indexes
<1> HIDE DEF N
<1>2. CASE S = {}
  BY <1>2 DEF HighestOf
<1>3. CASE S # {}
  <2> DEFINE T == {N - i : i \in S}
  <2>0. \A i \in S : i \in 0..N
    BY <1>1
  <2>1. T \in SUBSET Nat /\ T # {}
    <3>1. \A i \in S : N - i \in Nat
      BY <1>1, <2>0
    <3> QED
      BY <1>3, <3>1
  <2>2. PICK t \in T : \A j \in T : t <= j
    BY <2>1, LeastNumber
  <2>3. PICK m \in S : t = N - m
    BY <2>2
  <2>4. ASSUME NEW j \in S PROVE m >= j
    <3>1. N - j \in T
      OBVIOUS
    <3>2. t <= N - j
      BY <2>2, <3>1
    <3> QED
      BY <1>1, <2>0, <2>3, <3>2
  <2>5. Max(S) \in S
    BY <2>3, <2>4 DEF Max
  <2> QED
    BY <1>3, <2>5 DEF HighestOf
<1> QED
  BY <1>2, <1>3

LEMMA Domains ==
  /\ Indexes \subseteq Nat /\ 0..MaxCoin \subseteq Indexes
  /\ None \notin Accounts
BY NumbersAssumption, AccountsAssumption DEF Indexes

LEMMA TypeInvGivesTypeOK ==
  ASSUME TypeInv
  PROVE  TypeOK
<1>1. load.read \in {None} \cup (CASE load.phase = "address" -> AddressCaches
                                   [] load.phase = "history" -> HistoryCaches
                                   [] OTHER -> SUBSET Indexes)
  <2>1. CASE load.phase = "address"
    BY <2>1 DEF TypeInv, LoadOK
  <2>2. CASE load.phase = "history"
    BY <2>2 DEF TypeInv, LoadOK
  <2>3. CASE load.phase \in {"idle", "utxo"}
    BY <2>3 DEF TypeInv, LoadOK
  <2> QED
    BY <2>1, <2>2, <2>3 DEF TypeInv, LoadOK
<1>2. task \in [Scans -> TaskRecords(epoch)] /\ stored \in [Accounts -> StoredRecords]
  BY DEF TypeInv, TasksOK, StoredOK
<1> QED
  BY <1>1, <1>2 DEF TypeInv, SelectionOK, CachesOK, LoadOK, RestOK, TypeOK, TaskRecords, StoredRecords

\* derive() adds unused addresses of the active account and changes no other.
Grown(old, new) ==
  \A i \in Indexes : new[i] = old[i] \/ (old[i] = None /\ new[i] = [owner |-> mgr, used |-> FALSE])

LEMMA DerivedGrows ==
  ASSUME SelectionOK, CachesOK, NEW lo, NEW hi
  PROVE  Derived(lo, hi) \in AddressCaches /\ Grown(addr, Derived(lo, hi))
<1> DEFINE new == [owner |-> mgr, used |-> FALSE]
           D == Derived(lo, hi)
<1>1. new \in [owner : Accounts, used : BOOLEAN]
  BY DEF SelectionOK
<1>2. \A i \in Indexes : D[i] = IF i \in lo..hi /\ addr[i] = None THEN new ELSE addr[i]
  BY DEF Derived
<1>3. \A i \in Indexes : addr[i] \in {None} \cup [owner : Accounts, used : BOOLEAN]
  BY DEF CachesOK, AddressCaches
<1> HIDE DEF new
<1>4. D \in AddressCaches
  BY <1>1, <1>2, <1>3 DEF Derived, AddressCaches
<1> QED
  BY <1>2, <1>4 DEF Grown, new

LEMMA NoScanIsATask ==
  ASSUME NEW e \in Nat
  PROVE  NoScan \in TaskRecords(e) /\ NoScan.phase = "idle"
BY DEF NoScan, TaskRecords

\* A scan's record for the tasks of epoch e.
GoodTask(t, e) == t \in TaskRecords(e) /\ (t.phase # "idle" => t.account \in Accounts)

LEMMA TaskSet ==
  ASSUME NEW e \in Nat, TasksOK(task, e), NEW k \in Scans, NEW t, GoodTask(t, e)
  PROVE  /\ TasksOK([task EXCEPT ![k] = t], e)
         /\ \A j \in Scans : [task EXCEPT ![k] = t][j] = IF j = k THEN t ELSE task[j]
BY DEF TasksOK, GoodTask

LEMMA LaterEpoch ==
  ASSUME NEW T, NEW e \in Nat, TasksOK(T, e)
  PROVE  TasksOK(T, e + 1)
<1>1. \A k \in Scans : T[k] \in TaskRecords(e + 1)
  BY DEF TasksOK, TaskRecords
<1> QED
  BY <1>1 DEF TasksOK

LEMMA CutTyped ==
  ASSUME RestOK, NEW e \in Nat, TasksOK(task, e), NEW S \in SUBSET Scans
  PROVE  CutShort(S) \in SUBSET (Accounts \X Indexes) /\ cut \subseteq CutShort(S)
<1>1. ASSUME NEW k \in S, task[k].phase = "utxo"
      PROVE  task[k].account \in Accounts /\ task[k].todo \in SUBSET Indexes
  BY <1>1 DEF TasksOK, TaskRecords
<1> QED
  BY <1>1 DEF CutShort, RestOK

LEMMA RequestsDropped ==
  ASSUME NEW e \in Nat, TasksOK(task, e)
  PROVE  /\ TasksOK(WithoutRequests, e)
         /\ \A k \in Scans : WithoutRequests[k] =
               IF task[k].phase \in {"history", "utxo"} THEN NoScan ELSE task[k]
<1>1. \A k \in Scans : WithoutRequests[k] =
               IF task[k].phase \in {"history", "utxo"} THEN NoScan ELSE task[k]
  BY DEF WithoutRequests
<1> QED
  BY <1>1, NoScanIsATask DEF TasksOK, WithoutRequests

\* S is storage with c, h and u saved for the active account.
Puts(S, c, h, u) ==
  /\ S \in [Accounts -> StoredRecords]
  /\ S[mgr].addr = c /\ S[mgr].hist = h /\ S[mgr].utxo = u
  /\ \A a \in Accounts : a # mgr => S[a] = stored[a]

LEMMA Saving ==
  ASSUME StoredOK, SelectionOK
  PROVE  /\ \A c \in AddressCaches :
              Puts([stored EXCEPT ![mgr].addr = c], c, Here.hist, Here.utxo)
         /\ \A h \in HistoryCaches :
              Puts([stored EXCEPT ![mgr].hist = h], Here.addr, h, Here.utxo)
         /\ \A u \in SUBSET Indexes :
              Puts([stored EXCEPT ![mgr].utxo = u], Here.addr, Here.hist, u)
         /\ Puts(stored, Here.addr, Here.hist, Here.utxo)
BY DEF StoredOK, SelectionOK, Here, Puts, StoredRecords

LEMMA PutsTyped ==
  ASSUME NEW S, NEW c, NEW h, NEW u, Puts(S, c, h, u), StoredOK, SelectionOK,
         h # None => InReach(h), stored' = S
  PROVE  StoredOK'
<1>1. \A a \in Accounts : stored'[a].hist # None => InReach(stored'[a].hist)
  BY DEF StoredOK, Puts, SelectionOK
<1> QED
  BY <1>1 DEF Puts, StoredOK, InReach

\* A scan that starts in the current context: what it derived, and its record.
Opened(k, t) ==
  /\ GoodTask(t, epoch) /\ t.phase \in {"idle", "derived", "history", "pass"}
  /\ t.phase # "idle" => t.epoch = epoch /\ t.account = mgr
  /\ task' = [task EXCEPT ![k] = t]

Deriving(S) ==
  /\ addr' \in AddressCaches /\ Grown(addr, addr')
  /\ scanned' \in Indexes \cup {-1}
  /\ (S = stored /\ addr' = addr) \/ S = [stored EXCEPT ![mgr].addr = addr']

LEMMA Entering ==
  ASSUME TypeInv, NEW k \in Scans, Context # None, Enter(k)
  PROVE  Deriving(stored') /\ \E t : Opened(k, t)
<1>1. Context = mgr /\ mgr \in Accounts /\ epoch \in Nat
  BY DEF Context, TypeInv, SelectionOK, LoadOK
<1>2. Grown(addr, addr) /\ addr \in AddressCaches /\ scanned \in Indexes \cup {-1}
  BY DEF Grown, TypeInv, CachesOK
<1>3. ASSUME NEW p \in {"derived", "history", "pass"}, NEW B \in SUBSET Indexes,
             task' = Entered(k, p, B)
      PROVE  \E t : Opened(k, t)
  <2> DEFINE t == [phase |-> p, epoch |-> epoch, account |-> Context, todo |-> B, held |-> TRUE]
  <2>1. t \in TaskRecords(epoch) /\ t.phase = p /\ t.epoch = epoch /\ t.account = mgr
    BY <1>1 DEF TaskRecords
  <2>2. task' = [task EXCEPT ![k] = t]
    BY <1>3 DEF Entered
  <2> HIDE DEF t
  <2>3. Opened(k, t)
    BY <1>1, <2>1, <2>2 DEF Opened, GoodTask
  <2> QED
    BY <2>3
<1>4. ASSUME task' = Ended(k) PROVE \E t : Opened(k, t)
  <2>1. NoScan \in TaskRecords(epoch) /\ NoScan.phase = "idle"
    BY <1>1, NoScanIsATask
  <2>2. Opened(k, NoScan)
    BY <1>4, <2>1 DEF Opened, GoodTask, Ended
  <2> QED
    BY <2>2
<1>5. CASE k = "hot" /\ connected
  <2>1. /\ addr' = Derived(used + 1, used + Lookahead)
        /\ scanned' = Larger(scanned, used + Lookahead)
        /\ stored' = [stored EXCEPT ![mgr].addr = addr']
        /\ task' = Entered(k, "derived", (used + 1)..(used + Lookahead))
    BY <1>5 DEF Enter
  <2>2. used + Lookahead \in Indexes /\ (used + 1)..(used + Lookahead) \in SUBSET Indexes
    BY NumbersAssumption DEF TypeInv, CachesOK, Indexes
  <2>3. addr' \in AddressCaches /\ Grown(addr, addr')
    BY <2>1, DerivedGrows DEF TypeInv
  <2>4. scanned' \in Indexes \cup {-1}
    BY <1>2, <2>1, <2>2 DEF Larger
  <2>5. \E t : Opened(k, t)
    BY <1>3, <2>1, <2>2
  <2> QED
    BY <2>1, <2>3, <2>4, <2>5 DEF Deriving
<1>6. CASE k = "backfill" /\ connected /\ BackfillIndices # {}
  <2>1. task' = Entered(k, "history", BackfillIndices) /\ UNCHANGED <<addr, scanned, stored>>
    BY <1>6 DEF Enter
  <2>2. BackfillIndices \in SUBSET Indexes
    BY DEF BackfillIndices
  <2> QED
    BY <1>2, <1>3, <2>1, <2>2 DEF Deriving
<1>7. CASE k = "forward"
  <2>1. task' = Entered(k, "pass", {}) /\ UNCHANGED <<addr, scanned, stored>>
    BY <1>7 DEF Enter
  <2> QED
    BY <1>2, <1>3, <2>1 DEF Deriving
<1>8. CASE ~(k = "hot" /\ connected) /\ ~(k = "backfill" /\ connected /\ BackfillIndices # {})
           /\ k # "forward"
  <2>1. task' = Ended(k) /\ UNCHANGED <<addr, scanned, stored>>
    BY <1>8 DEF Enter
  <2> QED
    BY <1>2, <1>4, <2>1 DEF Deriving
<1> QED
  BY <1>5, <1>6, <1>7, <1>8

-----------------------------------------------------------------------------
(* Types.                                                                  *)

LEMMA LoadingTyped ==
  ASSUME StoredOK, NEW a \in Accounts, NEW e
  PROVE  /\ Loading(e, a).phase = "address" /\ Loading(e, a).epoch = e
         /\ Loading(e, a).read = stored[a].addr
         /\ Loading(e, a).read \in {None} \cup AddressCaches
BY DEF Loading, StoredOK, StoredRecords

LEMMA NoLoadTyped ==
  NoLoad.phase = "idle" /\ NoLoad.epoch = 0 /\ NoLoad.read = None
BY DEF NoLoad

\* The types of what the steps of a scan, a load and an operation leave alone.
LEMMA Unchanged ==
  ASSUME TypeInv
  PROVE  /\ UNCHANGED selection => SelectionOK'
         /\ UNCHANGED <<addr, hist, utxo, scanned, used>> => CachesOK'
         /\ UNCHANGED <<epoch, initialized, load, requested>> => LoadOK'
         /\ UNCHANGED stored => StoredOK'
         /\ UNCHANGED <<activeKey, connected, coin, cut, budget, mixed>> => RestOK'
         /\ epoch' = epoch => TasksOK(task, epoch')
<1>1. UNCHANGED selection => SelectionOK'
  BY DEF TypeInv, SelectionOK, selection
<1>2. UNCHANGED <<addr, hist, utxo, scanned, used>> => CachesOK'
  BY DEF TypeInv, CachesOK, InReach
<1>3. UNCHANGED <<epoch, initialized, load, requested>> => LoadOK'
  BY DEF TypeInv, LoadOK, InReach
<1>4. UNCHANGED stored => StoredOK'
  BY DEF TypeInv, StoredOK, InReach
<1>5. UNCHANGED <<activeKey, connected, coin, cut, budget, mixed>> => RestOK'
  BY DEF TypeInv, RestOK
<1> QED
  BY <1>1, <1>2, <1>3, <1>4, <1>5 DEF TypeInv

LEMMA LoadTypes ==
  ASSUME TypeInv, Load
  PROVE  TypeInv'
<1>1. SelectionOK' /\ RestOK'
  BY Unchanged DEF Load, LoadSuperseded, LoadAddress, LoadHistory, LoadUtxo, TypeInv, RestOK
<1>2. SelectionOK /\ StoredOK /\ epoch \in Nat /\ epoch' = epoch /\ mgr \in Accounts
  BY DEF Load, LoadSuperseded, LoadAddress, LoadHistory, LoadUtxo, TypeInv, LoadOK, SelectionOK
<1>3. stored[mgr] \in StoredRecords /\ (stored[mgr].hist # None => InReach(stored[mgr].hist))
  BY <1>2 DEF StoredOK
<1>4. CASE LoadSuperseded
  <2>1. CachesOK' /\ StoredOK' /\ TasksOK(task, epoch)'
    BY <1>4, Unchanged DEF LoadSuperseded, TypeInv, TasksOK
  <2>2. LoadOK'
    <3>1. load' = Loading(epoch, mgr) \/ load' = NoLoad
      BY <1>4 DEF LoadSuperseded
    <3>2. /\ load'.phase \in {"idle", "address"}
          /\ load'.phase = "address" => load'.read \in {None} \cup AddressCaches
          /\ load'.phase = "idle" => load'.read = None
      BY <1>2, <3>1, LoadingTyped, NoLoadTyped
    <3>3. load'.epoch \in 0..epoch
      BY <1>2, <3>1, LoadingTyped, NoLoadTyped
    <3>4. UNCHANGED <<epoch, initialized>> /\ requested' = FALSE
      BY <1>4 DEF LoadSuperseded
    <3> QED
      BY <1>2, <3>2, <3>3, <3>4 DEF TypeInv, LoadOK
  <2> QED
    BY <1>1, <2>1, <2>2 DEF TypeInv
<1>5. CASE LoadAddress
  <2>0. load.read \in {None} \cup AddressCaches
    BY <1>5 DEF LoadAddress, TypeInv, LoadOK
  <2>1. CachesOK'
    BY <1>5, <2>0 DEF LoadAddress, TypeInv, CachesOK, InReach
  <2>2. load' = [load EXCEPT !.phase = "history", !.read = stored[mgr].hist]
    BY <1>5 DEF LoadAddress
  <2>3. load'.phase = "history" /\ load'.read = stored[mgr].hist /\ load'.epoch \in 0..epoch
    BY <2>2, <1>5 DEF LoadAddress, TypeInv, LoadOK
  <2>4. LoadOK'
    BY <1>2, <1>3, <1>5, <2>3 DEF LoadAddress, TypeInv, LoadOK, StoredRecords, InReach
  <2>5. StoredOK'
    <3>1. CASE load.read = None
      <4>1. stored' = [stored EXCEPT ![mgr].addr = addr] /\ addr \in AddressCaches
        BY <3>1, <1>5 DEF LoadAddress, TypeInv, CachesOK
      <4>2. Puts([stored EXCEPT ![mgr].addr = addr], addr, Here.hist, Here.utxo)
        BY <1>2, <4>1, Saving
      <4> QED
        BY <1>2, <1>3, <4>1, <4>2, PutsTyped DEF Here
    <3>2. CASE load.read # None
      BY <3>2, <1>5, Unchanged DEF LoadAddress
    <3> QED
      BY <3>1, <3>2
  <2>6. TasksOK(task', epoch')
    <3>1. \A k \in Scans : [task[k] EXCEPT !.held = FALSE] \in TaskRecords(epoch)
             /\ [task[k] EXCEPT !.held = FALSE].phase = task[k].phase
             /\ [task[k] EXCEPT !.held = FALSE].account = task[k].account
      BY DEF TypeInv, TasksOK, TaskRecords
    <3>2. task' = task \/ task' = [k \in Scans |-> [task[k] EXCEPT !.held = FALSE]]
      BY <1>5 DEF LoadAddress
    <3> QED
      BY <1>2, <3>1, <3>2 DEF TypeInv, TasksOK
  <2> QED
    BY <1>1, <2>1, <2>4, <2>5, <2>6 DEF TypeInv, TasksOK
<1>6. CASE LoadHistory
  <2>0. load.read \in {None} \cup HistoryCaches /\ (load.read # None => InReach(load.read))
    BY <1>6 DEF LoadHistory, TypeInv, LoadOK
  <2>1. CachesOK'
    BY <1>6, <2>0 DEF LoadHistory, TypeInv, CachesOK, InReach
  <2>2. load' = [load EXCEPT !.phase = "utxo", !.read = stored[mgr].utxo]
    BY <1>6 DEF LoadHistory
  <2>3. load'.phase = "utxo" /\ load'.read = stored[mgr].utxo /\ load'.epoch \in 0..epoch
    BY <2>2, <1>6 DEF LoadHistory, TypeInv, LoadOK
  <2>4. LoadOK'
    BY <1>2, <1>3, <1>6, <2>3 DEF LoadHistory, TypeInv, LoadOK, StoredRecords, InReach
  <2>5. StoredOK'
    <3>1. CASE load.read = None
      <4>1. stored' = [stored EXCEPT ![mgr].hist = hist] /\ hist \in HistoryCaches /\ InReach(hist)
        BY <3>1, <1>6 DEF LoadHistory, TypeInv, CachesOK
      <4>2. Puts([stored EXCEPT ![mgr].hist = hist], Here.addr, hist, Here.utxo)
        BY <1>2, <4>1, Saving
      <4> QED
        BY <1>2, <4>1, <4>2, PutsTyped
    <3>2. CASE load.read # None
      BY <3>2, <1>6, Unchanged DEF LoadHistory
    <3> QED
      BY <3>1, <3>2
  <2>6. TasksOK(task', epoch')
    BY <1>2, <1>6 DEF LoadHistory, TypeInv
  <2> QED
    BY <1>1, <2>1, <2>4, <2>5, <2>6 DEF TypeInv, TasksOK
<1>7. CASE LoadUtxo
  <2>0. load.read \in {None} \cup SUBSET Indexes
    BY <1>7 DEF LoadUtxo, TypeInv, LoadOK
  <2>1. scanned' \in Indexes \cup {-1}
    BY <1>7, HighestIsIn DEF LoadUtxo
  <2>2. used' \in Indexes \cup {-1} /\ used' <= MaxCoin
    <3>1. used' \in {i \in Indexes : hist[i] # "none"} \cup {-1}
      BY <1>7, HighestIsIn DEF LoadUtxo
    <3> QED
      BY <3>1, NumbersAssumption DEF TypeInv, CachesOK, InReach
  <2>3. CachesOK'
    BY <1>7, <2>0, <2>1, <2>2 DEF LoadUtxo, TypeInv, CachesOK, InReach
  <2>4. LoadOK'
    BY <1>2, <1>7, NoLoadTyped DEF LoadUtxo, TypeInv, LoadOK
  <2>5. StoredOK'
    <3>1. CASE load.read = None
      <4>1. stored' = [stored EXCEPT ![mgr].utxo = utxo] /\ utxo \in SUBSET Indexes
        BY <3>1, <1>7 DEF LoadUtxo, TypeInv, CachesOK
      <4>2. Puts([stored EXCEPT ![mgr].utxo = utxo], Here.addr, Here.hist, utxo)
        BY <1>2, <4>1, Saving
      <4> QED
        BY <1>2, <1>3, <4>1, <4>2, PutsTyped DEF Here
    <3>2. CASE load.read # None
      BY <3>2, <1>7, Unchanged DEF LoadUtxo
    <3> QED
      BY <3>1, <3>2
  <2>6. TasksOK(task', epoch')
    BY <1>2, <1>7 DEF LoadUtxo, TypeInv
  <2> QED
    BY <1>1, <2>3, <2>4, <2>5, <2>6 DEF TypeInv, TasksOK
<1> QED
  BY <1>4, <1>5, <1>6, <1>7 DEF Load

LEMMA RequestTypes ==
  ASSUME TypeInv, RequestInit, UNCHANGED <<epoch, initialized>>
  PROVE  LoadOK'
<1>1. epoch \in Nat /\ mgr \in Accounts /\ StoredOK
  BY DEF TypeInv, LoadOK, SelectionOK
<1>2. CASE load.phase = "idle"
  <2>1. load' = Loading(epoch, mgr) /\ requested' = requested
    BY <1>2 DEF RequestInit
  <2>2. load'.phase = "address" /\ load'.epoch = epoch /\ load'.read \in {None} \cup AddressCaches
    BY <1>1, <2>1, LoadingTyped
  <2> QED
    BY <1>1, <2>1, <2>2 DEF TypeInv, LoadOK
<1>3. CASE load.phase # "idle"
  <2>1. load' = load /\ requested' = (requested \/ load.epoch # epoch)
    BY <1>3 DEF RequestInit
  <2>2. requested' \in BOOLEAN
    BY <2>1 DEF TypeInv, LoadOK
  <2> QED
    BY <2>1, <2>2 DEF TypeInv, LoadOK, InReach
<1> QED
  BY <1>2, <1>3

\* In T, scan k is in phase p with the batch B, and every other scan is as it was.
Moves(T, k, p, B) ==
  /\ T[k].phase = p /\ T[k].todo = B
  /\ T[k].epoch = task[k].epoch /\ T[k].account = task[k].account
  /\ \A j \in Scans : j # k => T[j] = task[j]

Ends(T, k) == T[k] = NoScan /\ \A j \in Scans : j # k => T[j] = task[j]

LEMMA Moving ==
  ASSUME NEW e \in Nat, TasksOK(task, e), NEW k \in Scans, task[k].phase # "idle",
         NEW p \in {"pass", "derived", "history", "utxo", "save"}, NEW B \in SUBSET Indexes
  PROVE  /\ TasksOK([task EXCEPT ![k].phase = p], e)
         /\ Moves([task EXCEPT ![k].phase = p], k, p, task[k].todo)
         /\ TasksOK([task EXCEPT ![k].phase = p, ![k].todo = B], e)
         /\ Moves([task EXCEPT ![k].phase = p, ![k].todo = B], k, p, B)
         /\ TasksOK([task EXCEPT ![k].phase = p, ![k].todo = B, ![k].held = TRUE], e)
         /\ Moves([task EXCEPT ![k].phase = p, ![k].todo = B, ![k].held = TRUE], k, p, B)
<1>1. /\ TasksOK([task EXCEPT ![k].phase = p], e)
      /\ Moves([task EXCEPT ![k].phase = p], k, p, task[k].todo)
  BY DEF TasksOK, TaskRecords, Moves
<1>2. /\ TasksOK([task EXCEPT ![k].phase = p, ![k].todo = B], e)
      /\ Moves([task EXCEPT ![k].phase = p, ![k].todo = B], k, p, B)
  BY DEF TasksOK, TaskRecords, Moves
<1>3. /\ TasksOK([task EXCEPT ![k].phase = p, ![k].todo = B, ![k].held = TRUE], e)
      /\ Moves([task EXCEPT ![k].phase = p, ![k].todo = B, ![k].held = TRUE], k, p, B)
  BY DEF TasksOK, TaskRecords, Moves
<1> QED
  BY <1>1, <1>2, <1>3

LEMMA Ending ==
  ASSUME NEW e \in Nat, TasksOK(task, e), NEW k \in Scans
  PROVE  TasksOK(Ended(k), e) /\ Ends(Ended(k), k)
<1>1. GoodTask(NoScan, e)
  BY NoScanIsATask DEF GoodTask
<1> QED
  BY <1>1, TaskSet DEF Ended, Ends, TasksOK

\* What follows a batch: the scan is over, or the forward scan goes for another pass.
LEMMA Batched ==
  ASSUME NEW e \in Nat, TasksOK(task, e), NEW k \in Scans, task[k].phase # "idle",
         NEW T \in AfterBatch(k)
  PROVE  TasksOK(T, e) /\ (Ends(T, k) \/ Moves(T, k, "pass", task[k].todo))
<1>1. T = Ended(k) \/ T = [task EXCEPT ![k].phase = "pass"]
  BY DEF AfterBatch
<1>2. CASE T = Ended(k)
  BY <1>2, Ending
<1>3. CASE T = [task EXCEPT ![k].phase = "pass"]
  <2>1. task[k].todo \in SUBSET Indexes
    BY DEF TasksOK, TaskRecords
  <2> QED
    BY <1>3, <2>1, Moving
<1> QED
  BY <1>1, <1>2, <1>3

LEMMA OpenedTypes ==
  ASSUME TypeInv, NEW k \in Scans, \E t : Opened(k, t), epoch' = epoch
  PROVE  TasksOK(task', epoch')
<1>1. epoch \in Nat /\ TasksOK(task, epoch)
  BY DEF TypeInv, LoadOK
<1>2. PICK t : Opened(k, t)
  OBVIOUS
<1>3. GoodTask(t, epoch) /\ task' = [task EXCEPT ![k] = t]
  BY <1>2 DEF Opened
<1> QED
  BY <1>1, <1>3, TaskSet

LEMMA DerivingTypes ==
  ASSUME TypeInv, Deriving(stored'), UNCHANGED <<hist, utxo, used>>
  PROVE  CachesOK' /\ StoredOK'
<1>1. addr' \in AddressCaches /\ scanned' \in Indexes \cup {-1}
  BY DEF Deriving
<1>2. CachesOK'
  BY <1>1 DEF TypeInv, CachesOK, InReach
<1>3. StoredOK /\ SelectionOK /\ mgr \in Accounts
  BY DEF TypeInv, SelectionOK
<1>4. Here.hist # None => InReach(Here.hist)
  BY <1>3 DEF StoredOK, Here
<1>5. CASE stored' = stored
  BY <1>2, <1>5, Unchanged
<1>6. CASE stored' = [stored EXCEPT ![mgr].addr = addr']
  <2>1. PICK c : c = addr'
    OBVIOUS
  <2>2. Puts([stored EXCEPT ![mgr].addr = c], c, Here.hist, Here.utxo)
    BY <1>1, <1>3, <2>1, Saving
  <2> QED
    BY <1>2, <1>3, <1>4, <1>6, <2>1, <2>2, PutsTyped
<1> QED
  BY <1>2, <1>5, <1>6 DEF Deriving

LEMMA CutStays ==
  ASSUME TypeInv, NEW S \in SUBSET Scans, cut' = CutShort(S) \/ cut' = cut,
         activeKey' \in Accounts \cup {None}, connected' \in BOOLEAN,
         UNCHANGED <<coin, mixed>>, \A what \in DOMAIN budget' : budget'[what] \in Nat
  PROVE  RestOK'
<1>1. cut' \in SUBSET (Accounts \X Indexes)
  <2>1. epoch \in Nat /\ TasksOK(task, epoch) /\ RestOK
    BY DEF TypeInv, LoadOK
  <2> QED
    BY <2>1, CutTyped DEF RestOK
<1> QED
  BY <1>1 DEF TypeInv, RestOK

LEMMA Spending ==
  ASSUME TypeInv, NEW what, Spend(what)
  PROVE  \A w \in DOMAIN budget' : budget'[w] \in Nat
BY DEF TypeInv, RestOK, Spend


\* A scan starts, or goes on after the caches were awaited.
LEMMA StartTypes ==
  ASSUME TypeInv, NEW k \in Scans, StartScan(k)
  PROVE  TypeInv'
<1>1. Context = mgr /\ Context # None /\ mgr \in Accounts /\ epoch \in Nat
  BY DEF StartScan, Context, TypeInv, SelectionOK, LoadOK
<1>2. UNCHANGED selection /\ epoch' = epoch /\ UNCHANGED <<initialized, hist, utxo, used>>
  BY DEF StartScan
<1>3. RestOK'
  <2>1. activeKey' \in Accounts \cup {None} /\ connected' \in BOOLEAN
    BY <1>1 DEF StartScan, TypeInv, RestOK
  <2>2. /\ cut' = CutShort({k}) /\ {k} \in SUBSET Scans /\ UNCHANGED <<coin, mixed>>
        /\ \A what \in DOMAIN budget' : budget'[what] \in Nat
    BY DEF StartScan, TypeInv, RestOK
  <2> QED
    BY <2>1, <2>2, CutStays
<1>4. CASE activeKey = Context \/ initialized
  <2>1. Enter(k) /\ UNCHANGED <<load, requested>>
    BY <1>4 DEF StartScan
  <2>2. Deriving(stored') /\ \E t : Opened(k, t)
    BY <1>1, <2>1, Entering
  <2>3. CachesOK' /\ StoredOK' /\ TasksOK(task', epoch')
    BY <1>2, <2>2, DerivingTypes, OpenedTypes
  <2>4. SelectionOK' /\ LoadOK'
    BY <1>2, <2>1, Unchanged
  <2> QED
    BY <1>3, <2>3, <2>4 DEF TypeInv, TasksOK
<1>5. CASE ~(activeKey = Context \/ initialized)
  <2>1. /\ RequestInit /\ task' = Entered(k, "ensure", {})
        /\ UNCHANGED <<addr, scanned, stored>>
    BY <1>5 DEF StartScan
  <2>2. SelectionOK' /\ CachesOK' /\ StoredOK'
    BY <1>2, <2>1, Unchanged
  <2>3. LoadOK'
    BY <1>2, <2>1, RequestTypes
  <2>4. TasksOK(task', epoch')
    <3> DEFINE t == [phase |-> "ensure", epoch |-> epoch, account |-> Context,
                     todo |-> {}, held |-> TRUE]
    <3>1. t \in TaskRecords(epoch) /\ t.account = mgr
      BY <1>1 DEF TaskRecords
    <3>2. task' = [task EXCEPT ![k] = t]
      BY <2>1 DEF Entered
    <3> HIDE DEF t
    <3>3. GoodTask(t, epoch)
      BY <1>1, <3>1 DEF GoodTask
    <3> QED
      BY <1>1, <1>2, <3>2, <3>3, TaskSet DEF TypeInv
  <2> QED
    BY <1>3, <2>2, <2>3, <2>4 DEF TypeInv, TasksOK
<1> QED
  BY <1>4, <1>5

LEMMA EnsuredTypes ==
  ASSUME TypeInv, NEW k \in Scans, Ensured(k)
  PROVE  TypeInv'
<1>1. UNCHANGED selection /\ UNCHANGED <<hist, utxo, used>>
      /\ UNCHANGED <<epoch, initialized, load, requested>>
  BY DEF Ensured
<1>2. SelectionOK' /\ LoadOK' /\ epoch' = epoch
  BY <1>1, Unchanged
<1>3. task[k].account \in Accounts /\ None \notin Accounts /\ epoch \in Nat
  BY AccountsAssumption DEF Ensured, TypeInv, TasksOK, LoadOK
<1>4. CASE Context = task[k].account
  <2>1. activeKey' = Context /\ Enter(k) /\ Context # None
    BY <1>3, <1>4 DEF Ensured
  <2>2. Deriving(stored') /\ \E t : Opened(k, t)
    BY <2>1, Entering
  <2>3. CachesOK' /\ StoredOK' /\ TasksOK(task', epoch')
    BY <1>1, <1>2, <2>2, DerivingTypes, OpenedTypes
  <2>4. RestOK'
    BY <1>3, <1>4, <2>1 DEF Ensured, TypeInv, RestOK
  <2> QED
    BY <1>2, <2>3, <2>4 DEF TypeInv, TasksOK
<1>5. CASE Context # task[k].account
  <2>1. task' = Ended(k) /\ UNCHANGED <<activeKey, addr, scanned, stored, connected, coin, cut,
                                        budget, mixed>>
    BY <1>5 DEF Ensured
  <2>2. CachesOK' /\ StoredOK' /\ RestOK'
    BY <1>1, <2>1, Unchanged
  <2>3. TasksOK(task', epoch')
    BY <1>2, <1>3, <2>1, Ending DEF TypeInv
  <2> QED
    BY <1>2, <2>2, <2>3 DEF TypeInv, TasksOK
<1> QED
  BY <1>4, <1>5

\* What a step of scan k does to the scans: it goes on with its context, or is over.
GoesOn(T, k) ==
  /\ TasksOK(T, epoch)
  /\ Ends(T, k) \/ \E p \in {"pass", "derived", "history"}, B \in SUBSET Indexes : Moves(T, k, p, B)

\* The steps of a running scan that touch no cache but addresses.
LEMMA RunStep ==
  ASSUME TypeInv, NEW k \in Scans,
         Abandon(k) \/ ForwardPass(k) \/ Ask(k) \/ SaveAddresses(k) \/ ScanFails(k)
  PROVE  Deriving(stored') /\ GoesOn(task', k)
<1>1. epoch \in Nat /\ TasksOK(task, epoch) /\ task[k].todo \in SUBSET Indexes
  BY DEF TypeInv, LoadOK, TasksOK, TaskRecords
<1>2. UNCHANGED <<addr, scanned, stored>> => Deriving(stored')
  BY DEF Deriving, Grown, TypeInv, CachesOK
<1>3. task' = Ended(k) => GoesOn(task', k)
  BY <1>1, Ending DEF GoesOn
<1>4. ASSUME task' \in AfterBatch(k), task[k].phase # "idle" PROVE GoesOn(task', k)
  BY <1>1, <1>4, Batched DEF GoesOn
<1>5. CASE Abandon(k) \/ ScanFails(k)
  BY <1>2, <1>3, <1>5 DEF Abandon, ScanFails, memory
<1>6. CASE ForwardPass(k)
  <2> DEFINE window == Larger(0, used) + GapLimit - scanned
             range  == (scanned + 1)..(scanned + window)
  <2>1. CASE window <= 0
    BY <1>2, <1>3, <1>6, <2>1 DEF ForwardPass
  <2>2. CASE ~(window <= 0)
    <3>1. /\ addr' = Derived(scanned + 1, scanned + window)
          /\ scanned' = scanned + window
          /\ stored' = [stored EXCEPT ![mgr].addr = addr']
          /\ task' = [task EXCEPT ![k].phase = "derived", ![k].todo = range]
          /\ task[k].phase = "pass"
      BY <1>6, <2>2 DEF ForwardPass
    <3>2. scanned + window \in Indexes /\ range \in SUBSET Indexes
      BY <2>2, NumbersAssumption DEF TypeInv, CachesOK, Indexes, Larger
    <3>3. addr' \in AddressCaches /\ Grown(addr, addr')
      BY <3>1, DerivedGrows DEF TypeInv
    <3>4. Deriving(stored')
      BY <3>1, <3>2, <3>3 DEF Deriving
    <3>5. TasksOK(task', epoch) /\ Moves(task', k, "derived", range)
      BY <1>1, <3>1, <3>2, Moving
    <3> HIDE DEF range
    <3> QED
      BY <3>2, <3>4, <3>5 DEF GoesOn
  <2> QED
    BY <2>1, <2>2
<1>7. CASE Ask(k)
  <2> DEFINE live  == IF k = "hot" THEN {i \in Indexes : Live(i)} ELSE {}
             batch == {i \in task[k].todo \cup live : addr[i] # None}
  <2>1. UNCHANGED <<addr, scanned, stored>> /\ task[k].phase = "derived"
    BY <1>7 DEF Ask, memory
  <2>2. batch \in SUBSET Indexes
    BY <1>1
  <2>3. \/ task' = [task EXCEPT ![k].phase = "history", ![k].todo = batch, ![k].held = TRUE]
        \/ task' \in AfterBatch(k)
    BY <1>7 DEF Ask
  <2> HIDE DEF batch
  <2>4. CASE task' = [task EXCEPT ![k].phase = "history", ![k].todo = batch, ![k].held = TRUE]
    <3>1. TasksOK(task', epoch) /\ Moves(task', k, "history", batch)
      BY <1>1, <2>1, <2>2, <2>4, Moving
    <3> QED
      BY <1>2, <2>1, <2>2, <3>1 DEF GoesOn
  <2> QED
    BY <1>2, <1>4, <2>1, <2>3, <2>4
<1>8. CASE SaveAddresses(k)
  <2>1. /\ UNCHANGED <<addr, scanned>> /\ task[k].phase = "save"
        /\ stored' = [stored EXCEPT ![mgr].addr = addr] /\ task' \in AfterBatch(k)
    BY <1>8 DEF SaveAddresses, memory
  <2>2. Deriving(stored')
    BY <2>1 DEF Deriving, Grown, TypeInv, CachesOK
  <2> QED
    BY <1>4, <2>1, <2>2
<1> QED
  BY <1>5, <1>6, <1>7, <1>8

LEMMA RunTypes ==
  ASSUME TypeInv, NEW k \in Scans,
         Abandon(k) \/ ForwardPass(k) \/ Ask(k) \/ SaveAddresses(k) \/ ScanFails(k)
  PROVE  TypeInv'
<1>1. UNCHANGED selection /\ UNCHANGED <<hist, utxo, used>>
      /\ UNCHANGED <<epoch, initialized, load, requested>>
  BY DEF Abandon, ForwardPass, Ask, SaveAddresses, ScanFails, selection, memory
<1>2. SelectionOK' /\ LoadOK' /\ epoch' = epoch
  BY <1>1, Unchanged
<1>3. Deriving(stored') /\ GoesOn(task', k)
  BY RunStep
<1>4. CachesOK' /\ StoredOK' /\ TasksOK(task', epoch')
  BY <1>1, <1>2, <1>3, DerivingTypes DEF GoesOn
<1>5. RestOK'
  <2>1. cut' = CutShort({k}) \/ cut' = cut
    BY DEF Abandon, ForwardPass, Ask, SaveAddresses, ScanFails
  <2>2. \A what \in DOMAIN budget' : budget'[what] \in Nat
    <3>1. CASE budget' = budget
      BY <3>1 DEF TypeInv, RestOK
    <3>2. CASE Spend("faults")
      BY <3>2, Spending
    <3> QED
      BY <3>1, <3>2 DEF Abandon, ForwardPass, Ask, SaveAddresses, ScanFails
  <2>3. UNCHANGED <<activeKey, connected, coin, mixed>>
    BY DEF Abandon, ForwardPass, Ask, SaveAddresses, ScanFails
  <2>4. activeKey' \in Accounts \cup {None} /\ connected' \in BOOLEAN /\ {k} \in SUBSET Scans
    BY <2>3 DEF TypeInv, RestOK
  <2> QED
    BY <2>1, <2>2, <2>3, <2>4, CutStays
<1> QED
  BY <1>2, <1>4, <1>5 DEF TypeInv, TasksOK

\* What the answers to scan k are about.
Seen(k)   == {i \in task[k].todo : addr[i] # None /\ On(i) # "none"}
Asked(k)  == {i \in task[k].todo : addr[i] # None}
FundedOf(k) == {i \in Asked(k) : Funded(addr[i].owner, i)}

\* The effect of histories that arrive.
HistoriesMove(k) ==
  /\ Seen(k) \subseteq Indexes /\ \A i \in Seen(k) : i <= MaxCoin
  /\ hist' = [i \in Indexes |-> IF i \in Seen(k)
                THEN IF On(i) = "pending" THEN "pending" ELSE "settled" ELSE hist[i]]
  /\ hist' \in HistoryCaches /\ InReach(hist')
  /\ addr' \in AddressCaches
  /\ \A i \in Indexes : \/ addr'[i] = addr[i]
                        \/ /\ i \in Seen(k) /\ addr'[i] # None
                           /\ addr'[i].owner = addr[i].owner /\ addr'[i].used
  /\ used' \in Indexes \cup {-1} /\ used' <= MaxCoin
  /\ Puts(stored', Here.addr, hist', Here.utxo)
  /\ TasksOK(task', epoch) /\ Moves(task', k, "utxo", task[k].todo)

LEMMA HistoriesStep ==
  ASSUME TypeInv, NEW k \in Scans, Histories(k)
  PROVE  HistoriesMove(k)
<1>1. epoch \in Nat /\ TasksOK(task, epoch) /\ task[k].todo \in SUBSET Indexes
      /\ task[k].phase # "idle"
  BY DEF Histories, TypeInv, LoadOK, TasksOK, TaskRecords
<1>2. Seen(k) \subseteq Indexes /\ \A i \in Seen(k) : i <= MaxCoin
  BY <1>1 DEF Seen, On
<1>3. hist' = [i \in Indexes |-> IF i \in Seen(k)
                 THEN IF On(i) = "pending" THEN "pending" ELSE "settled" ELSE hist[i]]
  BY DEF Histories, Seen
<1>4. hist' \in HistoryCaches /\ InReach(hist')
  BY <1>2, <1>3 DEF HistoryCaches, InReach, TypeInv, CachesOK
<1>5. ASSUME NEW i \in Indexes, addr[i] # None
      PROVE  /\ [addr[i] EXCEPT !.used = TRUE] \in [owner : Accounts, used : BOOLEAN]
             /\ [addr[i] EXCEPT !.used = TRUE].owner = addr[i].owner
             /\ [addr[i] EXCEPT !.used = TRUE].used
  <2>1. addr[i] \in [owner : Accounts, used : BOOLEAN]
    BY <1>5 DEF TypeInv, CachesOK, AddressCaches
  <2> QED
    BY <2>1
<1>6. addr' = [i \in Indexes |-> IF i \in Seen(k) /\ task[k].held
                 THEN [addr[i] EXCEPT !.used = TRUE] ELSE addr[i]]
  BY DEF Histories, Seen
<1>7. \A i \in Seen(k) : addr[i] # None
  BY DEF Seen
<1>8. addr' \in AddressCaches
  <2>1. \A i \in Indexes : addr[i] \in {None} \cup [owner : Accounts, used : BOOLEAN]
    BY DEF TypeInv, CachesOK, AddressCaches
  <2> QED
    BY <1>5, <1>6, <1>7, <2>1 DEF AddressCaches
<1>9. \A i \in Indexes : \/ addr'[i] = addr[i]
                         \/ /\ i \in Seen(k) /\ addr'[i] # None
                            /\ addr'[i].owner = addr[i].owner /\ addr'[i].used
  BY <1>5, <1>6, <1>7, NoneAssumption
<1>10. used' \in Indexes \cup {-1} /\ used' <= MaxCoin
  <2>1. used' = Larger(used, HighestOf(Seen(k)))
    BY DEF Histories, Seen
  <2>2. HighestOf(Seen(k)) \in Seen(k) \cup {-1}
    BY <1>2, HighestIsIn
  <2>3. HighestOf(Seen(k)) \in Indexes \cup {-1} /\ HighestOf(Seen(k)) <= MaxCoin
    BY <1>2, <2>2, NumbersAssumption
  <2> QED
    BY <2>1, <2>3 DEF TypeInv, CachesOK, Larger
<1>11. Puts(stored', Here.addr, hist', Here.utxo)
  <2>1. PICK h : h = hist'
    OBVIOUS
  <2>2. stored' = [stored EXCEPT ![mgr].hist = h]
    BY <2>1 DEF Histories
  <2>3. Puts([stored EXCEPT ![mgr].hist = h], Here.addr, h, Here.utxo)
    BY <1>4, <2>1, Saving DEF TypeInv
  <2> QED
    BY <2>1, <2>2, <2>3
<1>12. TasksOK(task', epoch) /\ Moves(task', k, "utxo", task[k].todo)
  <2>1. task' = [task EXCEPT ![k].phase = "utxo"]
    BY DEF Histories
  <2> QED
    BY <1>1, <2>1, Moving
<1> QED
  BY <1>2, <1>3, <1>4, <1>8, <1>9, <1>10, <1>11, <1>12 DEF HistoriesMove

\* The effect of UTXOs that arrive.
UtxosMove(k) ==
  /\ Asked(k) \subseteq Indexes /\ FundedOf(k) \subseteq Asked(k)
  /\ utxo' = (utxo \ Asked(k)) \cup FundedOf(k)
  /\ used' \in Indexes \cup {-1} /\ used' <= MaxCoin
  /\ Puts(stored', Here.addr, Here.hist, utxo')
  /\ TasksOK(task', epoch) /\ Moves(task', k, "save", task[k].todo)

LEMMA UtxosStep ==
  ASSUME TypeInv, NEW k \in Scans, Utxos(k)
  PROVE  UtxosMove(k)
<1>1. epoch \in Nat /\ TasksOK(task, epoch) /\ task[k].todo \in SUBSET Indexes
      /\ task[k].phase # "idle"
  BY DEF Utxos, TypeInv, LoadOK, TasksOK, TaskRecords
<1>2. Asked(k) \subseteq Indexes /\ FundedOf(k) \subseteq Asked(k)
      /\ \A i \in FundedOf(k) : i <= MaxCoin
  BY <1>1 DEF Asked, FundedOf, Funded
<1>3. utxo' = (utxo \ Asked(k)) \cup FundedOf(k)
  BY DEF Utxos, Asked, FundedOf
<1>4. used' \in Indexes \cup {-1} /\ used' <= MaxCoin
  <2>1. used' = Larger(used, HighestOf(FundedOf(k)))
    BY DEF Utxos, Asked, FundedOf
  <2>2. HighestOf(FundedOf(k)) \in FundedOf(k) \cup {-1}
    BY <1>2, HighestIsIn
  <2>3. HighestOf(FundedOf(k)) \in Indexes \cup {-1} /\ HighestOf(FundedOf(k)) <= MaxCoin
    BY <1>2, <2>2, NumbersAssumption
  <2> QED
    BY <2>1, <2>3 DEF TypeInv, CachesOK, Larger
<1>5. Puts(stored', Here.addr, Here.hist, utxo')
  <2>1. PICK u : u = utxo'
    OBVIOUS
  <2>2. stored' = [stored EXCEPT ![mgr].utxo = u]
    BY <2>1 DEF Utxos
  <2>3. u \in SUBSET Indexes
    BY <1>2, <1>3, <2>1 DEF TypeInv, CachesOK
  <2>4. Puts([stored EXCEPT ![mgr].utxo = u], Here.addr, Here.hist, u)
    BY <2>3, Saving DEF TypeInv
  <2> QED
    BY <2>1, <2>2, <2>4
<1>6. TasksOK(task', epoch) /\ Moves(task', k, "save", task[k].todo)
  <2>1. task' = [task EXCEPT ![k].phase = "save"]
    BY DEF Utxos
  <2> QED
    BY <1>1, <2>1, Moving
<1> QED
  BY <1>2, <1>3, <1>4, <1>5, <1>6 DEF UtxosMove

LEMMA AnswerTypes ==
  ASSUME TypeInv, NEW k \in Scans, Histories(k) \/ Utxos(k)
  PROVE  TypeInv'
<1>1. UNCHANGED selection /\ UNCHANGED <<epoch, initialized, load, requested>>
      /\ UNCHANGED <<activeKey, connected, coin, cut, budget, mixed>>
  BY DEF Histories, Utxos, selection
<1>2. SelectionOK' /\ LoadOK' /\ RestOK' /\ StoredOK /\ SelectionOK
  BY <1>1, Unchanged DEF TypeInv
<1>3. Here.hist # None => InReach(Here.hist)
  BY DEF TypeInv, StoredOK, SelectionOK, Here
<1>4. CASE Histories(k)
  <2>1. HistoriesMove(k) /\ UNCHANGED <<utxo, scanned>>
    BY <1>4, HistoriesStep DEF Histories
  <2>2. CachesOK'
    BY <2>1 DEF HistoriesMove, TypeInv, CachesOK, InReach
  <2>3. StoredOK'
    <3>1. PICK h : h = hist'
      OBVIOUS
    <3>2. PICK S : S = stored'
      OBVIOUS
    <3>3. Puts(S, Here.addr, h, Here.utxo) /\ InReach(h)
      BY <2>1, <3>1, <3>2 DEF HistoriesMove
    <3> QED
      BY <1>2, <3>2, <3>3, PutsTyped
  <2> QED
    BY <1>1, <1>2, <2>1, <2>2, <2>3 DEF TypeInv, TasksOK, HistoriesMove
<1>5. CASE Utxos(k)
  <2>1. UtxosMove(k) /\ UNCHANGED <<addr, hist, scanned>>
    BY <1>5, UtxosStep DEF Utxos
  <2>2. CachesOK'
    BY <2>1 DEF UtxosMove, TypeInv, CachesOK, InReach
  <2>3. StoredOK'
    <3>1. PICK u : u = utxo'
      OBVIOUS
    <3>2. PICK S : S = stored'
      OBVIOUS
    <3>3. Puts(S, Here.addr, Here.hist, u)
      BY <2>1, <3>1, <3>2 DEF UtxosMove
    <3> QED
      BY <1>2, <1>3, <3>2, <3>3, PutsTyped
  <2> QED
    BY <1>1, <1>2, <2>1, <2>2, <2>3 DEF TypeInv, TasksOK, UtxosMove
<1> QED
  BY <1>4, <1>5


LEMMA EmptyCaches ==
  /\ NoAddresses \in AddressCaches /\ NoHistory \in HistoryCaches /\ InReach(NoHistory)
  /\ \A i \in Indexes : NoAddresses[i] = None /\ NoHistory[i] = "none"
BY DEF NoAddresses, NoHistory, AddressCaches, HistoryCaches, InReach

\* clear() and init() leave nothing in memory, and no load of the new epoch but one of a.
Cleared(a) ==
  /\ epoch' = epoch + 1 /\ initialized' = FALSE
  /\ addr' = NoAddresses /\ hist' = NoHistory /\ utxo' = {}
  /\ scanned' = -1 /\ used' = -1
  /\ load' = load \/ load' = NoLoad \/ load' = Loading(epoch + 1, a)
  /\ requested' \in BOOLEAN

LEMMA Clearing ==
  ASSUME TypeInv, NEW a \in Accounts, Cleared(a)
  PROVE  CachesOK' /\ LoadOK' /\ TasksOK(task, epoch')
<1>1. epoch \in Nat /\ epoch' = epoch + 1 /\ StoredOK /\ TasksOK(task, epoch)
  BY DEF Cleared, TypeInv, LoadOK
<1>2. CachesOK'
  <2>1. addr' \in AddressCaches /\ hist' \in HistoryCaches /\ InReach(hist') /\ utxo' = {}
        /\ scanned' = -1 /\ used' = -1
    BY EmptyCaches DEF Cleared
  <2> QED
    BY <2>1, NumbersAssumption DEF CachesOK, InReach
<1>3. LoadOK'
  <2>1. epoch' \in Nat /\ initialized' \in BOOLEAN /\ requested' \in BOOLEAN
    <3>1. epoch' \in Nat
      BY <1>1
    <3> QED
      BY <3>1 DEF Cleared
  <2>2. CASE load' = load
    BY <1>1, <2>1, <2>2 DEF TypeInv, LoadOK, InReach
  <2>3. CASE load' = NoLoad
    BY <1>1, <2>1, <2>3, NoLoadTyped DEF LoadOK
  <2>4. CASE load' = Loading(epoch + 1, a)
    <3>1. load'.phase = "address" /\ load'.epoch = epoch'
          /\ load'.read \in {None} \cup AddressCaches
      BY <1>1, <2>4, LoadingTyped
    <3> QED
      BY <1>1, <2>1, <3>1 DEF LoadOK
  <2> QED
    BY <2>2, <2>3, <2>4 DEF Cleared
<1>4. TasksOK(task, epoch')
  BY <1>1, LaterEpoch
<1> QED
  BY <1>2, <1>3, <1>4

LEMMA ClearAndInitClears ==
  ASSUME TypeInv, NEW a, ClearAndInit(a)
  PROVE  Cleared(a)
<1>1. load' = load \/ load' = Loading(epoch + 1, a)
  BY DEF ClearAndInit
<1>2. requested' \in BOOLEAN
  BY DEF ClearAndInit
<1> QED
  BY <1>1, <1>2 DEF ClearAndInit, Cleared

LEMMA LinkTypes ==
  ASSUME TypeInv, Disconnect \/ Connect
  PROVE  TypeInv'
<1>1. UNCHANGED selection /\ UNCHANGED <<addr, hist, utxo, scanned, used>>
      /\ UNCHANGED <<epoch, initialized, load, requested>> /\ UNCHANGED stored
  BY DEF Disconnect, Connect, selection, memory
<1>2. SelectionOK' /\ CachesOK' /\ LoadOK' /\ StoredOK' /\ epoch' = epoch
  BY <1>1, Unchanged
<1>3. epoch \in Nat /\ TasksOK(task, epoch)
  BY DEF TypeInv, LoadOK
<1>4. TasksOK(task', epoch')
  BY <1>2, <1>3, RequestsDropped DEF Disconnect, Connect
<1>5. RestOK'
  <2>1. \A what \in DOMAIN budget' : budget'[what] \in Nat
    BY Spending DEF Disconnect, Connect, TypeInv, RestOK
  <2>2. cut' = CutShort(Scans) \/ cut' = cut
    BY DEF Disconnect, Connect
  <2>3. activeKey' \in Accounts \cup {None} /\ connected' \in BOOLEAN /\ UNCHANGED <<coin, mixed>>
    BY DEF Disconnect, Connect, TypeInv, RestOK
  <2> QED
    BY <2>1, <2>2, <2>3, CutStays
<1> QED
  BY <1>2, <1>4, <1>5 DEF TypeInv, TasksOK

LEMMA NotedTyped ==
  ASSUME TypeInv, NoteMixed
  PROVE  mixed' \subseteq Accounts /\ mixed \subseteq mixed'
BY DEF TypeInv, RestOK, NoteMixed

LEMMA OperationTypes ==
  ASSUME TypeInv,
         \/ \E kind \in Operations, a \in Accounts : BeginOperation(kind, a)
         \/ RollBack
         \/ Proceed
  PROVE  TypeInv'
<1>1. epoch \in Nat /\ TasksOK(task, epoch) /\ op.target \in Accounts /\ op.prev \in Accounts
  BY DEF TypeInv, LoadOK, SelectionOK
<1>2. ASSUME NEW kind \in Operations, NEW a \in Accounts, BeginOperation(kind, a)
      PROVE  TypeInv'
  <2>1. op' = [kind |-> kind, target |-> a, prev |-> prefs, phase |-> "begun"]
        /\ prefs' \in {prefs, a} /\ UNCHANGED <<mgr, known>>
    BY <1>2 DEF BeginOperation
  <2>2. kind \in {"none", "switch", "create", "network"}
    BY BudgetAssumption
  <2>3. SelectionOK'
    BY <2>1, <2>2 DEF TypeInv, SelectionOK
  <2>4. CachesOK' /\ LoadOK' /\ StoredOK' /\ epoch' = epoch
    BY <1>2, Unchanged DEF BeginOperation, memory
  <2>5. TasksOK(task', epoch')
    BY <1>1, <1>2, <2>4, RequestsDropped DEF BeginOperation
  <2>6. RestOK'
    <3>1. \A what \in DOMAIN budget' : budget'[what] \in Nat
      BY <1>2, Spending DEF BeginOperation
    <3>2. (cut' = CutShort(Scans) \/ cut' = cut) /\ connected' \in BOOLEAN
      BY <1>2 DEF BeginOperation, TypeInv, RestOK
    <3>3. activeKey' \in Accounts \cup {None} /\ UNCHANGED <<coin, mixed>>
      BY <1>2 DEF BeginOperation, TypeInv, RestOK
    <3> QED
      BY <3>1, <3>2, <3>3, CutStays
  <2> QED
    BY <2>3, <2>4, <2>5, <2>6 DEF TypeInv, TasksOK
<1>3. CASE RollBack
  <2>1. op' = [op EXCEPT !.phase = "rollback"] /\ prefs' = op.prev /\ UNCHANGED <<mgr, known>>
    BY <1>3 DEF RollBack
  <2>2. SelectionOK'
    BY <1>1, <2>1 DEF TypeInv, SelectionOK
  <2>3. CachesOK' /\ LoadOK' /\ StoredOK' /\ epoch' = epoch
    BY <1>3, Unchanged DEF RollBack, memory
  <2>4. TasksOK(task', epoch')
    BY <1>1, <1>3, <2>3, RequestsDropped DEF RollBack
  <2>5. RestOK'
    <3>1. \A what \in DOMAIN budget' : budget'[what] \in Nat
      BY <1>3, Spending DEF RollBack
    <3>2. cut' = CutShort(Scans) /\ connected' \in BOOLEAN
      BY <1>3 DEF RollBack
    <3>3. activeKey' \in Accounts \cup {None} /\ UNCHANGED <<coin, mixed>>
      BY <1>3 DEF RollBack, TypeInv, RestOK
    <3> QED
      BY <3>1, <3>2, <3>3, CutStays
  <2> QED
    BY <2>2, <2>3, <2>4, <2>5 DEF TypeInv, TasksOK
<1>4. CASE MoveAccount
  <2>1. /\ mgr' = op.target /\ prefs' = op.target /\ known' = known \cup {op.target}
        /\ UNCHANGED <<stored, activeKey, task, connected, coin, cut, budget, mixed>>
    BY <1>4 DEF MoveAccount
  <2>2. op' = [op EXCEPT !.phase = "idle"] \/ op' = [op EXCEPT !.phase = "moved"]
    BY <1>4 DEF MoveAccount
  <2>3. SelectionOK'
    BY <1>1, <2>1, <2>2 DEF TypeInv, SelectionOK
  <2>4. StoredOK' /\ RestOK'
    BY <2>1, Unchanged
  <2>5. CachesOK' /\ LoadOK' /\ TasksOK(task, epoch')
    <3>1. CASE op.kind = "switch"
      BY <1>1, <1>4, <3>1, ClearAndInitClears, Clearing DEF MoveAccount
    <3>2. CASE op.kind # "switch"
      BY <1>1, <1>4, <3>2, Unchanged DEF MoveAccount, memory
    <3> QED
      BY <3>1, <3>2
  <2> QED
    BY <2>1, <2>3, <2>4, <2>5 DEF TypeInv, TasksOK
<1>5. CASE FinishOperation \/ RolledBack
  <2>1. PICK a \in Accounts : ClearAndInit(a)
    BY <1>1, <1>5 DEF FinishOperation, RolledBack, TypeInv, SelectionOK
  <2>2. CachesOK' /\ LoadOK' /\ TasksOK(task, epoch')
    BY <2>1, ClearAndInitClears, Clearing
  <2>3. SelectionOK'
    BY <1>1, <1>5 DEF FinishOperation, RolledBack, TypeInv, SelectionOK
  <2>4. /\ UNCHANGED <<stored, activeKey, task, connected, coin, cut, budget>>
        /\ mixed' \subseteq Accounts
    BY <1>5, NotedTyped DEF FinishOperation, RolledBack
  <2>5. StoredOK' /\ RestOK'
    BY <2>4, Unchanged DEF TypeInv, RestOK
  <2> QED
    BY <2>2, <2>3, <2>4, <2>5 DEF TypeInv, TasksOK
<1> QED
  BY <1>2, <1>3, <1>4, <1>5 DEF Proceed

LEMMA RestartTypes ==
  ASSUME TypeInv, Restart
  PROVE  TypeInv'
<1>1. epoch \in Nat /\ epoch' = epoch + 1 /\ mgr \in Accounts /\ op.target \in Accounts
  BY DEF Restart, TypeInv, LoadOK, SelectionOK
<1>2. SelectionOK'
  BY <1>1 DEF Restart, TypeInv, SelectionOK
<1>3. Cleared(mgr)
  BY DEF Restart, Cleared
<1>4. CachesOK' /\ LoadOK'
  BY <1>1, <1>3, Clearing
<1>5. TasksOK(task', epoch')
  <2>1. NoScan \in TaskRecords(epoch') /\ NoScan.phase = "idle" /\ epoch' \in Nat
    BY <1>1, NoScanIsATask
  <2>2. task' = [k \in Scans |-> NoScan]
    BY DEF Restart
  <2> QED
    BY <2>1, <2>2 DEF TasksOK
<1>6. StoredOK'
  BY Unchanged DEF Restart
<1>7. RestOK'
  <2>1. \A what \in DOMAIN budget' : budget'[what] \in Nat
    BY Spending DEF Restart
  <2>2. cut' \in SUBSET (Accounts \X Indexes)
    BY <1>1, CutTyped DEF Restart, TypeInv
  <2> QED
    BY <2>1, <2>2, NotedTyped DEF Restart, TypeInv, RestOK
<1> QED
  BY <1>2, <1>4, <1>5, <1>6, <1>7 DEF TypeInv, TasksOK

\* One coin moves on.
Coins == {"none", "pending", "confirmed", "spent"}

CoinMoves(a, i) ==
  /\ coin' \in [Accounts -> [0..MaxCoin -> Coins]]
  /\ \A b \in Accounts, j \in 0..MaxCoin : b # a \/ j # i => coin'[b][j] = coin[b][j]
  /\ coin[a][i] = "none" => coin'[a][i] = "pending"
  /\ \/ coin[a][i] \in {"none", "spent"} /\ coin'[a][i] = "pending"
     \/ coin[a][i] = "pending" /\ coin'[a][i] = "confirmed"
     \/ coin[a][i] = "confirmed" /\ coin'[a][i] = "spent"
  /\ coin[a][i] = "spent" => AddressReuse

LEMMA CoinStep ==
  ASSUME TypeInv, NEW a \in Accounts, NEW i \in 0..MaxCoin, Receive(a, i) \/ Advance(a, i)
  PROVE  CoinMoves(a, i)
<1>1. coin \in [Accounts -> [0..MaxCoin -> Coins]]
  BY DEF TypeInv, RestOK, Coins
<1>2. ASSUME NEW c \in Coins
      PROVE  LET C == [coin EXCEPT ![a][i] = c]
             IN  /\ C \in [Accounts -> [0..MaxCoin -> Coins]]
                 /\ \A b \in Accounts, j \in 0..MaxCoin : b # a \/ j # i => C[b][j] = coin[b][j]
                 /\ C[a][i] = c
  BY <1>1
<1>3. CASE Receive(a, i)
  <2>1. coin' = [coin EXCEPT ![a][i] = "pending"] /\ "pending" \in Coins
    BY <1>3 DEF Receive, Coins
  <2>2. coin[a][i] \in {"none", "spent"} /\ (coin[a][i] = "spent" => AddressReuse)
    BY <1>3 DEF Receive
  <2> QED
    BY <1>2, <2>1, <2>2 DEF CoinMoves
<1>4. CASE Advance(a, i)
  <2>1. PICK c : c = IF coin[a][i] = "pending" THEN "confirmed" ELSE "spent"
    OBVIOUS
  <2>2. coin' = [coin EXCEPT ![a][i] = c] /\ coin[a][i] \in {"pending", "confirmed"}
    BY <1>4, <2>1 DEF Advance
  <2>3. c \in Coins
    BY <2>1 DEF Coins
  <2> QED
    BY <1>2, <2>1, <2>2, <2>3 DEF CoinMoves
<1> QED
  BY <1>3, <1>4

LEMMA ChainTypes ==
  ASSUME TypeInv, NEW a \in Accounts, NEW i \in 0..MaxCoin, Receive(a, i) \/ Advance(a, i)
  PROVE  TypeInv'
<1>1. UNCHANGED <<selection, memory, stored, activeKey, task, connected, cut, mixed>>
  BY DEF Receive, Advance
<1>2. SelectionOK' /\ CachesOK' /\ LoadOK' /\ StoredOK' /\ TasksOK(task', epoch')
  BY <1>1, Unchanged DEF memory, TypeInv
<1>3. \A what \in DOMAIN budget' : budget'[what] \in Nat
  BY Spending DEF Receive, Advance, TypeInv, RestOK
<1>4. RestOK'
  BY <1>1, <1>3, CoinStep DEF CoinMoves, Coins, TypeInv, RestOK
<1> QED
  BY <1>2, <1>4 DEF TypeInv, TasksOK

LEMMA TypesKept ==
  ASSUME TypeInv, [Next]_vars
  PROVE  TypeInv'
<1>1. CASE UNCHANGED vars
  BY <1>1, Unchanged DEF vars, memory, TypeInv, TasksOK
<1>2. CASE Next
  <2>1. CASE \E k \in Scans : Resume(k)
    BY <2>1, EnsuredTypes, RunTypes, AnswerTypes DEF Resume
  <2> QED
    BY <1>2, <2>1, LoadTypes, StartTypes, RunTypes, LinkTypes, OperationTypes, RestartTypes,
       ChainTypes DEF Next
<1> QED
  BY <1>1, <1>2


-----------------------------------------------------------------------------
(* Two accounts mix only before clear().                                   *)

\* MixedOnlyBeforeClear by the parts of what is stored.
StoredIsOwn(a) ==
  /\ stored[a].addr # None => OwnAddresses(a, stored[a].addr)
  /\ stored[a].hist # None => OwnHistory(a, stored[a].hist)
  /\ stored[a].utxo # None => OwnCoins(a, stored[a].utxo)

StorageIsOwn ==
  \A a \in Accounts : a \in mixed \/ (a = mgr /\ InWindow) \/ StoredIsOwn(a)

LEMMA ForeignMeans ==
  TypeInv => \A a \in Accounts : StoredIsOwn(a) <=> \A i \in Indexes : ~Foreign(a, i)
<1> SUFFICES ASSUME TypeInv, NEW a \in Accounts
             PROVE  StoredIsOwn(a) <=> \A i \in Indexes : ~Foreign(a, i)
  OBVIOUS
<1>1. \A i \in Indexes : i \in Nat /\ (Paid(a, i) <=> ~(i > MaxCoin \/ coin[a][i] = "none"))
  BY Domains, NumbersAssumption DEF Paid
<1>2. stored[a].utxo # None => stored[a].utxo \subseteq Indexes
  BY DEF TypeInv, StoredOK, StoredRecords
<1>3. ASSUME StoredIsOwn(a), NEW i \in Indexes PROVE ~Foreign(a, i)
  BY <1>1, <1>3 DEF StoredIsOwn, Foreign, Recorded, OwnAddresses, OwnHistory, OwnCoins
<1>4. ASSUME \A i \in Indexes : ~Foreign(a, i) PROVE StoredIsOwn(a)
  <2>1. stored[a].addr # None => OwnAddresses(a, stored[a].addr)
    BY <1>4 DEF Foreign, OwnAddresses
  <2>2. stored[a].hist # None => OwnHistory(a, stored[a].hist)
    BY <1>1, <1>4 DEF Foreign, OwnHistory, Recorded
  <2>3. stored[a].utxo # None => OwnCoins(a, stored[a].utxo)
    BY <1>1, <1>2, <1>4 DEF Foreign, OwnCoins
  <2> QED
    BY <2>1, <2>2, <2>3 DEF StoredIsOwn
<1> QED
  BY <1>3, <1>4

LEMMA MixedMeans ==
  TypeInv => (MixedOnlyBeforeClear <=> StorageIsOwn)
BY ForeignMeans DEF MixedOnlyBeforeClear, StorageIsOwn, InWindow

\* What is stored afterwards is as before, or what memory holds.
SavesOwn ==
  /\ \A a \in Accounts : a # mgr => stored'[a] = stored[a]
  /\ stored'[mgr].addr \in {stored[mgr].addr, addr'}
  /\ stored'[mgr].hist \in {stored[mgr].hist, hist'}
  /\ stored'[mgr].utxo \in {stored[mgr].utxo, utxo'}

LEMMA SavesKeep ==
  ASSUME StorageIsOwn, MemoryIsOwn', SavesOwn, UNCHANGED <<op, mgr, coin, mixed>>
  PROVE  StorageIsOwn'
<1> SUFFICES ASSUME NEW a \in Accounts, a \notin mixed, ~(a = mgr /\ InWindow)
             PROVE  StoredIsOwn(a)'
  BY DEF StorageIsOwn, InWindow
<1>1. StoredIsOwn(a)
  BY DEF StorageIsOwn
<1>2. CASE a # mgr
  BY <1>1, <1>2 DEF SavesOwn, StoredIsOwn, OwnAddresses, OwnHistory, OwnCoins, Paid
<1>3. CASE a = mgr
  <2>1. OwnAddresses(a, addr)' /\ OwnHistory(a, hist)' /\ OwnCoins(a, utxo)'
    BY <1>3 DEF MemoryIsOwn, InWindow
  <2>2. stored'[a].addr # None => OwnAddresses(a, stored[a].addr)'
    BY <1>1, <1>3, <2>1 DEF SavesOwn, StoredIsOwn, OwnAddresses
  <2>3. stored'[a].hist # None => OwnHistory(a, stored[a].hist)'
    BY <1>1, <1>3, <2>1 DEF SavesOwn, StoredIsOwn, OwnHistory, Paid
  <2>4. stored'[a].utxo # None => OwnCoins(a, stored[a].utxo)'
    BY <1>1, <1>3, <2>1 DEF SavesOwn, StoredIsOwn, OwnCoins, Paid
  <2> QED
    BY <2>2, <2>3, <2>4 DEF StoredIsOwn
<1> QED
  BY <1>2, <1>3

LEMMA PutsSavesOwn ==
  ASSUME NEW c, NEW h, NEW u, NEW S, Puts(S, c, h, u), stored' = S, c \in {Here.addr, addr'},
         h \in {Here.hist, hist'}, u \in {Here.utxo, utxo'}
  PROVE  SavesOwn
BY DEF Puts, SavesOwn, Here

LEMMA DerivingSavesOwn ==
  ASSUME TypeInv, Deriving(stored')
  PROVE  SavesOwn
<1>1. StoredOK /\ SelectionOK /\ addr' \in AddressCaches
  BY DEF TypeInv, Deriving
<1>2. PICK c : c = addr'
  OBVIOUS
<1>3. CASE stored' = stored
  BY <1>3 DEF SavesOwn
<1>4. CASE stored' = [stored EXCEPT ![mgr].addr = c]
  <2>1. Puts([stored EXCEPT ![mgr].addr = c], c, Here.hist, Here.utxo)
    BY <1>1, <1>2, Saving
  <2> QED
    BY <1>2, <1>4, <2>1, PutsSavesOwn
<1> QED
  BY <1>2, <1>3, <1>4 DEF Deriving

LEMMA GrownOwn ==
  ASSUME TypeInv, Grown(addr, addr'), OwnAddresses(mgr, addr)
  PROVE  OwnAddresses(mgr, addr')
BY DEF Grown, OwnAddresses


LoadIsOwn(L, e) ==
  L.epoch = e /\ L.read # None =>
    /\ L.phase = "address" => OwnAddresses(mgr, L.read)
    /\ L.phase = "history" => OwnHistory(mgr, L.read)
    /\ L.phase = "utxo" => OwnCoins(mgr, L.read)

LEMMA MemoryStays ==
  ASSUME UNCHANGED <<op, mgr, mixed, coin>>,
         ~InWindow /\ mgr \notin mixed =>
           /\ OwnAddresses(mgr, addr') /\ OwnHistory(mgr, hist') /\ OwnCoins(mgr, utxo')
           /\ LoadIsOwn(load', epoch')
  PROVE  MemoryIsOwn'
BY DEF MemoryIsOwn, LoadIsOwn, InWindow, OwnAddresses, OwnHistory, OwnCoins, Paid

LEMMA LoadingIsOwn ==
  ASSUME TypeInv, StorageIsOwn, ~InWindow, mgr \notin mixed, NEW e
  PROVE  StoredIsOwn(mgr) /\ LoadIsOwn(Loading(e, mgr), e) /\ LoadIsOwn(NoLoad, e)
<1>1. StoredIsOwn(mgr) /\ mgr \in Accounts /\ StoredOK
  BY DEF StorageIsOwn, TypeInv, SelectionOK
<1>2. Loading(e, mgr).phase = "address" /\ Loading(e, mgr).read = stored[mgr].addr
  BY <1>1, LoadingTyped
<1> QED
  BY <1>1, <1>2, NoLoadTyped DEF LoadIsOwn, StoredIsOwn

LEMMA LoadMix ==
  ASSUME TypeInv, MemoryIsOwn, StorageIsOwn, Load
  PROVE  MemoryIsOwn' /\ StorageIsOwn'
<1>1. UNCHANGED <<op, mgr, coin, mixed, epoch>>
  BY DEF Load, LoadSuperseded, LoadAddress, LoadHistory, LoadUtxo, selection
<1>2. SelectionOK /\ StoredOK /\ addr \in AddressCaches /\ hist \in HistoryCaches
      /\ utxo \in SUBSET Indexes
  BY DEF TypeInv, CachesOK
<1>3. ASSUME ~InWindow, mgr \notin mixed
      PROVE  /\ OwnAddresses(mgr, addr) /\ OwnHistory(mgr, hist) /\ OwnCoins(mgr, utxo)
             /\ LoadIsOwn(load, epoch) /\ StoredIsOwn(mgr)
  BY <1>3, LoadingIsOwn DEF MemoryIsOwn, LoadIsOwn
<1>4. CASE LoadSuperseded
  <2>1. load' = Loading(epoch, mgr) \/ load' = NoLoad
    BY <1>4 DEF LoadSuperseded
  <2>2. MemoryIsOwn'
    BY <1>1, <1>3, <1>4, <2>1, LoadingIsOwn, MemoryStays DEF LoadSuperseded
  <2>3. SavesOwn
    BY <1>4 DEF LoadSuperseded, SavesOwn
  <2> QED
    BY <1>1, <2>2, <2>3, SavesKeep
<1>5. CASE LoadAddress
  <2>1. /\ UNCHANGED <<hist, utxo>> /\ load.phase = "address" /\ load.epoch = epoch
        /\ load'.phase = "history" /\ load'.read = stored[mgr].hist
    BY <1>5 DEF LoadAddress, TypeInv, LoadOK
  <2>2. MemoryIsOwn'
    <3>1. ASSUME ~InWindow, mgr \notin mixed
          PROVE  OwnAddresses(mgr, addr') /\ LoadIsOwn(load', epoch')
      <4>1. addr' = addr \/ (load.read # None /\ addr' = load.read)
        BY <1>5 DEF LoadAddress
      <4>2. OwnAddresses(mgr, addr')
        BY <1>3, <2>1, <3>1, <4>1 DEF LoadIsOwn
      <4>3. LoadIsOwn(load', epoch')
        BY <1>3, <2>1, <3>1 DEF LoadIsOwn, StoredIsOwn
      <4> QED
        BY <4>2, <4>3
    <3> QED
      BY <1>1, <1>3, <2>1, <3>1, MemoryStays
  <2>3. SavesOwn
    <3>1. CASE load.read = None
      <4>1. stored' = [stored EXCEPT ![mgr].addr = addr] /\ addr' = addr
        BY <1>5, <3>1 DEF LoadAddress
      <4>2. Puts([stored EXCEPT ![mgr].addr = addr], addr, Here.hist, Here.utxo)
        BY <1>2, Saving
      <4> QED
        BY <4>1, <4>2, PutsSavesOwn
    <3>2. CASE load.read # None
      BY <1>5, <3>2 DEF LoadAddress, SavesOwn
    <3> QED
      BY <3>1, <3>2
  <2> QED
    BY <1>1, <2>2, <2>3, SavesKeep
<1>6. CASE LoadHistory
  <2>1. /\ UNCHANGED <<addr, utxo>> /\ load.phase = "history" /\ load.epoch = epoch
        /\ load'.phase = "utxo" /\ load'.read = stored[mgr].utxo
    BY <1>6 DEF LoadHistory, TypeInv, LoadOK
  <2>2. MemoryIsOwn'
    <3>1. ASSUME ~InWindow, mgr \notin mixed
          PROVE  OwnHistory(mgr, hist') /\ LoadIsOwn(load', epoch')
      <4>1. hist' = hist \/ (load.read # None /\ hist' = load.read)
        BY <1>6 DEF LoadHistory
      <4>2. OwnHistory(mgr, hist')
        BY <1>3, <2>1, <3>1, <4>1 DEF LoadIsOwn
      <4>3. LoadIsOwn(load', epoch')
        BY <1>3, <2>1, <3>1 DEF LoadIsOwn, StoredIsOwn
      <4> QED
        BY <4>2, <4>3
    <3> QED
      BY <1>1, <1>3, <2>1, <3>1, MemoryStays
  <2>3. SavesOwn
    <3>1. CASE load.read = None
      <4>1. stored' = [stored EXCEPT ![mgr].hist = hist] /\ hist' = hist
        BY <1>6, <3>1 DEF LoadHistory
      <4>2. Puts([stored EXCEPT ![mgr].hist = hist], Here.addr, hist, Here.utxo)
        BY <1>2, Saving
      <4> QED
        BY <4>1, <4>2, PutsSavesOwn
    <3>2. CASE load.read # None
      BY <1>6, <3>2 DEF LoadHistory, SavesOwn
    <3> QED
      BY <3>1, <3>2
  <2> QED
    BY <1>1, <2>2, <2>3, SavesKeep
<1>7. CASE LoadUtxo
  <2>1. /\ UNCHANGED <<addr, hist>> /\ load.phase = "utxo" /\ load.epoch = epoch
        /\ load' = NoLoad
    BY <1>7 DEF LoadUtxo
  <2>2. MemoryIsOwn'
    <3>1. ASSUME ~InWindow, mgr \notin mixed
          PROVE  OwnCoins(mgr, utxo')
      <4>1. utxo' = utxo \/ (load.read # None /\ utxo' = load.read)
        BY <1>7 DEF LoadUtxo
      <4> QED
        BY <1>3, <2>1, <3>1, <4>1 DEF LoadIsOwn
    <3> QED
      BY <1>1, <1>3, <2>1, <3>1, LoadingIsOwn, MemoryStays
  <2>3. SavesOwn
    <3>1. CASE load.read = None
      <4>1. stored' = [stored EXCEPT ![mgr].utxo = utxo] /\ utxo' = utxo
        BY <1>7, <3>1 DEF LoadUtxo
      <4>2. Puts([stored EXCEPT ![mgr].utxo = utxo], Here.addr, Here.hist, utxo)
        BY <1>2, Saving
      <4> QED
        BY <4>1, <4>2, PutsSavesOwn
    <3>2. CASE load.read # None
      BY <1>7, <3>2 DEF LoadUtxo, SavesOwn
    <3> QED
      BY <3>1, <3>2
  <2> QED
    BY <1>1, <2>2, <2>3, SavesKeep
<1> QED
  BY <1>4, <1>5, <1>6, <1>7 DEF Load

\* A scan that derives addresses, or leaves the caches alone.
LEMMA DerivingMix ==
  ASSUME TypeInv, MemoryIsOwn, StorageIsOwn, Deriving(stored'),
         UNCHANGED <<op, mgr, coin, mixed, epoch, hist, utxo, load>>
  PROVE  MemoryIsOwn' /\ StorageIsOwn'
<1>1. ASSUME ~InWindow, mgr \notin mixed
      PROVE  /\ OwnAddresses(mgr, addr') /\ OwnHistory(mgr, hist') /\ OwnCoins(mgr, utxo')
             /\ LoadIsOwn(load', epoch')
  BY <1>1, GrownOwn DEF MemoryIsOwn, LoadIsOwn, Deriving
<1>2. MemoryIsOwn'
  BY <1>1, MemoryStays
<1> QED
  BY <1>2, DerivingSavesOwn, SavesKeep

LEMMA ScanMix ==
  ASSUME TypeInv, MemoryIsOwn, StorageIsOwn, NEW k \in Scans,
         StartScan(k) \/ Resume(k) \/ ScanFails(k)
  PROVE  MemoryIsOwn' /\ StorageIsOwn'
<1>1. UNCHANGED <<op, mgr, coin, mixed, epoch>>
  BY DEF StartScan, Resume, Ensured, Abandon, ForwardPass, Ask, Histories, Utxos, SaveAddresses,
         ScanFails, selection, memory
<1>3. CASE StartScan(k)
  <2>1. UNCHANGED <<hist, utxo>>
    BY <1>3 DEF StartScan
  <2>2. CASE activeKey = Context \/ initialized
    <3>1. Enter(k) /\ UNCHANGED load /\ Context # None
      BY <1>3, <2>2 DEF StartScan
    <3> QED
      BY <1>1, <2>1, <3>1, Entering, DerivingMix
  <2>3. CASE ~(activeKey = Context \/ initialized)
    <3>1. RequestInit /\ UNCHANGED <<addr, stored>>
      BY <1>3, <2>3 DEF StartScan
    <3>2. load' = load \/ load' = Loading(epoch, mgr)
      BY <3>1 DEF RequestInit
    <3>3. ASSUME ~InWindow, mgr \notin mixed
          PROVE  /\ OwnAddresses(mgr, addr') /\ OwnHistory(mgr, hist') /\ OwnCoins(mgr, utxo')
                 /\ LoadIsOwn(load', epoch')
      BY <1>1, <2>1, <3>1, <3>2, <3>3, LoadingIsOwn DEF MemoryIsOwn, LoadIsOwn
    <3>4. MemoryIsOwn'
      BY <1>1, <3>3, MemoryStays
    <3>5. SavesOwn
      BY <3>1 DEF SavesOwn
    <3> QED
      BY <1>1, <3>4, <3>5, SavesKeep
  <2> QED
    BY <2>2, <2>3
<1>4. CASE Ensured(k)
  <2>1. UNCHANGED <<hist, utxo, load>>
    BY <1>4 DEF Ensured
  <2>2. task[k].account # None
    BY <1>4, AccountsAssumption DEF Ensured, TypeInv, TasksOK
  <2>3. CASE Context = task[k].account
    <3>1. Enter(k) /\ Context # None
      BY <1>4, <2>2, <2>3 DEF Ensured
    <3> QED
      BY <1>1, <2>1, <3>1, Entering, DerivingMix
  <2>4. CASE Context # task[k].account
    <3>1. UNCHANGED <<addr, scanned, stored>>
      BY <1>4, <2>4 DEF Ensured
    <3>2. Deriving(stored')
      BY <3>1 DEF Deriving, Grown, TypeInv, CachesOK
    <3> QED
      BY <1>1, <2>1, <3>2, DerivingMix
  <2> QED
    BY <2>3, <2>4
<1>5. CASE Abandon(k) \/ ForwardPass(k) \/ Ask(k) \/ SaveAddresses(k) \/ ScanFails(k)
  <2>1. UNCHANGED <<hist, utxo, load>>
    BY <1>5 DEF Abandon, ForwardPass, Ask, SaveAddresses, ScanFails, memory
  <2> QED
    BY <1>1, <1>5, <2>1, RunStep, DerivingMix
<1>6. CASE Histories(k)
  <2>1. HistoriesMove(k) /\ UNCHANGED <<utxo, load>>
    BY <1>6, HistoriesStep DEF Histories
  <2>2. ASSUME ~InWindow, mgr \notin mixed
        PROVE  /\ OwnAddresses(mgr, addr') /\ OwnHistory(mgr, hist') /\ OwnCoins(mgr, utxo')
               /\ LoadIsOwn(load', epoch')
    <3>1. /\ OwnAddresses(mgr, addr) /\ OwnHistory(mgr, hist) /\ OwnCoins(mgr, utxo)
          /\ LoadIsOwn(load, epoch)
      BY <2>2 DEF MemoryIsOwn, LoadIsOwn
    <3>2. \A i \in Seen(k) : addr[i] # None /\ Paid(addr[i].owner, i)
      BY DEF Seen, On, Paid
    <3>3. OwnAddresses(mgr, addr')
      BY <2>1, <3>1, <3>2 DEF HistoriesMove, OwnAddresses
    <3>4. OwnHistory(mgr, hist')
      BY <2>1, <3>1, <3>2 DEF HistoriesMove, OwnHistory, OwnAddresses
    <3> QED
      BY <1>1, <2>1, <3>1, <3>3, <3>4
  <2>3. MemoryIsOwn'
    BY <1>1, <2>2, MemoryStays
  <2>4. SavesOwn
    <3>1. PICK h : h = hist'
      OBVIOUS
    <3>2. PICK S : S = stored'
      OBVIOUS
    <3>3. Puts(S, Here.addr, h, Here.utxo)
      BY <2>1, <3>1, <3>2 DEF HistoriesMove
    <3> QED
      BY <3>1, <3>2, <3>3, PutsSavesOwn
  <2> QED
    BY <1>1, <2>3, <2>4, SavesKeep
<1>7. CASE Utxos(k)
  <2>1. UtxosMove(k) /\ UNCHANGED <<addr, hist, load>>
    BY <1>7, UtxosStep DEF Utxos
  <2>2. ASSUME ~InWindow, mgr \notin mixed
        PROVE  /\ OwnAddresses(mgr, addr') /\ OwnHistory(mgr, hist') /\ OwnCoins(mgr, utxo')
               /\ LoadIsOwn(load', epoch')
    <3>1. /\ OwnAddresses(mgr, addr) /\ OwnHistory(mgr, hist) /\ OwnCoins(mgr, utxo)
          /\ LoadIsOwn(load, epoch)
      BY <2>2 DEF MemoryIsOwn, LoadIsOwn
    <3>2. \A i \in FundedOf(k) : addr[i] # None /\ i \in Indexes /\ Paid(addr[i].owner, i)
      BY <2>1 DEF FundedOf, Asked, Funded, Paid, UtxosMove
    <3>3. OwnCoins(mgr, utxo')
      BY <2>1, <3>1, <3>2 DEF UtxosMove, OwnCoins, OwnAddresses
    <3> QED
      BY <1>1, <2>1, <3>1, <3>3
  <2>3. MemoryIsOwn'
    BY <1>1, <2>2, MemoryStays
  <2>4. SavesOwn
    <3>1. PICK u : u = utxo'
      OBVIOUS
    <3>2. PICK S : S = stored'
      OBVIOUS
    <3>3. Puts(S, Here.addr, Here.hist, u)
      BY <2>1, <3>1, <3>2 DEF UtxosMove
    <3> QED
      BY <3>1, <3>2, <3>3, PutsSavesOwn
  <2> QED
    BY <1>1, <2>3, <2>4, SavesKeep
<1> QED
  BY <1>3, <1>4, <1>5, <1>6, <1>7 DEF Resume


\* Nothing that is stored or kept in memory moves, and nobody moves the account.
LEMMA StillMix ==
  ASSUME TypeInv, MemoryIsOwn, StorageIsOwn,
         UNCHANGED <<mgr, mixed, coin, memory, stored>>, InWindow => InWindow'
  PROVE  MemoryIsOwn' /\ StorageIsOwn'
<1>1. UNCHANGED <<addr, hist, utxo, load, epoch>>
  BY DEF memory
<1>2. MemoryIsOwn'
  BY <1>1 DEF MemoryIsOwn, InWindow, OwnAddresses, OwnHistory, OwnCoins, Paid
<1>3. \A a \in Accounts : StoredIsOwn(a) => StoredIsOwn(a)'
  BY DEF StoredIsOwn, OwnAddresses, OwnHistory, OwnCoins, Paid
<1> QED
  BY <1>2, <1>3 DEF StorageIsOwn

\* After clear(), what memory holds is nothing, and the load reads what is stored for a.
LEMMA ClearedMix ==
  ASSUME TypeInv, NEW a \in Accounts, Cleared(a), mgr' = a, UNCHANGED <<stored, coin>>,
         a \notin mixed' => StoredIsOwn(a)
  PROVE  MemoryIsOwn'
<1> SUFFICES ASSUME a \notin mixed'
             PROVE  /\ OwnAddresses(a, addr') /\ OwnHistory(a, hist)' /\ OwnCoins(a, utxo)'
                    /\ load'.epoch = epoch' /\ load'.read # None =>
                         /\ load'.phase = "address" => OwnAddresses(a, load'.read)
                         /\ load'.phase = "history" => OwnHistory(a, load.read)'
                         /\ load'.phase = "utxo" => OwnCoins(a, load.read)'
  BY DEF MemoryIsOwn, OwnAddresses, OwnHistory, OwnCoins, Paid
<1>1. OwnAddresses(a, addr') /\ OwnHistory(a, hist)' /\ OwnCoins(a, utxo)'
  BY EmptyCaches DEF Cleared, OwnAddresses, OwnHistory, OwnCoins
<1>2. epoch \in Nat /\ load.epoch <= epoch /\ epoch' = epoch + 1 /\ StoredOK
  BY DEF TypeInv, LoadOK, Cleared
<1>3. CASE load' = load
  BY <1>1, <1>2, <1>3
<1>4. CASE load' = NoLoad
  BY <1>1, <1>4, NoLoadTyped
<1>5. CASE load' = Loading(epoch + 1, a)
  <2>1. load'.phase = "address" /\ load'.read = stored[a].addr
    BY <1>2, <1>5, LoadingTyped
  <2> QED
    BY <1>1, <2>1 DEF StoredIsOwn
<1> QED
  BY <1>3, <1>4, <1>5 DEF Cleared

\* What an operation notes is all that is mixed.
LEMMA NotedMix ==
  ASSUME TypeInv, NoteMixed, UNCHANGED <<stored, coin>>
  PROVE  /\ \A a \in Accounts : a \notin mixed' => StoredIsOwn(a)
         /\ StorageIsOwn'
<1>1. \A a \in Accounts : a \notin mixed' => StoredIsOwn(a)
  BY ForeignMeans DEF NoteMixed
<1>2. \A a \in Accounts : StoredIsOwn(a) => StoredIsOwn(a)'
  BY DEF StoredIsOwn, OwnAddresses, OwnHistory, OwnCoins, Paid
<1> QED
  BY <1>1, <1>2 DEF StorageIsOwn

LEMMA OperationMix ==
  ASSUME TypeInv, MemoryIsOwn, StorageIsOwn,
         \/ \E kind \in Operations, a \in Accounts : BeginOperation(kind, a)
         \/ RollBack
         \/ Proceed
         \/ Restart
  PROVE  MemoryIsOwn' /\ StorageIsOwn'
<1>1. op.target \in Accounts /\ op.prev \in Accounts /\ mgr \in Accounts /\ prefs \in Accounts
  BY DEF TypeInv, SelectionOK
<1>2. ASSUME NEW kind \in Operations, NEW a \in Accounts, BeginOperation(kind, a)
      PROVE  MemoryIsOwn' /\ StorageIsOwn'
  BY <1>2, StillMix DEF BeginOperation, InWindow
<1>3. CASE RollBack
  <2>1. InWindow'
    BY <1>3 DEF RollBack, InWindow, TypeInv, SelectionOK
  <2> QED
    BY <1>3, <2>1, StillMix DEF RollBack
<1>4. CASE MoveAccount
  <2>1. ~InWindow /\ mgr' = op.target /\ UNCHANGED <<stored, coin, mixed>>
    BY <1>4 DEF MoveAccount, InWindow
  <2>2. \A a \in Accounts : a \notin mixed' => StoredIsOwn(a)
    BY <2>1 DEF StorageIsOwn
  <2>3. StorageIsOwn'
    BY <2>1, <2>2 DEF StorageIsOwn, StoredIsOwn, OwnAddresses, OwnHistory, OwnCoins, Paid
  <2>4. MemoryIsOwn'
    <3>1. CASE op.kind = "switch"
      BY <1>1, <1>4, <2>1, <2>2, <3>1, ClearAndInitClears, ClearedMix DEF MoveAccount
    <3>2. CASE op.kind # "switch"
      BY <1>4, <3>2 DEF MoveAccount, MemoryIsOwn, InWindow, TypeInv, SelectionOK
    <3> QED
      BY <3>1, <3>2
  <2> QED
    BY <2>3, <2>4
<1>5. CASE FinishOperation \/ RolledBack
  <2>1. PICK a \in Accounts : ClearAndInit(a) /\ mgr' = a
    BY <1>1, <1>5 DEF FinishOperation, RolledBack
  <2>2. NoteMixed /\ UNCHANGED <<stored, coin>>
    BY <1>5 DEF FinishOperation, RolledBack
  <2> QED
    BY <2>1, <2>2, NotedMix, ClearAndInitClears, ClearedMix
<1>6. CASE Restart
  <2>1. Cleared(prefs) /\ mgr' = prefs /\ NoteMixed /\ UNCHANGED <<stored, coin>>
    BY <1>6 DEF Restart, Cleared
  <2> QED
    BY <1>1, <2>1, NotedMix, ClearedMix
<1> QED
  BY <1>2, <1>3, <1>4, <1>5, <1>6 DEF Proceed

\* A payment makes nothing foreign.
LEMMA ChainMix ==
  ASSUME TypeInv, MemoryIsOwn, StorageIsOwn, NEW a \in Accounts, NEW i \in 0..MaxCoin,
         Receive(a, i) \/ Advance(a, i)
  PROVE  MemoryIsOwn' /\ StorageIsOwn'
<1>1. UNCHANGED <<op, mgr, mixed, memory, stored>>
  BY DEF Receive, Advance, selection
<1>2. \A b \in Accounts, j \in Indexes : Paid(b, j) => Paid(b, j)'
  <2>1. CoinMoves(a, i)
    BY CoinStep
  <2> QED
    BY <2>1, Domains, NumbersAssumption DEF CoinMoves, Paid
<1>3. mgr \in Accounts /\ utxo \subseteq Indexes
      /\ (load.phase = "utxo" /\ load.read # None => load.read \subseteq Indexes)
  BY DEF TypeInv, SelectionOK, CachesOK, LoadOK
<1>4. UNCHANGED <<addr, hist, utxo, load, epoch>>
  BY <1>1 DEF memory
<1>5. MemoryIsOwn'
  BY <1>1, <1>2, <1>3, <1>4 DEF MemoryIsOwn, InWindow, OwnAddresses, OwnHistory, OwnCoins
<1>6. ASSUME NEW b \in Accounts, StoredIsOwn(b) PROVE StoredIsOwn(b)'
  <2>1. stored[b].utxo # None => stored[b].utxo \subseteq Indexes
    BY DEF TypeInv, StoredOK, StoredRecords
  <2> QED
    BY <1>1, <1>2, <1>6, <2>1 DEF StoredIsOwn, OwnAddresses, OwnHistory, OwnCoins
<1> QED
  BY <1>1, <1>5, <1>6 DEF StorageIsOwn, InWindow

\* Every step keeps memory and storage the account's own outside the window.
LEMMA MixKept ==
  ASSUME TypeInv, MemoryIsOwn, StorageIsOwn, [Next]_vars
  PROVE  MemoryIsOwn' /\ StorageIsOwn'
<1>1. CASE UNCHANGED vars
  BY <1>1, StillMix DEF vars, selection, InWindow
<1>2. CASE Disconnect \/ Connect
  BY <1>2, StillMix DEF Disconnect, Connect, selection, InWindow
<1> QED
  BY <1>1, <1>2, LoadMix, ScanMix, OperationMix, ChainMix DEF Next

LEMMA InitTypes ==
  ASSUME Init
  PROVE  TypeInv /\ MemoryIsOwn /\ StorageIsOwn
<1>1. SelectionOK
  BY AccountsAssumption DEF Init, SelectionOK
<1>2. CachesOK
  BY EmptyCaches, NumbersAssumption DEF Init, CachesOK
<1>3. LoadOK
  <2>1. load.phase = "idle" /\ load.read = None /\ load.epoch = 0 /\ epoch = 0
    BY NoLoadTyped DEF Init
  <2>2. initialized \in BOOLEAN /\ requested \in BOOLEAN
    BY DEF Init
  <2> QED
    BY <2>1, <2>2 DEF LoadOK
<1>4. StoredOK
  BY DEF Init, StoredOK, StoredRecords
<1>5. TasksOK(task, epoch)
  BY NoScanIsATask DEF Init, TasksOK
<1>6. RestOK
  BY BudgetAssumption DEF Init, RestOK
<1>7. MemoryIsOwn
  BY EmptyCaches, NoLoadTyped DEF Init, MemoryIsOwn, OwnAddresses, OwnHistory, OwnCoins
<1>8. StorageIsOwn
  BY DEF Init, StorageIsOwn, StoredIsOwn
<1> QED
  BY <1>1, <1>2, <1>3, <1>4, <1>5, <1>6, <1>7, <1>8 DEF TypeInv

\* The types and the reach of what is recorded, memory that is the account's own outside
\* the window of an operation, and what storage then holds.
THEOREM InductiveInvariant == Spec => []MixInv
<1>1. Init => TypeInv /\ MemoryIsOwn /\ StorageIsOwn
  BY InitTypes
<1>2. TypeInv /\ MemoryIsOwn /\ StorageIsOwn /\ [Next]_vars
        => (TypeInv /\ MemoryIsOwn /\ StorageIsOwn)'
  BY TypesKept, MixKept
<1>3. TypeInv /\ MemoryIsOwn /\ StorageIsOwn => MixInv
  BY MixedMeans DEF MixInv
<1> QED
  BY <1>1, <1>2, <1>3, PTL DEF Spec

\* Of any number of accounts, no switch, superseded load or abandoned scan ever mixes two:
\* what is stored for an account is about it, but for what createAccount() and
\* switchNetwork() do before their clear().
THEOREM AccountsKeptApart == Spec => []MixedOnlyBeforeClear
BY InductiveInvariant, PTL DEF MixInv


\* Where accounts are only switched, nothing of an account is ever stored for another:
\* switchAccount() moves the account manager and clears in one turn.
OnlySwitched == mixed = {} /\ ~InWindow /\ (op.phase = "begun" => op.kind = "switch")

LEMMA SwitchedKept ==
  ASSUME TypeInv, MemoryIsOwn, StorageIsOwn, OnlySwitched, [Next]_vars, Operations \subseteq {"switch"}
  PROVE  OnlySwitched'
<1>1. ASSUME NoteMixed PROVE mixed' = {}
  <2>1. \A a \in Accounts : StoredIsOwn(a)
    BY DEF StorageIsOwn, OnlySwitched
  <2> QED
    BY <1>1, <2>1, ForeignMeans DEF NoteMixed, OnlySwitched
<1>2. CASE UNCHANGED <<op, mixed>>
  BY <1>2 DEF OnlySwitched, InWindow
<1>3. ASSUME NEW kind \in Operations, NEW a \in Accounts, BeginOperation(kind, a)
      PROVE  OnlySwitched'
  BY <1>3 DEF BeginOperation, OnlySwitched, InWindow
<1>4. CASE MoveAccount
  <2>1. op' = [op EXCEPT !.phase = "idle"] /\ mixed' = mixed
    BY <1>4 DEF MoveAccount, OnlySwitched
  <2>2. op'.phase = "idle"
    BY <2>1 DEF TypeInv, SelectionOK
  <2> QED
    BY <2>1, <2>2 DEF OnlySwitched, InWindow
<1>5. CASE Restart
  BY <1>1, <1>5 DEF Restart, OnlySwitched, InWindow, TypeInv, SelectionOK
<1>6. ~FinishOperation /\ ~RolledBack /\ ~RollBack
  BY DEF FinishOperation, RolledBack, RollBack, OnlySwitched, InWindow
<1>7. CASE \/ UNCHANGED vars \/ Load \/ Disconnect \/ Connect
           \/ \E k \in Scans : StartScan(k) \/ Resume(k) \/ ScanFails(k)
           \/ \E a \in Accounts, i \in 0..MaxCoin : Receive(a, i) \/ Advance(a, i)
  <2>1. UNCHANGED <<op, mixed>>
    BY <1>7 DEF vars, selection, Load, LoadSuperseded, LoadAddress, LoadHistory, LoadUtxo,
       Disconnect, Connect, StartScan, Resume, Ensured, Abandon, ForwardPass, Ask, Histories,
       Utxos, SaveAddresses, ScanFails, Receive, Advance
  <2> QED
    BY <1>2, <2>1
<1> QED
  BY <1>3, <1>4, <1>5, <1>6, <1>7 DEF Next, Proceed

\* A wallet that only switches accounts keeps every account's caches apart.
THEOREM SwitchMixesNothing ==
  ASSUME Operations \subseteq {"switch"}
  PROVE  Spec => []StoredCachesBelongToTheirAccount
<1> DEFINE Inv == TypeInv /\ MemoryIsOwn /\ StorageIsOwn /\ OnlySwitched
<1>1. Init => Inv
  <2>1. Init => OnlySwitched
    BY DEF Init, OnlySwitched, InWindow
  <2> QED
    BY <2>1, InitTypes
<1>2. Inv /\ [Next]_vars => Inv'
  BY TypesKept, MixKept, SwitchedKept
<1>3. Inv => StoredCachesBelongToTheirAccount
  BY ForeignMeans DEF StoredCachesBelongToTheirAccount, StorageIsOwn, OnlySwitched
<1> QED
  BY <1>1, <1>2, <1>3, PTL DEF Spec

-----------------------------------------------------------------------------
(* One account: no blind spot, and no use is forgotten.                    *)

HistoryKept == \A a \in Accounts, i \in Indexes : Recorded(a, i) => Recorded(a, i)'

LEMMA HistoryStays ==
  ASSUME \A a \in Accounts : stored'[a].hist = stored[a].hist
  PROVE  HistoryKept
BY DEF HistoryKept, Recorded

\* The saves of a scan that derives addresses.
DerivedSave ==
  /\ \A a \in Accounts : a # mgr => stored'[a] = stored[a]
  /\ stored'[mgr].hist = stored[mgr].hist /\ stored'[mgr].utxo = stored[mgr].utxo
  /\ stored'[mgr].addr = addr' \/ (stored'[mgr].addr = stored[mgr].addr /\ addr' = addr)

LEMMA DerivingSaves ==
  ASSUME TypeInv, Deriving(stored')
  PROVE  DerivedSave
<1>1. StoredOK /\ SelectionOK /\ addr' \in AddressCaches
  BY DEF TypeInv, Deriving
<1>2. PICK c : c = addr'
  OBVIOUS
<1>3. CASE stored' = stored /\ addr' = addr
  BY <1>3 DEF DerivedSave
<1>4. CASE stored' = [stored EXCEPT ![mgr].addr = c]
  <2>1. Puts([stored EXCEPT ![mgr].addr = c], c, Here.hist, Here.utxo)
    BY <1>1, <1>2, Saving
  <2> QED
    BY <1>2, <1>4, <2>1 DEF Puts, DerivedSave, Here
<1> QED
  BY <1>2, <1>3, <1>4 DEF Deriving

LEMMA CutHas ==
  ASSUME NEW S \in SUBSET Scans, NEW k \in S, task[k].phase = "utxo", NEW i \in task[k].todo,
         hist[i] # "none"
  PROVE  <<task[k].account, i>> \in CutShort(S)
BY DEF CutShort

\* A scan that reads coins goes on, or what it was about to read is recorded as cut.
ReadsKept ==
  /\ cut \subseteq cut'
  /\ \A k \in Scans : task[k].phase = "utxo" =>
       \/ task'[k] = task[k]
       \/ \A i \in task[k].todo : hist[i] # "none" => <<mgr, i>> \in cut'

\* Every scan is of the account and the epoch, and enters no cache that is not loaded.
ScansHere ==
  \A k \in Scans : task'[k].phase # "idle" =>
    \/ task'[k] = task[k]
    \/ task'[k].epoch = epoch /\ task'[k].account = mgr /\ initialized

LEMMA OneAccountStays ==
  ASSUME OneAccount, ScansHere,
         UNCHANGED <<op, prefs, mgr, epoch, initialized, requested, load>>,
         activeKey' = activeKey \/ initialized
  PROVE  OneAccount'
BY DEF OneAccount, ScansHere

LEMMA DerivingSighted ==
  ASSUME TypeInv, Loaded, Sighted, initialized, load.phase = "idle", Deriving(stored'), ReadsKept,
         UNCHANGED <<mgr, coin, hist, utxo, initialized, load>>
  PROVE  Loaded' /\ Sighted' /\ HistoryKept
<1>1. DerivedSave /\ Grown(addr, addr')
  BY DerivingSaves DEF Deriving
<1>2. OwnAddresses(mgr, addr')
  BY <1>1, GrownOwn DEF Loaded
<1>3. HistoryKept
  BY <1>1, HistoryStays DEF DerivedSave
<1>4. Loaded'
  <2>1. stored'[mgr].addr # None => OwnAddresses(mgr, stored'[mgr].addr)
    BY <1>1, <1>2 DEF DerivedSave, Loaded, Here
  <2>2. stored'[mgr].hist # None => OwnHistory(mgr, stored'[mgr].hist)
    BY <1>1 DEF DerivedSave, Loaded, Here
  <2>3. hist' = stored'[mgr].hist /\ utxo' = stored'[mgr].utxo
    BY <1>1 DEF DerivedSave, Loaded, Here
  <2> QED
    BY <1>2, <2>1, <2>2, <2>3 DEF Loaded, Here, OwnAddresses, OwnHistory, Paid
<1>5. \A i \in Indexes : addr'[i] # None /\ addr'[i].used => addr'[i] = addr[i]
  BY <1>1 DEF Grown
<1>6. UsedIsKnown(addr, hist)
  BY DEF Sighted
<1>7. UsedIsKnown(addr, hist)'
  BY <1>5, <1>6 DEF UsedIsKnown
<1>8. stored'[mgr].addr # None
  BY <1>1, NoneAssumption DEF DerivedSave, Deriving, Sighted, Here
<1>9. \A i \in Indexes : stored'[mgr].addr[i] # None /\ stored'[mgr].addr[i].used
                           => addr'[i] # None /\ addr'[i].used
  BY <1>1 DEF DerivedSave, Sighted, Here
<1>10. ASSUME NEW i \in Indexes, Missed(addr, hist, utxo, i)'
       PROVE  \E k \in Scans : task'[k].phase = "utxo" /\ i \in task'[k].todo
  <2>1. Missed(addr, hist, utxo, i) /\ hist[i] # "none" /\ <<mgr, i>> \notin cut'
    BY <1>5, <1>6, <1>10 DEF Missed, Funded, ReadsKept, UsedIsKnown
  <2>2. PICK k \in Scans : task[k].phase = "utxo" /\ i \in task[k].todo
    BY <2>1 DEF Sighted
  <2> QED
    BY <2>1, <2>2 DEF ReadsKept
<1>11. Sighted'
  BY <1>7, <1>8, <1>9, <1>10 DEF Sighted, Here
<1> QED
  BY <1>3, <1>4, <1>11

LEMMA OneContext ==
  ASSUME TypeInv, OneAccount
  PROVE  /\ Context = mgr /\ mgr \in Accounts /\ Context # None
         /\ initialized => load.phase = "idle"
         /\ \A k \in Scans : task[k].phase # "idle" =>
              Current(k) /\ (task[k].phase # "ensure" => initialized)
<1>1. Context = mgr /\ mgr \in Accounts /\ Context # None
  BY AccountsAssumption DEF TypeInv, SelectionOK, OneAccount, Context
<1> QED
  BY <1>1 DEF OneAccount, Current

\* A scan that enters its part before the first await does so on loaded caches.
LEMMA EnterSighted ==
  ASSUME TypeInv, OneAccount, Loaded, Sighted, initialized, NEW k \in Scans, Enter(k),
         task[k].phase \in {"idle", "ensure"}, cut' = cut,
         UNCHANGED <<selection, epoch, initialized, requested, load, coin, hist, utxo>>
  PROVE  OneAccount' /\ Loaded' /\ Sighted' /\ HistoryKept
<1>1. Context = mgr /\ Context # None /\ load.phase = "idle"
  BY OneContext
<1>2. Deriving(stored') /\ \E t : Opened(k, t)
  BY <1>1, Entering
<1>3. PICK t : Opened(k, t)
  BY <1>2
<1>4. \A j \in Scans : task'[j] = IF j = k THEN t ELSE task[j]
  BY <1>3, TaskSet DEF Opened, TypeInv, LoadOK
<1>5. ReadsKept
  BY <1>4 DEF ReadsKept
<1>6. ScansHere
  BY <1>3, <1>4 DEF ScansHere, Opened
<1>7. OneAccount'
  BY <1>6, OneAccountStays DEF selection
<1> QED
  BY <1>1, <1>2, <1>5, <1>7, DerivingSighted DEF selection


LEMMA StartSighted ==
  ASSUME TypeInv, OneAccount, Loaded, Sighted, NEW k \in Scans, StartScan(k)
  PROVE  OneAccount' /\ Loaded' /\ Sighted' /\ HistoryKept
<1>1. /\ Context = mgr /\ Context # None /\ epoch \in Nat /\ TasksOK(task, epoch)
      /\ mgr \in Accounts
  BY OneContext DEF TypeInv, LoadOK
<1>2. task[k].phase = "idle"
  BY <1>1 DEF StartScan, MayStart, OneAccount
<1>3. cut' = cut
  BY <1>2 DEF StartScan, CutShort
<1>4. UNCHANGED <<selection, epoch, initialized, coin, hist, utxo>>
  BY DEF StartScan
<1>5. CASE activeKey = Context \/ initialized
  <2>1. Enter(k) /\ UNCHANGED <<load, requested>> /\ initialized
    BY <1>1, <1>5 DEF StartScan, OneAccount
  <2> QED
    BY <1>2, <1>3, <1>4, <2>1, EnterSighted
<1>6. CASE ~(activeKey = Context \/ initialized)
  <2>1. RequestInit /\ task' = Entered(k, "ensure", {}) /\ UNCHANGED <<activeKey, addr, stored>>
        /\ ~initialized
    BY <1>6 DEF StartScan
  <2>2. /\ requested' = FALSE
        /\ \/ load.phase = "idle" /\ load' = Loading(epoch, mgr)
           \/ load.phase # "idle" /\ load' = load
    BY <2>1 DEF RequestInit, OneAccount, TypeInv, LoadOK
  <2>3. /\ Loading(epoch, mgr).phase = "address" /\ Loading(epoch, mgr).epoch = epoch
        /\ Loading(epoch, mgr).read = Here.addr
    BY <1>1, LoadingTyped DEF TypeInv, Here
  <2>4. \A j \in Scans : j # k => task'[j] = task[j]
    BY <2>1 DEF Entered
  <2>5. task'[k].phase = "ensure" /\ task'[k].epoch = epoch /\ task'[k].account = mgr
    BY <1>1, <2>1 DEF Entered, TasksOK
  <2>6. OneAccount'
    BY <1>4, <2>1, <2>2, <2>3, <2>4, <2>5 DEF OneAccount, selection
  <2>7. Loaded'
    BY <1>4, <2>1, <2>2, <2>3 DEF Loaded, Here, OwnAddresses, OwnHistory, Paid, selection
  <2>8. Sighted'
    BY <1>3, <1>4, <2>1 DEF Sighted, Here, Missed, Funded, selection
  <2>9. HistoryKept
    BY <2>1, HistoryStays
  <2> QED
    BY <2>6, <2>7, <2>8, <2>9
<1> QED
  BY <1>5, <1>6

\* Going on after the await, a scan finds the caches loaded.
LEMMA EnsuredSighted ==
  ASSUME TypeInv, OneAccount, Loaded, Sighted, NEW k \in Scans, Ensured(k)
  PROVE  OneAccount' /\ Loaded' /\ Sighted' /\ HistoryKept
<1>1. task[k].epoch = epoch /\ task[k].account = mgr /\ task[k].phase = "ensure"
  BY DEF Ensured, OneAccount
<1>2. initialized /\ Context = mgr
  BY <1>1, OneContext DEF Ensured, OneAccount
<1>3. Enter(k)
  BY <1>1, <1>2 DEF Ensured
<1> QED
  BY <1>1, <1>2, <1>3, EnterSighted DEF Ensured

LEMMA RunSighted ==
  ASSUME TypeInv, OneAccount, Loaded, Sighted, NEW k \in Scans,
         Abandon(k) \/ ForwardPass(k) \/ Ask(k) \/ SaveAddresses(k) \/ ScanFails(k)
  PROVE  OneAccount' /\ Loaded' /\ Sighted' /\ HistoryKept
<1>1. task[k].phase \notin {"idle", "ensure"} /\ ~Abandon(k)
  BY OneContext DEF Abandon, ForwardPass, Ask, SaveAddresses, ScanFails
<1>2. /\ initialized /\ load.phase = "idle"
      /\ task[k].account = mgr /\ task[k].epoch = epoch
  BY <1>1, OneContext DEF OneAccount
<1>3. Deriving(stored') /\ GoesOn(task', k)
  BY RunStep
<1>4. UNCHANGED <<op, prefs, mgr, epoch, initialized, requested, load, activeKey, coin, hist, utxo>>
  BY DEF Abandon, ForwardPass, Ask, SaveAddresses, ScanFails, selection, memory
<1>5. \A j \in Scans : j # k => task'[j] = task[j]
  BY <1>3 DEF GoesOn, Ends, Moves
<1>6. task'[k].phase # "idle" => task'[k].epoch = epoch /\ task'[k].account = mgr
  BY <1>2, <1>3, NoScanIsATask DEF GoesOn, Ends, Moves, NoScan
<1>7. OneAccount'
  BY <1>2, <1>4, <1>5, <1>6, OneAccountStays DEF ScansHere
<1>8. ReadsKept
  <2>1. CASE task[k].phase # "utxo" /\ cut' = cut
    BY <1>5, <2>1 DEF ReadsKept
  <2>2. CASE cut' = CutShort({k})
    <3>1. cut \subseteq cut'
      BY <2>2, CutTyped DEF TypeInv, LoadOK
    <3>2. \A i \in task[k].todo : task[k].phase = "utxo" /\ hist[i] # "none" => <<mgr, i>> \in cut'
      BY <1>2, <2>2, CutHas
    <3> QED
      BY <1>5, <3>1, <3>2 DEF ReadsKept
  <2> QED
    BY <1>1, <2>1, <2>2 DEF ForwardPass, Ask, SaveAddresses, ScanFails
<1> QED
  BY <1>2, <1>3, <1>4, <1>7, <1>8, DerivingSighted

LEMMA LinkSighted ==
  ASSUME TypeInv, OneAccount, Loaded, Sighted, Disconnect \/ Connect
  PROVE  OneAccount' /\ Loaded' /\ Sighted' /\ HistoryKept
<1>1. UNCHANGED <<selection, memory, stored, activeKey, coin>>
  BY DEF Disconnect, Connect
<1>2. epoch \in Nat /\ TasksOK(task, epoch)
  BY DEF TypeInv, LoadOK
<1>3. \A k \in Scans : task'[k] = task[k]
        \/ (Disconnect /\ task'[k] = NoScan)
  BY <1>2, RequestsDropped DEF Disconnect, Connect
<1>4. OneAccount'
  BY <1>1, <1>3, NoScanIsATask DEF OneAccount, selection, memory, NoScan
<1>5. ReadsKept
  <2>1. CASE Connect
    BY <2>1 DEF Connect, ReadsKept
  <2>2. CASE Disconnect
    <3>1. cut' = CutShort(Scans) /\ cut \subseteq cut'
      BY <1>2, <2>2, CutTyped DEF Disconnect, TypeInv
    <3>2. ASSUME NEW k \in Scans, task[k].phase = "utxo"
          PROVE  \A i \in task[k].todo : hist[i] # "none" => <<mgr, i>> \in cut'
      BY <3>1, <3>2, CutHas DEF OneAccount
    <3> QED
      BY <3>1, <3>2 DEF ReadsKept
  <2> QED
    BY <2>1, <2>2
<1>6. CASE initialized
  <2>1. Deriving(stored')
    BY <1>1 DEF Deriving, Grown, TypeInv, CachesOK, memory
  <2> QED
    BY <1>1, <1>4, <1>5, <1>6, <2>1, OneContext, DerivingSighted DEF selection, memory
<1>7. CASE ~initialized
  <2>1. Loaded'
    BY <1>1 DEF Loaded, Here, OwnAddresses, OwnHistory, Paid, selection, memory
  <2>2. Sighted'
    BY <1>1, <1>5, <1>7 DEF Sighted, Here, Missed, Funded, selection, memory, ReadsKept
  <2> QED
    BY <1>1, <1>4, <2>1, <2>2, HistoryStays
<1> QED
  BY <1>6, <1>7


\* Histories and coins that arrive are the account's own, and close what was missed.
LEMMA AnswerSighted ==
  ASSUME TypeInv, OneAccount, Loaded, Sighted, NEW k \in Scans, Histories(k) \/ Utxos(k)
  PROVE  OneAccount' /\ Loaded' /\ Sighted' /\ HistoryKept
<1>1. task[k].phase \in {"history", "utxo"}
  BY DEF Histories, Utxos
<1>2. /\ initialized /\ load.phase = "idle" /\ mgr \in Accounts
      /\ task[k].account = mgr /\ task[k].epoch = epoch
  BY <1>1, OneContext DEF OneAccount
<1>3. UNCHANGED <<op, prefs, mgr, epoch, initialized, requested, load, activeKey, coin, cut>>
  BY DEF Histories, Utxos, selection
<1>4. OwnAddresses(mgr, addr) /\ OwnHistory(mgr, hist) /\ hist = Here.hist /\ utxo = Here.utxo
      /\ hist \in HistoryCaches
  BY <1>2, NoneAssumption DEF Loaded, TypeInv, CachesOK
<1>5. CASE Histories(k)
  <2>1. HistoriesMove(k) /\ utxo' = utxo /\ task[k].phase = "history"
    BY <1>5, HistoriesStep DEF Histories
  <2>2. /\ \A j \in Scans : j # k => task'[j] = task[j]
        /\ task'[k].phase = "utxo" /\ task'[k].todo = task[k].todo
        /\ task'[k].epoch = epoch /\ task'[k].account = mgr
    BY <1>2, <2>1 DEF HistoriesMove, Moves
  <2>3. OneAccount'
    BY <1>2, <1>3, <2>2, OneAccountStays DEF ScansHere
  <2>4. /\ \A a \in Accounts : a # mgr => stored'[a] = stored[a]
        /\ stored'[mgr].addr = Here.addr /\ stored'[mgr].hist = hist'
        /\ stored'[mgr].utxo = Here.utxo
    BY <2>1 DEF HistoriesMove, Puts
  <2>5. /\ \A i \in Seen(k) : hist'[i] # "none" /\ addr[i] # None /\ Paid(addr[i].owner, i)
        /\ \A i \in Indexes : i \notin Seen(k) => hist'[i] = hist[i]
    BY <2>1 DEF HistoriesMove, Seen, On, Paid
  <2>6. OwnAddresses(mgr, addr') /\ OwnHistory(mgr, hist')
    <3>1. OwnAddresses(mgr, addr')
      BY <1>4, <2>1, <2>5 DEF HistoriesMove, OwnAddresses
    <3>2. OwnHistory(mgr, hist')
      BY <1>4, <2>1, <2>5 DEF HistoriesMove, OwnHistory, OwnAddresses
    <3> QED
      BY <3>1, <3>2
  <2>7. Loaded'
    BY <1>2, <1>3, <1>4, <2>1, <2>4, <2>6 DEF Loaded, Here, OwnAddresses, OwnHistory, Paid
  <2>8. \A i \in Indexes : addr'[i] = addr[i]
          \/ (i \in Seen(k) /\ addr'[i] # None /\ addr'[i].used)
    BY <2>1 DEF HistoriesMove
  <2>9. UsedIsKnown(addr', hist')
    BY <1>2, <2>5, <2>8 DEF Sighted, UsedIsKnown
  <2>10. ASSUME NEW i \in Indexes, Missed(addr, hist, utxo, i)'
         PROVE  \E j \in Scans : task'[j].phase = "utxo" /\ i \in task'[j].todo
    <3>1. CASE i \in Seen(k)
      BY <2>2, <3>1 DEF Seen
    <3>2. CASE i \notin Seen(k)
      <4>1. Missed(addr, hist, utxo, i)
        BY <1>3, <2>1, <2>5, <2>8, <2>10, <3>2 DEF Missed, Funded
      <4>2. PICK j \in Scans : task[j].phase = "utxo" /\ i \in task[j].todo
        BY <1>2, <4>1 DEF Sighted
      <4> QED
        BY <2>1, <2>2, <4>2
    <3> QED
      BY <3>1, <3>2
  <2>11. Sighted'
    <3>1. stored'[mgr].addr # None
      BY <1>2, <2>4 DEF Sighted
    <3>2. \A i \in Indexes : stored'[mgr].addr[i] # None /\ stored'[mgr].addr[i].used
                               => addr'[i] # None /\ addr'[i].used
      BY <1>2, <2>4, <2>8 DEF Sighted
    <3> QED
      BY <1>2, <1>3, <2>9, <2>10, <3>1, <3>2 DEF Sighted, Here, UsedIsKnown
  <2>12. HistoryKept
    <3>1. \A i \in Indexes : hist[i] # "none" => hist'[i] # "none"
      BY <2>5
    <3>2. hist' # None
      BY <2>1, NoneAssumption DEF HistoriesMove
    <3> QED
      BY <1>4, <2>4, <3>1, <3>2 DEF HistoryKept, Recorded, Here
  <2> QED
    BY <2>3, <2>7, <2>11, <2>12
<1>6. CASE Utxos(k)
  <2>1. UtxosMove(k) /\ UNCHANGED <<addr, hist>>
    BY <1>6, UtxosStep DEF Utxos
  <2>2. /\ \A j \in Scans : j # k => task'[j] = task[j]
        /\ task'[k].epoch = epoch /\ task'[k].account = mgr
    BY <1>2, <2>1 DEF UtxosMove, Moves
  <2>3. OneAccount'
    BY <1>2, <1>3, <2>2, OneAccountStays DEF ScansHere
  <2>4. /\ \A a \in Accounts : a # mgr => stored'[a] = stored[a]
        /\ stored'[mgr].addr = Here.addr /\ stored'[mgr].hist = Here.hist
        /\ stored'[mgr].utxo = utxo'
    BY <2>1 DEF UtxosMove, Puts
  <2>5. Loaded'
    BY <1>2, <1>3, <1>4, <2>1, <2>4 DEF Loaded, Here, OwnAddresses, OwnHistory, Paid
  <2>6. ASSUME NEW i \in Indexes, Missed(addr, hist, utxo, i)'
        PROVE  \E j \in Scans : task'[j].phase = "utxo" /\ i \in task'[j].todo
    <3>1. addr[i] # None /\ addr[i].owner = mgr /\ Funded(mgr, i) /\ i \notin utxo'
      BY <1>3, <1>4, <2>1, <2>6 DEF Missed, Funded, OwnAddresses
    <3>2. i \notin FundedOf(k) /\ i \notin Asked(k) /\ i \notin utxo
      BY <2>1, <3>1 DEF UtxosMove, FundedOf
    <3>3. Missed(addr, hist, utxo, i) /\ i \notin task[k].todo
      BY <1>3, <2>1, <2>6, <3>1, <3>2 DEF Missed, Funded, Asked
    <3>4. PICK j \in Scans : task[j].phase = "utxo" /\ i \in task[j].todo
      BY <1>2, <3>3 DEF Sighted
    <3> QED
      BY <2>2, <3>3, <3>4
  <2>7. Sighted'
    BY <1>2, <1>3, <2>1, <2>4, <2>6 DEF Sighted, Here, UsedIsKnown
  <2>8. HistoryKept
    BY <2>4, HistoryStays DEF Here
  <2> QED
    BY <2>3, <2>5, <2>7, <2>8
<1> QED
  BY <1>5, <1>6

\* A load puts into memory what is stored, which the account's own scans have stored.
LEMMA LoadSighted ==
  ASSUME TypeInv, OneAccount, Loaded, Sighted, Load
  PROVE  OneAccount' /\ Loaded' /\ Sighted' /\ HistoryKept
<1>1. /\ ~LoadSuperseded /\ load.phase # "idle" /\ load.epoch = epoch /\ ~initialized
  BY DEF Load, LoadSuperseded, LoadAddress, LoadHistory, LoadUtxo, OneAccount
<1>2. /\ UNCHANGED <<op, prefs, mgr, epoch, requested, activeKey, coin, cut>>
      /\ SelectionOK /\ StoredOK /\ mgr \in Accounts
  BY <1>1 DEF Load, LoadAddress, LoadHistory, LoadUtxo, selection, TypeInv, SelectionOK
<1>3. addr \in AddressCaches /\ hist \in HistoryCaches /\ utxo \in SUBSET Indexes
  BY DEF TypeInv, CachesOK
<1>4. utxo = {} /\ OwnAddresses(mgr, addr)
      /\ (Here.addr # None => OwnAddresses(mgr, Here.addr))
      /\ (Here.hist # None => OwnHistory(mgr, Here.hist))
  BY <1>1 DEF Loaded
<1>5. CASE LoadAddress
  <2>1. /\ load.phase = "address" /\ load.read = Here.addr
        /\ addr = NoAddresses /\ hist = NoHistory
    BY <1>1, <1>5 DEF LoadAddress, Loaded
  <2>2. /\ load'.phase = "history" /\ load'.read = Here.hist /\ load'.epoch = epoch
        /\ UNCHANGED <<initialized, hist, utxo>>
    BY <1>5, <1>1 DEF LoadAddress, TypeInv, LoadOK, Here
  <2>3. \A k \in Scans : /\ task'[k].phase = task[k].phase /\ task'[k].epoch = task[k].epoch
                         /\ task'[k].account = task[k].account
    BY <1>5 DEF LoadAddress, TypeInv, TasksOK, TaskRecords
  <2>4. OneAccount'
    BY <1>1, <1>2, <2>2, <2>3 DEF OneAccount
  <2>5. CASE load.read = None
    <3>1. stored' = [stored EXCEPT ![mgr].addr = addr] /\ addr' = addr
      BY <1>5, <2>5 DEF LoadAddress
    <3>2. Puts([stored EXCEPT ![mgr].addr = addr], addr, Here.hist, Here.utxo)
      BY <1>2, <1>3, Saving
    <3>3. /\ stored'[mgr].addr = addr /\ stored'[mgr].hist = Here.hist
          /\ stored'[mgr].utxo = Here.utxo
          /\ \A a \in Accounts : a # mgr => stored'[a] = stored[a]
      BY <3>1, <3>2 DEF Puts
    <3>4. Loaded'
      BY <1>1, <1>2, <1>4, <2>1, <2>2, <3>1, <3>3
         DEF Loaded, Here, OwnAddresses, OwnHistory, Paid
    <3>5. Sighted'
      BY <1>1, <2>1, <2>2, <3>3, <1>2, EmptyCaches DEF Sighted, Here
    <3>6. HistoryKept
      BY <3>3, HistoryStays DEF Here
    <3> QED
      BY <2>4, <3>4, <3>5, <3>6
  <2>6. CASE load.read # None
    <3>1. addr' = Here.addr /\ stored' = stored
      BY <1>5, <2>1, <2>6 DEF LoadAddress
    <3>2. Loaded'
      BY <1>1, <1>2, <1>4, <2>1, <2>2, <2>6, <3>1
         DEF Loaded, Here, OwnAddresses, OwnHistory, Paid
    <3>3. Sighted'
      BY <1>1, <1>2, <2>2, <3>1 DEF Sighted, Here, Missed, Funded
    <3> QED
      BY <2>4, <3>1, <3>2, <3>3, HistoryStays
  <2> QED
    BY <2>5, <2>6
<1>6. CASE LoadHistory
  <2>1. /\ load.phase = "history" /\ load.read = Here.hist
        /\ addr = Here.addr /\ hist = NoHistory
    BY <1>1, <1>6 DEF LoadHistory, Loaded
  <2>2. /\ load'.phase = "utxo" /\ load'.read = Here.utxo /\ load'.epoch = epoch
        /\ UNCHANGED <<initialized, addr, utxo, task>>
    BY <1>6, <1>1 DEF LoadHistory, TypeInv, LoadOK, Here
  <2>3. OneAccount'
    BY <1>1, <1>2, <2>2 DEF OneAccount
  <2>4. CASE load.read = None
    <3>1. stored' = [stored EXCEPT ![mgr].hist = hist] /\ hist' = hist
      BY <1>6, <2>4 DEF LoadHistory
    <3>2. Puts([stored EXCEPT ![mgr].hist = hist], Here.addr, hist, Here.utxo)
      BY <1>2, <1>3, Saving
    <3>3. /\ stored'[mgr].addr = Here.addr /\ stored'[mgr].hist = hist
          /\ stored'[mgr].utxo = Here.utxo
          /\ \A a \in Accounts : a # mgr => stored'[a] = stored[a]
      BY <3>1, <3>2 DEF Puts
    <3>4. Loaded'
      BY <1>1, <1>2, <1>4, <2>1, <2>2, <3>1, <3>3, EmptyCaches
         DEF Loaded, Here, OwnAddresses, OwnHistory, Paid
    <3>5. Sighted'
      <4>1. \A i \in Indexes : ~(Here.addr[i] # None /\ Here.addr[i].used)
        BY <1>1, <1>3, <2>1, <2>4, NoneAssumption DEF Sighted
      <4> QED
        BY <1>1, <1>2, <2>2, <3>3, <4>1 DEF Sighted, Here
    <3>6. HistoryKept
      BY <2>1, <2>4, <3>3 DEF HistoryKept, Recorded, Here
    <3> QED
      BY <2>3, <3>4, <3>5, <3>6
  <2>5. CASE load.read # None
    <3>1. hist' = Here.hist /\ stored' = stored
      BY <1>6, <2>1, <2>5 DEF LoadHistory
    <3>2. Loaded'
      BY <1>1, <1>2, <1>4, <2>1, <2>2, <2>5, <3>1
         DEF Loaded, Here, OwnAddresses, OwnHistory, Paid
    <3>3. Sighted'
      BY <1>1, <1>2, <2>2, <3>1 DEF Sighted, Here, Missed, Funded
    <3> QED
      BY <2>3, <3>1, <3>2, <3>3, HistoryStays
  <2> QED
    BY <2>4, <2>5
<1>7. CASE LoadUtxo
  <2>1. /\ load.phase = "utxo" /\ load.read = Here.utxo
        /\ addr = Here.addr /\ hist = Here.hist
    BY <1>1, <1>7 DEF LoadUtxo, Loaded
  <2>2. /\ load' = NoLoad /\ initialized' = TRUE /\ UNCHANGED <<addr, hist, task>>
    BY <1>7 DEF LoadUtxo
  <2>3. OneAccount'
    BY <1>1, <1>2, <2>2, NoLoadTyped DEF OneAccount
  <2>4. utxo' = IF Here.utxo = None THEN {} ELSE Here.utxo
    BY <1>4, <1>7, <2>1 DEF LoadUtxo
  <2>5. /\ stored'[mgr].addr = Here.addr /\ stored'[mgr].hist = Here.hist
        /\ stored'[mgr].utxo = utxo'
        /\ \A a \in Accounts : a # mgr => stored'[a] = stored[a]
    <3>1. CASE load.read = None
      <4>1. stored' = [stored EXCEPT ![mgr].utxo = utxo] /\ utxo' = utxo
        BY <1>7, <3>1 DEF LoadUtxo
      <4>2. Puts([stored EXCEPT ![mgr].utxo = utxo], Here.addr, Here.hist, utxo)
        BY <1>2, <1>3, Saving
      <4> QED
        BY <4>1, <4>2 DEF Puts
    <3>2. CASE load.read # None
      <4>1. stored' = stored /\ utxo' = Here.utxo
        BY <1>7, <2>1, <3>2 DEF LoadUtxo
      <4> QED
        BY <4>1 DEF Here
    <3> QED
      BY <3>1, <3>2
  <2>6. Loaded'
    BY <1>2, <1>4, <2>1, <2>2, <2>5, NoLoadTyped DEF Loaded, Here, OwnAddresses, OwnHistory, Paid
  <2>7. Here.addr # None
    BY <1>3, <2>1, NoneAssumption
  <2>8. \A i \in Indexes : addr[i] # None /\ addr[i].used =>
          hist[i] # "none" /\ ~Missed(addr, hist, utxo, i)'
    BY <1>1, <1>2, <2>1, <2>2, <2>4, <2>7 DEF Sighted, Missed, Funded
  <2>9. Sighted'
    BY <1>2, <2>1, <2>2, <2>5, <2>7, <2>8 DEF Sighted, Here, UsedIsKnown, Missed
  <2>10. HistoryKept
    BY <2>5, HistoryStays DEF Here
  <2> QED
    BY <2>3, <2>6, <2>9, <2>10
<1> QED
  BY <1>1, <1>5, <1>6, <1>7 DEF Load


\* The worker dies: what its scans had recorded but not read is cut, all else is stored.
LEMMA RestartSighted ==
  ASSUME TypeInv, OneAccount, Loaded, Sighted, Restart
  PROVE  OneAccount' /\ Loaded' /\ Sighted' /\ HistoryKept
<1>1. /\ mgr' = mgr /\ prefs' = prefs /\ op' = [op EXCEPT !.phase = "idle"] /\ initialized' = FALSE
      /\ requested' = FALSE /\ load' = NoLoad /\ activeKey' = None
      /\ addr' = NoAddresses /\ hist' = NoHistory /\ utxo' = {}
      /\ task' = [k \in Scans |-> NoScan] /\ cut' = CutShort(Scans) /\ UNCHANGED <<stored, coin>>
  BY DEF Restart, OneAccount
<1>2. \A k \in Scans : task'[k].phase = "idle"
  BY <1>1, NoScanIsATask DEF NoScan
<1>3. OneAccount'
  BY <1>1, <1>2, NoLoadTyped DEF OneAccount, TypeInv, SelectionOK
<1>4. Loaded'
  BY <1>1, NoLoadTyped, EmptyCaches DEF Loaded, Here, OwnAddresses, OwnHistory, Paid
<1>5. cut \subseteq cut'
  BY <1>1, CutTyped DEF TypeInv, LoadOK
<1>6. ASSUME NEW i \in Indexes, Here.addr # None, Here.addr[i] # None, Here.addr[i].used
      PROVE  /\ Here.hist # None /\ Here.hist[i] # "none"
             /\ ~Missed(Here.addr, Here.hist, IF Here.utxo = None THEN {} ELSE Here.utxo, i)'
  <2>1. CASE ~initialized
    BY <1>1, <1>5, <1>6, <2>1 DEF Sighted, Here, Missed, Funded
  <2>2. CASE initialized
    <3>1. addr[i] # None /\ addr[i].used /\ hist[i] # "none"
      BY <1>6, <2>2 DEF Sighted, UsedIsKnown
    <3>2. hist = Here.hist /\ utxo = Here.utxo /\ Here.hist # None /\ Here.utxo # None
      BY <2>2, NoneAssumption DEF Loaded, TypeInv, CachesOK
    <3>3. SUFFICES ASSUME ~AddressReuse, Funded(mgr, i), hist[i] # "pending", i \notin utxo,
                          <<mgr, i>> \notin cut'
                   PROVE  FALSE
      BY <1>1, <3>1, <3>2 DEF Missed, Funded, Here
    <3>4. Missed(addr, hist, utxo, i)
      BY <1>5, <3>1, <3>3 DEF Missed
    <3>5. PICK k \in Scans : task[k].phase = "utxo" /\ i \in task[k].todo
      BY <2>2, <3>4 DEF Sighted
    <3>6. <<task[k].account, i>> \in cut' /\ task[k].account = mgr
      BY <1>1, <3>1, <3>5, CutHas DEF OneAccount
    <3> QED
      BY <3>3, <3>6
  <2> QED
    BY <2>1, <2>2
<1>7. Sighted'
  BY <1>1, <1>6 DEF Sighted, Here, Missed, Funded
<1> QED
  BY <1>1, <1>3, <1>4, <1>7, HistoryStays

\* An address that the wallet holds for used has been paid before: as none is paid again,
\* no payment comes to it, and a coin that only confirms was there before.
LEMMA ChainSighted ==
  ASSUME TypeInv, OneAccount, Loaded, Sighted, NEW a \in Accounts, NEW i \in 0..MaxCoin,
         Receive(a, i) \/ Advance(a, i)
  PROVE  OneAccount' /\ Loaded' /\ Sighted' /\ HistoryKept
<1>1. UNCHANGED <<op, prefs, mgr, memory, stored, activeKey, task, cut>>
  BY DEF Receive, Advance, selection
<1>2. UNCHANGED <<epoch, initialized, load, requested, addr, hist, utxo>>
  BY <1>1 DEF memory
<1>3. CoinMoves(a, i)
  BY CoinStep
<1>4. mgr \in Accounts /\ \A j \in Indexes : j \in Nat
  BY Domains DEF TypeInv, SelectionOK
<1>5. \A j \in Indexes : Paid(mgr, j) => Paid(mgr, j)'
  BY <1>1, <1>3, <1>4, NumbersAssumption DEF CoinMoves, Paid
<1>6. ASSUME ~AddressReuse, NEW j \in Indexes, Paid(mgr, j), Funded(mgr, j)'
      PROVE  Funded(mgr, j)
  <2>1. j \in 0..MaxCoin
    BY <1>4, <1>6, NumbersAssumption DEF Paid
  <2> QED
    BY <1>1, <1>3, <1>4, <1>6, <2>1 DEF CoinMoves, Paid, Funded
<1>7. OneAccount'
  BY <1>1, <1>2 DEF OneAccount
<1>8. Loaded'
  BY <1>1, <1>2, <1>5 DEF Loaded, Here, OwnAddresses, OwnHistory
<1>9. ASSUME NEW c, NEW h, NEW u, NEW j \in Indexes, h[j] # "none", OwnHistory(mgr, h),
             ~AddressReuse /\ c[j] # None /\ c[j].used /\ Funded(mgr, j)'
               /\ h[j] # "pending" /\ j \notin u /\ <<mgr, j>> \notin cut
      PROVE  Missed(c, h, u, j)
  BY <1>6, <1>9 DEF Missed, OwnHistory
<1>10. CASE initialized
  <2>1. OwnHistory(mgr, hist)
    BY <1>10, NoneAssumption DEF Loaded, TypeInv, CachesOK
  <2>2. \A j \in Indexes : Missed(addr, hist, utxo, j)' => Missed(addr, hist, utxo, j)
    BY <1>1, <1>2, <1>9, <1>10, <2>1 DEF Sighted, UsedIsKnown, Missed, Funded
  <2>3. Sighted'
    BY <1>1, <1>2, <1>10, <2>2 DEF Sighted, Here, UsedIsKnown
  <2> QED
    BY <1>1, <1>7, <1>8, <2>3, HistoryStays
<1>11. CASE ~initialized
  <2> DEFINE u == IF Here.utxo = None THEN {} ELSE Here.utxo
  <2>1. ASSUME NEW j \in Indexes, Here.addr # None, Here.addr[j] # None, Here.addr[j].used
        PROVE  /\ Here.hist # None /\ Here.hist[j] # "none"
               /\ ~Missed(Here.addr, Here.hist, u, j)'
    <3>1. Here.hist # None /\ Here.hist[j] # "none" /\ ~Missed(Here.addr, Here.hist, u, j)
      BY <1>11, <2>1 DEF Sighted
    <3>2. OwnHistory(mgr, Here.hist)
      BY <3>1 DEF Loaded
    <3>3. Missed(Here.addr, Here.hist, u, j)' => Missed(Here.addr, Here.hist, u, j)
      BY <1>1, <1>9, <3>1, <3>2 DEF Missed, Funded, Here
    <3> QED
      BY <3>1, <3>3
  <2>2. Sighted'
    BY <1>1, <1>2, <1>11, <2>1 DEF Sighted, Here
  <2> QED
    BY <1>1, <1>7, <1>8, <2>2, HistoryStays
<1> QED
  BY <1>10, <1>11

LEMMA NoneSelectsAnother ==
  ASSUME TypeInv, OneAccount, Operations = {}
  PROVE  /\ ~(\E kind \in Operations, a \in Accounts : BeginOperation(kind, a))
         /\ ~RollBack /\ ~Proceed
BY DEF OneAccount, RollBack, Proceed, MoveAccount, FinishOperation, RolledBack

LEMMA ScanKept ==
  ASSUME TypeInv, OneAccount, Loaded, Sighted, [Next]_vars, Operations = {}
  PROVE  OneAccount' /\ Loaded' /\ Sighted' /\ HistoryKept
<1>1. CASE UNCHANGED vars
  <2>1. UNCHANGED <<op, prefs, mgr, epoch, initialized, load, requested, addr, hist, utxo, stored,
                    activeKey, task, coin, cut>>
    BY <1>1 DEF vars, selection, memory
  <2>2. OneAccount'
    BY <2>1 DEF OneAccount
  <2>3. Loaded'
    BY <2>1 DEF Loaded, Here, OwnAddresses, OwnHistory, Paid
  <2>4. Sighted'
    BY <2>1 DEF Sighted, Here, UsedIsKnown, Missed, Funded
  <2> QED
    BY <2>1, <2>2, <2>3, <2>4, HistoryStays
<1>2. CASE \E k \in Scans : Resume(k)
  BY <1>2, EnsuredSighted, RunSighted, AnswerSighted DEF Resume
<1>3. CASE \E k \in Scans : StartScan(k) \/ ScanFails(k)
  BY <1>3, StartSighted, RunSighted
<1>4. CASE \E a \in Accounts, i \in 0..MaxCoin : Receive(a, i) \/ Advance(a, i)
  BY <1>4, ChainSighted
<1> QED
  BY <1>1, <1>2, <1>3, <1>4, LoadSighted, LinkSighted, RestartSighted, NoneSelectsAnother DEF Next

LEMMA InitSighted ==
  ASSUME Init
  PROVE  OneAccount /\ Loaded /\ Sighted
<1>1. /\ op.phase = "idle" /\ prefs = mgr /\ mgr \in Accounts /\ ~requested /\ ~initialized
      /\ load = NoLoad /\ activeKey = None
      /\ addr = NoAddresses /\ hist = NoHistory /\ utxo = {}
  BY AccountsAssumption DEF Init
<1>2. Here.addr = None /\ Here.hist = None /\ Here.utxo = None
  BY <1>1 DEF Init, Here
<1>3. \A k \in Scans : task[k].phase = "idle"
  BY NoScanIsATask DEF Init, NoScan
<1>4. OneAccount
  BY <1>1, <1>3, NoLoadTyped DEF OneAccount
<1>5. Loaded
  BY <1>1, <1>2, NoLoadTyped, EmptyCaches DEF Loaded, OwnAddresses
<1>6. Sighted
  BY <1>1, <1>2 DEF Sighted
<1> QED
  BY <1>4, <1>5, <1>6

\* As long as one account stays selected, loads and scans are all of one epoch, memory is what
\* storage holds, and a used address has a history; its coin, unless addresses are paid again,
\* is found, still being read, or was cut.
THEOREM OneAccountInvariant ==
  ASSUME Operations = {}
  PROVE  Spec => []ScanInv
<1>1. Init => ScanInv
  BY InitTypes, InitSighted DEF ScanInv
<1>2. ScanInv /\ [Next]_vars => ScanInv'
  BY TypesKept, ScanKept DEF ScanInv
<1> QED
  BY <1>1, <1>2, PTL DEF Spec

\* If moreover no address is paid again, no coin of the account escapes the backfill scan, whatever fails, drops or restarts.
THEOREM NoCoinEscapes ==
  ASSUME Operations = {}, ~AddressReuse
  PROVE  Spec => []NoBlindSpot
<1>1. ScanInv => NoBlindSpot
  <2> SUFFICES ASSUME ScanInv PROVE NoBlindSpot
    OBVIOUS
  <2>1. TypeInv /\ OneAccount /\ Loaded /\ Sighted
    BY DEF ScanInv
  <2>2. TypeOK
    BY <2>1, TypeInvGivesTypeOK
  <2>3. ASSUME initialized, NEW i \in Indexes
        PROVE  /\ Recorded(mgr, i) => hist[i] # "none"
               /\ addr[i] # None /\ Funded(mgr, i) /\ i \notin utxo =>
                    \/ hist[i] = "pending" \/ ~addr[i].used \/ <<mgr, i>> \in cut
                    \/ \E k \in Scans : Current(k) /\ task[k].phase = "utxo" /\ i \in task[k].todo
    <3>1. Recorded(mgr, i) => hist[i] # "none"
      BY <2>1, <2>3 DEF Loaded, Recorded, Here
    <3>2. ASSUME Missed(addr, hist, utxo, i)
          PROVE  \E k \in Scans : Current(k) /\ task[k].phase = "utxo" /\ i \in task[k].todo
      <4>1. PICK k \in Scans : task[k].phase = "utxo" /\ i \in task[k].todo
        BY <2>1, <2>3, <3>2 DEF Sighted
      <4> QED
        BY <2>1, <4>1, OneContext
    <3> QED
      BY <3>1, <3>2 DEF Missed
  <2> QED
    BY <2>2, <2>3 DEF NoBlindSpot
<1> QED
  BY <1>1, OneAccountInvariant, PTL

\* A recorded use is never overwritten with less, address reuse or not.
THEOREM UseIsNeverForgotten ==
  ASSUME Operations = {}
  PROVE  Spec => HistoryNeverForgotten
<1>1. ScanInv /\ [Next]_vars
        => [\A a \in Accounts, i \in Indexes : Recorded(a, i) => Recorded(a, i)']_vars
  BY ScanKept DEF ScanInv, HistoryKept
<1> QED
  BY <1>1, OneAccountInvariant, PTL DEF Spec, HistoryNeverForgotten

=============================================================================
