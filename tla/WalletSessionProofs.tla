------------------------- MODULE WalletSessionProofs -------------------------
(***************************************************************************)
(* Proofs about WalletSession, for any slots, operations, thresholds and   *)
(* bounds: the rate limit, the lock, the choice that a restore keeps, the  *)
(* keys that the accounts are of, and the selection.                       *)
(*                                                                         *)
(* The limit is on attempts, the counter on failures, and an attempt is    *)
(* counted two awaits after it began: the invariant follows it there.  The *)
(* lock's says what may still run beside a locked wallet: an unlock that   *)
(* has not yet set the session password, and calls that touch no key.      *)
(*                                                                         *)
(* The keys and the selection hold between calls; their invariants say     *)
(* what holds while calls run, place by place.  KeysHold: every account,   *)
(* the key and the vault are of one seed, and the key is encoded for the   *)
(* network the wallet is on unless a call is about to replace it.          *)
(* NetsHold: the wallet is on the preferences' network unless a switch is  *)
(* moving it.  BackedHold: a vault called backed up is one whose seed was  *)
(* typed.  SelectionHolds: the account manager is where the preferences    *)
(* are, or a call is on its way to take it there.  Each rests on which     *)
(* calls may run beside which: KeysApart and SelectionApart are what no    *)
(* disturbance means.                                                      *)
(***************************************************************************)
EXTENDS WalletSession, FiniteSetTheorems, WellFoundedInduction, TLAPS

-----------------------------------------------------------------------------
(* The operators on lists: AccountManager.load() and deriveNextAccount().  *)

Twinless(list) == \A i, j \in DOMAIN list : list[i] = list[j] => i = j
Firsts(list) == {i \in DOMAIN list : \A j \in 1..i - 1 : list[j] # list[i]}
Rank(F, i) == Cardinality({j \in F : j <= i})

\* A set of naturals that is not empty has a least element.
LEMMA LeastElement ==
  ASSUME NEW S \in SUBSET Nat, S # {}
  PROVE  \E i \in S : \A j \in S : i <= j
<1> DEFINE R == {p \in Nat \X Nat : p[1] < p[2]}
<1>1. IsWellFoundedOn(R, Nat)
  BY NatLessThanWellFounded, Zenon DEF OpToRel
<1>2. PICK i \in S : \A j \in S : ~(<<j, i>> \in R)
  <2> HIDE DEF R
  <2> QED
    BY <1>1, WFMin
<1>3. \A j \in S : ~(j < i)
  BY <1>2
<1>4. QED
  BY <1>3

\* The rank counts the places up to one, and grows with the places that are in.
LEMMA RankGrows ==
  ASSUME NEW n \in Nat, NEW F \in SUBSET (1..n)
  PROVE  /\ Cardinality(F) \in Nat /\ Cardinality(F) <= n
         /\ \A i \in 0..n : Rank(F, i) \in Nat
         /\ Rank(F, 0) = 0 /\ Rank(F, n) = Cardinality(F)
         /\ \A i \in 1..n : Rank(F, i) = IF i \in F THEN Rank(F, i - 1) + 1 ELSE Rank(F, i - 1)
<1> DEFINE Up(i) == {j \in F : j <= i}
<1>1. IsFiniteSet(1..n) /\ Cardinality(1..n) = n
  BY FS_Interval
<1>2. IsFiniteSet(F) /\ Cardinality(F) \in Nat /\ Cardinality(F) <= n
  BY <1>1, FS_Subset, FS_CardinalityType
<1>3. \A i : IsFiniteSet(Up(i)) /\ Cardinality(Up(i)) \in Nat
  BY <1>2, FS_Subset, FS_CardinalityType
<1>9. \A j \in F : j \in Int /\ 1 <= j /\ j <= n
  OBVIOUS
<1>4. Up(0) = {} /\ Up(n) = F
  <2>1. \A j \in F : ~(j <= 0)
    BY <1>9
  <2>2. \A j \in F : j <= n
    BY <1>9
  <2>3. QED
    BY <2>1, <2>2
<1>5. Rank(F, 0) = 0 /\ Rank(F, n) = Cardinality(F)
  <2>1. Cardinality({}) = 0
    BY FS_EmptySet
  <2>2. QED
    BY <1>4, <2>1, Zenon DEF Rank
<1>6. ASSUME NEW i \in 1..n
      PROVE  Rank(F, i) = IF i \in F THEN Rank(F, i - 1) + 1 ELSE Rank(F, i - 1)
  <2>1. CASE i \in F
    <3>1. Up(i) = Up(i - 1) \cup {i} /\ i \notin Up(i - 1)
      <4>1. i \notin Up(i - 1) /\ i \in Up(i)
        BY <2>1
      <4>2. \A j \in F : j <= i <=> j <= i - 1 \/ j = i
        BY <1>9
      <4>3. QED
        BY <2>1, <4>1, <4>2
    <3>2. Cardinality(Up(i - 1) \cup {i}) = Cardinality(Up(i - 1)) + 1
      BY <1>3, <3>1, FS_AddElement, Zenon
    <3>3. QED
      BY <2>1, <3>1, <3>2, Zenon DEF Rank
  <2>2. CASE i \notin F
    <3>1. Up(i) = Up(i - 1)
      <4>1. \A j \in F : j <= i <=> j <= i - 1
        BY <1>9, <2>2
      <4>2. QED
        BY <4>1
    <3>2. QED
      BY <2>2, <3>1, Zenon DEF Rank
  <2>3. QED
    BY <2>1, <2>2
<1>7. \A i : Rank(F, i) \in Nat
  BY <1>3 DEF Rank
<1>8. QED
  BY <1>2, <1>5, <1>6, <1>7

\* There is exactly one place of each rank.
LEMMA RankExists ==
  ASSUME NEW n \in Nat, NEW F \in SUBSET (1..n), NEW k \in 1..Cardinality(F)
  PROVE  \E i \in F : Rank(F, i) = k
<1> DEFINE B == {i \in 0..n : Rank(F, i) >= k}
<1>1. n \in B
  BY RankGrows
<1>2. PICK i \in B : \A j \in B : i <= j
  <2> B \in SUBSET Nat /\ B # {}
    BY <1>1
  <2> QED
    BY LeastElement
<1>3. i # 0
  BY RankGrows
<1>4. i - 1 \in 0..n /\ i - 1 \notin B
  BY <1>2, <1>3
<1>5. Rank(F, i - 1) < k /\ Rank(F, i - 1) \in Nat /\ Rank(F, i) >= k /\ i \in 1..n
  BY <1>2, <1>3, <1>4, RankGrows
<1>6. QED
  BY <1>5, RankGrows

\* Two places of one rank are one place.
LEMMA RankInjective ==
  ASSUME NEW n \in Nat, NEW F \in SUBSET (1..n), NEW i \in F, NEW j \in F, Rank(F, i) = Rank(F, j)
  PROVE  i = j
<1>9. \A x \in F : x \in Int /\ 1 <= x /\ x <= n
  OBVIOUS
<1>1. SUFFICES ASSUME NEW a \in F, NEW b \in F, a < b, Rank(F, a) = Rank(F, b) PROVE FALSE
  BY <1>9
<1> DEFINE A == {x \in F : x <= a}
           B == {x \in F : x <= b}
<1>2. IsFiniteSet(F)
  <2>1. IsFiniteSet(1..n)
    BY FS_Interval
  <2>2. QED
    BY <2>1, FS_Subset
<1>3. IsFiniteSet(A) /\ IsFiniteSet(B)
  BY <1>2, FS_Subset
<1>4. A \in SUBSET B /\ A # B
  <2>1. b \in B /\ b \notin A
    BY <1>1, <1>9
  <2>2. \A x \in A : x \in B
    BY <1>1, <1>9
  <2>3. QED
    BY <2>1, <2>2
<1>5. Cardinality(A) < Cardinality(B) /\ Cardinality(A) \in Nat /\ Cardinality(B) \in Nat
  BY <1>3, <1>4, FS_Subset, FS_CardinalityType
<1>6. QED
  BY <1>1, <1>5 DEF Rank

\* The loop keeps the first of every account, in the list's order.
LEMMA DedupedIs ==
  ASSUME NEW S, NEW list \in Seq(S)
  PROVE  /\ Deduped(list) \in Seq(S)
         /\ \A i \in DOMAIN Deduped(list) : \E j \in DOMAIN list : Deduped(list)[i] = list[j]
         /\ Twinless(Deduped(list))
         /\ Twinless(list) => Deduped(list) = list
<1> DEFINE n == Len(list)
           F == Firsts(list)
           m == Cardinality(F)
           at(k) == CHOOSE i \in F : Rank(F, i) = k
<1>1. n \in Nat /\ DOMAIN list = 1..n /\ F \in SUBSET (1..n)
  BY DEF Firsts
<1>2. m \in Nat
  BY <1>1, RankGrows
<1>3. Deduped(list) = [k \in 1..m |-> list[at(k)]]
  BY Zenon DEF Deduped, Firsts, Rank
<1>4. \A k \in 1..m : at(k) \in F /\ Rank(F, at(k)) = k
  <2>1. \A k \in 1..m : \E i \in F : Rank(F, i) = k
    BY <1>1, RankExists, Zenon
  <2>2. QED
    BY <2>1, Zenon
<1> DEFINE d == [k \in 1..m |-> list[at(k)]]
<1>5. d \in Seq(S)
  <2>1. \A k \in 1..m : list[at(k)] \in S
    BY <1>1, <1>4
  <2> HIDE DEF at, m
  <2>2. QED
    BY <1>2, <2>1
<1>6. \A k \in 1..m : \E j \in DOMAIN list : d[k] = list[j]
  BY <1>1, <1>4
<1>7. Twinless(d)
  <2>1. ASSUME NEW a \in 1..m, NEW b \in 1..m, list[at(a)] = list[at(b)] PROVE a = b
    <3>1. at(a) \in F /\ at(b) \in F
      BY <1>4
    <3> DEFINE x == at(a)
               y == at(b)
    <3>2. Rank(F, x) = a /\ Rank(F, y) = b
      BY <1>4
    <3> HIDE DEF at, x, y
    <3>3. x \in 1..n /\ y \in 1..n /\ list[x] = list[y] /\ x \in F /\ y \in F
      BY <1>1, <2>1, <3>1 DEF x, y
    <3>4. x = y
      BY <1>1, <3>3 DEF Firsts
    <3>5. QED
      BY <3>2, <3>4
  <2>2. QED
    BY <2>1 DEF Twinless
<1>8. ASSUME Twinless(list) PROVE d = list
  <2>1. F = 1..n
    <3>1. \A i \in 1..n : i \in F
      BY <1>1, <1>8 DEF Firsts, Twinless
    <3>2. QED
      BY <1>1, <3>1
  <2>2. m = n
    <3>1. \A k \in Nat : Cardinality(1..k) = k
      BY FS_Interval
    <3>2. QED
      BY <1>1, <2>1, <3>1, Zenon
  <2>3. ASSUME NEW k \in 1..n PROVE at(k) = k
    <3>1. Rank(F, k) = k
      <4>1. {j \in F : j <= k} = 1..k
        BY <2>1
      <4>2. Cardinality(1..k) = k
        BY FS_Interval
      <4>3. QED
        BY <4>1, <4>2, Zenon DEF Rank
    <3>2. at(k) \in F /\ Rank(F, at(k)) = k /\ k \in F
      BY <1>4, <2>1, <2>2
    <3> HIDE DEF at
    <3>3. QED
      BY <1>1, <3>1, <3>2, RankInjective
  <2> HIDE DEF at, m
  <2>4. d = [k \in 1..n |-> list[k]]
    BY <2>2, <2>3
  <2>5. list = [k \in 1..n |-> list[k]]
    BY <1>1
  <2>6. QED
    BY <2>4, <2>5, Zenon
<1>9. QED
  BY <1>3, <1>5, <1>6, <1>7, <1>8

\* deriveNextAccount() finds an index, and one that the network has not used.
LEMMA NextIndexIs ==
  ASSUME NEW S, NEW list \in Seq(S), NEW net
  PROVE  /\ NextIndex(list, net) \in Nat
         /\ \A i \in On(list, net) : list[i].index # NextIndex(list, net)
<1> DEFINE n == Len(list)
           T == On(list, net)
           used(k) == \E i \in T : list[i].index = k
           free == {k \in 0..n : ~used(k)}
<1>1. n \in Nat /\ T \in SUBSET (1..n)
  BY DEF On
<1>2. free # {}
  <2> SUFFICES ASSUME \A k \in 0..n : used(k) PROVE FALSE
    OBVIOUS
  <2> DEFINE f == [k \in 0..n |-> CHOOSE i \in T : list[i].index = k]
  <2>1. \A k \in 0..n : f[k] \in T /\ list[f[k]].index = k
    <3>1. ASSUME NEW k \in 0..n PROVE f[k] \in T /\ list[f[k]].index = k
      <4>1. \E i \in T : list[i].index = k
        OBVIOUS
      <4>2. f[k] = CHOOSE i \in T : list[i].index = k
        OBVIOUS
      <4> HIDE DEF f, T
      <4>3. QED
        BY <4>1, <4>2, Zenon
    <3>2. QED
      BY <3>1
  <2>2. f \in [0..n -> T]
    <3> HIDE DEF T
    <3>1. \A k \in 0..n : (CHOOSE i \in T : list[i].index = k) \in T
      BY <2>1
    <3>2. QED
      BY <3>1
  <2>3. IsFiniteSet(0..n) /\ Cardinality(0..n) = n + 1
    BY <1>1, FS_Interval
  <2>4. IsFiniteSet(T) /\ Cardinality(T) <= n /\ Cardinality(T) \in Nat
    <3>1. \A k \in Nat : IsFiniteSet(1..k) /\ Cardinality(1..k) = k
      BY FS_Interval
    <3>3. IsFiniteSet(1..n) /\ Cardinality(1..n) = n
      BY <1>1, <3>1, Zenon
    <3>2. QED
      BY <1>1, <3>3, FS_Subset, FS_CardinalityType
  <2> HIDE DEF f, T
  <2>5. Cardinality(T) < Cardinality(0..n)
    BY <1>1, <2>3, <2>4
  <2>6. PICK x \in 0..n, y \in 0..n : x # y /\ f[x] = f[y]
    BY <2>2, <2>3, <2>4, <2>5, FS_PigeonHole
  <2>7. QED
    BY <2>1, <2>6
<1>3. PICK k \in free : \A j \in free : k <= j
  <2>1. free \in SUBSET Nat
    BY <1>1
  <2> HIDE DEF free
  <2>2. QED
    BY <1>2, <2>1, LeastElement
<1>4. k \in 0..n /\ (\A i \in T : list[i].index # k) /\ (\A m \in 0..k - 1 : \E i \in T : list[i].index = m)
  <2>1. \A m \in 0..k - 1 : m \in 0..n /\ m \notin free
    BY <1>1, <1>3
  <2>2. QED
    BY <1>3, <2>1
<1> DEFINE Fits(x) == (\A i \in T : list[i].index # x) /\ (\A m \in 0..x - 1 : \E i \in T : list[i].index = m)
<1>5. NextIndex(list, net) = CHOOSE x \in 0..n : Fits(x)
  BY Zenon DEF NextIndex
<1>6. Fits(k)
  BY <1>4
<1> HIDE DEF Fits
<1>7. NextIndex(list, net) \in 0..n /\ Fits(NextIndex(list, net))
  BY <1>4, <1>5, <1>6, Zenon
<1>8. QED
  BY <1>1, <1>7 DEF Fits

\* The first account of a network, if it has one.
LEMMA LeastIs ==
  ASSUME NEW S \in SUBSET Nat, S # {}
  PROVE  (CHOOSE i \in S : \A j \in S : i <= j) \in S
BY LeastElement, Zenon

-----------------------------------------------------------------------------
(* The rate limit and the lock.                                            *)

KeyHolders == Making \cup Rekeying

\* A call is a record, and where it stands tells what it is: only the operations that may
\* set a key or the session password come to the places that do.
CallOK(k) ==
  /\ DOMAIN k = {"op", "pc", "arg", "index", "list", "prev", "then"}
  /\ k.op = "none" <=> k.pc = "idle"
  /\ k.op = "guess" => k.pc \in {"verify", "count"}
  /\ k.pc = "count" => k.op = "guess" /\ k.index \in Nat
  /\ k.pc = "verify" => k.op \in {"guess", "unlock"}
  /\ k.pc = "session" => k.op = "unlock"
  /\ k.pc \in {"encrypt", "default", "keep", "password", "decrypt", "switch", "rekey", "rekeyed",
               "dial", "connect", "back", "backKeyed", "redial"} => k.op \in KeyHolders
  /\ k.then \in {"keep", "dial", "redial"} => k.op \in KeyHolders
  /\ k.then \in {"done", "keep", "dial", "redial", "derive", "again"}

Shapes ==
  /\ DOMAIN call = Calls /\ \A c \in Calls : CallOK(call[c])
  /\ DOMAIN mem = {"vault", "key", "net", "list", "active"}
  /\ DOMAIN prefs = {"net", "active", "backed"}
  /\ DOMAIN rate = {"count", "until"} /\ rate.count \in Nat
  /\ DOMAIN seen = {"seeds", "verified", "locked", "guesses", "clash"} /\ seen.guesses \in Nat

\* One attempt runs at a time, and under no lockout; those answered are in the count it has
\* read, or a lockout has ended since the last one.
AttemptsAreCounted ==
  Undisturbed("guess") =>
    /\ \A c, d \in Calls : call[c].op = "guess" /\ call[d].op = "guess" => c = d
    /\ seen.guesses <= ShortThreshold
    /\ \A c \in Calls :
         /\ call[c].op = "guess" => rate.until = "none"
         /\ At(c, "guess", "count") => seen.guesses = 0 \/ seen.guesses <= call[c].index
    /\ rate.until = "none" => seen.guesses = 0 \/ (seen.guesses <= rate.count /\ rate.count < ShortThreshold)

\* A locked wallet has no key and no session, and no call is under way that would give it
\* either, but for an unlock that has not come so far.
NothingUnlocks ==
  Undisturbed("lock") /\ seen.locked =>
    /\ mem.key = None /\ ~session
    /\ \A c \in Calls :
         call[c].op \in KeyHolders => call[c].op = "unlock" /\ call[c].pc \in {"verify", "session"}

IInv == Shapes /\ AttemptsAreCounted /\ NothingUnlocks

USE ThresholdAssumption DEF KeyHolders, Making, Restoring, Rekeying, Switching, Selecting

-----------------------------------------------------------------------------

\* The initial states satisfy the inductive invariant.
LEMMA InitIInv == Init => IInv
<1> SUFFICES ASSUME Init PROVE IInv
  OBVIOUS
<1>1. CallOK(Idle)
  BY DEF CallOK, Idle
<1>2. Shapes
  BY <1>1 DEF Init, Shapes, DefaultPrefs
<1>3. AttemptsAreCounted /\ NothingUnlocks
  BY DEF Init, AttemptsAreCounted, NothingUnlocks, Idle, At
<1>4. QED
  BY <1>2, <1>3 DEF IInv

-----------------------------------------------------------------------------
(* What a step does to its call.                                           *)

CallMoves(c) ==
  /\ DOMAIN call' = Calls
  /\ \A d \in Calls \ {c} : call'[d] = call[d]
  /\ CallOK(call'[c]) /\ call'[c].op \in {call[c].op, "none"}

\* ensureDefaultAccount() makes an account active, or adds one.
LEMMA DefaultMoves ==
  ASSUME Shapes, NEW c \in Calls, NEW key, NEW then, EnsureDefault(c, key, then),
         call[c].op \in KeyHolders, then \in {"done", "keep", "dial", "redial", "derive", "again"}
  PROVE  CallMoves(c)
<1>1. CASE call' = [call EXCEPT ![c].pc = "added", ![c].then = then]
  BY <1>1 DEF Shapes, CallMoves, CallOK
<1>2. ASSUME NEW i, call' = [call EXCEPT ![c].pc = "read", ![c].index = i, ![c].then = then]
      PROVE  CallMoves(c)
  BY <1>2 DEF Shapes, CallMoves, CallOK
<1>3. \/ \E i : call' = [call EXCEPT ![c].pc = "read", ![c].index = i, ![c].then = then]
      \/ call' = [call EXCEPT ![c].pc = "added", ![c].then = then]
  BY DEF EnsureDefault, Activate
<1>4. QED
  BY <1>1, <1>2, <1>3

\* Every step of a call moves that call alone, to a place its operation may be at.
LEMMA StepMoves ==
  ASSUME Shapes, NEW c \in Calls, Step(c)
  PROVE  CallMoves(c)
<1> USE DEF Shapes, CallMoves, CallOK, Arrived, Goto, Done, Idle, Push, Activate, RollBack, At
<1>1. CASE Read(c) \/ Assign(c) \/ Point(c) \/ Added(c)
  BY <1>1 DEF Read, Assign, Point, Added
<1>2. CASE Encrypted(c) \/ CreateDefault(c) \/ Keep(c) \/ BackedUp(c)
  BY <1>2 DEF Encrypted, CreateDefault, Keep, BackedUp
<1>3. CASE Verified(c) \/ Unlocked(c) \/ Failed(c) \/ Counted(c)
  BY <1>3 DEF Verified, Unlocked, Failed, Counted
<1>4. CASE Restore(c) \/ Rekey(c)
  BY <1>4 DEF Restore, Rekey
<1>10. CASE Decrypted(c)
  <2> HIDE DEF Activate, CallMoves
  <2>1. EnsureDefault(c, Key(call[c].arg), call[c].then) /\ call[c].pc = "decrypt"
    BY <1>10 DEF Decrypted
  <2>2. QED
    BY <2>1, DefaultMoves
<1>11. CASE Rekeyed(c)
  <2>1. CASE call[c].op = "switchNetwork"
    <3> HIDE DEF Activate, CallMoves
    <3>1. EnsureDefault(c, Key(call[c].arg), "dial") /\ call[c].pc = "rekeyed"
      BY <1>11, <2>1 DEF Rekeyed
    <3>2. QED
      BY <2>1, <3>1, DefaultMoves
  <2>2. CASE call[c].op # "switchNetwork"
    BY <1>11, <2>2 DEF Rekeyed
  <2>3. QED
    BY <2>1, <2>2
<1>5. CASE Switch(c) \/ Dial(c) \/ Connect(c)
  BY <1>5 DEF Switch, Dial, Connect
<1>6. CASE Back(c) \/ BackKeyed(c) \/ Redial(c)
  BY <1>6 DEF Back, BackKeyed, Redial
<1>7. CASE DeriveNext(c) \/ Again(c)
  BY <1>7 DEF DeriveNext, Again
<1>8. CASE DestroyAccounts(c) \/ DestroyVault(c) \/ ResetPreferences(c) \/ ForgetPassword(c)
  BY <1>8 DEF DestroyAccounts, DestroyVault, ResetPreferences, ForgetPassword
<1>9. QED
  BY <1>1, <1>2, <1>3, <1>4, <1>5, <1>6, <1>7, <1>8, <1>10, <1>11 DEF Step

-----------------------------------------------------------------------------
(* Most steps of a call neither try a password nor open a wallet.          *)

\* The step is none of the four that do; what it leaves alone, and who may set the key and
\* the session password.
Ordinary(c) ==
  /\ call[c].pc \notin {"verify", "session", "count"}
  /\ rate' = rate
  /\ DOMAIN seen' = DOMAIN seen /\ seen'.guesses = seen.guesses /\ seen'.locked = seen.locked
  /\ \A kind \in {"guess", "lock"} : kind \in seen.clash => kind \in seen'.clash
  /\ DOMAIN mem' = DOMAIN mem /\ DOMAIN prefs' = DOMAIN prefs
  /\ call[c].op \in KeyHolders \/ (mem'.key \in {mem.key, None} /\ session' \in {session, FALSE})

\* An ordinary step keeps the attempts counted and a locked wallet locked.
LEMMA OrdinaryIInv ==
  ASSUME IInv, NEW c \in Calls, CallMoves(c), Ordinary(c)
  PROVE  IInv'
<1> USE DEF IInv, CallMoves, Ordinary
<1>1. Shapes'
  BY DEF Shapes
<1>2. AttemptsAreCounted'
  <2>1. call[c].op # "guess" /\ call'[c].op # "guess"
    BY DEF Shapes, CallOK
  <2>2. \A d \in Calls : call'[d].op = "guess" <=> call[d].op = "guess"
    BY <2>1
  <2>3. \A d \in Calls : call'[d].op = "guess" => call'[d] = call[d]
    BY <2>1
  <2>4. QED
    BY <2>2, <2>3 DEF AttemptsAreCounted, At, Undisturbed
<1>3. NothingUnlocks'
  BY DEF NothingUnlocks, Undisturbed
<1>4. QED
  BY <1>1, <1>2, <1>3

\* All steps are ordinary but those of verifyPassword and the unlock page.
LEMMA MostAreOrdinary ==
  ASSUME Shapes, NEW c \in Calls, Step(c), ~Verified(c), ~Unlocked(c), ~Failed(c), ~Counted(c)
  PROVE  Ordinary(c)
<1> USE DEF Shapes, Ordinary, CallOK, Goto, Done, At
<1>1. CASE Read(c) \/ Again(c)
  BY <1>1 DEF Read, Again, stored
<1>2. CASE Assign(c) \/ Point(c) \/ Added(c)
  BY <1>2 DEF Assign, Point, Added, Arrived, Activate, stored
<1>3. CASE Encrypted(c) \/ CreateDefault(c) \/ Keep(c) \/ BackedUp(c)
  BY <1>3 DEF Encrypted, CreateDefault, Keep, BackedUp, Push
<1>4. CASE Restore(c) \/ Rekey(c)
  BY <1>4 DEF Restore, Rekey, RollBack, stored
<1>5. CASE Decrypted(c) \/ Rekeyed(c)
  <2>1. ASSUME NEW key, NEW then, EnsureDefault(c, key, then)
        PROVE  DOMAIN mem' = DOMAIN mem /\ DOMAIN prefs' = DOMAIN prefs
    BY <2>1 DEF EnsureDefault, Activate
  <2>2. DOMAIN mem' = DOMAIN mem /\ DOMAIN prefs' = DOMAIN prefs
    BY <1>5, <2>1 DEF Decrypted, Rekeyed
  <2>3. call[c].pc \in {"decrypt", "rekeyed"} /\ rate' = rate
    BY <1>5 DEF Decrypted, Rekeyed
  <2>4. /\ DOMAIN seen' = DOMAIN seen /\ seen'.guesses = seen.guesses /\ seen'.locked = seen.locked
        /\ \A kind \in {"guess", "lock"} : kind \in seen.clash => kind \in seen'.clash
    BY <1>5 DEF Decrypted, Rekeyed
  <2>5. QED
    BY <2>2, <2>3, <2>4
<1>6. CASE Switch(c) \/ Dial(c)
  BY <1>6 DEF Switch, Dial, Activate, RollBack
<1>11. CASE Connect(c)
  <2>1. /\ DOMAIN seen' = DOMAIN seen /\ seen'.guesses = seen.guesses /\ seen'.locked = seen.locked
        /\ \A kind \in {"guess", "lock"} : kind \in seen.clash => kind \in seen'.clash
    BY <1>11 DEF Connect
  <2>2. /\ call[c].pc = "connect" /\ mem' = mem /\ session' = session /\ rate' = rate
        /\ DOMAIN prefs' = DOMAIN prefs
    BY <1>11 DEF Connect, RollBack
  <2>3. QED
    BY <2>1, <2>2
<1>7. CASE Back(c) \/ BackKeyed(c) \/ Redial(c)
  BY <1>7 DEF Back, BackKeyed, Redial, stored
<1>8. CASE DeriveNext(c)
  BY <1>8 DEF DeriveNext, Push
<1>9. CASE DestroyAccounts(c) \/ DestroyVault(c) \/ ResetPreferences(c) \/ ForgetPassword(c)
  BY <1>9 DEF DestroyAccounts, DestroyVault, ResetPreferences, ForgetPassword, DefaultPrefs
<1>10. QED
  BY <1>1, <1>2, <1>3, <1>4, <1>5, <1>6, <1>7, <1>8, <1>9, <1>11 DEF Step

-----------------------------------------------------------------------------
(* The steps that try a password, and the unlock.                          *)

\* They keep the invariant too: a failure is counted before its call ends, and by then no
\* other attempt is running.
LEMMA PasswordStepsIInv ==
  ASSUME IInv, NEW c \in Calls, CallMoves(c), Verified(c) \/ Unlocked(c) \/ Failed(c) \/ Counted(c)
  PROVE  IInv'
<1> USE DEF IInv, CallMoves
<1>1. Shapes'
  BY DEF Shapes, CallOK, Verified, Unlocked, Failed, Counted, stored
<1>2. \A d \in Calls : /\ call'[d].op = "guess" => call[d].op = "guess"
                       /\ d # c => call'[d] = call[d]
  OBVIOUS
<1>3. AttemptsAreCounted'
  <2>1. CASE Verified(c)
    BY <1>1, <1>2, <2>1 DEF Verified, AttemptsAreCounted, Undisturbed, Shapes, CallOK, At
  <2>2. CASE Unlocked(c)
    BY <1>2, <2>2 DEF Unlocked, AttemptsAreCounted, Undisturbed, Shapes, CallOK, At, Goto
  <2>3. CASE Failed(c)
    BY <1>2, <2>3 DEF Failed, AttemptsAreCounted, Undisturbed, Shapes, CallOK, At
  <2>4. CASE Counted(c)
    BY <1>2, <2>4 DEF Counted, AttemptsAreCounted, Undisturbed, Shapes, CallOK, At, Done, Idle
  <2>5. QED
    BY <2>1, <2>2, <2>3, <2>4
<1>4. NothingUnlocks'
  <2>1. CASE Verified(c) \/ Failed(c) \/ Counted(c)
    BY <2>1 DEF Verified, Failed, Counted, NothingUnlocks, Undisturbed, Shapes, CallOK, At, Goto, Done, Idle, stored
  <2>2. CASE Unlocked(c)
    BY <2>2 DEF Unlocked, NothingUnlocks, Shapes
  <2>3. QED
    BY <2>1, <2>2
<1>5. QED
  BY <1>1, <1>3, <1>4

-----------------------------------------------------------------------------
(* Calls begin, the wallet is locked, the worker dies.                     *)

\* What the overlaps that are not disturbances promise of the calls that run.
LEMMA Overlapped ==
  /\ "guess" \notin Overlaps("guess") => \A d \in Calls : call[d].op # "guess"
  /\ "lock" \notin Overlaps("lock") => \A d \in Calls : call[d].op \notin KeyHolders
BY DEF Overlaps, Kinds

\* A call begins with this record, and the wallet is given a key or a session only if it is
\* not locked afterwards; nor does an operation begin on a locked wallet that could do it.
Begins(c, k) ==
  /\ call[c].op = "none" /\ CallOK(k) /\ k.pc # "count"
  /\ call' = [call EXCEPT ![c] = k]
  /\ seen'.clash = seen.clash \cup Overlaps(k.op)
  /\ DOMAIN seen' = DOMAIN seen /\ DOMAIN mem' = DOMAIN mem /\ prefs' = prefs /\ rate' = rate
  /\ seen'.guesses = seen.guesses /\ (k.op = "guess" => rate.until = "none")
  /\ \/ ~seen'.locked
     \/ /\ seen'.locked = seen.locked /\ mem' = mem /\ session' = session
        /\ k.op \in KeyHolders => session \/ (k.op = "unlock" /\ k.pc = "verify")

\* An attempt begins only when those before it are counted and no lockout came of them.
LEMMA BeginsIInv ==
  ASSUME IInv, NEW c \in Calls, NEW k, Begins(c, k)
  PROVE  IInv'
<1> USE DEF IInv, Begins
<1>1. Shapes'
  BY DEF Shapes
<1>2. \A d \in Calls : call'[d] = IF d = c THEN k ELSE call[d]
  BY DEF Shapes
<1>3. AttemptsAreCounted'
  <2>1. CASE k.op = "guess"
    BY <1>2, <2>1, Overlapped DEF AttemptsAreCounted, Undisturbed, At, Shapes, CallOK
  <2>2. CASE k.op # "guess"
    BY <1>2, <2>2 DEF AttemptsAreCounted, Undisturbed, At
  <2>3. QED
    BY <2>1, <2>2
<1>4. NothingUnlocks'
  BY <1>2 DEF NothingUnlocks, Undisturbed
<1>5. QED
  BY <1>1, <1>3, <1>4

\* Every call begins so.
LEMMA CallsBegin ==
  ASSUME Shapes, NEW c \in Calls,
         \/ \E seed \in 1..MaxSeeds, op \in {"create", "recover"} : StartCreate(c, seed, op)
         \/ StartRestore(c) \/ StartCreateAccount(c) \/ StartBackup(c) \/ StartLogout(c)
         \/ \E net \in Networks : StartSwitchNetwork(c, net)
         \/ \E i \in 1..Len(mem.list) : StartSwitchAccount(c, i)
         \/ \E op \in {"unlock", "guess"} : StartVerify(c, op)
  PROVE  \E k : Begins(c, k)
<1> USE DEF Shapes, CallOK, Begin, Started, Idle, stored
<1>1. ASSUME NEW seed \in 1..MaxSeeds, NEW op \in {"create", "recover"}, StartCreate(c, seed, op)
      PROVE  Begins(c, [Started(op, "encrypt") EXCEPT !.arg = seed])
  BY <1>1 DEF StartCreate, Begins
<1>2. ASSUME StartRestore(c) PROVE Begins(c, Started("restore", "password"))
  BY <1>2 DEF StartRestore, Begins
<1>3. ASSUME StartCreateAccount(c)
      PROVE  Begins(c, [Started("createAccount", "reread") EXCEPT !.then = "derive"])
  BY <1>3 DEF StartCreateAccount, Begins
<1>4. ASSUME StartBackup(c) PROVE Begins(c, [Started("backup", "backup") EXCEPT !.arg = mem.vault])
  BY <1>4 DEF StartBackup, Begins
<1>5. ASSUME StartLogout(c) PROVE Begins(c, Started("logout", "accounts"))
  BY <1>5 DEF StartLogout, Begins
<1>6. ASSUME NEW net, StartSwitchNetwork(c, net)
      PROVE  Begins(c, [Started("switchNetwork", "switch") EXCEPT !.arg = net])
  BY <1>6 DEF StartSwitchNetwork, Begins
<1>7. ASSUME NEW i, StartSwitchAccount(c, i)
      PROVE  Begins(c, [Started("switchAccount", "switch") EXCEPT !.index = i, !.arg = mem.list[i].net])
  BY <1>7 DEF StartSwitchAccount, Begins
<1>8. ASSUME NEW op \in {"unlock", "guess"}, StartVerify(c, op) PROVE Begins(c, Started(op, "verify"))
  BY <1>8 DEF StartVerify, Begins
<1> HIDE DEF Shapes, CallOK, Begin, Started, Idle, stored
<1>9. QED
  BY <1>1, <1>2, <1>3, <1>4, <1>5, <1>6, <1>7, <1>8, Zenon

\* What happens without a call: the lock, the end of the session and of a lockout, and the
\* death of the worker, which ends every call.
LEMMA OthersIInv ==
  ASSUME IInv, Lock \/ SessionExpires \/ LockoutEnds \/ LoopDials \/ WorkerDies
  PROVE  IInv'
<1> USE DEF IInv, Undisturbed
<1>1. CASE Lock
  <2>1. Shapes'
    BY <1>1 DEF Lock, Shapes
  <2>2. call' = call /\ rate' = rate /\ mem'.key = None /\ session' = FALSE
    BY <1>1 DEF Lock, Shapes
  <2>3. seen'.clash = (seen.clash \ {"lock"}) \cup Overlaps("lock") /\ seen'.guesses = seen.guesses
    BY <1>1 DEF Lock, Shapes
  <2>4. QED
    BY <2>1, <2>2, <2>3, Overlapped DEF AttemptsAreCounted, NothingUnlocks, At
<1>2. CASE SessionExpires
  BY <1>2 DEF SessionExpires, Shapes, AttemptsAreCounted, NothingUnlocks, At
<1>3. CASE LockoutEnds
  BY <1>3 DEF LockoutEnds, Shapes, AttemptsAreCounted, NothingUnlocks, At, CallOK, stored
<1>4. CASE WorkerDies
  <2>1. Shapes'
    BY <1>4 DEF WorkerDies, Shapes, CallOK, Idle
  <2>2. \A c \in Calls : call'[c] = Idle
    BY <1>4 DEF WorkerDies
  <2>3. /\ rate' = rate /\ mem'.key = None /\ session' = session
        /\ seen'.guesses = seen.guesses /\ seen'.locked = seen.locked
        /\ \A kind \in {"guess", "lock"} : kind \in seen.clash => kind \in seen'.clash
    BY <1>4 DEF WorkerDies, Shapes
  <2>4. AttemptsAreCounted'
    BY <2>2, <2>3 DEF AttemptsAreCounted, At, Idle
  <2>5. NothingUnlocks'
    BY <2>2, <2>3 DEF NothingUnlocks, Idle
  <2>6. QED
    BY <2>1, <2>4, <2>5
<1>5. CASE LoopDials
  BY <1>5 DEF LoopDials, Shapes, AttemptsAreCounted, NothingUnlocks, At, stored
<1>6. QED
  BY <1>1, <1>2, <1>3, <1>4, <1>5

\* Every step preserves the inductive invariant.
LEMMA NextIInv == IInv /\ [Next]_vars => IInv'
<1> SUFFICES ASSUME IInv, [Next]_vars PROVE IInv'
  OBVIOUS
<1>1. ASSUME NEW c \in Calls, Step(c) PROVE IInv'
  <2>1. CallMoves(c)
    BY <1>1, StepMoves DEF IInv
  <2>2. CASE Verified(c) \/ Unlocked(c) \/ Failed(c) \/ Counted(c)
    BY <2>1, <2>2, PasswordStepsIInv
  <2>3. CASE ~(Verified(c) \/ Unlocked(c) \/ Failed(c) \/ Counted(c))
    BY <1>1, <2>1, <2>3, MostAreOrdinary, OrdinaryIInv DEF IInv
  <2>4. QED
    BY <2>2, <2>3
<1>2. ASSUME NEW c \in Calls, NEW k, Begins(c, k) PROVE IInv'
  BY <1>2, BeginsIInv
<1>3. CASE Lock \/ SessionExpires \/ LockoutEnds \/ LoopDials \/ WorkerDies
  BY <1>3, OthersIInv
<1>4. CASE UNCHANGED vars
  BY <1>4 DEF vars, stored, IInv, Shapes, AttemptsAreCounted, NothingUnlocks, Undisturbed, At
<1>5. QED
  BY <1>1, <1>2, <1>3, <1>4, CallsBegin DEF Next, IInv

-----------------------------------------------------------------------------
(* The theorems.                                                           *)

\* Every reachable state satisfies the inductive invariant.
THEOREM InductiveInvariant == Spec => []IInv
BY InitIInv, NextIInv, PTL DEF Spec

\* passwordRateLimit: no more wrong passwords are answered in a row than the short threshold,
\* without a lockout that had to end or a success, as long as they are tried one after the
\* other: whatever calls of other operations run meanwhile, and whenever the worker dies, as
\* the counter is stored before the answer.
THEOREM AttemptsAreLimited == Spec => []GuessesAreLimited
<1>1. IInv => GuessesAreLimited
  BY DEF IInv, AttemptsAreCounted, GuessesAreLimited
<1>2. QED
  BY <1>1, InductiveInvariant, PTL

\* WalletManager.lock(): a wallet that was locked, and not unlocked since, has neither the key
\* nor the session password, of which wallet.restore would make it again; whatever is called
\* afterwards, but a lock beside a creation, restore, unlock or switch promises nothing.
THEOREM LockedStaysLocked == Spec => []LockedHoldsNoKey
<1>1. IInv => LockedHoldsNoKey
  BY DEF IInv, NothingUnlocks, LockedHoldsNoKey
<1>2. QED
  BY <1>1, InductiveInvariant, PTL

\* The account that prefs point at, if it is of the network, stays the active one when a
\* restore or an unlock comes to ensureDefaultAccount().
LEMMA DecryptedKeeps ==
  ASSUME NEW c \in Calls, Decrypted(c), prefs.active \in On(mem.list, prefs.net), Shapes
  PROVE  prefs'.active = prefs.active
BY DEF Decrypted, EnsureDefault, Activate, Shapes

\* A restore or an unlock keeps the account the user has chosen, if the network has it,
\* whatever other calls are under way.
THEOREM RestoresKeepChoice == Spec => RestoreKeepsChoice
<1> DEFINE Keeps(c) ==
      call[c].pc = "decrypt" /\ call'[c] # call[c] /\ prefs.active \in On(mem.list, prefs.net) =>
        prefs'.active = prefs.active
<1>1. ASSUME IInv, [Next]_vars, NEW c \in Calls PROVE Keeps(c)
  <2> SUFFICES ASSUME call[c].pc = "decrypt", call'[c] # call[c], prefs.active \in On(mem.list, prefs.net)
               PROVE  prefs'.active = prefs.active
    OBVIOUS
  <2>1. ASSUME NEW d \in Calls, Step(d) PROVE prefs'.active = prefs.active
    <3>1. d = c
      BY <1>1, <2>1, StepMoves DEF IInv, CallMoves
    <3>2. Decrypted(c)
      BY <2>1, <3>1 DEF Step, Read, Assign, Point, Added, Encrypted, CreateDefault, Keep, BackedUp, Verified,
           Unlocked, Failed, Counted, Restore, Switch, Rekey, Rekeyed, Dial, Connect, Back, BackKeyed,
           Redial, DeriveNext, Again, DestroyAccounts, DestroyVault, ResetPreferences, ForgetPassword, At
    <3>3. QED
      BY <1>1, <3>2, DecryptedKeeps DEF IInv
  <2>2. ASSUME NEW d \in Calls, NEW k, Begins(d, k) PROVE prefs'.active = prefs.active
    BY <2>2 DEF Begins
  <2>3. CASE Lock \/ SessionExpires \/ LockoutEnds \/ LoopDials \/ WorkerDies
    BY <2>3 DEF Lock, SessionExpires, LockoutEnds, LoopDials, WorkerDies, stored
  <2>4. CASE UNCHANGED vars
    BY <2>4 DEF vars, stored
  <2>5. QED
    BY <1>1, <2>1, <2>2, <2>3, <2>4, CallsBegin DEF Next, IInv
<1>2. IInv /\ [Next]_vars => \A c \in Calls : Keeps(c)
  BY <1>1
<1>3. QED
  BY <1>2, InductiveInvariant, PTL DEF Spec, RestoreKeepsChoice

-----------------------------------------------------------------------------
(* Every variable stays in its set.                                        *)

Seeds == 0..MaxSeeds
KeyRecords == [seed : Seeds, net : Networks]
AccountRecords == [seed : Seeds, net : Networks, index : Nat, xpub : Networks]
PrefRecords == [net : Networks, active : Nat, backed : BOOLEAN]
MemRecords == [vault : Seeds \cup {None}, key : KeyRecords \cup {None}, net : Networks \cup {None},
               list : Seq(AccountRecords), active : Nat]
RateRecords == [count : Nat, until : {"none", "short", "long"}]

Reading == {"added", "read", "assign", "point"}
SwitchPlaces == {"switch", "rekey", "rekeyed", "dial", "connect", "back", "backKeyed", "redial"}
CreatePlaces == {"reread", "derive", "again"}
LogoutPlaces == {"accounts", "vault", "preferences", "forget"}
MakePlaces == {"encrypt", "default", "keep"}
RestorePlaces == {"password", "decrypt"}

\* Where a call stands tells its operation.
Placed(k) ==
  /\ k.pc \in {"idle", "verify", "session", "count", "backup"} \cup MakePlaces \cup RestorePlaces \cup SwitchPlaces
              \cup CreatePlaces \cup LogoutPlaces \cup Reading
  /\ k.pc \in MakePlaces => k.op \in Making
  /\ k.pc = "backup" => k.op \in {"recover", "backup"}
  /\ k.pc \in RestorePlaces => k.op \in Restoring
  /\ k.pc \in SwitchPlaces => k.op \in Switching
  /\ k.pc \in CreatePlaces => k.op = "createAccount"
  /\ k.pc \in LogoutPlaces => k.op = "logout"
  /\ k.pc = "decrypt" => k.then = "done"
  /\ k.pc \in Reading \cup {"reread"} =>
       /\ k.op \in Selecting
       /\ k.op \in Making => k.then = "keep"
       /\ k.op \in Restoring => k.then = "done"
       /\ k.op \in Switching => k.then \in {"done", "dial", "redial"}
       /\ k.op = "createAccount" => k.then \in {"derive", "again", "done"}

Filled(k) ==
  /\ k.index \in Nat /\ k.list \in Seq(AccountRecords) /\ k.prev \in PrefRecords
  /\ k.pc \in {"encrypt", "decrypt", "rekeyed", "backKeyed"} => k.arg \in Seeds
  /\ k.pc \in {"switch", "rekey"} => k.arg \in Networks

Typed ==
  /\ vault \in Seeds \cup {None} /\ accounts \in Seq(AccountRecords) /\ prefs \in PrefRecords /\ session \in BOOLEAN
  /\ mem \in MemRecords
  /\ rate \in RateRecords /\ (rate.until # "none" => rate.count >= ShortThreshold)
  /\ dialled \in Calls \cup {None} /\ moves \in 0..MaxMoves
  /\ \A c \in Calls : Placed(call[c]) /\ Filled(call[c])

USE DEF Reading, SwitchPlaces, CreatePlaces, LogoutPlaces, MakePlaces, RestorePlaces

Valid == prefs.active \in On(mem.list, prefs.net)

\* ensureDefaultAccount(): it settles on an account of the network ...
Settles(c, key, then, i) ==
  /\ i \in On(mem.list, prefs.net) /\ i \in Nat
  /\ IF Valid THEN i = prefs.active ELSE mem.list[i].index = 0
  /\ prefs' = [prefs EXCEPT !.active = i] /\ mem' = [mem EXCEPT !.key = key] /\ accounts' = accounts
  /\ call' = [call EXCEPT ![c].pc = "read", ![c].index = i, ![c].then = then]

\* ... or makes the first.
Makes(c, key, then) ==
  /\ ~Valid /\ \A i \in On(mem.list, prefs.net) : mem.list[i].index # 0
  /\ mem' = [mem EXCEPT !.key = key, !.list = Append(@, Derive(key, mem.net, 0))]
  /\ accounts' = Append(mem.list, Derive(key, mem.net, 0)) /\ prefs' = prefs
  /\ call' = [call EXCEPT ![c].pc = "added", ![c].then = then]

\* ensureDefaultAccount() settles on an account or makes one.
LEMMA DefaultIs ==
  ASSUME Typed, NEW c \in Calls, NEW key, NEW then, EnsureDefault(c, key, then)
  PROVE  Makes(c, key, then) \/ \E i : Settles(c, key, then, i)
<1> DEFINE On0 == {i \in On(mem.list, prefs.net) : mem.list[i].index = 0}
           first == CHOOSE i \in On0 : \A j \in On0 : i <= j
<1>1. On(mem.list, prefs.net) \in SUBSET Nat
  BY DEF Typed, MemRecords, On
<1>2. On0 # {} => first \in On0
  <2>1. On0 \in SUBSET Nat
    BY <1>1
  <2> HIDE DEF On0
  <2>2. QED
    BY <2>1, LeastIs
<1>3. EnsureDefault(c, key, then) <=>
        IF Valid \/ On0 # {}
          THEN /\ Activate(c, IF Valid THEN prefs.active ELSE first, then)
               /\ mem' = [mem EXCEPT !.key = key]
               /\ UNCHANGED accounts
          ELSE /\ mem' = [mem EXCEPT !.key = key, !.list = Append(@, Derive(key, mem.net, 0))]
               /\ accounts' = mem'.list
               /\ call' = [call EXCEPT ![c].pc = "added", ![c].then = then]
               /\ UNCHANGED prefs
  BY Zenon DEF EnsureDefault, Valid
<1>4. CASE Valid \/ On0 # {}
  <2> DEFINE i == IF Valid THEN prefs.active ELSE first
  <2>1. Activate(c, i, then) /\ mem' = [mem EXCEPT !.key = key] /\ accounts' = accounts
    BY <1>3, <1>4
  <2>2. i \in On(mem.list, prefs.net) /\ i \in Nat /\ IF Valid THEN i = prefs.active ELSE mem.list[i].index = 0
    BY <1>1, <1>2, <1>4 DEF Valid
  <2> HIDE DEF i
  <2>3. Settles(c, key, then, i)
    BY <2>1, <2>2 DEF Activate, Settles
  <2>4. QED
    BY <2>3
<1>5. CASE ~(Valid \/ On0 # {})
  <2>1. /\ mem' = [mem EXCEPT !.key = key, !.list = Append(@, Derive(key, mem.net, 0))]
        /\ accounts' = mem'.list
        /\ call' = [call EXCEPT ![c].pc = "added", ![c].then = then]
        /\ prefs' = prefs
    BY <1>3, <1>5
  <2>2. mem'.list = Append(mem.list, Derive(key, mem.net, 0))
    BY <2>1 DEF Typed, MemRecords
  <2>3. QED
    BY <1>5, <2>1, <2>2 DEF Makes
<1>6. QED
  BY <1>4, <1>5

\* What a key derives is an account.
LEMMA DeriveIs ==
  ASSUME NEW key \in KeyRecords, NEW net, NEW index \in Nat
  PROVE  Derive(key, net, index) \in AccountRecords
BY DEF Derive, AccountRecords, KeyRecords, Networks

\* A key is made of a seed and of the network the wallet is on.
LEMMA KeyIs ==
  ASSUME Typed, NEW seed \in Seeds
  PROVE  Key(seed) \in KeyRecords
BY DEF Typed, MemRecords, Key, KeyRecords, Networks

\* The initial states are typed.
LEMMA InitTyped == Init => Typed
<1> SUFFICES ASSUME Init PROVE Typed
  OBVIOUS
<1>1. 1 \in Seeds /\ Mainnet \in Networks
  BY ValuesAssumption DEF Seeds, Networks
<1>2. Account(1, Mainnet, 0) \in AccountRecords /\ Account(1, Mainnet, 1) \in AccountRecords
  BY <1>1 DEF Account, AccountRecords
<1>3. accounts \in Seq(AccountRecords)
  <2>1. accounts = <<>> \/ accounts = <<Account(1, Mainnet, 0), Account(1, Mainnet, 1)>>
    BY Zenon DEF Init
  <2>2. <<>> \in Seq(AccountRecords) /\ <<Account(1, Mainnet, 0), Account(1, Mainnet, 1)>> \in Seq(AccountRecords)
    BY <1>2
  <2>3. QED
    BY <2>1, <2>2, Zenon
<1>4. DefaultPrefs \in PrefRecords
  BY <1>1 DEF DefaultPrefs, PrefRecords
<1>5. prefs \in PrefRecords
  <2>1. prefs \in {DefaultPrefs, [DefaultPrefs EXCEPT !.active = 1]}
    BY DEF Init
  <2>2. QED
    BY <1>4, <2>1 DEF PrefRecords
<1>6. Placed(Idle) /\ Filled(Idle)
  BY <1>4 DEF Placed, Filled, Idle
<1>7. mem \in MemRecords
  BY <1>1, <1>3 DEF Init, MemRecords, KeyRecords
<1>8. vault \in Seeds \cup {None} /\ session \in BOOLEAN /\ rate \in RateRecords /\ rate.until = "none"
  BY <1>1 DEF Init, RateRecords
<1>9. dialled \in Calls \cup {None} /\ moves \in 0..MaxMoves
  BY ValuesAssumption DEF Init
<1>10. \A c \in Calls : call[c] = Idle
  BY DEF Init
<1>11. QED
  BY <1>3, <1>5, <1>6, <1>7, <1>8, <1>9, <1>10 DEF Typed

-----------------------------------------------------------------------------

\* The places of each operation.
LEMMA PlacedIn ==
  ASSUME NEW k
  PROVE  /\ k.op \in Switching /\ k.pc \in SwitchPlaces => Placed(k)
         /\ k.op \in Switching /\ k.pc \in Reading /\ k.then \in {"done", "dial", "redial"} => Placed(k)
         /\ k.op \in Making /\ k.pc \in MakePlaces => Placed(k)
         /\ k.op \in Making /\ k.pc \in Reading /\ k.then = "keep" => Placed(k)
         /\ k.op \in Restoring /\ k.pc = "password" => Placed(k)
         /\ k.op \in Restoring /\ k.pc \in Reading \cup {"decrypt"} /\ k.then = "done" => Placed(k)
         /\ k.op = "createAccount" /\ k.pc \in {"derive", "again"} => Placed(k)
         /\ k.op = "createAccount" /\ k.pc \in Reading \cup {"reread"} /\ k.then \in {"derive", "again", "done"} =>
              Placed(k)
         /\ k.op = "logout" /\ k.pc \in LogoutPlaces => Placed(k)
         /\ k.op \in {"recover", "backup"} /\ k.pc = "backup" => Placed(k)
         /\ k.pc \in {"idle", "verify", "session", "count"} => Placed(k)
<1> USE DEF Placed
<1>1. k.op \in Switching /\ k.pc \in SwitchPlaces => Placed(k)
  OBVIOUS
<1>2. k.op \in Switching /\ k.pc \in Reading /\ k.then \in {"done", "dial", "redial"} => Placed(k)
  OBVIOUS
<1>3. k.op \in Making /\ k.pc \in MakePlaces => Placed(k)
  OBVIOUS
<1>4. k.op \in Making /\ k.pc \in Reading /\ k.then = "keep" => Placed(k)
  OBVIOUS
<1>5. k.op \in Restoring /\ k.pc = "password" => Placed(k)
  OBVIOUS
<1>6. k.op \in Restoring /\ k.pc \in Reading \cup {"decrypt"} /\ k.then = "done" => Placed(k)
  OBVIOUS
<1>7. k.op = "createAccount" /\ k.pc \in {"derive", "again"} => Placed(k)
  OBVIOUS
<1>8. k.op = "createAccount" /\ k.pc \in Reading \cup {"reread"} /\ k.then \in {"derive", "again", "done"} => Placed(k)
  OBVIOUS
<1>9. k.op = "logout" /\ k.pc \in LogoutPlaces => Placed(k)
  OBVIOUS
<1>10. k.op \in {"recover", "backup"} /\ k.pc = "backup" => Placed(k)
  OBVIOUS
<1>11. k.pc \in {"idle", "verify", "session", "count"} => Placed(k)
  OBVIOUS
<1>12. QED
  BY <1>1, <1>2, <1>3, <1>4, <1>5, <1>6, <1>7, <1>8, <1>9, <1>10, <1>11

\* A step of a call comes to a place of its operation.
LEMMA StepPlaced ==
  ASSUME Typed, Shapes, NEW c \in Calls, Step(c)
  PROVE  Placed(call'[c])
<1>0. Placed(call[c]) /\ c \in DOMAIN call /\ CallOK(call[c])
  BY DEF Typed, Shapes
<1> DEFINE k == call'[c]
<1>1. CASE Read(c)
  <2>1. call[c].pc \in {"read", "reread"} /\ k.pc = "assign" /\ k.op = call[c].op /\ k.then = call[c].then
    BY <1>0, <1>1 DEF Read, CallOK
  <2>2. QED
    BY <1>0, <2>1, PlacedIn DEF Placed
<1>2. CASE Added(c)
  <2>1. call[c].pc = "added" /\ k.pc = "read" /\ k.op = call[c].op /\ k.then = call[c].then
    BY <1>0, <1>2 DEF Added, Activate, CallOK
  <2>2. QED
    BY <1>0, <2>1, PlacedIn DEF Placed
<1>3. CASE Assign(c) \/ Point(c)
  <2>2. CASE k = Idle
    BY <2>2, PlacedIn DEF Idle
  <2>3. CASE k # Idle /\ k.pc = "point"
    <3>1. k.op = call[c].op /\ k.then = call[c].then /\ call[c].pc \in {"assign", "point"}
      BY <1>0, <1>3, <2>3 DEF Assign, Point, Arrived, Done, Goto, Idle, CallOK
    <3>2. QED
      BY <1>0, <2>3, <3>1, PlacedIn DEF Placed
  <2>4. CASE k # Idle /\ k.pc # "point"
    <3>1. k.op = call[c].op /\ k.pc = call[c].then /\ call[c].pc \in {"assign", "point"} /\ call[c].then # "done"
      BY <1>0, <1>3, <2>4 DEF Assign, Point, Arrived, Done, Goto, Idle, CallOK
    <3>2. QED
      BY <1>0, <2>4, <3>1, PlacedIn DEF Placed
  <2>5. QED
    BY <2>2, <2>3, <2>4
<1>4. CASE Encrypted(c)
  <2>1. call[c].pc = "encrypt" /\ k.pc = "default" /\ k.op = call[c].op
    BY <1>0, <1>4 DEF Encrypted, Goto, CallOK
  <2>2. QED
    BY <1>0, <2>1, PlacedIn DEF Placed
<1>5. CASE CreateDefault(c)
  <2>1. call[c].pc = "default" /\ (k = Idle \/ (k.pc = "added" /\ k.op = call[c].op /\ k.then = "keep"))
    BY <1>0, <1>5 DEF CreateDefault, Done, Push, CallOK
  <2>2. QED
    BY <1>0, <2>1, PlacedIn DEF Placed, Idle
<1>6. CASE Keep(c) \/ BackedUp(c)
  <2>1. k = Idle \/ (call[c].pc = "keep" /\ k.pc = "backup" /\ k.op = "recover")
    BY <1>0, <1>6 DEF Keep, BackedUp, Goto, Done, CallOK
  <2>2. QED
    BY <2>1, PlacedIn DEF Idle
<1>7. CASE Verified(c) \/ Unlocked(c) \/ Failed(c) \/ Counted(c)
  <2>1. k.pc \in {"idle", "session", "count"} \/ (call[c].pc = "session" /\ k.pc = "password" /\ k.op = call[c].op)
    BY <1>0, <1>7 DEF Verified, Unlocked, Failed, Counted, At, Goto, Done, Idle, CallOK
  <2>2. QED
    BY <1>0, <2>1, PlacedIn DEF CallOK
<1>8. CASE Restore(c)
  <2>1. call[c].pc = "password" /\ (k = Idle \/ (k.pc = "decrypt" /\ k.op = call[c].op /\ k.then = "done"))
    <3>1. CASE mem.vault = None
      BY <1>0, <1>8, <3>1 DEF Restore, Done
    <3>2. CASE mem.vault # None
      <4>1. /\ call[c].pc = "password"
            /\ call' = [call EXCEPT ![c].pc = "decrypt", ![c].arg = mem.vault, ![c].then = "done"]
        BY <1>8, <3>2 DEF Restore
      <4>2. QED
        BY <1>0, <4>1 DEF CallOK
    <3>3. QED
      BY <3>1, <3>2
  <2>2. QED
    BY <1>0, <2>1, PlacedIn DEF Placed, Idle
<1>9. ASSUME NEW key, NEW then, EnsureDefault(c, key, then)
      PROVE  k.op = call[c].op /\ k.pc \in {"read", "added"} /\ k.then = then
  <2>1. CASE Makes(c, key, then)
    BY <1>0, <2>1 DEF Makes, CallOK
  <2>2. ASSUME NEW i, Settles(c, key, then, i) PROVE k.op = call[c].op /\ k.pc \in {"read", "added"} /\ k.then = then
    BY <1>0, <2>2 DEF Settles, CallOK
  <2>3. QED
    BY <1>9, <2>1, <2>2, DefaultIs
<1>10. CASE Decrypted(c)
  <2>1. call[c].pc = "decrypt" /\ k.op = call[c].op /\ k.pc \in {"read", "added"} /\ k.then = call[c].then
    BY <1>9, <1>10 DEF Decrypted
  <2>2. call[c].op \in Restoring /\ call[c].then = "done"
    BY <1>0, <2>1 DEF Placed
  <2>3. QED
    BY <2>1, <2>2, PlacedIn
<1>11. CASE Rekeyed(c)
  <2>1. CASE call[c].op = "switchNetwork"
    <3>1. k.op = "switchNetwork" /\ k.pc \in {"read", "added"} /\ k.then = "dial"
      BY <1>9, <1>11, <2>1 DEF Rekeyed
    <3>2. QED
      BY <3>1, PlacedIn
  <2>2. CASE call[c].op # "switchNetwork"
    <3>1. call[c].pc = "rekeyed" /\ k.op = call[c].op /\ k.pc = "dial"
      BY <1>0, <1>11, <2>2 DEF Rekeyed, Goto, CallOK
    <3>2. QED
      BY <1>0, <3>1, PlacedIn DEF Placed
  <2>3. QED
    BY <2>1, <2>2
<1>12. CASE Switch(c)
  <2>1. call[c].pc = "switch" /\ k.op = call[c].op /\ (k.pc = "rekey" \/ (k.pc = "read" /\ k.then = "done"))
    <3>1. CASE call[c].op = "switchAccount" /\ call[c].arg = prefs.net
      <4>1. call' = [call EXCEPT ![c].pc = "read", ![c].index = call[c].index, ![c].then = "done"]
        BY <1>12, <3>1 DEF Switch, Activate
      <4>2. QED
        BY <1>0, <1>12, <4>1 DEF Switch, CallOK
    <3>2. CASE ~(call[c].op = "switchAccount" /\ call[c].arg = prefs.net)
      <4>1. call' = [call EXCEPT ![c].pc = "rekey", ![c].prev = prefs]
        BY <1>12, <3>2 DEF Switch
      <4>2. QED
        BY <1>0, <1>12, <4>1 DEF Switch, CallOK
    <3>3. QED
      BY <3>1, <3>2
  <2>2. QED
    BY <1>0, <2>1, PlacedIn DEF Placed
<1>13. CASE Rekey(c) \/ Dial(c) \/ Redial(c)
  <2>1. /\ call[c].pc \in {"rekey", "dial", "redial"}
        /\ k = Idle \/ (k.op = call[c].op /\ k.pc \in {"rekeyed", "back", "connect"})
    <3>1. CASE Rekey(c)
      BY <1>0, <3>1 DEF Rekey, RollBack, Goto, CallOK
    <3>2. CASE Dial(c)
      BY <1>0, <3>2 DEF Dial, RollBack, Goto, CallOK
    <3>3. CASE Redial(c)
      BY <1>0, <3>3 DEF Redial, Done
    <3>4. QED
      BY <1>13, <3>1, <3>2, <3>3
  <2>2. QED
    BY <1>0, <2>1, PlacedIn DEF Placed, Idle
<1>14. CASE Connect(c)
  <2>1. /\ call[c].pc = "connect"
        /\ k = Idle \/ (k.op = call[c].op /\ (k.pc = "back" \/ (k.pc = "read" /\ k.then = "done")))
    <3>1. CASE call' = [call EXCEPT ![c] = Idle]
      BY <1>0, <1>14, <3>1 DEF Connect
    <3>2. CASE RollBack(c)
      BY <1>0, <1>14, <3>2 DEF Connect, RollBack, Goto, CallOK
    <3>3. ASSUME NEW i, call' = [call EXCEPT ![c].pc = "read", ![c].then = "done", ![c].index = i]
          PROVE  call[c].pc = "connect" /\ k.op = call[c].op /\ k.pc = "read" /\ k.then = "done"
      BY <1>0, <1>14, <3>3 DEF Connect, CallOK
    <3>4. QED
      BY <1>14, <3>1, <3>2, <3>3 DEF Connect, Done
  <2>2. QED
    BY <1>0, <2>1, PlacedIn DEF Placed, Idle
<1>15. CASE Back(c) \/ BackKeyed(c)
  <2>1. /\ call[c].pc \in {"back", "backKeyed"}
        /\ k.op = call[c].op /\ (k.pc = "backKeyed" \/ (k.pc = "read" /\ k.then = "redial"))
    <3>1. CASE Back(c) /\ mem.vault = None
      <4>1. /\ call[c].pc = "back"
            /\ call' = [call EXCEPT ![c].pc = "read", ![c].index = call[c].prev.active, ![c].then = "redial"]
        BY <3>1 DEF Back
      <4>2. QED
        BY <1>0, <4>1 DEF CallOK
    <3>4. CASE Back(c) /\ mem.vault # None
      BY <1>0, <3>4 DEF Back, CallOK
    <3>2. CASE BackKeyed(c)
      BY <1>0, <3>2 DEF BackKeyed, CallOK
    <3>3. QED
      BY <1>15, <3>1, <3>2, <3>4
  <2>2. QED
    BY <1>0, <2>1, PlacedIn DEF Placed
<1>16. CASE DeriveNext(c) \/ Again(c)
  <2>1. /\ call[c].pc \in {"derive", "again"}
        /\ \/ k = Idle
           \/ k.op = call[c].op /\ k.pc = "added" /\ k.then = "again"
           \/ k.op = call[c].op /\ k.pc = "reread" /\ k.then = "done"
    <3>1. CASE Again(c)
      BY <1>0, <3>1 DEF Again, CallOK
    <3>2. CASE DeriveNext(c) /\ mem.key = None
      BY <1>0, <3>2 DEF DeriveNext, Done
    <3>3. CASE DeriveNext(c) /\ mem.key # None
      <4>1. call[c].pc = "derive" /\ call' = [call EXCEPT ![c].pc = "added", ![c].then = "again"]
        BY <3>3 DEF DeriveNext, Push
      <4>2. QED
        BY <1>0, <4>1 DEF CallOK
    <3>4. QED
      BY <1>16, <3>1, <3>2, <3>3
  <2>2. QED
    BY <1>0, <2>1, PlacedIn DEF Placed, Idle
<1>17. CASE DestroyAccounts(c) \/ DestroyVault(c) \/ ResetPreferences(c) \/ ForgetPassword(c)
  <2>1. k = Idle \/ (k.op = "logout" /\ k.pc \in LogoutPlaces)
    BY <1>0, <1>17 DEF DestroyAccounts, DestroyVault, ResetPreferences, ForgetPassword, At, Goto, Done, CallOK
  <2>2. QED
    BY <2>1, PlacedIn DEF Idle
<1> HIDE DEF k
<1>18. QED
  BY <1>1, <1>2, <1>3, <1>4, <1>5, <1>6, <1>7, <1>8, <1>10, <1>11, <1>12, <1>13, <1>14, <1>15, <1>16, <1>17
     DEF Step, k

\* A slot in which no call runs is well filled.
LEMMA IdleFilled == Filled(Idle)
BY DEF Filled, Idle, DefaultPrefs, PrefRecords, Networks

\* What a call holds stays of its type.
LEMMA StepFilled ==
  ASSUME Typed, Shapes, NEW c \in Calls, Step(c)
  PROVE  Filled(call'[c])
<1>0. Filled(call[c]) /\ c \in DOMAIN call /\ CallOK(call[c])
  BY DEF Typed, Shapes
<1>17. ASSUME call' = [call EXCEPT ![c] = Idle] PROVE Filled(call'[c])
  BY <1>0, <1>17, IdleFilled
<1> USE <1>0, <1>17 DEF Filled, CallOK
<1>1. CASE Read(c)
  BY <1>1 DEF Read, Typed, PrefRecords
<1>2. CASE Added(c)
  <2>1. Len(mem.list) \in Nat
    BY DEF Typed, MemRecords
  <2>2. QED
    BY <1>2, <2>1 DEF Added, Activate
<1>3. CASE Assign(c) \/ Point(c)
  <2>1. ASSUME Arrived(c) PROVE Filled(call'[c])
    BY <2>1 DEF Arrived, Done
  <2>2. ASSUME Goto(c, "point") PROVE Filled(call'[c])
    BY <2>2 DEF Goto
  <2>3. QED
    BY <1>3, <2>1, <2>2 DEF Assign, Point
<1>4. CASE Encrypted(c) \/ Keep(c) \/ BackedUp(c)
  BY <1>4 DEF Encrypted, Keep, BackedUp, Goto, Done
<1>5. CASE CreateDefault(c) \/ DeriveNext(c)
  BY <1>5 DEF CreateDefault, DeriveNext, Push, Done
<1>6. CASE Verified(c) \/ Unlocked(c) \/ Counted(c)
  BY <1>6 DEF Verified, Unlocked, Counted, At, Goto, Done
<1>7. CASE Failed(c)
  BY <1>7 DEF Failed, At, Typed, RateRecords
<1>19. mem.vault \in Seeds \cup {None} /\ prefs.net \in Networks /\ prefs.active \in Nat
  BY DEF Typed, MemRecords, PrefRecords
<1>20. call[c].prev.net \in Networks /\ call[c].prev.active \in Nat
  BY DEF PrefRecords
<1>8. CASE Restore(c)
  <2>1. CASE mem.vault = None
    BY <1>8, <2>1 DEF Restore, Done
  <2>2. CASE mem.vault # None
    <3>1. call' = [call EXCEPT ![c].pc = "decrypt", ![c].arg = mem.vault, ![c].then = "done"]
      BY <1>8, <2>2 DEF Restore
    <3>2. QED
      BY <1>19, <2>2, <3>1
  <2>3. QED
    BY <2>1, <2>2
<1>9. CASE Rekey(c)
  <2>1. CASE mem.vault = None
    BY <1>9, <2>1 DEF Rekey, RollBack, Goto
  <2>2. CASE mem.vault # None
    <3>1. call' = [call EXCEPT ![c].pc = "rekeyed", ![c].arg = mem.vault]
      BY <1>9, <2>2 DEF Rekey
    <3>2. QED
      BY <1>19, <2>2, <3>1
  <2>3. QED
    BY <2>1, <2>2
<1>10. ASSUME NEW key, NEW then, EnsureDefault(c, key, then) PROVE Filled(call'[c])
  <2>1. CASE Makes(c, key, then)
    <3>1. call' = [call EXCEPT ![c].pc = "added", ![c].then = then]
      BY <2>1 DEF Makes
    <3>2. QED
      BY <3>1
  <2>2. ASSUME NEW i, Settles(c, key, then, i) PROVE Filled(call'[c])
    <3>1. call' = [call EXCEPT ![c].pc = "read", ![c].index = i, ![c].then = then] /\ i \in Nat
      BY <2>2 DEF Settles
    <3>2. QED
      BY <3>1
  <2>3. QED
    BY <1>10, <2>1, <2>2, DefaultIs
<1>11. CASE Decrypted(c) \/ Rekeyed(c)
  BY <1>10, <1>11 DEF Decrypted, Rekeyed, Goto
<1>12. CASE Switch(c)
  BY <1>12 DEF Switch, Activate, Typed
<1>22. CASE Connect(c)
  <2>1. CASE Done(c)
    BY <2>1 DEF Done
  <2>2. CASE RollBack(c)
    BY <2>2 DEF RollBack, Goto
  <2>3. ASSUME NEW i \in Nat, call' = [call EXCEPT ![c].pc = "read", ![c].then = "done", ![c].index = i]
        PROVE  Filled(call'[c])
    BY <2>3
  <2>4. prefs.active \in Nat /\ call[c].index \in Nat
    BY DEF Typed, PrefRecords
  <2>5. QED
    BY <1>22, <2>1, <2>2, <2>3, <2>4 DEF Connect
<1>13. CASE Dial(c)
  <2>1. ASSUME NEW pc \in {"connect", "back"}, Goto(c, pc) PROVE Filled(call'[c])
    BY <2>1 DEF Goto
  <2>2. QED
    BY <1>13, <2>1 DEF Dial, RollBack
<1>14. CASE Back(c)
  <2>1. CASE mem.vault = None
    <3>1. call' = [call EXCEPT ![c].pc = "read", ![c].index = call[c].prev.active, ![c].then = "redial"]
      BY <1>14, <2>1 DEF Back
    <3>2. QED
      BY <1>20, <3>1
  <2>2. CASE mem.vault # None
    <3>1. call' = [call EXCEPT ![c].pc = "backKeyed", ![c].arg = mem.vault]
      BY <1>14, <2>2 DEF Back
    <3>2. QED
      BY <1>19, <2>2, <3>1
  <2>3. QED
    BY <2>1, <2>2
<1>21. CASE BackKeyed(c)
  <2>1. call' = [call EXCEPT ![c].pc = "read", ![c].index = call[c].prev.active, ![c].then = "redial"]
    BY <1>21 DEF BackKeyed
  <2>2. QED
    BY <1>20, <2>1
<1>15. CASE Redial(c) \/ Again(c)
  BY <1>15 DEF Redial, Again, Done
<1>16. CASE DestroyAccounts(c) \/ DestroyVault(c) \/ ResetPreferences(c) \/ ForgetPassword(c)
  BY <1>16 DEF DestroyAccounts, DestroyVault, ResetPreferences, ForgetPassword, At, Goto, Done
<1>18. QED
  BY <1>1, <1>2, <1>3, <1>4, <1>5, <1>6, <1>7, <1>8, <1>9, <1>11, <1>12, <1>13, <1>14, <1>15, <1>16, <1>21, <1>22 DEF Step

\* ensureDefaultAccount() and add() leave accounts.
LEMMA DefaultTyped ==
  ASSUME Typed, NEW c \in Calls, NEW key \in KeyRecords, NEW then, EnsureDefault(c, key, then)
  PROVE  mem' \in MemRecords /\ accounts' \in Seq(AccountRecords) /\ prefs' \in PrefRecords
<1>1. CASE Makes(c, key, then)
  <2>1. Derive(key, mem.net, 0) \in AccountRecords
    BY DeriveIs
  <2>2. Append(mem.list, Derive(key, mem.net, 0)) \in Seq(AccountRecords)
    BY <2>1 DEF Typed, MemRecords
  <2>3. QED
    BY <1>1, <2>2 DEF Makes, Typed, MemRecords
<1>2. ASSUME NEW i, Settles(c, key, then, i)
      PROVE  mem' \in MemRecords /\ accounts' \in Seq(AccountRecords) /\ prefs' \in PrefRecords
  BY <1>2 DEF Settles, Typed, MemRecords, PrefRecords
<1>3. QED
  BY <1>1, <1>2, DefaultIs

\* add() keeps the lists typed.
LEMMA PushTyped ==
  ASSUME Typed, NEW c \in Calls, NEW account \in AccountRecords, NEW then, Push(c, account, then)
  PROVE  mem' \in MemRecords /\ accounts' \in Seq(AccountRecords)
<1>1. Append(mem.list, account) \in Seq(AccountRecords)
  BY DEF Typed, MemRecords
<1>2. mem' = [mem EXCEPT !.list = Append(mem.list, account)] /\ accounts' = mem'.list
  BY DEF Push
<1>3. QED
  BY <1>1, <1>2 DEF Typed, MemRecords

\* The wallet's own variables.
Stored ==
  vault \in Seeds \cup {None} /\ accounts \in Seq(AccountRecords) /\ prefs \in PrefRecords /\ mem \in MemRecords

\* The others.
Counters ==
  /\ session \in BOOLEAN /\ rate \in RateRecords /\ (rate.until # "none" => rate.count >= ShortThreshold)
  /\ dialled \in Calls \cup {None} /\ moves \in 0..MaxMoves

\* Every step of a call keeps the storage and the objects typed ...
LEMMA StepStored ==
  ASSUME Typed, Shapes, NEW c \in Calls, Step(c)
  PROVE  Stored'
<1>0. Filled(call[c]) /\ Placed(call[c])
  BY DEF Typed
<1>20. Stored
  BY DEF Typed, Stored
<1> USE DEF Stored
<1>1. CASE Read(c) \/ Again(c) \/ Redial(c) \/ Verified(c) \/ Failed(c) \/ Counted(c)
  BY <1>1, <1>20 DEF Read, Again, Redial, Verified, Failed, Counted, stored
<1>2. CASE Unlocked(c) \/ Keep(c) \/ ForgetPassword(c) \/ Dial(c) \/ Connect(c)
  BY <1>0, <1>2, <1>20 DEF Unlocked, Keep, ForgetPassword, Dial, Connect, RollBack, Filled, PrefRecords
<1>3. CASE Assign(c)
  <2>1. Deduped(call[c].list) \in Seq(AccountRecords)
    BY <1>0, DedupedIs DEF Filled
  <2>2. accounts' \in {accounts, Deduped(call[c].list)} /\ vault' = vault /\ prefs' = prefs
    BY <1>3 DEF Assign
  <2>3. mem' \in MemRecords
    BY <1>0, <1>3, <1>20, <2>1 DEF Assign, MemRecords, Filled
  <2>4. QED
    BY <1>20, <2>1, <2>2, <2>3
<1>4. CASE Point(c)
  BY <1>0, <1>4, <1>20 DEF Point, Filled, MemRecords, stored
<1>5. CASE Added(c)
  <2>1. Len(mem.list) \in Nat
    BY <1>20 DEF MemRecords
  <2>2. QED
    BY <1>5, <1>20, <2>1 DEF Added, Activate, MemRecords, PrefRecords
<1>6. CASE Encrypted(c)
  BY <1>0, <1>6, <1>20 DEF Encrypted, Filled, MemRecords
<1>7. CASE CreateDefault(c) \/ DeriveNext(c)
  <2>1. /\ vault' = vault /\ prefs' = prefs
        /\ \/ mem' = mem /\ accounts' = accounts
           \/ mem.key # None /\ \E then : \E index \in {0, NextIndex(mem.list, prefs.net)} :
                                   Push(c, Derive(mem.key, mem.net, index), then)
    BY <1>7 DEF CreateDefault, DeriveNext
  <2>2. NextIndex(mem.list, prefs.net) \in Nat
    BY <1>20, NextIndexIs DEF MemRecords
  <2>3. ASSUME mem.key # None, NEW index \in {0, NextIndex(mem.list, prefs.net)}, NEW then,
               Push(c, Derive(mem.key, mem.net, index), then)
        PROVE  mem' \in MemRecords /\ accounts' \in Seq(AccountRecords)
    <3>1. mem.key \in KeyRecords
      BY <1>20, <2>3 DEF MemRecords
    <3>2. QED
      BY <2>2, <2>3, <3>1, DeriveIs, PushTyped
  <2>4. QED
    BY <1>20, <2>1, <2>3
<1>8. CASE BackedUp(c)
  BY <1>8, <1>20 DEF BackedUp, PrefRecords
<1>9. CASE Restore(c)
  <2>1. mem' \in {mem, [mem EXCEPT !.net = prefs.net]} /\ vault' = vault /\ accounts' = accounts /\ prefs' = prefs
    BY <1>9 DEF Restore, stored
  <2>2. QED
    BY <1>20, <2>1 DEF MemRecords, PrefRecords
<1>10. CASE Decrypted(c) \/ Rekeyed(c)
  <2>1. call[c].arg \in Seeds
    BY <1>0, <1>10 DEF Decrypted, Rekeyed, Filled
  <2>2. Key(call[c].arg) \in KeyRecords
    BY <2>1, KeyIs
  <2>3. \/ \E then : EnsureDefault(c, Key(call[c].arg), then)
        \/ mem' = [mem EXCEPT !.key = Key(call[c].arg)] /\ accounts' = accounts /\ prefs' = prefs
    BY <1>10 DEF Decrypted, Rekeyed
  <2>4. vault' = vault
    BY <1>10 DEF Decrypted, Rekeyed
  <2>5. CASE \E then : EnsureDefault(c, Key(call[c].arg), then)
    BY <1>20, <2>2, <2>4, <2>5, DefaultTyped
  <2>6. CASE mem' = [mem EXCEPT !.key = Key(call[c].arg)] /\ accounts' = accounts /\ prefs' = prefs
    BY <1>20, <2>2, <2>4, <2>6 DEF MemRecords
  <2>7. QED
    BY <2>3, <2>5, <2>6
<1>11. CASE Switch(c)
  BY <1>0, <1>11, <1>20 DEF Switch, Activate, Filled, PrefRecords
<1>12. CASE Rekey(c)
  <2>1. CASE mem.vault = None
    BY <1>0, <1>12, <1>20, <2>1 DEF Rekey, RollBack, Filled, PrefRecords
  <2>2. CASE mem.vault # None
    BY <1>0, <1>12, <1>20, <2>2 DEF Rekey, Filled, MemRecords
  <2>3. QED
    BY <2>1, <2>2
<1>13. CASE Back(c)
  <2>1. /\ mem' \in {mem, [mem EXCEPT !.net = call[c].prev.net]}
        /\ vault' = vault /\ accounts' = accounts /\ prefs' = prefs
    BY <1>13 DEF Back, stored
  <2>2. QED
    BY <1>0, <1>20, <2>1 DEF MemRecords, PrefRecords, Filled
<1>14. CASE BackKeyed(c)
  <2>1. call[c].arg \in Seeds
    BY <1>0, <1>14 DEF BackKeyed, Filled
  <2>2. Key(call[c].arg) \in KeyRecords
    BY <2>1, KeyIs
  <2>3. QED
    BY <1>14, <1>20, <2>2 DEF BackKeyed, MemRecords, stored
<1>15. CASE DestroyAccounts(c)
  <2>1. mem' = [mem EXCEPT !.list = <<>>, !.active = 0] /\ accounts' = <<>> /\ vault' = vault /\ prefs' = prefs
    BY <1>15 DEF DestroyAccounts
  <2>2. <<>> \in Seq(AccountRecords)
    OBVIOUS
  <2>3. mem' \in MemRecords
    BY <1>20, <2>1, <2>2 DEF MemRecords
  <2>4. QED
    BY <1>20, <2>1, <2>2, <2>3
<1>18. CASE DestroyVault(c)
  BY <1>18, <1>20 DEF DestroyVault
<1>16. CASE ResetPreferences(c)
  BY <1>16, <1>20 DEF ResetPreferences, MemRecords, DefaultPrefs, PrefRecords, Networks
<1>17. QED
  BY <1>1, <1>2, <1>3, <1>4, <1>5, <1>6, <1>7, <1>8, <1>9, <1>10, <1>11, <1>12, <1>13, <1>14, <1>15, <1>16, <1>18 DEF Step

\* ... and the counters.
LEMMA StepCounters ==
  ASSUME Typed, Shapes, NEW c \in Calls, Step(c)
  PROVE  Counters'
<1>0. Filled(call[c]) /\ Counters
  BY DEF Typed, Counters
<1>1. CASE Counted(c)
  <2> DEFINE n == call[c].index + 1
             u == IF n >= LongThreshold THEN "long" ELSE IF n >= ShortThreshold THEN "short" ELSE "none"
  <2>1. rate' = [count |-> n, until |-> u]
    BY <1>1 DEF Counted
  <2>2. n \in Nat /\ u \in {"none", "short", "long"} /\ (u # "none" => n >= ShortThreshold)
    BY <1>0, ThresholdAssumption DEF Filled
  <2> HIDE DEF n, u
  <2>3. session' = session /\ dialled' = dialled /\ moves' = moves
    BY <1>1 DEF Counted, stored
  <2>4. QED
    BY <1>0, <2>1, <2>2, <2>3 DEF RateRecords, Counters
<1>2. CASE ~Counted(c)
  <2>1. rate' \in {rate, [count |-> 0, until |-> "none"]} /\ moves' = moves
    BY <1>2 DEF Step, Read, Assign, Point, Added, Encrypted, CreateDefault, Keep, BackedUp, Verified,
         Unlocked, Failed, Restore, Decrypted, Switch, Rekey, Rekeyed, Dial, Connect, Back, BackKeyed,
         Redial, DeriveNext, Again, DestroyAccounts, DestroyVault, ResetPreferences, ForgetPassword
  <2>2. session' \in {session, TRUE, FALSE}
    BY <1>2 DEF Step, Read, Assign, Point, Added, Encrypted, CreateDefault, Keep, BackedUp, Verified,
         Unlocked, Failed, Restore, Decrypted, Switch, Rekey, Rekeyed, Dial, Connect, Back, BackKeyed,
         Redial, DeriveNext, Again, DestroyAccounts, DestroyVault, ResetPreferences, ForgetPassword, stored
  <2>3. dialled' \in {dialled, c}
    BY <1>2 DEF Step, Read, Assign, Point, Added, Encrypted, CreateDefault, Keep, BackedUp, Verified,
         Unlocked, Failed, Restore, Decrypted, Switch, Rekey, Rekeyed, Dial, Connect, Back, BackKeyed,
         Redial, DeriveNext, Again, DestroyAccounts, DestroyVault, ResetPreferences, ForgetPassword, RollBack
  <2>4. rate' \in RateRecords /\ (rate'.until # "none" => rate'.count >= ShortThreshold)
    BY <1>0, <2>1 DEF Counters, RateRecords
  <2>5. QED
    BY <1>0, <2>1, <2>2, <2>3, <2>4 DEF Counters
<1>3. QED
  BY <1>1, <1>2

\* A call that begins: the record it begins with.
Starts(c, k) ==
  \/ \E seed \in 1..MaxSeeds, op \in Making :
        StartCreate(c, seed, op) /\ k = [Started(op, "encrypt") EXCEPT !.arg = seed]
  \/ StartRestore(c) /\ k = Started("restore", "password")
  \/ StartCreateAccount(c) /\ k = [Started("createAccount", "reread") EXCEPT !.then = "derive"]
  \/ StartBackup(c) /\ k = [Started("backup", "backup") EXCEPT !.arg = mem.vault]
  \/ StartLogout(c) /\ k = Started("logout", "accounts")
  \/ \E net \in Networks : StartSwitchNetwork(c, net) /\ k = [Started("switchNetwork", "switch") EXCEPT !.arg = net]
  \/ \E i \in 1..Len(mem.list) :
        StartSwitchAccount(c, i) /\ k = [Started("switchAccount", "switch") EXCEPT !.index = i, !.arg = mem.list[i].net]
  \/ \E op \in {"unlock", "guess"} : StartVerify(c, op) /\ k = Started(op, "verify")

\* What every call that begins changes.
LEMMA StartIs ==
  ASSUME Shapes, NEW c \in Calls, NEW k, Starts(c, k)
  PROVE  /\ call[c].op = "none" /\ call' = [call EXCEPT ![c] = k]
         /\ seen'.clash = seen.clash \cup Overlaps(k.op) /\ seen'.verified = seen.verified
         /\ vault' = vault /\ accounts' = accounts /\ prefs' = prefs /\ rate' = rate /\ dialled' = dialled
         /\ moves' = moves - 1 /\ moves > 0
         /\ k.op \notin Making => mem' = mem /\ session' = session
<1> USE DEF Shapes, Begin, Started, Idle, stored
<1>1. ASSUME NEW seed \in 1..MaxSeeds, NEW op \in Making, StartCreate(c, seed, op),
             k = [Started(op, "encrypt") EXCEPT !.arg = seed]
      PROVE  /\ call[c].op = "none" /\ call' = [call EXCEPT ![c] = k] /\ k.op = op
             /\ seen'.clash = seen.clash \cup Overlaps(op) /\ seen'.verified = seen.verified
             /\ vault' = vault /\ accounts' = accounts /\ prefs' = prefs /\ rate' = rate /\ dialled' = dialled
             /\ moves' = moves - 1 /\ moves > 0
  BY <1>1 DEF StartCreate
<1>2. ASSUME NEW op, NEW r, Begin(c, op, r), r.op = op, k = r
      PROVE  /\ call[c].op = "none" /\ call' = [call EXCEPT ![c] = k]
             /\ seen'.clash = seen.clash \cup Overlaps(k.op) /\ seen'.verified = seen.verified
             /\ moves' = moves - 1 /\ moves > 0
  BY <1>2
<1>3. ASSUME NEW op \in {"unlock", "guess"}, StartVerify(c, op), k = Started(op, "verify")
      PROVE  /\ call[c].op = "none" /\ call' = [call EXCEPT ![c] = k] /\ k.op = op
             /\ seen'.clash = seen.clash \cup Overlaps(op) /\ seen'.verified = seen.verified
             /\ vault' = vault /\ accounts' = accounts /\ prefs' = prefs /\ rate' = rate /\ dialled' = dialled
             /\ mem' = mem /\ session' = session
             /\ moves' = moves - 1 /\ moves > 0
  BY <1>3 DEF StartVerify
<1>4. CASE StartRestore(c) /\ k = Started("restore", "password")
  BY <1>2, <1>4 DEF StartRestore
<1>5. CASE StartCreateAccount(c) /\ k = [Started("createAccount", "reread") EXCEPT !.then = "derive"]
  BY <1>2, <1>5 DEF StartCreateAccount
<1>6. CASE StartBackup(c) /\ k = [Started("backup", "backup") EXCEPT !.arg = mem.vault]
  BY <1>2, <1>6 DEF StartBackup
<1>7. CASE StartLogout(c) /\ k = Started("logout", "accounts")
  BY <1>2, <1>7 DEF StartLogout
<1>8. CASE \E net \in Networks : StartSwitchNetwork(c, net) /\ k = [Started("switchNetwork", "switch") EXCEPT !.arg = net]
  BY <1>2, <1>8 DEF StartSwitchNetwork
<1>9. CASE \E i \in 1..Len(mem.list) :
             StartSwitchAccount(c, i) /\ k = [Started("switchAccount", "switch") EXCEPT !.index = i, !.arg = mem.list[i].net]
  BY <1>2, <1>9 DEF StartSwitchAccount
<1>10. CASE \E op \in {"unlock", "guess"} : StartVerify(c, op) /\ k = Started(op, "verify")
  BY <1>3, <1>10
<1>11. CASE \E seed \in 1..MaxSeeds, op \in Making :
        StartCreate(c, seed, op) /\ k = [Started(op, "encrypt") EXCEPT !.arg = seed]
  <2> HIDE DEF Shapes, Begin, Started, Idle, stored
  <2>1. PICK seed \in 1..MaxSeeds, op \in Making :
              StartCreate(c, seed, op) /\ k = [Started(op, "encrypt") EXCEPT !.arg = seed]
    BY <1>11
  <2>2. k.op = op
    BY <1>1, <2>1
  <2>3. QED
    BY <1>1, <2>1, <2>2
<1> HIDE DEF Shapes, Begin, Started, Idle, stored
<1>12. QED
  BY <1>4, <1>5, <1>6, <1>7, <1>8, <1>9, <1>10, <1>11 DEF Starts

\* A call begins with a record that is typed.
LEMMA StartTyped ==
  ASSUME Shapes, Typed, NEW c \in Calls, NEW k, Starts(c, k)
  PROVE  Placed(k) /\ Filled(k) /\ Stored' /\ Counters'
<1>1. Filled(Idle) /\ <<>> \in Seq(AccountRecords) /\ DefaultPrefs \in PrefRecords
  BY IdleFilled DEF Filled, Idle
<1>2. Placed(k)
  <2>1. \/ k.op \in Making /\ k.pc = "encrypt"
        \/ k.op = "restore" /\ k.pc = "password"
        \/ k.op = "createAccount" /\ k.pc = "reread" /\ k.then = "derive"
        \/ k.op = "backup" /\ k.pc = "backup"
        \/ k.op = "logout" /\ k.pc = "accounts"
        \/ k.op \in Switching /\ k.pc = "switch"
        \/ k.pc = "verify"
    BY DEF Starts, Started, Idle
  <2>2. QED
    BY <2>1 DEF Placed
<1>3. k.index \in Nat /\ k.list = <<>> /\ k.prev = DefaultPrefs
  <2>1. ASSUME NEW i \in 1..Len(mem.list), NEW x, k = [Started("switchAccount", "switch") EXCEPT !.index = i, !.arg = x]
        PROVE  k.index \in Nat /\ k.list = <<>> /\ k.prev = DefaultPrefs
    BY <2>1 DEF Started, Idle
  <2>2. ASSUME NEW op, NEW pc, k.index = Started(op, pc).index, k.list = Started(op, pc).list,
               k.prev = Started(op, pc).prev
        PROVE  k.index \in Nat /\ k.list = <<>> /\ k.prev = DefaultPrefs
    BY <2>2 DEF Started, Idle
  <2>3. \/ \E x : \E i \in 1..Len(mem.list) : k = [Started("switchAccount", "switch") EXCEPT !.index = i, !.arg = x]
        \/ \E op, pc : /\ k.index = Started(op, pc).index /\ k.list = Started(op, pc).list
                       /\ k.prev = Started(op, pc).prev
    BY DEF Starts, Started, Idle
  <2>4. QED
    BY <2>1, <2>2, <2>3
<1>4. /\ k.pc = "encrypt" => k.arg \in 1..MaxSeeds
      /\ k.pc \notin {"decrypt", "rekeyed", "backKeyed", "rekey"}
  BY DEF Starts, Started, Idle
<1>5. k.pc = "switch" => k.arg \in Networks
  <2>1. \A i \in 1..Len(mem.list) : mem.list[i].net \in Networks
    <3>1. mem.list \in Seq(AccountRecords)
      BY DEF Typed, MemRecords
    <3>2. \A i \in 1..Len(mem.list) : mem.list[i] \in AccountRecords
      BY <3>1
    <3>3. QED
      BY <3>2 DEF AccountRecords
  <2>2. QED
    BY <2>1 DEF Starts, Started, Idle
<1>6. Filled(k)
  BY <1>1, <1>3, <1>4, <1>5 DEF Filled, Seeds
<1>7. /\ vault' = vault /\ accounts' = accounts /\ prefs' = prefs /\ rate' = rate /\ dialled' = dialled
      /\ moves' = moves - 1 /\ moves > 0
  BY StartIs
<1>8. mem' \in MemRecords /\ session' \in BOOLEAN
  <2>1. CASE k.op \in Making
    <3>1. PICK seed \in 1..MaxSeeds, op \in Making : StartCreate(c, seed, op)
      BY <2>1 DEF Starts, Started, Idle
    <3>2. [seed |-> seed, net |-> prefs.net] \in KeyRecords
      BY DEF Typed, PrefRecords, KeyRecords, Seeds
    <3>3. mem' = [mem EXCEPT !.net = prefs.net, !.key = [seed |-> seed, net |-> prefs.net]] /\ session' = TRUE
      BY <3>1 DEF StartCreate
    <3>4. QED
      BY <3>2, <3>3 DEF Typed, MemRecords, PrefRecords
  <2>2. CASE k.op \notin Making
    BY <2>2, StartIs DEF Typed
  <2>3. QED
    BY <2>1, <2>2
<1>9. QED
  BY <1>2, <1>6, <1>7, <1>8, ValuesAssumption DEF Typed, Stored, Counters

\* A lock, an expiry, the end of a lockout and a death keep everything typed.
LEMMA OthersTyped ==
  ASSUME Shapes, Typed, Lock \/ SessionExpires \/ LockoutEnds \/ LoopDials \/ WorkerDies
  PROVE  Stored' /\ Counters'
<1> USE ValuesAssumption
<1>1. CASE Lock
  <2>1. /\ mem' = [mem EXCEPT !.key = None] /\ session' = FALSE /\ moves' = moves - 1 /\ moves > 0
        /\ UNCHANGED <<vault, accounts, prefs, rate, dialled>>
    BY <1>1 DEF Lock
  <2>2. mem' \in MemRecords
    BY <2>1 DEF Typed, MemRecords
  <2>3. moves' \in 0..MaxMoves
    BY <2>1 DEF Typed
  <2>4. QED
    BY <2>1, <2>2, <2>3 DEF Typed, Stored, Counters
<1>2. CASE SessionExpires
  <2>1. session' = FALSE /\ moves' = moves - 1 /\ moves > 0 /\ UNCHANGED <<vault, accounts, prefs, mem, rate, dialled>>
    BY <1>2 DEF SessionExpires
  <2>2. moves' \in 0..MaxMoves
    BY <2>1 DEF Typed
  <2>3. QED
    BY <2>1, <2>2 DEF Typed, Stored, Counters
<1>3. CASE LockoutEnds
  <2>1. rate' = [rate EXCEPT !.until = "none"] /\ rate \in RateRecords
    BY <1>3 DEF LockoutEnds, Typed
  <2>2. rate' \in RateRecords /\ rate'.until = "none"
    BY <2>1 DEF RateRecords
  <2>3. QED
    BY <1>3, <2>2 DEF LockoutEnds, Typed, Stored, Counters, stored
<1>4. CASE WorkerDies
  <2>1. Deduped(accounts) \in Seq(AccountRecords)
    BY DedupedIs DEF Typed
  <2>2. mem' = [vault |-> vault, key |-> None, net |-> None, list |-> Deduped(accounts), active |-> prefs.active]
    BY <1>4 DEF WorkerDies
  <2>3. mem' \in MemRecords
    BY <2>1, <2>2 DEF Typed, MemRecords, PrefRecords
  <2>4. QED
    BY <1>4, <2>1, <2>3 DEF WorkerDies, Typed, Stored, Counters
<1>5. CASE LoopDials
  BY <1>5 DEF LoopDials, Typed, Stored, Counters, stored
<1>6. QED
  BY <1>1, <1>2, <1>3, <1>4, <1>5

\* The parts of which the type correctness is made.
LEMMA TypedParts == Typed <=> Stored /\ Counters /\ \A c \in Calls : Placed(call[c]) /\ Filled(call[c])
BY DEF Typed, Stored, Counters

\* Every call that begins is one of those.
LEMMA BegunIs ==
  ASSUME NEW c \in Calls,
         \/ \E seed \in 1..MaxSeeds, op \in {"create", "recover"} : StartCreate(c, seed, op)
         \/ StartRestore(c) \/ StartCreateAccount(c) \/ StartBackup(c) \/ StartLogout(c)
         \/ \E net \in Networks : StartSwitchNetwork(c, net)
         \/ \E i \in 1..Len(mem.list) : StartSwitchAccount(c, i)
         \/ \E op \in {"unlock", "guess"} : StartVerify(c, op)
  PROVE  \E k : Starts(c, k)
BY DEF Starts

\* A step of the wallet.
LEMMA NextIs ==
  ASSUME [Next]_vars
  PROVE  \/ \E c \in Calls : Step(c)
         \/ \E c \in Calls : \E k : Starts(c, k)
         \/ Lock \/ SessionExpires \/ LockoutEnds \/ LoopDials \/ WorkerDies
         \/ UNCHANGED vars
BY BegunIs DEF Next

\* Every step keeps the variables in their sets.
LEMMA NextTyped == IInv /\ Typed /\ [Next]_vars => Typed'
<1> SUFFICES ASSUME IInv, Typed, [Next]_vars PROVE Typed'
  OBVIOUS
<1>1. ASSUME NEW c \in Calls, Step(c) PROVE Typed'
  <2>1. Stored' /\ Counters' /\ Placed(call'[c]) /\ Filled(call'[c])
    BY <1>1, StepStored, StepCounters, StepPlaced, StepFilled DEF IInv
  <2>2. \A d \in Calls \ {c} : call'[d] = call[d]
    BY <1>1, StepMoves DEF IInv, CallMoves
  <2>3. QED
    BY <2>1, <2>2, TypedParts DEF Typed, Stored, Counters
<1>2. ASSUME NEW c \in Calls, NEW k, Starts(c, k) PROVE Typed'
  <2>1. Stored' /\ Counters' /\ Placed(k) /\ Filled(k)
    BY <1>2, StartTyped DEF IInv
  <2>2. \A d \in Calls : call'[d] \in {k, call[d]}
    BY <1>2, StartIs DEF IInv, Shapes
  <2>3. QED
    BY <2>1, <2>2 DEF Typed, Stored, Counters
<1>3. CASE Lock \/ SessionExpires \/ LockoutEnds \/ LoopDials \/ WorkerDies
  <2>1. Stored' /\ Counters'
    BY <1>3, OthersTyped DEF IInv
  <2>2. Placed(Idle) /\ Filled(Idle)
    BY IdleFilled DEF Placed, Idle
  <2>3. \A d \in Calls : call'[d] \in {Idle, call[d]}
    BY <1>3 DEF Lock, SessionExpires, LockoutEnds, LoopDials, WorkerDies
  <2>4. QED
    BY <2>1, <2>2, <2>3 DEF Typed, Stored, Counters
<1>4. CASE UNCHANGED vars
  BY <1>4 DEF vars, stored, Typed
<1>5. QED
  BY <1>1, <1>2, <1>3, <1>4, NextIs

-----------------------------------------------------------------------------
(* No account is stored twice.                                             *)

Witness(k) == k.pc \in {"added", "read", "reread"} \/ (k.pc = "assign" /\ k.list = accounts)

\* If an account is stored twice, a call is on its way to find that out.
TwinsAreRead == Twinless(accounts) \/ \E c \in Calls : Witness(call[c])

\* The steps that leave the stored accounts alone, and were not going to read them.
LEMMA MostLeaveAccounts ==
  ASSUME Typed, Shapes, NEW c \in Calls, Step(c), ~Read(c), ~Assign(c), ~Added(c), ~DestroyAccounts(c)
  PROVE  \/ call'[c].pc \in {"added", "read"}
         \/ accounts' = accounts /\ call[c].pc \notin {"added", "read", "reread", "assign"}
<1> USE DEF Shapes, CallOK
<1>1. CASE Point(c) \/ Encrypted(c) \/ Keep(c) \/ BackedUp(c) \/ Verified(c) \/ Unlocked(c) \/ Failed(c) \/ Counted(c)
  BY <1>1 DEF Point, Encrypted, Keep, BackedUp, Verified, Unlocked, Failed, Counted, At, stored
<1>2. CASE Restore(c) \/ Switch(c) \/ Rekey(c) \/ Dial(c) \/ Connect(c) \/ Back(c) \/ BackKeyed(c) \/ Redial(c) \/ Again(c)
  BY <1>2 DEF Restore, Switch, Rekey, Dial, Connect, Back, BackKeyed, Redial, Again, stored
<1>3. CASE CreateDefault(c) \/ DeriveNext(c)
  BY <1>3 DEF CreateDefault, DeriveNext, Push
<1>4. CASE DestroyVault(c) \/ ResetPreferences(c) \/ ForgetPassword(c)
  BY <1>4 DEF DestroyVault, ResetPreferences, ForgetPassword, At
<1>5. ASSUME NEW key, NEW then, EnsureDefault(c, key, then) PROVE call'[c].pc \in {"added", "read"}
  <2>1. CASE Makes(c, key, then)
    BY <2>1 DEF Makes
  <2>2. ASSUME NEW i, Settles(c, key, then, i) PROVE call'[c].pc \in {"added", "read"}
    BY <2>2 DEF Settles
  <2>3. QED
    BY <1>5, <2>1, <2>2, DefaultIs
<1>6. CASE Decrypted(c) \/ Rekeyed(c)
  BY <1>5, <1>6 DEF Decrypted, Rekeyed
<1>7. QED
  BY <1>1, <1>2, <1>3, <1>4, <1>6 DEF Step

\* Every step leaves a call that will find what is stored twice.
LEMMA NextTwins == IInv /\ Typed /\ TwinsAreRead /\ [Next]_vars => TwinsAreRead'
<1> SUFFICES ASSUME IInv, Typed, TwinsAreRead, [Next]_vars, ~Twinless(accounts') PROVE \E c \in Calls : Witness(call[c])'
  BY DEF TwinsAreRead
<1> USE DEF Witness
<1>1. ASSUME NEW c \in Calls, Step(c) PROVE \E d \in Calls : Witness(call[d])'
  <2>1. \A d \in Calls \ {c} : call'[d] = call[d]
    BY <1>1, StepMoves DEF IInv, CallMoves
  <2>2. c \in DOMAIN call /\ CallOK(call[c]) /\ Filled(call[c])
    BY DEF IInv, Shapes, Typed
  <2>3. CASE Read(c)
    BY <2>2, <2>3 DEF Read, CallOK, stored
  <2>4. CASE Assign(c)
    <3>1. Twinless(Deduped(call[c].list))
      BY <2>2, DedupedIs DEF Filled
    <3>2. accounts' = accounts /\ call[c].list # accounts /\ call[c].pc = "assign"
      BY <2>4, <3>1 DEF Assign
    <3>3. QED
      BY <2>1, <3>2 DEF TwinsAreRead
  <2>5. CASE Added(c)
    BY <2>2, <2>5 DEF Added, Activate, CallOK
  <2>6. CASE DestroyAccounts(c)
    BY <2>6 DEF DestroyAccounts, Twinless
  <2>7. CASE ~Read(c) /\ ~Assign(c) /\ ~Added(c) /\ ~DestroyAccounts(c)
    BY <1>1, <2>1, <2>7, MostLeaveAccounts DEF TwinsAreRead, IInv
  <2>8. QED
    BY <2>3, <2>4, <2>5, <2>6, <2>7
<1>2. ASSUME NEW c \in Calls, NEW k, Starts(c, k) PROVE \E d \in Calls : Witness(call[d])'
  <2>1. accounts' = accounts /\ call[c].pc = "idle" /\ \A d \in Calls \ {c} : call'[d] = call[d]
    BY <1>2, StartIs DEF IInv, Shapes, CallOK
  <2>2. QED
    BY <2>1 DEF TwinsAreRead
<1>3. CASE Lock \/ SessionExpires \/ LockoutEnds \/ LoopDials \/ UNCHANGED vars
  BY <1>3 DEF Lock, SessionExpires, LockoutEnds, LoopDials, vars, stored, TwinsAreRead
<1>4. CASE WorkerDies
  BY <1>4, DedupedIs DEF WorkerDies, Typed
<1>5. QED
  BY <1>1, <1>2, <1>3, <1>4, NextIs

\* At first no account is stored twice.
LEMMA InitTwins == Init => TwinsAreRead
<1> SUFFICES ASSUME Init PROVE Twinless(accounts)
  BY DEF TwinsAreRead
<1>1. accounts = <<>> \/ accounts = <<Account(1, Mainnet, 0), Account(1, Mainnet, 1)>>
  BY Zenon DEF Init
<1>2. Account(1, Mainnet, 0) # Account(1, Mainnet, 1)
  BY DEF Account
<1>3. QED
  BY <1>1, <1>2 DEF Twinless

\* AccountManager.load(): between calls no account is stored twice.
LEMMA TwinsAreFound == TwinsAreRead /\ IInv => NoTwins
BY DEF TwinsAreRead, NoTwins, Quiet, Twinless, Witness, IInv, Shapes, CallOK

-----------------------------------------------------------------------------
(* What every step does, field by field.                                   *)

\* A call stays what it is, and comes to a place.
Comes(c, pc) == call'[c].op = call[c].op /\ call'[c].pc = pc
Ends(c) == call'[c] = Idle
KeepsArg(c) == call'[c].arg = call[c].arg /\ call'[c].prev = call[c].prev
KeepsThen(c) == call'[c].list = call[c].list /\ call'[c].then = call[c].then
KeepsIndex(c) == call'[c].index = call[c].index
Arrives(c) ==
  \/ call[c].then = "done" /\ Ends(c)
  \/ call[c].then # "done" /\ Comes(c, call[c].then) /\ KeepsArg(c) /\ KeepsIndex(c)

MemIs(key, net, list, active) ==
  mem'.vault = mem.vault /\ mem'.key = key /\ mem'.net = net /\ mem'.list = list /\ mem'.active = active
PrefsAre(net, active) == prefs'.net = net /\ prefs'.active = active /\ prefs'.backed = prefs.backed
KeepsStored == vault' = vault /\ accounts' = accounts /\ session' = session

\* init() reads the accounts.
LEMMA ReadIs ==
  ASSUME Typed, Shapes, NEW c \in Calls, Read(c)
  PROVE  /\ call[c].pc \in {"read", "reread"} /\ Comes(c, "assign") /\ KeepsArg(c)
         /\ call'[c].list = accounts /\ call'[c].then = call[c].then
         /\ call'[c].index = IF call[c].pc = "reread" THEN prefs.active ELSE call[c].index
         /\ KeepsStored /\ mem' = mem /\ prefs' = prefs /\ dialled' = dialled
<1> DEFINE i == IF call[c].pc = "reread" THEN prefs.active ELSE call[c].index
<1>1. call' = [call EXCEPT ![c].pc = "assign", ![c].list = accounts, ![c].index = i]
  BY DEF Read
<1> HIDE DEF i
<1>2. Comes(c, "assign") /\ KeepsArg(c) /\ call'[c].list = accounts /\ call'[c].then = call[c].then /\ call'[c].index = i
  BY <1>1 DEF Shapes, CallOK, Comes, KeepsArg
<1>3. QED
  BY <1>2 DEF i, Read, KeepsStored, stored

\* A call that has read the accounts ends, or goes where it was bound for.
LEMMA ArrivedIs ==
  ASSUME Shapes, NEW c \in Calls, Arrived(c)
  PROVE  Arrives(c)
<1>1. CASE call[c].then = "done"
  BY <1>1 DEF Arrived, Done, Arrives, Ends, Shapes
<1>2. CASE call[c].then # "done"
  <2>1. call' = [call EXCEPT ![c].pc = call[c].then, ![c].list = <<>>]
    BY <1>2 DEF Arrived
  <2>2. Comes(c, call[c].then) /\ KeepsArg(c) /\ KeepsIndex(c)
    BY <2>1 DEF Comes, KeepsArg, KeepsIndex, Shapes, CallOK
  <2>3. QED
    BY <1>2, <2>2 DEF Arrives
<1>3. QED
  BY <1>1, <1>2

\* The list is the one that was read, without its twins.
LEMMA AssignIs ==
  ASSUME Typed, Shapes, NEW c \in Calls, Assign(c)
  PROVE  /\ call[c].pc = "assign"
         /\ \/ /\ Deduped(call[c].list) = call[c].list /\ MemIs(mem.key, mem.net, call[c].list, call[c].index)
               /\ accounts' = accounts /\ Arrives(c)
            \/ /\ Deduped(call[c].list) # call[c].list /\ MemIs(mem.key, mem.net, Deduped(call[c].list), mem.active)
               /\ accounts' = Deduped(call[c].list) /\ Comes(c, "point") /\ KeepsArg(c) /\ KeepsThen(c) /\ KeepsIndex(c)
         /\ vault' = vault /\ session' = session /\ prefs' = prefs /\ dialled' = dialled
<1>1. CASE Deduped(call[c].list) = call[c].list
  <2>1. /\ mem' = [mem EXCEPT !.list = call[c].list, !.active = call[c].index]
        /\ Arrived(c) /\ accounts' = accounts
    BY <1>1 DEF Assign
  <2>2. MemIs(mem.key, mem.net, call[c].list, call[c].index) /\ Arrives(c)
    BY <2>1, ArrivedIs DEF Typed, MemRecords, MemIs
  <2>3. QED
    BY <1>1, <2>1, <2>2 DEF Assign
<1>2. CASE Deduped(call[c].list) # call[c].list
  <2>1. /\ mem' = [mem EXCEPT !.list = Deduped(call[c].list)] /\ accounts' = Deduped(call[c].list)
        /\ call' = [call EXCEPT ![c].pc = "point"]
    BY <1>2 DEF Assign, Goto
  <2>2. MemIs(mem.key, mem.net, Deduped(call[c].list), mem.active)
    BY <2>1 DEF Typed, MemRecords, MemIs
  <2>3. Comes(c, "point") /\ KeepsArg(c) /\ KeepsThen(c) /\ KeepsIndex(c)
    BY <2>1 DEF Shapes, CallOK, Comes, KeepsArg, KeepsThen, KeepsIndex
  <2>4. QED
    BY <1>2, <2>1, <2>2, <2>3 DEF Assign
<1>3. QED
  BY <1>1, <1>2

\* The index is set after the list without twins was saved.
LEMMA PointIs ==
  ASSUME Typed, Shapes, NEW c \in Calls, Point(c)
  PROVE  /\ call[c].pc = "point" /\ Arrives(c)
         /\ MemIs(mem.key, mem.net, mem.list, call[c].index)
         /\ KeepsStored /\ prefs' = prefs /\ dialled' = dialled
BY ArrivedIs DEF Point, MemIs, Typed, MemRecords, KeepsStored, stored

\* The account that was made becomes the active one.
LEMMA AddedIs ==
  ASSUME Typed, Shapes, NEW c \in Calls, Added(c)
  PROVE  /\ call[c].pc = "added" /\ Comes(c, "read") /\ KeepsArg(c) /\ KeepsThen(c)
         /\ call'[c].index = Len(mem.list)
         /\ MemIs(mem.key, mem.net, mem.list, Len(mem.list)) /\ PrefsAre(prefs.net, Len(mem.list))
         /\ KeepsStored /\ dialled' = dialled
<1>1. /\ call' = [call EXCEPT ![c].pc = "read", ![c].index = Len(mem.list), ![c].then = call[c].then]
      /\ mem' = [mem EXCEPT !.active = Len(mem.list)] /\ prefs' = [prefs EXCEPT !.active = Len(mem.list)]
  BY DEF Added, Activate
<1>2. Comes(c, "read") /\ KeepsArg(c) /\ KeepsThen(c) /\ call'[c].index = Len(mem.list)
  BY <1>1 DEF Shapes, CallOK, Comes, KeepsArg, KeepsThen
<1>3. MemIs(mem.key, mem.net, mem.list, Len(mem.list)) /\ PrefsAre(prefs.net, Len(mem.list))
  BY <1>1 DEF Typed, MemRecords, PrefRecords, MemIs, PrefsAre
<1>4. QED
  BY <1>2, <1>3 DEF Added, KeepsStored

\* A creation writes its vault.
LEMMA EncryptedIs ==
  ASSUME Typed, Shapes, NEW c \in Calls, Encrypted(c)
  PROVE  /\ call[c].pc = "encrypt" /\ Comes(c, "default") /\ KeepsArg(c) /\ KeepsThen(c) /\ KeepsIndex(c)
         /\ vault' = call[c].arg /\ mem'.vault = call[c].arg
         /\ mem'.key = mem.key /\ mem'.net = mem.net /\ mem'.list = mem.list /\ mem'.active = mem.active
         /\ accounts' = accounts /\ session' = session /\ prefs' = prefs /\ dialled' = dialled
<1>1. call' = [call EXCEPT ![c].pc = "default"] /\ mem' = [mem EXCEPT !.vault = call[c].arg]
  BY DEF Encrypted, Goto
<1>2. Comes(c, "default") /\ KeepsArg(c) /\ KeepsThen(c) /\ KeepsIndex(c)
  BY <1>1 DEF Shapes, CallOK, Comes, KeepsArg, KeepsThen, KeepsIndex
<1>3. mem'.vault = call[c].arg /\ mem'.key = mem.key /\ mem'.net = mem.net /\ mem'.list = mem.list /\ mem'.active = mem.active
  BY <1>1 DEF Typed, MemRecords
<1>4. QED
  BY <1>2, <1>3 DEF Encrypted

\* add()
Pushes(c, account, then) ==
  /\ MemIs(mem.key, mem.net, Append(mem.list, account), mem.active) /\ accounts' = Append(mem.list, account)
  /\ Comes(c, "added") /\ KeepsArg(c) /\ KeepsIndex(c) /\ call'[c].then = then

\* add(), field by field.
LEMMA PushIs ==
  ASSUME Typed, Shapes, NEW c \in Calls, NEW account, NEW then, Push(c, account, then)
  PROVE  Pushes(c, account, then)
<1>1. /\ mem' = [mem EXCEPT !.list = Append(mem.list, account)] /\ accounts' = mem'.list
      /\ call' = [call EXCEPT ![c].pc = "added", ![c].then = then]
  BY DEF Push
<1>2. Comes(c, "added") /\ KeepsArg(c) /\ KeepsIndex(c) /\ call'[c].then = then
  BY <1>1 DEF Shapes, CallOK, Comes, KeepsArg, KeepsIndex
<1>3. MemIs(mem.key, mem.net, Append(mem.list, account), mem.active)
  BY <1>1 DEF Typed, MemRecords, MemIs
<1>4. QED
  BY <1>1, <1>2, <1>3 DEF Pushes, MemIs

\* A creation makes its first account, if the key is still there.
LEMMA CreateDefaultIs ==
  ASSUME Typed, Shapes, NEW c \in Calls, CreateDefault(c)
  PROVE  /\ call[c].pc = "default"
         /\ \/ mem.key = None /\ Ends(c) /\ mem' = mem /\ accounts' = accounts
            \/ mem.key # None /\ Pushes(c, Derive(mem.key, mem.net, 0), "keep")
         /\ vault' = vault /\ session' = session /\ prefs' = prefs /\ dialled' = dialled
BY PushIs DEF CreateDefault, Done, Ends, Shapes

\* createAccount() makes the next account, if the key is still there.
LEMMA DeriveNextIs ==
  ASSUME Typed, Shapes, NEW c \in Calls, DeriveNext(c)
  PROVE  /\ call[c].pc = "derive"
         /\ \/ mem.key = None /\ Ends(c) /\ mem' = mem /\ accounts' = accounts
            \/ mem.key # None /\ Pushes(c, Derive(mem.key, mem.net, NextIndex(mem.list, prefs.net)), "again")
         /\ vault' = vault /\ session' = session /\ prefs' = prefs /\ dialled' = dialled
BY PushIs DEF DeriveNext, Done, Ends, Shapes

\* createAccount() goes to read once more.
LEMMA AgainIs ==
  ASSUME Typed, Shapes, NEW c \in Calls, Again(c)
  PROVE  /\ call[c].pc = "again" /\ Comes(c, "reread") /\ KeepsArg(c) /\ KeepsIndex(c) /\ call'[c].then = "done"
         /\ KeepsStored /\ mem' = mem /\ prefs' = prefs /\ dialled' = dialled
<1>1. call' = [call EXCEPT ![c].pc = "reread", ![c].then = "done"]
  BY DEF Again
<1>2. Comes(c, "reread") /\ KeepsArg(c) /\ KeepsIndex(c) /\ call'[c].then = "done"
  BY <1>1 DEF Shapes, CallOK, Comes, KeepsArg, KeepsIndex
<1>3. QED
  BY <1>2 DEF Again, KeepsStored, stored

\* The handler sets the session password.
LEMMA KeepIs ==
  ASSUME Typed, Shapes, NEW c \in Calls, Keep(c)
  PROVE  /\ call[c].pc = "keep"
         /\ \/ call[c].op = "recover" /\ Comes(c, "backup") /\ KeepsArg(c)
            \/ call[c].op # "recover" /\ Ends(c)
         /\ vault' = vault /\ accounts' = accounts /\ mem' = mem /\ prefs' = prefs /\ dialled' = dialled /\ session' = TRUE
<1>1. CASE call[c].op = "recover"
  <2>1. call' = [call EXCEPT ![c].pc = "backup"]
    BY <1>1 DEF Keep, Goto
  <2>2. Comes(c, "backup") /\ KeepsArg(c)
    BY <2>1 DEF Shapes, CallOK, Comes, KeepsArg
  <2>3. QED
    BY <1>1, <2>2 DEF Keep
<1>2. CASE call[c].op # "recover"
  BY <1>2 DEF Keep, Done, Ends, Shapes
<1>3. QED
  BY <1>1, <1>2

\* setBackupStatus(true) notes the seed that was typed.
LEMMA BackedUpIs ==
  ASSUME Typed, Shapes, NEW c \in Calls, BackedUp(c)
  PROVE  /\ call[c].pc = "backup" /\ Ends(c)
         /\ prefs'.net = prefs.net /\ prefs'.active = prefs.active /\ prefs'.backed = TRUE
         /\ seen'.verified = seen.verified \cup {call[c].arg} /\ seen'.clash = seen.clash
         /\ KeepsStored /\ mem' = mem /\ dialled' = dialled
BY DEF BackedUp, Done, Ends, Shapes, Typed, PrefRecords, KeepsStored

\* The steps that try a password change neither wallet nor preferences.
LEMMA PasswordIs ==
  ASSUME Typed, Shapes, NEW c \in Calls, Verified(c) \/ Unlocked(c) \/ Failed(c) \/ Counted(c)
  PROVE  /\ call[c].pc \in {"verify", "session", "count"}
         /\ call[c].pc = "verify" => Comes(c, "session") \/ Comes(c, "count")
         /\ call[c].pc = "session" => Comes(c, "password")
         /\ call[c].pc = "count" => Ends(c)
         /\ KeepsArg(c) \/ Ends(c)
         /\ vault' = vault /\ accounts' = accounts /\ mem' = mem /\ prefs' = prefs /\ dialled' = dialled
         /\ call[c].pc # "session" => session' = session
<1>1. CASE Verified(c)
  <2>1. call[c].pc = "verify" /\ call' = [call EXCEPT ![c].pc = "session"]
    BY <1>1 DEF Verified, At, Goto
  <2>2. Comes(c, "session") /\ KeepsArg(c)
    BY <2>1 DEF Shapes, CallOK, Comes, KeepsArg
  <2>3. QED
    BY <1>1, <2>1, <2>2 DEF Verified, stored
<1>2. CASE Unlocked(c)
  <2>1. call[c].pc = "session" /\ call' = [call EXCEPT ![c].pc = "password"]
    BY <1>2 DEF Unlocked, At, Goto
  <2>2. Comes(c, "password") /\ KeepsArg(c)
    BY <2>1 DEF Shapes, CallOK, Comes, KeepsArg
  <2>3. QED
    BY <1>2, <2>1, <2>2 DEF Unlocked
<1>3. CASE Failed(c)
  <2>1. call[c].pc = "verify" /\ call' = [call EXCEPT ![c].pc = "count", ![c].index = rate.count]
    BY <1>3 DEF Failed, At, Goto
  <2>2. Comes(c, "count") /\ KeepsArg(c)
    BY <2>1 DEF Shapes, CallOK, Comes, KeepsArg
  <2>3. QED
    BY <1>3, <2>1, <2>2 DEF Failed, stored
<1>4. CASE Counted(c)
  BY <1>4 DEF Counted, Done, Ends, Shapes, stored
<1>5. QED
  BY <1>1, <1>2, <1>3, <1>4

\* A restore takes the network of the preferences.
LEMMA RestoreIs ==
  ASSUME Typed, Shapes, NEW c \in Calls, Restore(c)
  PROVE  /\ call[c].pc = "password"
         /\ \/ mem.vault = None /\ Ends(c) /\ mem' = mem
            \/ /\ mem.vault # None /\ MemIs(mem.key, prefs.net, mem.list, mem.active)
               /\ Comes(c, "decrypt") /\ call'[c].arg = mem.vault /\ call'[c].prev = call[c].prev /\ call'[c].then = "done"
         /\ KeepsStored /\ prefs' = prefs /\ dialled' = dialled
<1>1. CASE mem.vault = None
  BY <1>1 DEF Restore, Done, Ends, Shapes, KeepsStored, stored
<1>2. CASE mem.vault # None
  <2>1. /\ mem' = [mem EXCEPT !.net = prefs.net]
        /\ call' = [call EXCEPT ![c].pc = "decrypt", ![c].arg = mem.vault, ![c].then = "done"]
    BY <1>2 DEF Restore
  <2>2. Comes(c, "decrypt") /\ call'[c].arg = mem.vault /\ call'[c].prev = call[c].prev /\ call'[c].then = "done"
    BY <2>1 DEF Shapes, CallOK, Comes
  <2>3. MemIs(mem.key, prefs.net, mem.list, mem.active)
    BY <2>1 DEF Typed, MemRecords, MemIs
  <2>4. QED
    BY <1>2, <2>2, <2>3 DEF Restore, KeepsStored, stored
<1>3. QED
  BY <1>1, <1>2

\* ensureDefaultAccount(), field by field.
Defaults(c, key, then) ==
  /\ Comes(c, "read") \/ Comes(c, "added")
  /\ KeepsArg(c) /\ call'[c].then = then
  /\ \/ /\ Comes(c, "read") /\ accounts' = accounts /\ call'[c].index = prefs'.active
        /\ MemIs(key, mem.net, mem.list, mem.active) /\ PrefsAre(prefs.net, prefs'.active)
        /\ prefs'.active \in On(mem.list, prefs.net)
        /\ IF Valid THEN prefs'.active = prefs.active ELSE mem.list[prefs'.active].index = 0
     \/ /\ Comes(c, "added") /\ accounts' = Append(mem.list, Derive(key, mem.net, 0)) /\ prefs' = prefs
        /\ MemIs(key, mem.net, Append(mem.list, Derive(key, mem.net, 0)), mem.active)
        /\ ~Valid /\ \A i \in On(mem.list, prefs.net) : mem.list[i].index # 0

\* ensureDefaultAccount() does what those lines say.
LEMMA DefaultDoes ==
  ASSUME Typed, Shapes, NEW c \in Calls, NEW key, NEW then, EnsureDefault(c, key, then)
  PROVE  Defaults(c, key, then)
<1>1. CASE Makes(c, key, then)
  <2>1. /\ mem' = [mem EXCEPT !.key = key, !.list = Append(mem.list, Derive(key, mem.net, 0))]
        /\ call' = [call EXCEPT ![c].pc = "added", ![c].then = then]
        /\ accounts' = Append(mem.list, Derive(key, mem.net, 0)) /\ prefs' = prefs
        /\ ~Valid /\ \A i \in On(mem.list, prefs.net) : mem.list[i].index # 0
    BY <1>1 DEF Makes
  <2>2. Comes(c, "added") /\ KeepsArg(c) /\ call'[c].then = then
    BY <2>1 DEF Shapes, CallOK, Comes, KeepsArg
  <2>3. MemIs(key, mem.net, Append(mem.list, Derive(key, mem.net, 0)), mem.active)
    BY <2>1 DEF Typed, MemRecords, MemIs
  <2>4. QED
    BY <2>1, <2>2, <2>3 DEF Defaults
<1>2. ASSUME NEW i, Settles(c, key, then, i) PROVE Defaults(c, key, then)
  <2>1. /\ mem' = [mem EXCEPT !.key = key] /\ prefs' = [prefs EXCEPT !.active = i] /\ accounts' = accounts
        /\ call' = [call EXCEPT ![c].pc = "read", ![c].index = i, ![c].then = then]
        /\ i \in On(mem.list, prefs.net) /\ IF Valid THEN i = prefs.active ELSE mem.list[i].index = 0
    BY <1>2 DEF Settles
  <2>2. Comes(c, "read") /\ KeepsArg(c) /\ call'[c].then = then /\ call'[c].index = i
    BY <2>1 DEF Shapes, CallOK, Comes, KeepsArg
  <2>3. MemIs(key, mem.net, mem.list, mem.active) /\ PrefsAre(prefs.net, i) /\ prefs'.active = i
    BY <2>1 DEF Typed, MemRecords, PrefRecords, MemIs, PrefsAre
  <2>4. QED
    BY <2>1, <2>2, <2>3 DEF Defaults
<1>3. QED
  BY <1>1, <1>2, DefaultIs

\* A restore sets its key and chooses an account; the selection is mended.
LEMMA DecryptedIs ==
  ASSUME Typed, Shapes, NEW c \in Calls, Decrypted(c)
  PROVE  /\ call[c].pc = "decrypt" /\ Defaults(c, Key(call[c].arg), call[c].then)
         /\ vault' = vault /\ session' = session /\ dialled' = dialled /\ seen'.clash = seen.clash \ {"torn"}
BY DefaultDoes DEF Decrypted, Shapes

\* A switch sets its key, and of a network chooses an account.
LEMMA RekeyedIs ==
  ASSUME Typed, Shapes, NEW c \in Calls, Rekeyed(c)
  PROVE  /\ call[c].pc = "rekeyed"
         /\ \/ call[c].op = "switchNetwork" /\ Defaults(c, Key(call[c].arg), "dial")
            \/ /\ call[c].op # "switchNetwork" /\ MemIs(Key(call[c].arg), mem.net, mem.list, mem.active)
               /\ Comes(c, "dial") /\ KeepsArg(c) /\ KeepsIndex(c) /\ accounts' = accounts /\ prefs' = prefs
         /\ vault' = vault /\ session' = session /\ dialled' = dialled
<1>1. CASE call[c].op = "switchNetwork"
  BY <1>1, DefaultDoes DEF Rekeyed
<1>2. CASE call[c].op # "switchNetwork"
  <2>1. mem' = [mem EXCEPT !.key = Key(call[c].arg)] /\ call' = [call EXCEPT ![c].pc = "dial"]
    BY <1>2 DEF Rekeyed, Goto
  <2>2. Comes(c, "dial") /\ KeepsArg(c) /\ KeepsIndex(c)
    BY <2>1 DEF Shapes, CallOK, Comes, KeepsArg, KeepsIndex
  <2>3. MemIs(Key(call[c].arg), mem.net, mem.list, mem.active)
    BY <2>1 DEF Typed, MemRecords, MemIs
  <2>4. QED
    BY <1>2, <2>2, <2>3 DEF Rekeyed
<1>3. QED
  BY <1>1, <1>2

\* A switch moves the index, or the network and what it had remembered.
LEMMA SwitchIs ==
  ASSUME Typed, Shapes, NEW c \in Calls, Switch(c)
  PROVE  /\ call[c].pc = "switch"
         /\ \/ /\ call[c].op = "switchAccount" /\ call[c].arg = prefs.net
               /\ Comes(c, "read") /\ KeepsArg(c) /\ KeepsIndex(c) /\ call'[c].then = "done"
               /\ PrefsAre(prefs.net, call[c].index) /\ dialled' = dialled
            \/ /\ call[c].op # "switchAccount" \/ call[c].arg # prefs.net
               /\ Comes(c, "rekey") /\ call'[c].arg = call[c].arg /\ call'[c].prev = prefs /\ KeepsIndex(c)
               /\ PrefsAre(call[c].arg, IF call[c].op = "switchAccount" THEN call[c].index ELSE prefs.active)
               /\ dialled' = c
         /\ KeepsStored /\ mem' = mem
<1>1. CASE call[c].op = "switchAccount" /\ call[c].arg = prefs.net
  <2>1. /\ prefs' = [prefs EXCEPT !.active = call[c].index]
        /\ call' = [call EXCEPT ![c].pc = "read", ![c].index = call[c].index, ![c].then = "done"]
    BY <1>1 DEF Switch, Activate
  <2>2. Comes(c, "read") /\ KeepsArg(c) /\ KeepsIndex(c) /\ call'[c].then = "done"
    BY <2>1 DEF Shapes, CallOK, Comes, KeepsArg, KeepsIndex
  <2>3. PrefsAre(prefs.net, call[c].index)
    BY <2>1 DEF Typed, PrefRecords, PrefsAre
  <2>4. QED
    BY <1>1, <2>2, <2>3 DEF Switch, KeepsStored
<1>2. CASE ~(call[c].op = "switchAccount" /\ call[c].arg = prefs.net)
  <2> DEFINE i == IF call[c].op = "switchAccount" THEN call[c].index ELSE prefs.active
  <2>1. prefs' = [prefs EXCEPT !.net = call[c].arg, !.active = i]
    BY <1>2 DEF Switch
  <2> HIDE DEF i
  <2>2. call' = [call EXCEPT ![c].pc = "rekey", ![c].prev = prefs] /\ dialled' = c
    BY <1>2 DEF Switch
  <2>3. Comes(c, "rekey") /\ call'[c].arg = call[c].arg /\ call'[c].prev = prefs /\ KeepsIndex(c)
    BY <2>2 DEF Shapes, CallOK, Comes, KeepsIndex
  <2>4. PrefsAre(call[c].arg, i)
    BY <2>1 DEF Typed, PrefRecords, PrefsAre
  <2>5. QED
    BY <1>2, <2>2, <2>3, <2>4 DEF Switch, KeepsStored, i
<1>3. QED
  BY <1>1, <1>2

\* The rollback, field by field.
RollsBack(c) ==
  /\ PrefsAre(call[c].prev.net, call[c].prev.active) /\ dialled' = c
  /\ Comes(c, "back") /\ KeepsArg(c)

\* The rollback does what those lines say.
LEMMA RollBackIs ==
  ASSUME Typed, Shapes, NEW c \in Calls, RollBack(c)
  PROVE  RollsBack(c)
<1>1. /\ prefs' = [prefs EXCEPT !.net = call[c].prev.net, !.active = call[c].prev.active]
      /\ call' = [call EXCEPT ![c].pc = "back"] /\ dialled' = c
  BY DEF RollBack, Goto
<1>2. Comes(c, "back") /\ KeepsArg(c)
  BY <1>1 DEF Shapes, CallOK, Comes, KeepsArg
<1>3. PrefsAre(call[c].prev.net, call[c].prev.active)
  BY <1>1 DEF Typed, PrefRecords, PrefsAre
<1>4. QED
  BY <1>1, <1>2, <1>3 DEF RollsBack

\* A switch finds the vault, or rolls back.
LEMMA RekeyIs ==
  ASSUME Typed, Shapes, NEW c \in Calls, Rekey(c)
  PROVE  /\ call[c].pc = "rekey"
         /\ \/ mem.vault = None /\ RollsBack(c) /\ mem' = mem
            \/ /\ mem.vault # None /\ MemIs(mem.key, call[c].arg, mem.list, mem.active)
               /\ Comes(c, "rekeyed") /\ call'[c].arg = mem.vault /\ call'[c].prev = call[c].prev /\ KeepsIndex(c)
               /\ prefs' = prefs /\ dialled' = dialled
         /\ KeepsStored
<1>1. CASE mem.vault = None
  BY <1>1, RollBackIs DEF Rekey, KeepsStored
<1>2. CASE mem.vault # None
  <2>1. /\ mem' = [mem EXCEPT !.net = call[c].arg]
        /\ call' = [call EXCEPT ![c].pc = "rekeyed", ![c].arg = mem.vault]
    BY <1>2 DEF Rekey
  <2>2. Comes(c, "rekeyed") /\ call'[c].arg = mem.vault /\ call'[c].prev = call[c].prev /\ KeepsIndex(c)
    BY <2>1 DEF Shapes, CallOK, Comes, KeepsIndex
  <2>3. MemIs(mem.key, call[c].arg, mem.list, mem.active)
    BY <2>1 DEF Typed, MemRecords, MemIs
  <2>4. QED
    BY <1>2, <2>2, <2>3 DEF Rekey, KeepsStored
<1>3. QED
  BY <1>1, <1>2

\* A switch dials, or rolls back.
LEMMA DialIs ==
  ASSUME Typed, Shapes, NEW c \in Calls, Dial(c)
  PROVE  /\ call[c].pc = "dial"
         /\ \/ Comes(c, "connect") /\ KeepsArg(c) /\ KeepsIndex(c) /\ dialled' = c /\ prefs' = prefs
            \/ RollsBack(c)
         /\ KeepsStored /\ mem' = mem
<1>1. CASE RollBack(c)
  BY <1>1, RollBackIs DEF Dial, KeepsStored
<1>2. CASE ~RollBack(c)
  <2>1. call' = [call EXCEPT ![c].pc = "connect"] /\ dialled' = c /\ prefs' = prefs
    BY <1>2 DEF Dial, Goto
  <2>2. Comes(c, "connect") /\ KeepsArg(c) /\ KeepsIndex(c)
    BY <2>1 DEF Shapes, CallOK, Comes, KeepsArg, KeepsIndex
  <2>3. QED
    BY <2>1, <2>2 DEF Dial, KeepsStored
<1>3. QED
  BY <1>1, <1>2

\* A switch is overtaken, connected, or rolled back.
LEMMA ConnectIs ==
  ASSUME Typed, Shapes, NEW c \in Calls, Connect(c)
  PROVE  /\ call[c].pc = "connect"
         /\ \/ dialled # c /\ Ends(c) /\ prefs' = prefs /\ dialled' = dialled /\ "torn" \in seen'.clash
            \/ /\ dialled = c /\ Comes(c, "read") /\ KeepsArg(c) /\ call'[c].then = "done"
               /\ call'[c].index = IF call[c].op = "switchNetwork" THEN prefs.active ELSE call[c].index
               /\ prefs' = prefs /\ dialled' = dialled
            \/ dialled = c /\ RollsBack(c)
         /\ KeepsStored /\ mem' = mem
<1> DEFINE i == IF call[c].op = "switchNetwork" THEN prefs.active ELSE call[c].index
<1>0. call[c].pc = "connect" /\ KeepsStored /\ mem' = mem
  BY DEF Connect, KeepsStored
<1>1. CASE dialled = c /\ RollBack(c)
  BY <1>0, <1>1, RollBackIs
<1>2. CASE /\ dialled = c
           /\ call' = [call EXCEPT ![c].pc = "read", ![c].then = "done", ![c].index = i]
           /\ UNCHANGED <<prefs, dialled>>
  <2> HIDE DEF i
  <2>1. Comes(c, "read") /\ KeepsArg(c) /\ call'[c].then = "done" /\ call'[c].index = i
    BY <1>2 DEF Shapes, CallOK, Comes, KeepsArg
  <2>2. QED
    BY <1>0, <1>2, <2>1 DEF i
<1>3. CASE /\ dialled # c /\ Done(c) /\ UNCHANGED <<prefs, dialled>>
           /\ seen' = [seen EXCEPT !.clash = @ \cup {"torn"}]
  BY <1>0, <1>3 DEF Done, Ends, Shapes
<1>4. QED
  BY <1>1, <1>2, <1>3 DEF Connect

\* A rollback finds the vault, or goes to read.
LEMMA BackIs ==
  ASSUME Typed, Shapes, NEW c \in Calls, Back(c)
  PROVE  /\ call[c].pc = "back"
         /\ \/ /\ mem.vault = None /\ mem' = mem /\ Comes(c, "read") /\ KeepsArg(c)
               /\ call'[c].index = call[c].prev.active /\ call'[c].then = "redial"
            \/ /\ mem.vault # None /\ MemIs(mem.key, call[c].prev.net, mem.list, mem.active)
               /\ Comes(c, "backKeyed") /\ call'[c].arg = mem.vault /\ call'[c].prev = call[c].prev
         /\ KeepsStored /\ prefs' = prefs /\ dialled' = dialled
<1>1. CASE mem.vault = None
  <2>1. /\ mem' = mem
        /\ call' = [call EXCEPT ![c].pc = "read", ![c].index = call[c].prev.active, ![c].then = "redial"]
    BY <1>1 DEF Back
  <2>2. /\ Comes(c, "read") /\ KeepsArg(c) /\ call'[c].index = call[c].prev.active /\ call'[c].then = "redial"
    BY <2>1 DEF Shapes, CallOK, Comes, KeepsArg
  <2>3. QED
    BY <1>1, <2>1, <2>2 DEF Back, KeepsStored, stored
<1>2. CASE mem.vault # None
  <2>1. /\ mem' = [mem EXCEPT !.net = call[c].prev.net]
        /\ call' = [call EXCEPT ![c].pc = "backKeyed", ![c].arg = mem.vault]
    BY <1>2 DEF Back
  <2>2. Comes(c, "backKeyed") /\ call'[c].arg = mem.vault /\ call'[c].prev = call[c].prev
    BY <2>1 DEF Shapes, CallOK, Comes
  <2>3. MemIs(mem.key, call[c].prev.net, mem.list, mem.active)
    BY <2>1 DEF Typed, MemRecords, MemIs
  <2>4. QED
    BY <1>2, <2>2, <2>3 DEF Back, KeepsStored, stored
<1>3. QED
  BY <1>1, <1>2

\* A rollback sets its key.
LEMMA BackKeyedIs ==
  ASSUME Typed, Shapes, NEW c \in Calls, BackKeyed(c)
  PROVE  /\ call[c].pc = "backKeyed" /\ MemIs(Key(call[c].arg), mem.net, mem.list, mem.active)
         /\ Comes(c, "read") /\ KeepsArg(c) /\ call'[c].index = call[c].prev.active /\ call'[c].then = "redial"
         /\ KeepsStored /\ prefs' = prefs /\ dialled' = dialled
<1>1. /\ mem' = [mem EXCEPT !.key = Key(call[c].arg)]
      /\ call' = [call EXCEPT ![c].pc = "read", ![c].index = call[c].prev.active, ![c].then = "redial"]
  BY DEF BackKeyed
<1>2. Comes(c, "read") /\ KeepsArg(c) /\ call'[c].index = call[c].prev.active /\ call'[c].then = "redial"
  BY <1>1 DEF Shapes, CallOK, Comes, KeepsArg
<1>3. MemIs(Key(call[c].arg), mem.net, mem.list, mem.active)
  BY <1>1 DEF Typed, MemRecords, MemIs
<1>4. QED
  BY <1>2, <1>3 DEF BackKeyed, KeepsStored, stored

\* A rollback dials again, and ends.
LEMMA RedialIs ==
  ASSUME Typed, Shapes, NEW c \in Calls, Redial(c)
  PROVE  /\ call[c].pc = "redial" /\ Ends(c)
         /\ KeepsStored /\ mem' = mem /\ prefs' = prefs
BY DEF Redial, Done, Ends, Shapes, KeepsStored, stored

\* A logout forgets the accounts ...
LEMMA DestroyAccountsIs ==
  ASSUME Typed, Shapes, NEW c \in Calls, DestroyAccounts(c)
  PROVE  /\ call[c].pc = "accounts" /\ call[c].op = "logout" /\ Comes(c, "vault")
         /\ MemIs(mem.key, mem.net, <<>>, 0) /\ accounts' = <<>>
         /\ vault' = vault /\ session' = session /\ prefs' = prefs /\ dialled' = dialled
<1>1. /\ mem' = [mem EXCEPT !.list = <<>>, !.active = 0]
      /\ call' = [call EXCEPT ![c].pc = "vault"] /\ call[c].op = "logout"
  BY DEF DestroyAccounts, At, Goto
<1>2. Comes(c, "vault")
  BY <1>1 DEF Shapes, CallOK, Comes
<1>3. MemIs(mem.key, mem.net, <<>>, 0)
  BY <1>1 DEF Typed, MemRecords, MemIs
<1>4. QED
  BY <1>1, <1>2, <1>3 DEF DestroyAccounts, At

\* ... then the vault in storage ...
LEMMA DestroyVaultIs ==
  ASSUME Typed, Shapes, NEW c \in Calls, DestroyVault(c)
  PROVE  /\ call[c].pc = "vault" /\ call[c].op = "logout" /\ Comes(c, "preferences")
         /\ vault' = None /\ mem' = mem /\ accounts' = accounts
         /\ session' = session /\ prefs' = prefs /\ dialled' = dialled
<1>1. call' = [call EXCEPT ![c].pc = "preferences"] /\ call[c].op = "logout"
  BY DEF DestroyVault, At, Goto
<1>2. Comes(c, "preferences")
  BY <1>1 DEF Shapes, CallOK, Comes
<1>4. QED
  BY <1>1, <1>2 DEF DestroyVault, At

\* ... then the objects and the preferences ...
LEMMA ResetPreferencesIs ==
  ASSUME Typed, Shapes, NEW c \in Calls, ResetPreferences(c)
  PROVE  /\ call[c].pc = "preferences" /\ call[c].op = "logout" /\ Comes(c, "forget")
         /\ mem'.vault = None /\ mem'.key = None /\ mem'.net = None /\ mem'.list = mem.list /\ mem'.active = mem.active
         /\ prefs' = DefaultPrefs /\ KeepsStored /\ dialled' = dialled
<1>1. /\ mem' = [mem EXCEPT !.vault = None, !.key = None, !.net = None]
      /\ call' = [call EXCEPT ![c].pc = "forget"] /\ call[c].op = "logout"
  BY DEF ResetPreferences, At, Goto
<1>2. Comes(c, "forget")
  BY <1>1 DEF Shapes, CallOK, Comes
<1>3. mem'.vault = None /\ mem'.key = None /\ mem'.net = None /\ mem'.list = mem.list /\ mem'.active = mem.active
  BY <1>1 DEF Typed, MemRecords
<1>4. QED
  BY <1>1, <1>2, <1>3 DEF ResetPreferences, At, KeepsStored

\* ... and last the session password.
LEMMA ForgetPasswordIs ==
  ASSUME Typed, Shapes, NEW c \in Calls, ForgetPassword(c)
  PROVE  /\ call[c].pc = "forget" /\ call[c].op = "logout" /\ Ends(c) /\ session' = FALSE
         /\ vault' = vault /\ accounts' = accounts /\ mem' = mem /\ prefs' = prefs /\ dialled' = dialled
BY DEF ForgetPassword, At, Done, Ends, Shapes

-----------------------------------------------------------------------------
(* The keys are of the vault.                                              *)

Some(pcs) == \E c \in Calls : call[c].pc \in pcs
Running(ops) == \E c \in Calls : call[c].op \in ops

\* The calls that run leave each other's keys alone ...
KeysApart ==
  \A c, d \in Calls : c # d =>
    /\ ~(call[c].op \in Making /\ call[d].op \in Making)
    /\ ~(call[c].op = "logout" /\ call[d].op \in Selecting)
    /\ ~(call[c].op \in Switching /\ call[d].op \in Making \cup {"createAccount"})

\* ... and one that moves the selection runs alone, unless it is a restore or an unlock.
SelectionApart ==
  \A c, d \in Calls : c # d /\ call[c].op \in Selecting /\ call[d].op \in Selecting =>
    call[c].op \in Restoring /\ call[d].op \in Restoring

Of(list, seed) == \A i \in DOMAIN list : list[i].seed = seed /\ list[i].xpub = list[i].net

\* The key, the wallet and the preferences are on one network.
NetsAgree ==
  /\ mem.key # None => mem.key.net = prefs.net /\ mem.net = prefs.net
  /\ Some({"decrypt"}) => mem.net = prefs.net

CallKeys(k) ==
  /\ k.op \in Selecting /\ vault = None => k.pc = "encrypt"
  /\ k.pc = "encrypt" => vault = None
  /\ k.op \in Making /\ k.pc # "encrypt" => k.arg = vault
  /\ k.pc = "assign" => Of(k.list, vault)
  /\ k.pc \in {"vault", "preferences", "forget"} => accounts = <<>> /\ mem.list = <<>> /\ mem.active = 0
  /\ k.pc \in {"preferences", "forget"} => vault = None
  /\ k.pc \in {"decrypt", "rekeyed", "backKeyed"} => k.arg = mem.vault /\ mem.net # None

KeysHold ==
  /\ KeysApart
  /\ Of(accounts, vault) /\ Of(mem.list, vault)
  /\ vault = None => accounts = <<>> /\ mem.list = <<>>
  /\ mem.vault # vault => vault = None /\ Some({"preferences"})
  /\ mem.key # None => \/ mem.key.seed = mem.vault
                       \/ \E c \in Calls : call[c].pc = "encrypt" /\ call[c].arg = mem.key.seed
  /\ mem.key # None => mem.net # None /\ (mem.key.net = mem.net \/ Some({"decrypt", "rekeyed", "backKeyed"}))
  /\ Running(Making) \/ (Running({"createAccount"}) /\ Running(Restoring)) => NetsAgree
  /\ \A c \in Calls : CallKeys(call[c])

KeysAreOfTheVault == Undisturbed("keys") => KeysHold

NetsHold ==
  /\ SelectionApart
  /\ ~Some({"rekey", "rekeyed", "back", "backKeyed"}) => NetsAgree
  /\ \A c \in Calls :
       /\ call[c].pc = "rekey" => call[c].arg = prefs.net
       /\ call[c].pc \in {"rekeyed", "backKeyed"} => mem.net = prefs.net
       /\ call[c].pc = "back" => call[c].prev.net = prefs.net

NetsFollow == Undisturbed("keys") /\ Undisturbed("selection") => NetsHold

\* What an overlap that is not a disturbance promises of the calls that run.
LEMMA ApartFrom ==
  ASSUME NEW op
  PROVE  /\ "keys" \notin Overlaps(op) => \A d \in Calls :
              /\ ~(op \in Making /\ call[d].op \in Making)
              /\ ~(op = "logout" /\ call[d].op \in Selecting) /\ ~(op \in Selecting /\ call[d].op = "logout")
              /\ ~(op \in Switching /\ call[d].op \in Making \cup {"createAccount"})
              /\ ~(op \in Making \cup {"createAccount"} /\ call[d].op \in Switching)
              /\ "selection" \in seen.clash => /\ ~(op \in Restoring /\ call[d].op = "createAccount")
                                               /\ ~(op = "createAccount" /\ call[d].op \in Restoring)
         /\ "selection" \notin Overlaps(op) => \A d \in Calls :
              op \in Selecting /\ call[d].op \in Selecting => op \in Restoring /\ call[d].op \in Restoring
         /\ "backup" \notin Overlaps(op) => \A d \in Calls :
              /\ ~(op = "logout" /\ call[d].op \in {"backup", "recover"})
              /\ ~(op \in {"backup", "recover", "death"} /\ call[d].op = "logout")
<1>1. ASSUME NEW d \in Calls, NEW kind \in {"selection", "keys", "backup"}, kind \notin Overlaps(op)
      PROVE  kind \notin Kinds(op, call[d].op)
  BY <1>1 DEF Overlaps
<1>2. ASSUME NEW d \in Calls, "keys" \notin Overlaps(op)
      PROVE   /\ ~(op \in Making /\ call[d].op \in Making)
              /\ ~(op = "logout" /\ call[d].op \in Selecting) /\ ~(op \in Selecting /\ call[d].op = "logout")
              /\ ~(op \in Switching /\ call[d].op \in Making \cup {"createAccount"})
              /\ ~(op \in Making \cup {"createAccount"} /\ call[d].op \in Switching)
              /\ "selection" \in seen.clash => /\ ~(op \in Restoring /\ call[d].op = "createAccount")
                                               /\ ~(op = "createAccount" /\ call[d].op \in Restoring)
  BY <1>1, <1>2 DEF Kinds
<1>3. ASSUME NEW d \in Calls, "selection" \notin Overlaps(op), op \in Selecting, call[d].op \in Selecting
      PROVE  op \in Restoring /\ call[d].op \in Restoring
  BY <1>1, <1>3 DEF Kinds
<1>4. ASSUME NEW d \in Calls, "backup" \notin Overlaps(op)
      PROVE  /\ ~(op = "logout" /\ call[d].op \in {"backup", "recover"})
             /\ ~(op \in {"backup", "recover", "death"} /\ call[d].op = "logout")
  BY <1>1, <1>4 DEF Kinds
<1>5. QED
  BY <1>2, <1>3, <1>4

\* No step of a call disturbs, but for the switch that is overtaken, which leaves the
\* selection torn; and a restore mends that.
LEMMA StepClash ==
  ASSUME Shapes, NEW c \in Calls, Step(c)
  PROVE  /\ \A kind : kind # "torn" => (kind \in seen'.clash <=> kind \in seen.clash)
         /\ ~Decrypted(c) /\ ~(Connect(c) /\ dialled # c) => seen'.clash = seen.clash
         /\ ~BackedUp(c) => seen'.verified = seen.verified
<1>1. CASE Decrypted(c)
  <2>1. seen' = [seen EXCEPT !.clash = seen.clash \ {"torn"}]
    BY <1>1 DEF Decrypted
  <2>2. seen'.clash = seen.clash \ {"torn"} /\ seen'.verified = seen.verified
    BY <2>1 DEF Shapes
  <2>3. QED
    BY <2>2, <1>1
<1>2. CASE Verified(c) \/ Unlocked(c) \/ BackedUp(c)
  <2>1. seen'.clash = seen.clash /\ (~BackedUp(c) => seen'.verified = seen.verified)
    BY <1>2 DEF Verified, Unlocked, BackedUp, Shapes
  <2>2. QED
    BY <2>1
<1>3. CASE Counted(c)
  <2>1. seen'.clash = seen.clash /\ seen'.verified = seen.verified
    BY <1>3 DEF Counted, Shapes
  <2>2. QED
    BY <2>1
<1>4. CASE Connect(c)
  <2>1. CASE seen' = seen
    BY <2>1
  <2>2. CASE dialled # c /\ seen' = [seen EXCEPT !.clash = @ \cup {"torn"}]
    <3>1. seen'.clash = seen.clash \cup {"torn"} /\ seen'.verified = seen.verified
      BY <2>2 DEF Shapes
    <3>2. QED
      BY <1>4, <2>2, <3>1
  <2>3. QED
    BY <1>4, <2>1, <2>2 DEF Connect
<1>5. CASE ~Decrypted(c) /\ ~Verified(c) /\ ~Unlocked(c) /\ ~BackedUp(c) /\ ~Counted(c) /\ ~Connect(c)
  <2>1. seen' = seen
    BY <1>5 DEF Step, Read, Assign, Point, Added, Encrypted, CreateDefault, Keep,
         Failed, Restore, Switch, Rekey, Rekeyed, Dial, Back, BackKeyed,
         Redial, DeriveNext, Again, DestroyAccounts, DestroyVault, ResetPreferences, ForgetPassword
  <2>2. QED
    BY <2>1
<1>6. QED
  BY <1>1, <1>2, <1>3, <1>4, <1>5

KeysMem == mem'.vault = mem.vault /\ mem'.key = mem.key /\ mem'.net = mem.net

\* A step of a call that leaves the seed, the key and the wallet's network alone.
Calm(c) ==
  /\ vault' = vault /\ KeysMem
  /\ prefs'.net = prefs.net \/ call[c].op \in Switching
  /\ Of(accounts', vault) /\ Of(mem'.list, vault)
  /\ \/ call[c].op \in Selecting /\ vault # None
     \/ accounts' = accounts /\ mem'.list = mem.list /\ mem'.active = mem.active
  /\ call[c].pc \notin {"encrypt", "preferences", "decrypt", "rekeyed", "backKeyed"}
  /\ call'[c].pc \notin {"encrypt", "vault", "preferences", "forget", "decrypt", "rekeyed", "backKeyed"}
  /\ call'[c].pc = "assign" => Of(call'[c].list, vault)
  /\ call'[c].op = "none" \/ (call'[c].op = call[c].op /\ call'[c].arg = call[c].arg)

\* Operations end and none begin.
LEMMA MovesApart ==
  ASSUME KeysHold, NEW c \in Calls, CallMoves(c)
  PROVE  /\ KeysApart' /\ \A d \in Calls : call'[d].op \in {call[d].op, "none"}
         /\ Running(Making)' \/ (Running({"createAccount"})' /\ Running(Restoring)') =>
              NetsAgree /\ \A d \in Calls : call[d].op \notin Switching
BY DEF KeysHold, KeysApart, CallMoves, Running

\* Such a step keeps the keys of the vault.
LEMMA CalmKeys ==
  ASSUME Typed, KeysHold, NEW c \in Calls, CallMoves(c), Calm(c)
  PROVE  KeysHold'
<1> USE DEF Calm, KeysMem, CallMoves
<1>1. KeysApart' /\ \A d \in Calls : call'[d].op \in {call[d].op, "none"}
  BY MovesApart
<1>2. vault' = None => accounts' = <<>> /\ mem'.list = <<>>
  BY DEF KeysHold
<1>3. mem'.vault # vault' => vault' = None /\ Some({"preferences"})'
  BY DEF KeysHold, Some
<1>4. mem'.key # None => \/ mem'.key.seed = mem'.vault
                         \/ \E d \in Calls : call'[d].pc = "encrypt" /\ call'[d].arg = mem'.key.seed
  BY DEF KeysHold
<1>5. mem'.key # None => mem'.net # None /\ (mem'.key.net = mem'.net \/ Some({"decrypt", "rekeyed", "backKeyed"})')
  BY DEF KeysHold, Some
<1>6. Running(Making)' \/ (Running({"createAccount"})' /\ Running(Restoring)') => NetsAgree'
  <2>1. Some({"decrypt"})' => Some({"decrypt"})
    BY DEF Some
  <2>2. QED
    BY <2>1, MovesApart DEF NetsAgree
<1>7. ASSUME NEW d \in Calls PROVE CallKeys(call[d])'
  <2>1. CASE d = c
    <3>1. CallKeys(call[c])
      BY DEF KeysHold
    <3>2. QED
      BY <2>1, <3>1 DEF CallKeys
  <2>2. CASE d # c
    <3>1. CallKeys(call[d]) /\ call'[d] = call[d]
      BY <2>2 DEF KeysHold
    <3>3. call[d].op = "logout" => call[c].op \notin Selecting
      BY <2>2 DEF KeysHold, KeysApart
    <3>4. Placed(call[d])
      BY DEF Typed
    <3>5. call[d].pc \in LogoutPlaces => accounts' = accounts /\ mem'.list = mem.list /\ mem'.active = mem.active
      BY <3>3, <3>4 DEF Placed
    <3>6. QED
      BY <3>1, <3>5 DEF CallKeys
  <2>3. QED
    BY <2>1, <2>2
<1>8. Of(accounts', vault') /\ Of(mem'.list, vault')
  OBVIOUS
<1>9. QED
  BY <1>1, <1>2, <1>3, <1>4, <1>5, <1>6, <1>7, <1>8 DEF KeysHold

\* What a list of the vault's accounts may become.
LEMMA OfKept ==
  ASSUME NEW list, NEW list2, NEW seed, Of(list, seed),
         \A i \in DOMAIN list2 : \E j \in DOMAIN list : list2[i] = list[j]
  PROVE  Of(list2, seed)
BY DEF Of

\* An account of the seed may join them.
LEMMA OfAppended ==
  ASSUME NEW list \in Seq(AccountRecords), NEW account, NEW seed, Of(list, seed),
         account.seed = seed, account.xpub = account.net
  PROVE  Of(Append(list, account), seed)
<1>1. \A i \in DOMAIN Append(list, account) :
        Append(list, account)[i] = account \/ \E j \in DOMAIN list : Append(list, account)[i] = list[j]
  OBVIOUS
<1>2. QED
  BY <1>1 DEF Of

\* The key derives an account of the wallet's network.
LEMMA DerivesOfVault ==
  ASSUME NEW key, NEW net \in Networks, NEW index, NEW seed, key.seed = seed, key.net = net
  PROVE  LET a == Derive(key, net, index) IN a.seed = seed /\ a.xpub = a.net /\ a.net = net /\ a.index = index
BY DEF Derive, Networks

\* A call that runs knows a vault, and memory holds the same.
LEMMA VaultIsThere ==
  ASSUME Typed, KeysHold, NEW c \in Calls, call[c].op \in Selecting, call[c].pc # "encrypt"
  PROVE  vault # None /\ mem.vault = vault
BY DEF KeysHold, CallKeys

\* Arriving and ending are calm.
LEMMA ArrivesCalmly ==
  ASSUME Shapes, NEW c \in Calls, Arrives(c) \/ Ends(c)
  PROVE  /\ call'[c].pc \in {"idle", "keep", "dial", "redial", "derive", "again"}
         /\ call'[c].op = "none" \/ (call'[c].op = call[c].op /\ call'[c].arg = call[c].arg)
BY DEF Shapes, CallOK, Arrives, Ends, Comes, KeepsArg, Idle

\* The key that derives an account is of the vault, and of the wallet's network.
LEMMA KeyIsOfVault ==
  ASSUME Typed, Shapes, KeysHold, NEW c \in Calls, call[c].pc \in {"default", "derive"}, mem.key # None
  PROVE  mem.key.seed = vault /\ mem.net \in Networks /\ mem.key.net = mem.net
<1>0. Placed(call[c])
  BY DEF Typed
<1>1. call[c].op \in Making \cup {"createAccount"} /\ call[c].pc # "encrypt"
  BY <1>0 DEF Placed
<1>2. vault # None /\ mem.vault = vault
  BY <1>1, VaultIsThere
<1>3. mem.key.seed = vault
  <2>1. ~\E d \in Calls : call[d].pc = "encrypt"
    BY <1>2 DEF KeysHold, CallKeys
  <2>2. QED
    BY <1>2, <2>1 DEF KeysHold
<1>4. mem.net \in Networks
  BY DEF KeysHold, Typed, MemRecords
<1>5. CASE NetsAgree
  BY <1>3, <1>4, <1>5 DEF NetsAgree
<1>6. CASE ~NetsAgree
  <2>1. call[c].op = "createAccount"
    BY <1>1, <1>6 DEF KeysHold, Running
  <2>2. \A d \in Calls : call[d].op \notin Restoring /\ call[d].op \notin Switching
    BY <1>6, <2>1 DEF KeysHold, KeysApart, Running
  <2>3. ~Some({"decrypt", "rekeyed", "backKeyed"})
    BY <2>2 DEF Some, Typed, Placed
  <2>4. QED
    BY <1>3, <1>4, <2>3 DEF KeysHold
<1>7. QED
  BY <1>5, <1>6

\* Reading the accounts is calm, and so is adding one.
LEMMA ReadersAreCalm ==
  ASSUME Typed, Shapes, KeysHold, NEW c \in Calls,
         \/ Read(c) \/ Assign(c) \/ Point(c) \/ Added(c) \/ Again(c)
         \/ CreateDefault(c) \/ DeriveNext(c) \/ Keep(c) \/ BackedUp(c)
  PROVE  Calm(c)
<1>0. Placed(call[c]) /\ Filled(call[c]) /\ CallKeys(call[c])
  BY DEF Typed, KeysHold
<1>1. Of(accounts, vault) /\ Of(mem.list, vault)
  BY DEF KeysHold
<1>2. call[c].pc \in Reading \cup {"reread", "again", "default", "derive", "keep"} =>
        call[c].op \in Selecting /\ vault # None
  BY <1>0, VaultIsThere DEF Placed
<1> USE DEF Calm, KeysMem
<1>3. CASE Read(c)
  BY <1>1, <1>2, <1>3, ReadIs DEF KeepsStored, Comes, KeepsArg
<1>4. CASE Assign(c)
  <2>0. call[c].pc = "assign"
    BY <1>4, AssignIs
  <2>1. Of(call[c].list, vault) /\ call[c].list \in Seq(AccountRecords)
    BY <1>0, <2>0 DEF CallKeys, Filled
  <2>2. Of(Deduped(call[c].list), vault)
    <3>1. \A i \in DOMAIN Deduped(call[c].list) : \E j \in DOMAIN call[c].list : Deduped(call[c].list)[i] = call[c].list[j]
      BY <2>1, DedupedIs
    <3>2. QED
      BY <2>1, <3>1, OfKept
  <2>3. CASE Deduped(call[c].list) = call[c].list
    <3>1. Arrives(c) /\ MemIs(mem.key, mem.net, call[c].list, call[c].index) /\ accounts' = accounts
      BY <1>4, <2>3, AssignIs
    <3>2. QED
      BY <1>1, <1>2, <1>4, <2>0, <2>1, <3>1, AssignIs, ArrivesCalmly DEF MemIs
  <2>4. CASE Deduped(call[c].list) # call[c].list
    BY <1>2, <1>4, <2>0, <2>2, <2>4, AssignIs DEF MemIs, Comes, KeepsArg
  <2>5. QED
    BY <2>3, <2>4
<1>5. CASE Point(c)
  BY <1>1, <1>2, <1>5, PointIs, ArrivesCalmly DEF MemIs, KeepsStored
<1>6. CASE Added(c)
  BY <1>1, <1>2, <1>6, AddedIs DEF MemIs, PrefsAre, KeepsStored, Comes, KeepsArg
<1>7. CASE Again(c)
  BY <1>1, <1>2, <1>7, AgainIs DEF KeepsStored, Comes, KeepsArg
<1>8. ASSUME NEW index, NEW then, call[c].pc \in {"default", "derive"}, mem.key # None,
             Pushes(c, Derive(mem.key, mem.net, index), then), vault' = vault, prefs' = prefs
      PROVE  Calm(c)
  <2> DEFINE a == Derive(mem.key, mem.net, index)
  <2>1. a.seed = vault /\ a.xpub = a.net
    BY <1>8, KeyIsOfVault, DerivesOfVault
  <2>2. mem.list \in Seq(AccountRecords)
    BY DEF Typed, MemRecords
  <2>3. Pushes(c, a, then)
    BY <1>8
  <2> HIDE DEF a
  <2>4. Of(Append(mem.list, a), vault)
    BY <1>1, <2>1, <2>2, OfAppended
  <2>5. QED
    BY <1>2, <1>8, <2>3, <2>4 DEF Pushes, MemIs, Comes, KeepsArg
<1>9. CASE CreateDefault(c)
  BY <1>1, <1>2, <1>8, <1>9, CreateDefaultIs, ArrivesCalmly
<1>10. CASE DeriveNext(c)
  BY <1>1, <1>2, <1>8, <1>10, DeriveNextIs, ArrivesCalmly
<1>11. CASE Keep(c)
  BY <1>1, <1>2, <1>11, KeepIs, ArrivesCalmly DEF Comes, KeepsArg
<1>12. CASE BackedUp(c)
  BY <1>1, <1>12, BackedUpIs, ArrivesCalmly DEF KeepsStored
<1>13. QED
  BY <1>3, <1>4, <1>5, <1>6, <1>7, <1>9, <1>10, <1>11, <1>12

\* The password, the connection and the end of a logout are calm; so are the steps of a
\* restore or a switch that find no vault.
LEMMA OthersAreCalm ==
  ASSUME Typed, Shapes, KeysHold, NEW c \in Calls,
         \/ Verified(c) \/ Unlocked(c) \/ Failed(c) \/ Counted(c) \/ ForgetPassword(c)
         \/ Switch(c) \/ Dial(c) \/ Connect(c) \/ Redial(c)
         \/ (Restore(c) \/ Rekey(c) \/ Back(c)) /\ mem.vault = None
  PROVE  Calm(c)
<1>0. Placed(call[c])
  BY DEF Typed
<1>1. Of(accounts, vault) /\ Of(mem.list, vault)
  BY DEF KeysHold
<1> USE DEF Calm, KeysMem
<1>2. CASE Verified(c) \/ Unlocked(c) \/ Failed(c) \/ Counted(c)
  <2>1. /\ call[c].pc \in {"verify", "session", "count"}
        /\ Comes(c, "session") \/ Comes(c, "count") \/ Comes(c, "password") \/ Ends(c)
        /\ KeepsArg(c) \/ Ends(c)
        /\ vault' = vault /\ accounts' = accounts /\ mem' = mem /\ prefs' = prefs
    BY <1>2, PasswordIs
  <2>2. QED
    BY <1>1, <2>1 DEF Comes, Ends, KeepsArg, Idle
<1>3. CASE ForgetPassword(c)
  BY <1>1, <1>3, ForgetPasswordIs, ArrivesCalmly
<1>4. CASE Switch(c)
  BY <1>0, <1>1, <1>4, SwitchIs DEF Placed, PrefsAre, KeepsStored, Comes, KeepsArg
<1>5. CASE Dial(c)
  BY <1>0, <1>1, <1>5, DialIs DEF Placed, RollsBack, KeepsStored, Comes, KeepsArg
<1>6. CASE Connect(c)
  BY <1>0, <1>1, <1>6, ConnectIs, ArrivesCalmly DEF Placed, RollsBack, KeepsStored, Comes, KeepsArg
<1>7. CASE Redial(c)
  BY <1>1, <1>7, RedialIs, ArrivesCalmly DEF KeepsStored
<1>8. CASE Restore(c) /\ mem.vault = None
  BY <1>1, <1>8, RestoreIs, ArrivesCalmly DEF KeepsStored
<1>9. CASE Rekey(c) /\ mem.vault = None
  BY <1>0, <1>1, <1>9, RekeyIs DEF Placed, RollsBack, KeepsStored, Comes, KeepsArg
<1>10. CASE Back(c) /\ mem.vault = None
  BY <1>1, <1>10, BackIs DEF KeepsStored, Comes, KeepsArg
<1>11. QED
  BY <1>2, <1>3, <1>4, <1>5, <1>6, <1>7, <1>8, <1>9, <1>10

\* A call beside one that selects keeps what it knows, while the vault stays.
LEMMA BesideSelecting ==
  ASSUME Typed, KeysHold, NEW c \in Calls, NEW d \in Calls, c # d, call'[d] = call[d], call[c].op \in Selecting,
         vault' = vault, mem'.vault = mem.vault, mem'.net # None
  PROVE  CallKeys(call[d])'
<1>1. CallKeys(call[d]) /\ call[d].op # "logout" /\ Placed(call[d])
  BY DEF KeysHold, KeysApart, Typed
<1>2. QED
  BY <1>1 DEF CallKeys, Placed

\* A restore or a switch moves the wallet to a network.
LEMMA MovingNet ==
  ASSUME Typed, Shapes, KeysHold, NEW c \in Calls, CallMoves(c), NEW net \in Networks,
         call[c].pc \in {"password", "rekey", "back"}, MemIs(mem.key, net, mem.list, mem.active),
         vault' = vault, accounts' = accounts,
         call'[c].pc \in {"decrypt", "rekeyed", "backKeyed"}, call'[c].op = call[c].op, call'[c].arg = mem.vault,
         (net = prefs.net /\ prefs' = prefs) \/ call[c].op \in Switching
  PROVE  KeysHold'
<1> USE DEF MemIs, CallMoves
<1>0. Placed(call[c])
  BY DEF Typed
<1>1. call[c].op \in Selecting /\ call[c].pc # "encrypt"
  BY <1>0 DEF Placed
<1>2. mem.vault = vault /\ vault # None /\ net # None
  BY <1>1, VaultIsThere, ValuesAssumption DEF Networks
<1>3. KeysApart'
  BY MovesApart
<1>4. mem'.key # None => \/ mem'.key.seed = mem'.vault
                         \/ \E d \in Calls : call'[d].pc = "encrypt" /\ call'[d].arg = mem'.key.seed
  BY <1>1 DEF KeysHold
<1>5. Some({"decrypt", "rekeyed", "backKeyed"})'
  BY DEF Some
<1>6. Running(Making)' \/ (Running({"createAccount"})' /\ Running(Restoring)') => NetsAgree'
  BY MovesApart DEF NetsAgree
<1>7. \A d \in Calls : CallKeys(call[d])'
  <2>1. CallKeys(call[c])'
    BY <1>1, <1>2, <1>0 DEF CallKeys, Placed
  <2>2. \A d \in Calls \ {c} : CallKeys(call[d])'
    BY <1>1, <1>2, BesideSelecting
  <2>3. QED
    BY <2>1, <2>2
<1>8. Of(accounts', vault') /\ Of(mem'.list, vault')
  BY DEF KeysHold
<1>9. QED
  BY <1>2, <1>3, <1>4, <1>5, <1>6, <1>7, <1>8 DEF KeysHold

\* The key of the vault, for the wallet's network.
LEMMA KeyOf ==
  ASSUME Typed, KeysHold, NEW c \in Calls, call[c].pc \in {"decrypt", "rekeyed", "backKeyed"}
  PROVE  /\ Key(call[c].arg).seed = vault /\ Key(call[c].arg).net = mem.net
         /\ mem.net \in Networks /\ mem.vault = vault /\ vault # None /\ call[c].op \in Selecting
<1>0. Placed(call[c]) /\ CallKeys(call[c])
  BY DEF Typed, KeysHold
<1>1. call[c].op \in Selecting /\ call[c].pc # "encrypt"
  BY <1>0 DEF Placed
<1>2. mem.vault = vault /\ vault # None
  BY <1>1, VaultIsThere
<1>3. call[c].arg = mem.vault /\ mem.net # None
  BY <1>0 DEF CallKeys
<1>4. mem.net \in Networks
  BY <1>3 DEF Typed, MemRecords
<1>6. QED
  BY <1>1, <1>2, <1>3, <1>4 DEF Key

\* A restore or a switch sets the key, and may make the first account.
LEMMA SettingKey ==
  ASSUME Typed, Shapes, KeysHold, NEW c \in Calls, CallMoves(c), call[c].pc \in {"decrypt", "rekeyed", "backKeyed"},
         NEW list, MemIs(Key(call[c].arg), mem.net, list, mem.active), vault' = vault,
         accounts' \in {accounts, list}, Of(list, vault), prefs'.net = prefs.net,
         call'[c].pc \in {"read", "added", "dial"}, call'[c].op = call[c].op, call'[c].arg = call[c].arg
  PROVE  KeysHold'
<1> USE DEF MemIs, CallMoves
<1>0. Placed(call[c])
  BY DEF Typed
<1>1. /\ Key(call[c].arg).seed = vault /\ Key(call[c].arg).net = mem.net
      /\ mem.net \in Networks /\ mem.vault = vault /\ vault # None /\ call[c].op \in Selecting
  BY KeyOf
<1>2. mem.net # None
  BY <1>1, ValuesAssumption DEF Networks
<1>3. KeysApart'
  BY MovesApart
<1>6. Running(Making)' \/ (Running({"createAccount"})' /\ Running(Restoring)') => NetsAgree'
  <2> SUFFICES ASSUME Running(Making)' \/ (Running({"createAccount"})' /\ Running(Restoring)') PROVE NetsAgree'
    OBVIOUS
  <2>1. NetsAgree /\ call[c].op \notin Switching
    BY MovesApart
  <2>2. call[c].pc = "decrypt"
    BY <1>0, <2>1 DEF Placed
  <2>3. mem.net = prefs.net
    BY <2>1, <2>2 DEF NetsAgree, Some
  <2>4. QED
    BY <1>1, <2>3 DEF NetsAgree
<1>7. \A d \in Calls : CallKeys(call[d])'
  <2>1. CallKeys(call[c])'
    <3>1. CallKeys(call[c]) /\ call[c].op \notin Making
      BY <1>0 DEF KeysHold, Placed
    <3>2. QED
      BY <1>1, <3>1 DEF CallKeys
  <2>2. \A d \in Calls \ {c} : CallKeys(call[d])'
    BY <1>1, <1>2, BesideSelecting
  <2>3. QED
    BY <2>1, <2>2
<1>8. Of(accounts', vault') /\ Of(mem'.list, vault')
  BY DEF KeysHold
<1>9. mem'.vault = vault' /\ vault' # None /\ mem'.key.seed = mem'.vault /\ mem'.net # None /\ mem'.key.net = mem'.net
  BY <1>1, <1>2
<1>10. QED
  BY <1>3, <1>6, <1>7, <1>8, <1>9 DEF KeysHold

\* ensureDefaultAccount() sets the key, and makes an account of it.
LEMMA DefaultsKeep ==
  ASSUME Typed, Shapes, KeysHold, NEW c \in Calls, CallMoves(c), call[c].pc \in {"decrypt", "rekeyed"},
         NEW then, Defaults(c, Key(call[c].arg), then), vault' = vault
  PROVE  KeysHold'
<1>1. Of(mem.list, vault) /\ mem.list \in Seq(AccountRecords)
  BY DEF KeysHold, Typed, MemRecords
<1> DEFINE a == Derive(Key(call[c].arg), mem.net, 0)
<1>2. a.seed = vault /\ a.xpub = a.net
  BY KeyOf, DerivesOfVault
<1>3. Of(Append(mem.list, a), vault)
  <2> HIDE DEF a
  <2>1. QED
    BY <1>1, <1>2, OfAppended
<1>4. \E list : /\ MemIs(Key(call[c].arg), mem.net, list, mem.active) /\ accounts' \in {accounts, list} /\ Of(list, vault)
                /\ prefs'.net = prefs.net /\ call'[c].pc \in {"read", "added"}
                /\ call'[c].op = call[c].op /\ call'[c].arg = call[c].arg
  <2>1. CASE accounts' = accounts /\ MemIs(Key(call[c].arg), mem.net, mem.list, mem.active) /\ prefs'.net = prefs.net
    BY <1>1, <2>1 DEF Defaults, Comes, KeepsArg
  <2>2. CASE accounts' = Append(mem.list, a) /\ MemIs(Key(call[c].arg), mem.net, Append(mem.list, a), mem.active)
             /\ prefs' = prefs
    <3> HIDE DEF a
    <3>1. QED
      BY <1>3, <2>2 DEF Defaults, Comes, KeepsArg
  <2>3. QED
    BY <2>1, <2>2 DEF Defaults, PrefsAre
<1>5. QED
  BY <1>4, SettingKey

\* A creation writes the vault that its key is of.
LEMMA EncryptedKeeps ==
  ASSUME Typed, Shapes, KeysHold, NEW c \in Calls, CallMoves(c), Encrypted(c)
  PROVE  KeysHold'
<1> USE DEF CallMoves
<1>1. /\ call[c].pc = "encrypt" /\ Comes(c, "default") /\ KeepsArg(c)
      /\ vault' = call[c].arg /\ mem'.vault = call[c].arg
      /\ mem'.key = mem.key /\ mem'.net = mem.net /\ mem'.list = mem.list /\ mem'.active = mem.active
      /\ accounts' = accounts /\ prefs' = prefs
  BY EncryptedIs
<1>2. Placed(call[c]) /\ CallKeys(call[c]) /\ call[c].arg \in Seeds
  BY <1>1 DEF Typed, KeysHold, Filled
<1>3. call[c].op \in Making /\ vault = None /\ accounts = <<>> /\ mem.list = <<>>
  BY <1>1, <1>2 DEF Placed, CallKeys, KeysHold
<1>4. vault' # None
  BY <1>1, <1>2, ValuesAssumption DEF Seeds
<1>5. ASSUME NEW d \in Calls, d # c PROVE call[d].op \notin Selecting /\ call[d].op # "logout" /\ call[d].pc # "encrypt"
  <2>1. call[d].op \notin Making /\ call[d].op # "logout" /\ CallKeys(call[d]) /\ Placed(call[d])
    BY <1>3, <1>5 DEF KeysHold, KeysApart, Typed
  <2>2. QED
    BY <1>3, <2>1 DEF CallKeys, Placed
<1>6. mem.vault = None
  <2>1. ~Some({"preferences"})
    BY <1>1, <1>5 DEF Some, Typed, Placed
  <2>2. QED
    BY <1>3, <2>1 DEF KeysHold
<1>7. mem'.key # None => mem'.key.seed = mem'.vault
  <2> SUFFICES ASSUME mem.key # None PROVE mem.key.seed = call[c].arg
    BY <1>1
  <2>1. mem.key.seed # None
    BY ValuesAssumption DEF Typed, MemRecords, KeyRecords, Seeds
  <2>2. QED
    BY <1>5, <1>6, <2>1 DEF KeysHold
<1>8. KeysApart'
  BY MovesApart
<1>9. \A d \in Calls : CallKeys(call[d])'
  <2>1. CallKeys(call[c])'
    BY <1>1, <1>2, <1>3, <1>4 DEF CallKeys, Comes, KeepsArg
  <2>2. ASSUME NEW d \in Calls \ {c} PROVE CallKeys(call[d])'
    <3>1. call'[d] = call[d] /\ Placed(call[d]) /\ call[d].op \notin Selecting /\ call[d].op # "logout"
      BY <1>5 DEF Typed
    <3>2. QED
      BY <3>1 DEF CallKeys, Placed
  <2>3. QED
    BY <2>1, <2>2
<1>10. Running(Making)' \/ (Running({"createAccount"})' /\ Running(Restoring)') => NetsAgree'
  <2>1. Some({"decrypt"})' => Some({"decrypt"})
    BY <1>1 DEF Some, Comes
  <2>2. QED
    BY <1>1, <2>1, MovesApart DEF NetsAgree
<1>11. mem'.key # None => mem'.net # None /\ (mem'.key.net = mem'.net \/ Some({"decrypt", "rekeyed", "backKeyed"})')
  BY <1>1 DEF KeysHold, Some
<1>12. Of(accounts', vault') /\ Of(mem'.list, vault')
  BY <1>1, <1>3 DEF Of
<1>13. QED
  BY <1>1, <1>4, <1>7, <1>8, <1>9, <1>10, <1>11, <1>12 DEF KeysHold

\* A logout runs beside none that selects.
LEMMA LogoutAlone ==
  ASSUME Typed, KeysHold, NEW c \in Calls, call[c].op = "logout", CallMoves(c), call'[c].op = "logout"
  PROVE  \A d \in Calls : /\ call[d].op \notin Selecting
                          /\ call[d].pc \notin {"encrypt", "decrypt", "rekeyed", "backKeyed", "assign"}
                          /\ call'[d].op \notin Selecting
                          /\ call[d].pc = "preferences" /\ d # c => call'[d].pc = "preferences"
<1>1. ASSUME NEW d \in Calls
      PROVE  call[d].op \notin Selecting /\ call[d].pc \notin {"encrypt", "decrypt", "rekeyed", "backKeyed", "assign"}
  <2>1. call[d].op \notin Selecting
    BY DEF KeysHold, KeysApart
  <2>2. QED
    BY <2>1 DEF Typed, Placed
<1>2. QED
  BY <1>1 DEF CallMoves

\* A logout's first three steps.
LEMMA LogoutKeeps ==
  ASSUME Typed, Shapes, KeysHold, NEW c \in Calls, CallMoves(c),
         DestroyAccounts(c) \/ DestroyVault(c) \/ ResetPreferences(c)
  PROVE  KeysHold'
<1> USE DEF CallMoves
<1>1. /\ call[c].op = "logout" /\ call'[c].op = "logout"
      /\ call[c].pc \in {"accounts", "vault", "preferences"} /\ call'[c].pc \in {"vault", "preferences", "forget"}
  BY DestroyAccountsIs, DestroyVaultIs, ResetPreferencesIs DEF Comes
<1>2. \A d \in Calls : /\ call[d].op \notin Selecting /\ call'[d].op \notin Selecting
                       /\ call[d].pc \notin {"encrypt", "decrypt", "rekeyed", "backKeyed", "assign"}
                       /\ call'[d].pc \notin {"encrypt", "decrypt", "rekeyed", "backKeyed", "assign"}
                       /\ call[d].pc = "preferences" /\ d # c => call'[d].pc = "preferences"
  BY <1>1, LogoutAlone
<1>3. KeysApart' /\ ~Running(Making)' /\ ~Running(Restoring)'
  BY <1>2, MovesApart DEF Running
<1>4. CallKeys(call[c])
  BY DEF KeysHold
<1>5. /\ accounts' = <<>> /\ mem'.list = <<>> /\ mem'.active = 0
      /\ \/ DestroyAccounts(c) /\ vault' = vault /\ mem'.vault = mem.vault /\ mem'.key = mem.key /\ mem'.net = mem.net
            /\ call'[c].pc = "vault"
         \/ vault' = None /\ mem' = mem /\ call'[c].pc = "preferences"
         \/ vault' = None /\ vault = None /\ mem'.vault = None /\ mem'.key = None /\ call'[c].pc = "forget"
  <2>1. CASE DestroyAccounts(c)
    BY <2>1, DestroyAccountsIs DEF MemIs, Comes
  <2>2. CASE DestroyVault(c)
    BY <1>4, <2>2, DestroyVaultIs DEF CallKeys, Comes
  <2>3. CASE ResetPreferences(c)
    BY <1>4, <2>3, ResetPreferencesIs DEF CallKeys, Comes, KeepsStored
  <2>4. QED
    BY <2>1, <2>2, <2>3
<1>6. mem'.vault # vault' => vault' = None /\ Some({"preferences"})'
  <2>1. CASE DestroyAccounts(c)
    BY <1>1, <1>2, <2>1, DestroyAccountsIs DEF KeysHold, Some, MemIs, Comes
  <2>2. CASE ~DestroyAccounts(c)
    BY <1>5, <2>2 DEF Some
  <2>3. QED
    BY <2>1, <2>2
<1>7. mem'.key # None => mem'.key.seed = mem'.vault
  BY <1>2, <1>5 DEF KeysHold
<1>8. mem'.key # None => mem'.net # None /\ mem'.key.net = mem'.net
  BY <1>2, <1>5 DEF KeysHold, Some
<1>9. \A d \in Calls : CallKeys(call[d])'
  <2>1. CallKeys(call[c])'
    BY <1>1, <1>2, <1>5 DEF CallKeys
  <2>2. ASSUME NEW d \in Calls \ {c} PROVE CallKeys(call[d])'
    <3>1. CallKeys(call[d]) /\ call'[d] = call[d]
      BY DEF KeysHold
    <3>2. QED
      BY <1>2, <1>5, <3>1 DEF CallKeys
  <2>3. QED
    BY <2>1, <2>2
<1>10. Of(accounts', vault') /\ Of(mem'.list, vault')
  BY <1>5 DEF Of
<1>11. QED
  BY <1>3, <1>5, <1>6, <1>7, <1>8, <1>9, <1>10 DEF KeysHold

\* A step of a call keeps the keys and the accounts of the vault.
LEMMA StepKeys ==
  ASSUME Typed, Shapes, KeysHold, NEW c \in Calls, Step(c)
  PROVE  KeysHold'
<1>1. CallMoves(c)
  BY StepMoves
<1>2. CASE Calm(c)
  BY <1>1, <1>2, CalmKeys
<1>3. CASE Restore(c) /\ mem.vault # None
  <2>1. /\ call[c].pc = "password" /\ MemIs(mem.key, prefs.net, mem.list, mem.active)
        /\ Comes(c, "decrypt") /\ call'[c].arg = mem.vault /\ KeepsStored /\ prefs' = prefs
    BY <1>3, RestoreIs
  <2>2. prefs.net \in Networks
    BY DEF Typed, PrefRecords
  <2>3. QED
    BY <1>1, <2>1, <2>2, MovingNet DEF Comes, KeepsStored
<1>4. CASE Rekey(c) /\ mem.vault # None
  <2>1. /\ call[c].pc = "rekey" /\ MemIs(mem.key, call[c].arg, mem.list, mem.active)
        /\ Comes(c, "rekeyed") /\ call'[c].arg = mem.vault /\ KeepsStored
    BY <1>4, RekeyIs
  <2>2. call[c].arg \in Networks /\ call[c].op \in Switching
    BY <2>1 DEF Typed, Filled, Placed
  <2>3. QED
    BY <1>1, <2>1, <2>2, MovingNet DEF Comes, KeepsStored
<1>5. CASE Back(c) /\ mem.vault # None
  <2>1. /\ call[c].pc = "back" /\ MemIs(mem.key, call[c].prev.net, mem.list, mem.active)
        /\ Comes(c, "backKeyed") /\ call'[c].arg = mem.vault /\ KeepsStored
    BY <1>5, BackIs
  <2>2. call[c].prev.net \in Networks /\ call[c].op \in Switching
    BY <2>1 DEF Typed, Filled, Placed, PrefRecords
  <2>3. QED
    BY <1>1, <2>1, <2>2, MovingNet DEF Comes, KeepsStored
<1>6. CASE Decrypted(c)
  BY <1>1, <1>6, DecryptedIs, DefaultsKeep
<1>7. CASE Rekeyed(c)
  <2>1. CASE call[c].op = "switchNetwork"
    BY <1>1, <1>7, <2>1, RekeyedIs, DefaultsKeep
  <2>2. CASE call[c].op # "switchNetwork"
    <3>1. /\ call[c].pc = "rekeyed" /\ MemIs(Key(call[c].arg), mem.net, mem.list, mem.active)
          /\ Comes(c, "dial") /\ KeepsArg(c) /\ accounts' = accounts /\ prefs' = prefs /\ vault' = vault
      BY <1>7, <2>2, RekeyedIs
    <3>2. Of(mem.list, vault)
      BY DEF KeysHold
    <3>3. QED
      BY <1>1, <3>1, <3>2, SettingKey DEF Comes, KeepsArg
  <2>3. QED
    BY <2>1, <2>2
<1>8. CASE BackKeyed(c)
  <2>1. /\ call[c].pc = "backKeyed" /\ MemIs(Key(call[c].arg), mem.net, mem.list, mem.active)
        /\ Comes(c, "read") /\ KeepsArg(c) /\ KeepsStored /\ prefs' = prefs
    BY <1>8, BackKeyedIs
  <2>2. Of(mem.list, vault)
    BY DEF KeysHold
  <2>3. QED
    BY <1>1, <2>1, <2>2, SettingKey DEF Comes, KeepsArg, KeepsStored
<1>9. CASE Encrypted(c)
  BY <1>1, <1>9, EncryptedKeeps
<1>10. CASE DestroyAccounts(c) \/ DestroyVault(c) \/ ResetPreferences(c)
  BY <1>1, <1>10, LogoutKeeps
<1>11. QED
  BY <1>2, <1>3, <1>4, <1>5, <1>6, <1>7, <1>8, <1>9, <1>10, ReadersAreCalm, OthersAreCalm DEF Step

-----------------------------------------------------------------------------

\* The calls that a call begins beside.
LEMMA BeginsApart ==
  ASSUME Shapes, NEW c \in Calls, NEW k, Starts(c, k)
  PROVE  /\ call[c].op = "none" /\ call[c].pc = "idle" /\ call'[c] = k /\ \A d \in Calls \ {c} : call'[d] = call[d]
         /\ \A kind : kind \notin seen'.clash => kind \notin seen.clash /\ kind \notin Overlaps(k.op)
BY StartIs DEF Shapes, CallOK

\* A call that begins undisturbed is apart from those that run.
LEMMA BeginsKeysApart ==
  ASSUME Shapes, NEW c \in Calls, NEW k, Starts(c, k), KeysApart, "keys" \notin seen'.clash
  PROVE  KeysApart'
<1>1. /\ call'[c] = k /\ \A d \in Calls \ {c} : call'[d] = call[d]
      /\ "keys" \notin Overlaps(k.op)
  BY BeginsApart
<1>2. \A d \in Calls :
              /\ ~(k.op \in Making /\ call[d].op \in Making)
              /\ ~(k.op = "logout" /\ call[d].op \in Selecting) /\ ~(k.op \in Selecting /\ call[d].op = "logout")
              /\ ~(k.op \in Switching /\ call[d].op \in Making \cup {"createAccount"})
              /\ ~(k.op \in Making \cup {"createAccount"} /\ call[d].op \in Switching)
  BY <1>1, ApartFrom
<1>3. QED
  BY <1>1, <1>2 DEF KeysApart

\* What a call that begins, other than a creation, holds and what it found.
LEMMA BeginsWith ==
  ASSUME Typed, NEW c \in Calls, NEW k, Starts(c, k), k.op \notin Making
  PROVE  /\ k.pc \in {"password", "reread", "backup", "accounts", "switch", "verify"}
         /\ k.op \in Restoring => mem.vault # None
         /\ k.op \in {"createAccount", "switchNetwork"} => vault # None
         /\ k.op \in Switching \cup {"restore", "createAccount"} => session
         /\ k.op = "switchAccount" => \E i \in 1..Len(mem.list) : k.index = i /\ k.arg = mem.list[i].net
         /\ k.op = "backup" => k.arg = mem.vault /\ mem.vault # None
<1> USE DEF Started, Idle
<1>1. CASE StartRestore(c) /\ k = Started("restore", "password")
  BY <1>1 DEF StartRestore
<1>2. CASE StartCreateAccount(c) /\ k = [Started("createAccount", "reread") EXCEPT !.then = "derive"]
  BY <1>2 DEF StartCreateAccount
<1>3. CASE StartBackup(c) /\ k = [Started("backup", "backup") EXCEPT !.arg = mem.vault]
  BY <1>3 DEF StartBackup
<1>4. CASE StartLogout(c) /\ k = Started("logout", "accounts")
  BY <1>4
<1>5. ASSUME NEW net \in Networks, StartSwitchNetwork(c, net), k = [Started("switchNetwork", "switch") EXCEPT !.arg = net]
      PROVE  k.pc = "switch" /\ k.op = "switchNetwork" /\ vault # None /\ session
  BY <1>5 DEF StartSwitchNetwork
<1>6. ASSUME NEW i \in 1..Len(mem.list), StartSwitchAccount(c, i),
             k = [Started("switchAccount", "switch") EXCEPT !.index = i, !.arg = mem.list[i].net]
      PROVE  k.pc = "switch" /\ k.op = "switchAccount" /\ k.index = i /\ k.arg = mem.list[i].net /\ session
  BY <1>6 DEF StartSwitchAccount
<1>7. ASSUME NEW op \in {"unlock", "guess"}, StartVerify(c, op), k = Started(op, "verify")
      PROVE  k.pc = "verify" /\ k.op = op /\ mem.vault # None
  BY <1>7 DEF StartVerify
<1>8. CASE \E seed \in 1..MaxSeeds, op \in Making :
        StartCreate(c, seed, op) /\ k = [Started(op, "encrypt") EXCEPT !.arg = seed]
  <2>1. k.op \in Making
    BY <1>8
  <2>2. QED
    BY <2>1
<1> HIDE DEF Started, Idle
<1>9. QED
  BY <1>1, <1>2, <1>3, <1>4, <1>5, <1>6, <1>7, <1>8 DEF Starts

\* What a creation begins with.
LEMMA BeginsMaking ==
  ASSUME Typed, NEW c \in Calls, NEW k, Starts(c, k), k.op \in Making
  PROVE  /\ k.pc = "encrypt" /\ mem.vault = None
         /\ mem'.vault = mem.vault /\ mem'.list = mem.list /\ mem'.active = mem.active
         /\ mem'.net = prefs.net /\ mem'.key.net = prefs.net /\ mem'.key.seed = k.arg
         /\ mem'.key # None /\ session' = TRUE
<1>1. PICK seed \in 1..MaxSeeds, op \in Making :
         StartCreate(c, seed, op) /\ k = [Started(op, "encrypt") EXCEPT !.arg = seed]
  BY DEF Starts, Started, Idle
<1>2. k.pc = "encrypt" /\ k.arg = seed
  BY <1>1 DEF Started, Idle
<1>3. mem' = [mem EXCEPT !.net = prefs.net, !.key = [seed |-> seed, net |-> prefs.net]] /\ mem.vault = None /\ session' = TRUE
  BY <1>1 DEF StartCreate
<1>4. [seed |-> seed, net |-> prefs.net] # None
  BY ValuesAssumption DEF Typed, PrefRecords, Networks
<1>5. QED
  BY <1>2, <1>3, <1>4 DEF Typed, MemRecords

\* A creation finds no vault, no account, and nothing that selects.
LEMMA MakingStarts ==
  ASSUME Typed, Shapes, KeysHold, NEW c \in Calls, NEW k, Starts(c, k), k.op \in Making, "keys" \notin seen'.clash
  PROVE  KeysHold'
<1>1. /\ call[c].op = "none" /\ call'[c] = k /\ \A d \in Calls \ {c} : call'[d] = call[d]
      /\ "keys" \notin Overlaps(k.op)
  BY BeginsApart
<1>2. /\ k.pc = "encrypt" /\ mem.vault = None
      /\ mem'.vault = mem.vault /\ mem'.list = mem.list /\ mem'.active = mem.active
      /\ mem'.net = prefs.net /\ mem'.key.net = prefs.net /\ mem'.key.seed = k.arg
  BY BeginsMaking
<1>3. vault' = vault /\ accounts' = accounts /\ prefs' = prefs
  BY StartIs
<1>4. vault = None
  BY <1>2 DEF KeysHold
<1>5. ASSUME NEW d \in Calls PROVE call[d].op \notin Selecting \cup {"logout"}
  <2>1. call[d].op \notin Making \cup {"logout"} /\ CallKeys(call[d]) /\ Placed(call[d])
    BY <1>1, ApartFrom DEF KeysHold, Typed
  <2>2. QED
    BY <1>4, <2>1 DEF CallKeys, Placed
<1>6. KeysApart'
  BY BeginsKeysApart DEF KeysHold
<1>7. mem'.net # None
  BY <1>2, ValuesAssumption DEF Typed, PrefRecords, Networks
<1>8. \E d \in Calls : call'[d].pc = "encrypt" /\ call'[d].arg = mem'.key.seed
  BY <1>1, <1>2
<1>9. \A d \in Calls : CallKeys(call[d])'
  <2>1. CallKeys(call[c])'
    BY <1>1, <1>2, <1>3, <1>4 DEF CallKeys
  <2>2. ASSUME NEW d \in Calls \ {c} PROVE CallKeys(call[d])'
    <3>1. call'[d] = call[d] /\ Placed(call[d]) /\ call[d].op \notin Selecting \cup {"logout"}
      BY <1>1, <1>5 DEF Typed
    <3>2. QED
      BY <3>1 DEF CallKeys, Placed
  <2>3. QED
    BY <2>1, <2>2
<1>10. NetsAgree'
  <2>1. ~Some({"decrypt"})'
    <3>1. \A d \in Calls : call[d].pc # "decrypt"
      BY <1>5 DEF Typed, Placed
    <3>2. QED
      BY <1>1, <1>2, <3>1 DEF Some
  <2>2. QED
    BY <1>2, <1>3, <2>1 DEF NetsAgree
<1>11. /\ accounts' = <<>> /\ mem'.list = <<>> /\ mem'.vault = vault'
       /\ Of(accounts', vault') /\ Of(mem'.list, vault')
  BY <1>2, <1>3, <1>4 DEF KeysHold, Of
<1>12. QED
  BY <1>2, <1>3, <1>6, <1>7, <1>8, <1>9, <1>10, <1>11 DEF KeysHold

\* Any other call begins with a vault that is there, and with the networks in agreement
\* if it makes an account while another sets the key, or the other way around.
LEMMA OtherStarts ==
  ASSUME Typed, Shapes, KeysHold, NetsFollow, NEW c \in Calls, NEW k, Starts(c, k), k.op \notin Making,
         "keys" \notin seen'.clash
  PROVE  KeysHold'
<1>1. /\ call[c].op = "none" /\ call'[c] = k /\ \A d \in Calls \ {c} : call'[d] = call[d]
      /\ "keys" \notin Overlaps(k.op) /\ "keys" \notin seen.clash
  BY BeginsApart
<1>2. /\ k.pc \in {"password", "reread", "backup", "accounts", "switch", "verify"}
      /\ k.op \in Restoring => mem.vault # None
      /\ k.op \in {"createAccount", "switchNetwork"} => vault # None
      /\ k.op = "switchAccount" => \E i \in 1..Len(mem.list) : k.index = i /\ k.arg = mem.list[i].net
  BY BeginsWith
<1>3. vault' = vault /\ accounts' = accounts /\ prefs' = prefs /\ mem' = mem
  BY StartIs
<1>4. k.op \in Selecting => vault # None
  <2>1. CASE k.op \in Restoring
    <3>1. ~Some({"preferences"})
      BY <1>1, <2>1, ApartFrom DEF Some, Typed, Placed
    <3>2. QED
      BY <1>2, <2>1, <3>1 DEF KeysHold
  <2>2. CASE k.op = "switchAccount"
    BY <1>2, <2>2 DEF KeysHold
  <2>3. QED
    BY <1>2, <2>1, <2>2
<1>5. \A d \in Calls : CallKeys(call[d])'
  <2>1. CallKeys(call[c])'
    BY <1>1, <1>2, <1>3, <1>4 DEF CallKeys
  <2>2. ASSUME NEW d \in Calls \ {c} PROVE CallKeys(call[d])'
    BY <1>1, <1>3 DEF KeysHold, CallKeys
  <2>3. QED
    BY <2>1, <2>2
<1>6. KeysApart'
  BY BeginsKeysApart DEF KeysHold
<1>7. \A pc : call[c].pc # pc \/ pc = "idle"
  BY BeginsApart
<1>8. ASSUME NEW pcs, "idle" \notin pcs, k.pc \notin pcs PROVE Some(pcs)' <=> Some(pcs)
  BY <1>1, <1>7, <1>8 DEF Some
<1>9. /\ Some({"preferences"})' <=> Some({"preferences"})
      /\ Some({"decrypt", "rekeyed", "backKeyed"})' <=> Some({"decrypt", "rekeyed", "backKeyed"})
      /\ Some({"decrypt"})' <=> Some({"decrypt"})
      /\ \A d \in Calls : call[d].pc = "encrypt" => call'[d] = call[d]
  BY <1>1, <1>2, <1>7, <1>8
<1>10. Running(Making)' \/ (Running({"createAccount"})' /\ Running(Restoring)') => NetsAgree'
  <2>1. CASE Running(Making) \/ (Running({"createAccount"}) /\ Running(Restoring))
    BY <1>3, <1>9, <2>1 DEF KeysHold, NetsAgree
  <2>2. CASE ~(Running(Making) \/ (Running({"createAccount"}) /\ Running(Restoring)))
    <3> SUFFICES ASSUME Running(Making)' \/ (Running({"createAccount"})' /\ Running(Restoring)') PROVE NetsAgree'
      OBVIOUS
    <3>1. PICK d \in Calls \ {c} : \/ k.op = "createAccount" /\ call[d].op \in Restoring
                                   \/ call[d].op = "createAccount" /\ k.op \in Restoring
      BY <1>1, <2>2 DEF Running
    <3>2. "selection" \notin seen.clash
      BY <1>1, <3>1, ApartFrom
    <3>3. \A e \in Calls : call[e].op \notin Switching
      BY <1>1, <3>1, ApartFrom DEF KeysHold, KeysApart
    <3>4. ~Some({"rekey", "rekeyed", "back", "backKeyed"})
      BY <3>3 DEF Some, Typed, Placed
    <3>5. NetsAgree
      BY <1>1, <3>2, <3>4 DEF NetsFollow, Undisturbed, NetsHold
    <3>6. QED
      BY <1>3, <1>9, <3>5 DEF NetsAgree
  <2>3. QED
    BY <2>1, <2>2
<1>11. mem'.key # None => \/ mem'.key.seed = mem'.vault
                          \/ \E d \in Calls : call'[d].pc = "encrypt" /\ call'[d].arg = mem'.key.seed
  BY <1>3, <1>9 DEF KeysHold
<1>12. QED
  BY <1>3, <1>5, <1>6, <1>9, <1>10, <1>11 DEF KeysHold

\* The wallet locks, the session runs out, the lockout ends, the worker dies.
LEMMA OthersKeys ==
  ASSUME Typed, Shapes, KeysHold, Lock \/ SessionExpires \/ LockoutEnds \/ LoopDials \/ WorkerDies \/ UNCHANGED vars
  PROVE  KeysHold'
<1>1. CASE SessionExpires \/ LockoutEnds \/ LoopDials \/ UNCHANGED vars
  <2>1. vault' = vault /\ accounts' = accounts /\ prefs' = prefs /\ mem' = mem /\ call' = call
    BY <1>1 DEF SessionExpires, LockoutEnds, LoopDials, vars, stored
  <2>2. QED
    BY <2>1 DEF KeysHold, CallKeys, Some, Running, NetsAgree, KeysApart
<1>2. CASE Lock
  <2>1. /\ vault' = vault /\ accounts' = accounts /\ prefs' = prefs /\ call' = call
        /\ mem' = [mem EXCEPT !.key = None]
    BY <1>2 DEF Lock
  <2>2. mem'.key = None /\ mem'.vault = mem.vault /\ mem'.net = mem.net /\ mem'.list = mem.list /\ mem'.active = mem.active
    BY <2>1 DEF Typed, MemRecords
  <2>3. QED
    BY <2>1, <2>2 DEF KeysHold, CallKeys, Some, Running, NetsAgree, KeysApart
<1>3. CASE WorkerDies
  <2>1. \A d \in Calls : call'[d].op = "none" /\ call'[d].pc = "idle"
    BY <1>3 DEF WorkerDies, Idle
  <2>2. /\ vault' = vault /\ mem'.vault = vault /\ mem'.key = None
        /\ accounts' = Deduped(accounts) /\ mem'.list = Deduped(accounts)
    BY <1>3 DEF WorkerDies
  <2>3. Of(accounts, vault) /\ accounts \in Seq(AccountRecords)
    BY DEF KeysHold, Typed
  <2>4. \A i \in DOMAIN Deduped(accounts) : \E j \in DOMAIN accounts : Deduped(accounts)[i] = accounts[j]
    BY <2>3, DedupedIs
  <2>5. Of(Deduped(accounts), vault)
    BY <2>3, <2>4, OfKept
  <2>6. vault = None => Deduped(accounts) = <<>>
    <3>1. Twinless(<<>>)
      BY DEF Twinless
    <3>2. Twinless(accounts) => Deduped(accounts) = accounts
      BY <2>3, DedupedIs
    <3>3. QED
      BY <3>1, <3>2 DEF KeysHold
  <2>7. \A d \in Calls : CallKeys(call[d])'
    BY <2>1 DEF CallKeys
  <2>8. KeysApart' /\ ~Running(Making)' /\ ~Running(Restoring)'
    BY <2>1 DEF KeysApart, Running
  <2>9. QED
    BY <2>2, <2>5, <2>6, <2>7, <2>8 DEF KeysHold
<1>4. QED
  BY <1>1, <1>2, <1>3

\* At first the keys are of the vault.
LEMMA InitKeys == Init => KeysHold
<1> SUFFICES ASSUME Init PROVE KeysHold
  OBVIOUS
<1>1. \A c \in Calls : call[c].op = "none" /\ call[c].pc = "idle"
  BY DEF Init, Idle
<1>2. KeysApart /\ ~Running(Making) /\ ~Running(Restoring) /\ \A c \in Calls : CallKeys(call[c])
  BY <1>1 DEF KeysApart, Running, CallKeys
<1>3. CASE vault = None
  <2>1. vault = None /\ accounts = <<>> /\ mem.vault = None /\ mem.list = <<>> /\ mem.key = None
    <3>1. 1 \in 0..MaxSeeds
      BY ValuesAssumption
    <3>2. 1 # None
      BY <3>1, ValuesAssumption
    <3>3. QED
      BY <1>3, <3>2 DEF Init
  <2>2. QED
    BY <1>2, <2>1 DEF KeysHold, Of
<1>4. CASE vault # None
  <2>1. /\ vault = 1 /\ accounts = <<Account(1, Mainnet, 0), Account(1, Mainnet, 1)>>
        /\ mem.vault = 1 /\ mem.key = [seed |-> 1, net |-> Mainnet] /\ mem.net = Mainnet /\ mem.list = accounts
    BY <1>4 DEF Init
  <2>2. Of(accounts, vault)
    BY <2>1 DEF Of, Account
  <2>3. Mainnet # None
    BY ValuesAssumption
  <2>4. QED
    BY <1>2, <1>4, <2>1, <2>2, <2>3 DEF KeysHold
<1>5. QED
  BY <1>3, <1>4

-----------------------------------------------------------------------------
(* The networks agree.                                                     *)

\* The places of a switch that is changing the network.
Moving == {"rekey", "rekeyed", "back", "backKeyed"}

USE DEF Moving

\* A call that selects, and is no restore, has no other that selects beside it.
LEMMA SwitchAlone ==
  ASSUME Typed, NetsHold, NEW c \in Calls, call[c].op \in Selecting \ Restoring
  PROVE  \A d \in Calls \ {c} : /\ call[d].op \notin Selecting
                                /\ call[d].pc \notin Moving \cup Reading \cup MakePlaces \cup RestorePlaces
                                     \cup SwitchPlaces \cup CreatePlaces
<1>1. ASSUME NEW d \in Calls \ {c}
      PROVE  call[d].op \notin Selecting
  BY DEF NetsHold, SelectionApart
<1>2. QED
  BY <1>1 DEF Typed, Placed

\* A restore has only restores beside it.
LEMMA RestoreAlone ==
  ASSUME Typed, NetsHold, NEW c \in Calls, call[c].op \in Restoring
  PROVE  \A d \in Calls : /\ call[d].op \in Selecting => call[d].op \in Restoring
                          /\ call[d].pc \notin Moving \cup MakePlaces \cup SwitchPlaces \cup CreatePlaces
<1>1. ASSUME NEW d \in Calls
      PROVE  call[d].op \in Selecting => call[d].op \in Restoring
  BY DEF NetsHold, SelectionApart
<1>2. QED
  BY <1>1 DEF Typed, Placed

\* A step of a call that leaves the networks alone.
NetsCalm(c) ==
  /\ mem'.key = mem.key /\ mem'.net = mem.net /\ prefs'.net = prefs.net
  /\ call[c].pc \notin Moving /\ call'[c].pc \notin Moving \cup {"decrypt"}

\* Such a step keeps the networks in agreement.
LEMMA CalmNets ==
  ASSUME NetsHold, NEW c \in Calls, CallMoves(c), NetsCalm(c)
  PROVE  NetsHold'
<1> USE DEF NetsCalm, CallMoves
<1>1. SelectionApart'
  BY DEF NetsHold, SelectionApart
<1>2. (Some({"decrypt"})' => Some({"decrypt"})) /\ (Some(Moving) => Some(Moving)')
  BY DEF Some
<1>3. ~Some(Moving)' => NetsAgree'
  BY <1>2 DEF NetsHold, NetsAgree
<1>4. ASSUME NEW d \in Calls
      PROVE  /\ call'[d].pc = "rekey" => call'[d].arg = prefs'.net
             /\ call'[d].pc \in {"rekeyed", "backKeyed"} => mem'.net = prefs'.net
             /\ call'[d].pc = "back" => call'[d].prev.net = prefs'.net
  <2>1. CASE d = c
    BY <2>1
  <2>2. CASE d # c
    BY <2>2 DEF NetsHold
  <2>3. QED
    BY <2>1, <2>2
<1>5. QED
  BY <1>1, <1>3, <1>4 DEF NetsHold

\* A switch's step to one of those places, alone.
LEMMA MovingNets ==
  ASSUME Typed, NetsHold, NEW c \in Calls, CallMoves(c), call[c].op \in Switching,
         \/ call'[c].pc = "rekey" /\ call'[c].arg = prefs'.net
         \/ call'[c].pc \in {"rekeyed", "backKeyed"} /\ mem'.net = prefs'.net
         \/ call'[c].pc = "back" /\ call'[c].prev.net = prefs'.net
  PROVE  NetsHold'
<1> USE DEF CallMoves
<1>1. SelectionApart'
  BY DEF NetsHold, SelectionApart
<1>2. Some(Moving)'
  BY DEF Some
<1>3. \A d \in Calls \ {c} : call'[d].pc \notin Moving
  BY SwitchAlone
<1>4. QED
  BY <1>1, <1>2, <1>3 DEF NetsHold

\* A step that sets the key, once the wallet is on the preferences' network.
LEMMA SettledNets ==
  ASSUME Typed, NetsHold, NEW c \in Calls, CallMoves(c), call[c].op \in Switching \cup Restoring,
         mem'.net = prefs'.net, mem'.key.net = prefs'.net, call'[c].pc \notin Moving
  PROVE  NetsHold'
<1> USE DEF CallMoves
<1>1. SelectionApart'
  BY DEF NetsHold, SelectionApart
<1>2. NetsAgree'
  BY DEF NetsAgree
<1>3. \A d \in Calls \ {c} : call'[d].pc \notin Moving
  BY SwitchAlone, RestoreAlone
<1>4. QED
  BY <1>1, <1>2, <1>3 DEF NetsHold

\* Every step of a call keeps the networks in agreement, or tells where they are not.
LEMMA StepNets ==
  ASSUME Typed, Shapes, KeysHold, NetsHold, NEW c \in Calls, Step(c)
  PROVE  NetsHold'
<1>0. CallMoves(c) /\ Placed(call[c]) /\ CallOK(call[c]) /\ CallKeys(call[c])
  BY StepMoves DEF Typed, Shapes, KeysHold
<1>1. ASSUME NetsCalm(c) PROVE NetsHold'
  BY <1>0, <1>1, CalmNets
<1>2. Arrives(c) \/ Ends(c) => call'[c].pc \in {"idle", "keep", "dial", "redial", "derive", "again"}
  BY ArrivesCalmly
<1>3. CASE Read(c)
  BY <1>1, <1>3, ReadIs DEF NetsCalm, Comes
<1>4. CASE Assign(c)
  BY <1>1, <1>2, <1>4, AssignIs DEF NetsCalm, Comes, MemIs
<1>5. CASE Point(c)
  BY <1>1, <1>2, <1>5, PointIs DEF NetsCalm, MemIs
<1>6. CASE Added(c)
  BY <1>1, <1>6, AddedIs DEF NetsCalm, Comes, MemIs, PrefsAre
<1>7. CASE Again(c)
  BY <1>1, <1>7, AgainIs DEF NetsCalm, Comes
<1>8. CASE CreateDefault(c) \/ DeriveNext(c)
  BY <1>1, <1>2, <1>8, CreateDefaultIs, DeriveNextIs DEF NetsCalm, Pushes, Comes, MemIs
<1>9. CASE Keep(c) \/ BackedUp(c)
  BY <1>1, <1>2, <1>9, KeepIs, BackedUpIs DEF NetsCalm, Comes
<1>10. CASE Verified(c) \/ Unlocked(c) \/ Failed(c) \/ Counted(c)
  <2>1. /\ call[c].pc \in {"verify", "session", "count"}
        /\ Comes(c, "session") \/ Comes(c, "count") \/ Comes(c, "password") \/ Ends(c)
        /\ mem' = mem /\ prefs' = prefs
    BY <1>10, PasswordIs
  <2>2. QED
    BY <1>1, <1>2, <2>1 DEF NetsCalm, Comes
<1>11. CASE Encrypted(c)
  BY <1>1, <1>11, EncryptedIs DEF NetsCalm, Comes
<1>12. CASE Restore(c)
  <2>1. CASE mem.vault = None
    BY <1>1, <1>2, <1>12, <2>1, RestoreIs DEF NetsCalm
  <2>2. CASE mem.vault # None
    <3>1. /\ call[c].pc = "password" /\ MemIs(mem.key, prefs.net, mem.list, mem.active) /\ Comes(c, "decrypt")
          /\ prefs' = prefs
      BY <1>12, <2>2, RestoreIs
    <3>2. \A d \in Calls : call[d].pc \notin Moving
      BY <1>0, <3>1, RestoreAlone DEF Placed
    <3>3. NetsAgree
      BY <3>2 DEF NetsHold, Some
    <3>4. NetsAgree'
      BY <3>1, <3>3 DEF NetsAgree, MemIs
    <3>5. \A d \in Calls : call'[d].pc \notin Moving
      BY <1>0, <3>1, <3>2 DEF CallMoves, Comes
    <3>6. SelectionApart'
      BY <1>0 DEF NetsHold, SelectionApart, CallMoves
    <3>7. QED
      BY <3>4, <3>5, <3>6 DEF NetsHold
  <2>3. QED
    BY <2>1, <2>2
<1>13. ASSUME call[c].pc \in {"decrypt", "rekeyed", "backKeyed"}
       PROVE  Key(call[c].arg).net = prefs.net /\ mem.net = prefs.net /\ call[c].op \in Switching \cup Restoring
  <2>1. Key(call[c].arg).net = mem.net
    BY <1>13, KeyOf
  <2>2. call[c].pc = "decrypt" => mem.net = prefs.net
    <3> SUFFICES ASSUME call[c].pc = "decrypt" PROVE mem.net = prefs.net
      OBVIOUS
    <3>1. \A d \in Calls : call[d].pc \notin Moving
      BY <1>0, RestoreAlone DEF Placed
    <3>2. QED
      BY <3>1 DEF NetsHold, NetsAgree, Some
  <2>3. QED
    BY <1>0, <1>13, <2>1, <2>2 DEF NetsHold, Placed
<1>14. ASSUME call[c].pc \in {"decrypt", "rekeyed"}, NEW then, Defaults(c, Key(call[c].arg), then)
       PROVE  NetsHold'
  <2>1. mem'.key = Key(call[c].arg) /\ mem'.net = mem.net /\ prefs'.net = prefs.net /\ call'[c].pc \in {"read", "added"}
    BY <1>14 DEF Defaults, MemIs, PrefsAre, Comes
  <2>2. QED
    BY <1>0, <1>13, <1>14, <2>1, SettledNets
<1>15. CASE Decrypted(c)
  BY <1>14, <1>15, DecryptedIs
<1>16. CASE Rekeyed(c)
  <2>1. CASE call[c].op = "switchNetwork"
    BY <1>14, <1>16, <2>1, RekeyedIs
  <2>2. CASE call[c].op # "switchNetwork"
    <3>1. /\ call[c].pc = "rekeyed" /\ MemIs(Key(call[c].arg), mem.net, mem.list, mem.active)
          /\ Comes(c, "dial") /\ prefs' = prefs
      BY <1>16, <2>2, RekeyedIs
    <3>2. QED
      BY <1>0, <1>13, <3>1, SettledNets DEF MemIs, Comes
  <2>3. QED
    BY <2>1, <2>2
<1>17. CASE BackKeyed(c)
  <2>1. /\ call[c].pc = "backKeyed" /\ MemIs(Key(call[c].arg), mem.net, mem.list, mem.active)
        /\ Comes(c, "read") /\ prefs' = prefs
    BY <1>17, BackKeyedIs
  <2>2. QED
    BY <1>0, <1>13, <2>1, SettledNets DEF MemIs, Comes
<1>18. CASE Switch(c)
  <2>1. CASE call'[c].pc = "read"
    BY <1>1, <1>18, <2>1, SwitchIs DEF NetsCalm, Comes, PrefsAre
  <2>2. CASE call'[c].pc # "read"
    BY <1>0, <1>18, <2>2, SwitchIs, MovingNets DEF Comes, PrefsAre, Placed
  <2>3. QED
    BY <2>1, <2>2
<1>19. ASSUME RollsBack(c), call[c].op \in Switching PROVE NetsHold'
  BY <1>0, <1>19, MovingNets DEF RollsBack, Comes, KeepsArg, PrefsAre
<1>20. CASE Rekey(c)
  <2>1. CASE mem.vault = None
    BY <1>0, <1>19, <1>20, <2>1, RekeyIs DEF Placed
  <2>2. CASE mem.vault # None
    <3>1. /\ call[c].pc = "rekey" /\ MemIs(mem.key, call[c].arg, mem.list, mem.active) /\ Comes(c, "rekeyed")
          /\ prefs' = prefs
      BY <1>20, <2>2, RekeyIs
    <3>2. mem'.net = prefs'.net /\ call[c].op \in Switching
      BY <1>0, <3>1 DEF NetsHold, MemIs, Placed
    <3>3. QED
      BY <1>0, <3>1, <3>2, MovingNets DEF Comes
  <2>3. QED
    BY <2>1, <2>2
<1>21. CASE Dial(c)
  <2>1. CASE RollsBack(c)
    BY <1>0, <1>19, <1>21, <2>1, DialIs DEF Placed
  <2>2. CASE ~RollsBack(c)
    BY <1>1, <1>21, <2>2, DialIs DEF NetsCalm, Comes
  <2>3. QED
    BY <2>1, <2>2
<1>22. CASE Connect(c)
  <2>1. CASE RollsBack(c)
    BY <1>0, <1>19, <1>22, <2>1, ConnectIs DEF Placed
  <2>2. CASE ~RollsBack(c)
    BY <1>1, <1>2, <1>22, <2>2, ConnectIs DEF NetsCalm, Comes
  <2>3. QED
    BY <2>1, <2>2
<1>23. CASE Back(c)
  <2>1. call[c].pc = "back" /\ call[c].op \in Switching
    BY <1>0, <1>23, BackIs DEF Placed
  <2>2. mem.vault # None
    BY <2>1, VaultIsThere
  <2>3. MemIs(mem.key, call[c].prev.net, mem.list, mem.active) /\ Comes(c, "backKeyed") /\ prefs' = prefs
    BY <1>23, <2>2, BackIs
  <2>4. mem'.net = prefs'.net
    BY <2>1, <2>3 DEF NetsHold, MemIs
  <2>5. QED
    BY <1>0, <2>1, <2>3, <2>4, MovingNets DEF Comes
<1>24. CASE Redial(c)
  BY <1>1, <1>2, <1>24, RedialIs DEF NetsCalm
<1>25. CASE DestroyAccounts(c) \/ DestroyVault(c) \/ ForgetPassword(c)
  BY <1>1, <1>2, <1>25, DestroyAccountsIs, DestroyVaultIs, ForgetPasswordIs DEF NetsCalm, Comes, MemIs
<1>26. CASE ResetPreferences(c)
  <2>1. call[c].op = "logout" /\ call'[c].op = "logout" /\ call'[c].pc = "forget" /\ mem'.key = None
    BY <1>26, ResetPreferencesIs DEF Comes
  <2>2. \A d \in Calls : call'[d].op \notin Selecting
    BY <1>0, <2>1, LogoutAlone
  <2>3. \A d \in Calls \ {c} : call[d].op \notin Selecting /\ Placed(call[d]) /\ call'[d] = call[d]
    BY <1>0, <2>1, LogoutAlone DEF CallMoves, Typed
  <2>4. \A d \in Calls : call'[d].pc \notin Moving \cup {"decrypt"}
    BY <2>1, <2>3 DEF Placed
  <2>5. SelectionApart' /\ NetsAgree'
    BY <2>1, <2>2, <2>4 DEF SelectionApart, NetsAgree, Some
  <2>6. QED
    BY <2>4, <2>5 DEF NetsHold
<1>27. QED
  BY <1>3, <1>4, <1>5, <1>6, <1>7, <1>8, <1>9, <1>10, <1>11, <1>12, <1>15, <1>16, <1>17, <1>18, <1>20, <1>21, <1>22,
     <1>23, <1>24, <1>25, <1>26 DEF Step

\* A call begins at a place where the networks are left alone.
LEMMA StartNets ==
  ASSUME Typed, Shapes, NetsHold, NEW c \in Calls, NEW k, Starts(c, k),
         "keys" \notin seen'.clash, "selection" \notin seen'.clash
  PROVE  NetsHold'
<1>1. /\ call[c].op = "none" /\ call[c].pc = "idle" /\ call'[c] = k /\ \A d \in Calls \ {c} : call'[d] = call[d]
      /\ "keys" \notin Overlaps(k.op) /\ "selection" \notin Overlaps(k.op)
  BY BeginsApart
<1>2. prefs' = prefs
  BY StartIs
<1>3. k.pc \notin Moving \cup {"decrypt"}
  BY BeginsMaking, BeginsWith
<1>4. SelectionApart'
  <2>1. \A d \in Calls : k.op \in Selecting /\ call[d].op \in Selecting => k.op \in Restoring /\ call[d].op \in Restoring
    BY <1>1, ApartFrom
  <2>2. QED
    BY <1>1, <2>1 DEF NetsHold, SelectionApart
<1>5. (Some({"decrypt"})' => Some({"decrypt"})) /\ (Some(Moving) => Some(Moving)')
  BY <1>1, <1>3 DEF Some
<1>6. ~Some(Moving)' => NetsAgree'
  <2>1. CASE k.op \in Making
    BY <1>2, <2>1, BeginsMaking DEF NetsAgree
  <2>2. CASE k.op \notin Making
    BY <1>2, <1>5, <2>2, StartIs DEF NetsHold, NetsAgree
  <2>3. QED
    BY <2>1, <2>2
<1>7. ASSUME NEW d \in Calls
      PROVE  /\ call'[d].pc = "rekey" => call'[d].arg = prefs'.net
             /\ call'[d].pc \in {"rekeyed", "backKeyed"} => mem'.net = prefs'.net
             /\ call'[d].pc = "back" => call'[d].prev.net = prefs'.net
  <2>1. CASE d = c
    BY <1>1, <1>3, <2>1
  <2>2. CASE d # c
    <3>1. call'[d] = call[d]
      BY <1>1, <2>2
    <3>2. CASE k.op \in Making
      BY <1>2, <3>1, <3>2, BeginsMaking DEF NetsHold
    <3>3. CASE k.op \notin Making
      BY <1>2, <3>1, <3>3, StartIs DEF NetsHold
    <3>4. QED
      BY <3>2, <3>3
  <2>3. QED
    BY <2>1, <2>2
<1>8. QED
  BY <1>4, <1>6, <1>7 DEF NetsHold

\* A lock, an expiry and the end of a lockout leave the networks as they are.
LEMMA OthersNets ==
  ASSUME Typed, NetsHold, Lock \/ SessionExpires \/ LockoutEnds \/ LoopDials \/ UNCHANGED vars
  PROVE  NetsHold'
<1>1. CASE SessionExpires \/ LockoutEnds \/ LoopDials \/ UNCHANGED vars
  <2>1. prefs' = prefs /\ mem' = mem /\ call' = call
    BY <1>1 DEF SessionExpires, LockoutEnds, LoopDials, vars, stored
  <2>2. QED
    BY <2>1 DEF NetsHold, Some, NetsAgree, SelectionApart
<1>2. CASE Lock
  <2>1. prefs' = prefs /\ call' = call /\ mem' = [mem EXCEPT !.key = None]
    BY <1>2 DEF Lock
  <2>2. mem'.key = None /\ mem'.net = mem.net
    BY <2>1 DEF Typed, MemRecords
  <2>3. QED
    BY <2>1, <2>2 DEF NetsHold, Some, NetsAgree, SelectionApart
<1>3. QED
  BY <1>1, <1>2

\* A worker that has just started has no key.
LEMMA DeathNets ==
  ASSUME WorkerDies
  PROVE  NetsHold'
<1>1. \A d \in Calls : call'[d].op = "none" /\ call'[d].pc = "idle"
  BY DEF WorkerDies, Idle
<1>2. mem'.key = None
  BY DEF WorkerDies
<1>3. QED
  BY <1>1, <1>2 DEF NetsHold, SelectionApart, NetsAgree, Some

\* At first the networks agree.
LEMMA InitNets == Init => NetsHold
<1> SUFFICES ASSUME Init PROVE NetsHold
  OBVIOUS
<1>1. \A d \in Calls : call[d].op = "none" /\ call[d].pc = "idle"
  BY DEF Init, Idle
<1>2. mem.key # None => mem.key.net = prefs.net /\ mem.net = prefs.net
  BY DEF Init, DefaultPrefs
<1>3. QED
  BY <1>1, <1>2 DEF NetsHold, SelectionApart, NetsAgree, Some

-----------------------------------------------------------------------------
(* What is called backed up has been verified.                             *)

\* The vault that is called backed up is one whose seed the user has typed.
BackedHold ==
  /\ prefs.backed => (vault # None /\ vault \in seen.verified) \/ Some({"preferences"})
  /\ \A c \in Calls : call[c].op = "backup" => vault # None /\ call[c].arg = vault
  /\ \A c, d \in Calls : ~(call[c].op = "logout" /\ call[d].op \in {"backup", "recover"})

BackedUpIsVerified == Undisturbed("keys") /\ Undisturbed("backup") => BackedHold

\* The steps that change neither the vault nor whether it is backed up.
LEMMA MostLeaveBacked ==
  ASSUME Typed, Shapes, KeysHold, NEW c \in Calls, Step(c),
         ~Encrypted(c), ~BackedUp(c), ~DestroyVault(c), ~ResetPreferences(c)
  PROVE  vault' = vault /\ prefs'.backed = prefs.backed /\ call[c].pc # "preferences" /\ call[c].op # "backup"
<1> DEFINE P == vault' = vault /\ prefs'.backed = prefs.backed /\ call[c].pc \notin {"preferences", "backup", "idle"}
<1>1. CASE Read(c) \/ Assign(c) \/ Point(c) \/ Added(c) \/ Again(c) \/ CreateDefault(c) \/ DeriveNext(c)
  <2>1. Added(c) => P
    BY AddedIs DEF KeepsStored, PrefsAre
  <2>2. Read(c) \/ Point(c) \/ Again(c) => P
    BY ReadIs, PointIs, AgainIs DEF KeepsStored
  <2>3. Assign(c) => P
    BY AssignIs
  <2>4. CreateDefault(c) \/ DeriveNext(c) => P
    BY CreateDefaultIs, DeriveNextIs
  <2>5. P /\ call[c].pc \in Reading \cup MakePlaces \cup CreatePlaces
    BY <1>1, <2>1, <2>2, <2>3, <2>4, AddedIs, ReadIs, PointIs, AgainIs, AssignIs, CreateDefaultIs, DeriveNextIs
  <2>6. QED
    BY <2>5 DEF Typed, Placed
<1>2. CASE Keep(c) \/ Verified(c) \/ Unlocked(c) \/ Failed(c) \/ Counted(c) \/ ForgetPassword(c) \/ DestroyAccounts(c)
  <2>1. P
    BY <1>2, KeepIs, PasswordIs, ForgetPasswordIs, DestroyAccountsIs
  <2>2. call[c].pc \in {"keep", "verify", "session", "count", "forget", "accounts"}
    BY <1>2, KeepIs, PasswordIs, ForgetPasswordIs, DestroyAccountsIs
  <2>3. Placed(call[c]) /\ CallOK(call[c])
    BY DEF Typed, Shapes
  <2>4. call[c].op # "backup"
    BY <2>2, <2>3 DEF Placed, CallOK
  <2>5. QED
    BY <2>1, <2>4
<1>3. CASE Restore(c) \/ Back(c) \/ BackKeyed(c) \/ Redial(c)
  <2>1. P
    BY <1>3, RestoreIs, BackIs, BackKeyedIs, RedialIs DEF KeepsStored
  <2>2. QED
    BY <2>1, <1>3, RestoreIs, BackIs, BackKeyedIs, RedialIs DEF Typed, Placed
<1>4. CASE Switch(c) \/ Rekey(c) \/ Dial(c) \/ Connect(c)
  <2>1. P
    BY <1>4, SwitchIs, RekeyIs, DialIs, ConnectIs DEF KeepsStored, RollsBack, PrefsAre
  <2>2. QED
    BY <2>1, <1>4, SwitchIs, RekeyIs, DialIs, ConnectIs DEF Typed, Placed
<1>5. CASE Decrypted(c) \/ Rekeyed(c)
  <2>1. P
    BY <1>5, DecryptedIs, RekeyedIs DEF Defaults, PrefsAre
  <2>2. QED
    BY <2>1, <1>5, DecryptedIs, RekeyedIs DEF Typed, Placed
<1>6. QED
  BY <1>1, <1>2, <1>3, <1>4, <1>5 DEF Step

\* Every step of a call leaves a backed up vault verified.
LEMMA StepBacked ==
  ASSUME Typed, Shapes, KeysHold, BackedHold, NEW c \in Calls, Step(c)
  PROVE  BackedHold'
<1>0. CallMoves(c) /\ Placed(call[c]) /\ CallOK(call[c]) /\ CallKeys(call[c])
  BY StepMoves DEF Typed, Shapes, KeysHold
<1> USE DEF CallMoves
<1>1. \A d, e \in Calls : ~(call'[d].op = "logout" /\ call'[e].op \in {"backup", "recover"})
  BY <1>0 DEF BackedHold
<1>2. CASE ~Encrypted(c) /\ ~BackedUp(c) /\ ~DestroyVault(c) /\ ~ResetPreferences(c)
  <2>1. vault' = vault /\ prefs'.backed = prefs.backed /\ call[c].pc # "preferences" /\ call[c].op # "backup"
    BY <1>2, MostLeaveBacked
  <2>2. seen'.verified = seen.verified
    BY <1>2, StepClash
  <2>3. Some({"preferences"}) => Some({"preferences"})'
    BY <1>0, <2>1 DEF Some
  <2>4. \A d \in Calls : call'[d].op = "backup" => vault' # None /\ call'[d].arg = vault'
    BY <1>0, <2>1 DEF BackedHold
  <2>5. QED
    BY <1>1, <2>1, <2>2, <2>3, <2>4 DEF BackedHold
<1>3. CASE BackedUp(c)
  <2>1. /\ call[c].pc = "backup" /\ Ends(c) /\ vault' = vault /\ seen'.verified = seen.verified \cup {call[c].arg}
    BY <1>3, BackedUpIs DEF KeepsStored
  <2>2. call[c].arg = vault /\ vault # None
    BY <1>0, <2>1, VaultIsThere DEF Placed, BackedHold, CallKeys
  <2>3. \A d \in Calls : call'[d].op = "backup" => vault' # None /\ call'[d].arg = vault'
    BY <1>0, <2>1 DEF BackedHold, Ends, Idle
  <2>4. QED
    BY <1>1, <2>1, <2>2, <2>3 DEF BackedHold
<1>4. CASE Encrypted(c)
  <2>1. call[c].pc = "encrypt" /\ Comes(c, "default") /\ prefs' = prefs
    BY <1>4, EncryptedIs
  <2>2. vault = None /\ call[c].op \in Making
    BY <1>0, <2>1 DEF CallKeys, Placed
  <2>3. ~Some({"preferences"})
    BY <2>2 DEF KeysHold, KeysApart, Some, Typed, Placed
  <2>4. ~prefs'.backed
    BY <2>1, <2>2, <2>3 DEF BackedHold
  <2>5. \A d \in Calls : call'[d].op # "backup"
    BY <1>0, <2>1, <2>2 DEF BackedHold, Comes
  <2>6. QED
    BY <1>1, <2>4, <2>5 DEF BackedHold
<1>5. CASE DestroyVault(c) \/ ResetPreferences(c)
  <2>1. call[c].op = "logout"
    BY <1>5, DestroyVaultIs, ResetPreferencesIs
  <2>2. \A d \in Calls : call'[d].op # "backup"
    BY <1>0, <2>1 DEF BackedHold
  <2>3. prefs'.backed => Some({"preferences"})'
    BY <1>5, DestroyVaultIs, ResetPreferencesIs DEF Comes, Some, DefaultPrefs
  <2>4. QED
    BY <1>1, <2>2, <2>3 DEF BackedHold
<1>6. QED
  BY <1>2, <1>3, <1>4, <1>5

\* A backup begins with the seed of the vault.
LEMMA StartBacked ==
  ASSUME Typed, Shapes, KeysHold, BackedHold, NEW c \in Calls, NEW k, Starts(c, k),
         "backup" \notin seen'.clash
  PROVE  BackedHold'
<1>1. /\ call[c].op = "none" /\ call[c].pc = "idle" /\ call'[c] = k /\ \A d \in Calls \ {c} : call'[d] = call[d]
      /\ "backup" \notin Overlaps(k.op)
  BY BeginsApart
<1>2. vault' = vault /\ prefs' = prefs /\ seen'.verified = seen.verified
  BY StartIs
<1>3. \A d \in Calls : /\ ~(k.op = "logout" /\ call[d].op \in {"backup", "recover"})
                       /\ ~(k.op \in {"backup", "recover"} /\ call[d].op = "logout")
  BY <1>1, ApartFrom
<1>4. \A d, e \in Calls : ~(call'[d].op = "logout" /\ call'[e].op \in {"backup", "recover"})
  BY <1>1, <1>3 DEF BackedHold
<1>5. Some({"preferences"}) => Some({"preferences"})'
  BY <1>1 DEF Some
<1>6. k.op = "backup" => vault # None /\ k.arg = vault
  <2> SUFFICES ASSUME k.op = "backup" PROVE vault # None /\ k.arg = vault
    OBVIOUS
  <2>1. k.arg = mem.vault /\ mem.vault # None
    BY BeginsWith
  <2>2. ~Some({"preferences"})
    BY <1>3 DEF Some, Typed, Placed
  <2>3. QED
    BY <2>1, <2>2 DEF KeysHold
<1>7. \A d \in Calls : call'[d].op = "backup" => vault' # None /\ call'[d].arg = vault'
  BY <1>1, <1>2, <1>6 DEF BackedHold
<1>8. QED
  BY <1>2, <1>4, <1>5, <1>7 DEF BackedHold

\* Nothing else touches the backup.
LEMMA OthersBacked ==
  ASSUME Typed, Shapes, BackedHold, Lock \/ SessionExpires \/ LockoutEnds \/ LoopDials \/ WorkerDies \/ UNCHANGED vars,
         "backup" \notin seen'.clash
  PROVE  BackedHold'
<1>1. CASE ~WorkerDies
  <2>1. prefs' = prefs /\ vault' = vault /\ call' = call
    BY <1>1 DEF SessionExpires, LockoutEnds, LoopDials, Lock, vars, stored
  <2>2. seen'.verified = seen.verified
    BY <1>1 DEF SessionExpires, LockoutEnds, LoopDials, Lock, vars, Shapes
  <2>3. QED
    BY <2>1, <2>2 DEF BackedHold, Some
<1>2. CASE WorkerDies
  <2>1. /\ prefs' = prefs /\ vault' = vault /\ \A d \in Calls : call'[d].op = "none" /\ call'[d].pc = "idle"
        /\ seen'.verified = seen.verified /\ "backup" \notin Overlaps("death")
    BY <1>2 DEF WorkerDies, Idle, Shapes
  <2>2. \A d \in Calls : call[d].op # "logout"
    BY <2>1, ApartFrom
  <2>3. ~Some({"preferences"})
    BY <2>2 DEF Some, Typed, Placed
  <2>4. QED
    BY <2>1, <2>3 DEF BackedHold
<1>3. QED
  BY <1>1, <1>2

\* At first nothing is called backed up.
LEMMA InitBacked == Init => BackedHold
<1> SUFFICES ASSUME Init PROVE BackedHold
  OBVIOUS
<1>1. \A d \in Calls : call[d].op = "none"
  BY DEF Init, Idle
<1>2. ~prefs.backed
  BY DEF Init, DefaultPrefs
<1>3. QED
  BY <1>1, <1>2 DEF BackedHold

-----------------------------------------------------------------------------

KeysInv == KeysAreOfTheVault /\ NetsFollow /\ BackedUpIsVerified

\* What a step leaves undisturbed was undisturbed, but for the selection that a death mends,
\* and the lock, which the next lock settles anew.
LEMMA ClashGrows ==
  ASSUME Shapes, [Next]_vars
  PROVE  /\ "keys" \notin seen'.clash => "keys" \notin seen.clash
         /\ "backup" \notin seen'.clash => "backup" \notin seen.clash
         /\ ~WorkerDies => ("selection" \notin seen'.clash => "selection" \notin seen.clash)
<1>1. ASSUME NEW c \in Calls, Step(c) PROVE \A kind : kind # "torn" => (kind \in seen'.clash <=> kind \in seen.clash)
  BY <1>1, StepClash
<1>2. ASSUME NEW c \in Calls, NEW k, Starts(c, k) PROVE \A kind : kind \notin seen'.clash => kind \notin seen.clash
  BY <1>2, BeginsApart
<1>3. CASE SessionExpires \/ LockoutEnds \/ LoopDials \/ UNCHANGED vars
  BY <1>3 DEF SessionExpires, LockoutEnds, LoopDials, vars, Shapes
<1>4. CASE Lock
  BY <1>4 DEF Lock, Shapes
<1>5. CASE WorkerDies
  BY <1>5 DEF WorkerDies, Shapes
<1>6. QED
  BY <1>1, <1>2, <1>3, <1>4, <1>5, NextIs

\* Every step keeps the keys, the networks and the backup, as far as they are undisturbed.
LEMMA NextKeys == IInv /\ Typed /\ KeysInv /\ [Next]_vars => KeysInv'
<1> SUFFICES ASSUME IInv, Typed, KeysInv, [Next]_vars, "keys" \notin seen'.clash
             PROVE  /\ KeysHold'
                    /\ "selection" \notin seen'.clash => NetsHold'
                    /\ "backup" \notin seen'.clash => BackedHold'
  BY DEF KeysInv, KeysAreOfTheVault, NetsFollow, BackedUpIsVerified, Undisturbed
<1>0. Shapes
  BY DEF IInv
<1>1. KeysHold
  BY <1>0, ClashGrows DEF KeysInv, KeysAreOfTheVault, Undisturbed
<1>2. "selection" \notin seen'.clash /\ ~WorkerDies => NetsHold
  BY <1>0, ClashGrows DEF KeysInv, NetsFollow, Undisturbed
<1>3. "backup" \notin seen'.clash => BackedHold
  BY <1>0, ClashGrows DEF KeysInv, BackedUpIsVerified, Undisturbed
<1>4. ASSUME NEW c \in Calls, Step(c)
      PROVE  /\ KeysHold'
             /\ "selection" \notin seen'.clash => NetsHold'
             /\ "backup" \notin seen'.clash => BackedHold'
  <2>1. KeysHold'
    BY <1>0, <1>1, <1>4, StepKeys
  <2>2. "selection" \notin seen'.clash => NetsHold
    <3>1. "selection" \in seen'.clash <=> "selection" \in seen.clash
      BY <1>0, <1>4, StepClash
    <3>2. "keys" \notin seen.clash
      BY <1>0, ClashGrows
    <3>3. QED
      BY <3>1, <3>2 DEF KeysInv, NetsFollow, Undisturbed
  <2>3. QED
    BY <1>0, <1>1, <1>3, <1>4, <2>1, <2>2, StepNets, StepBacked
<1>5. ASSUME NEW c \in Calls, NEW k, Starts(c, k)
      PROVE  /\ KeysHold'
             /\ "selection" \notin seen'.clash => NetsHold'
             /\ "backup" \notin seen'.clash => BackedHold'
  <2>1. KeysHold'
    BY <1>0, <1>1, <1>5, MakingStarts, OtherStarts DEF KeysInv
  <2>2. "selection" \notin seen'.clash => NetsHold
    <3>1. \A kind : kind \notin seen'.clash => kind \notin seen.clash
      BY <1>0, <1>5, BeginsApart
    <3>2. QED
      BY <3>1 DEF KeysInv, NetsFollow, Undisturbed
  <2>3. QED
    BY <1>0, <1>1, <1>3, <1>5, <2>1, <2>2, StartNets, StartBacked
<1>6. CASE WorkerDies
  BY <1>0, <1>1, <1>3, <1>6, OthersKeys, DeathNets, OthersBacked
<1>7. CASE (Lock \/ SessionExpires \/ LockoutEnds \/ LoopDials \/ UNCHANGED vars) /\ ~WorkerDies
  BY <1>0, <1>1, <1>2, <1>3, <1>7, OthersKeys, OthersNets, OthersBacked
<1>8. QED
  BY <1>4, <1>5, <1>6, <1>7, NextIs

\* The initial states satisfy it.
LEMMA InitKeysInv == Init => KeysInv
BY InitKeys, InitNets, InitBacked DEF KeysInv, KeysAreOfTheVault, NetsFollow, BackedUpIsVerified

\* Between calls, that is what the property says.
LEMMA KeysInvSays == IInv /\ KeysInv => AccountsAreOfTheVault
<1> SUFFICES ASSUME IInv, KeysInv, Quiet, Undisturbed("keys")
             PROVE  /\ \A i \in DOMAIN accounts : accounts[i].seed = vault /\ accounts[i].xpub = accounts[i].net
                    /\ mem.vault = vault
                    /\ mem.key # None => mem.key.seed = vault
                    /\ vault # None /\ prefs.backed /\ Undisturbed("backup") => vault \in seen.verified
  BY DEF AccountsAreOfTheVault
<1>1. KeysHold /\ (Undisturbed("backup") => BackedHold)
  BY DEF KeysInv, KeysAreOfTheVault, BackedUpIsVerified
<1>2. \A d \in Calls : call[d].pc = "idle"
  BY DEF Quiet, IInv, Shapes, CallOK
<1>3. ~Some({"preferences"}) /\ \A d \in Calls : call[d].pc # "encrypt"
  BY <1>2 DEF Some
<1>4. QED
  BY <1>1, <1>3 DEF KeysHold, BackedHold, Of

-----------------------------------------------------------------------------
(* The selection.                                                          *)

Torn == "torn" \in seen.clash

\* Where the preferences may be ahead of the account manager ...
Ahead == {"added", "read", "assign", "rekey", "rekeyed", "dial", "connect", "back", "backKeyed", "vault", "preferences"}

\* ... and where they may name an account that the network does not have.
Astray == {"default", "added", "password", "decrypt", "rekey", "rekeyed", "vault"}

\* The places of which the invariant says something.
Telling == Ahead \cup Astray \cup {"point", "encrypt", "switch"}

USE DEF Ahead, Astray, Telling

Chosen == mem.key # None \/ session \/ \E c \in Calls : call[c].op \in Selecting /\ call[c].pc \notin {"verify", "session"}

ReadFollows(k) ==
  /\ k.pc # "point"
  /\ k.pc = "assign" => k.list = accounts
  /\ k.pc \in {"read", "assign"} => k.index = prefs.active /\ (Torn \/ Valid)
  /\ k.pc \in {"added", "read", "assign"} /\ k.op \in Restoring => ~Torn
  /\ k.pc = "added" => Len(mem.list) > 0 /\ mem.list[Len(mem.list)].net = prefs.net
  /\ k.pc = "added" /\ k.op \in Restoring =>
       mem.list[Len(mem.list)].index = 0 /\ (Valid => prefs.active = Len(mem.list))
  /\ k.pc \in {"encrypt", "default"} => mem.list = <<>> /\ (mem.key = None => ~session)

SwitchFollows(c, k) ==
  /\ k.op = "switchAccount" /\ k.pc = "switch" => k.index \in On(mem.list, k.arg)
  /\ k.op = "switchAccount" /\ k.pc \in {"rekey", "rekeyed", "dial", "connect"} => k.index = prefs.active
  /\ k.op = "switchAccount" /\ k.pc \in {"rekey", "rekeyed"} => Valid
  /\ k.pc \in {"back", "backKeyed"} => k.prev.active = prefs.active
  /\ \/ k.pc \in {"rekey", "rekeyed", "dial", "connect"}
     \/ k.op \in Switching /\ k.pc \in {"added", "read", "assign"} /\ k.then = "dial"
     => Torn \/ k.prev.active \in On(mem.list, k.prev.net)

SelectionHolds ==
  /\ mem.list = accounts /\ Twinless(accounts)
  /\ mem.active = prefs.active \/ Torn \/ Some(Ahead)
  /\ vault # None /\ Chosen => Torn \/ Valid \/ Some(Astray)
  /\ \A c \in Calls : ReadFollows(call[c]) /\ SwitchFollows(c, call[c])

\* A call elsewhere has nothing to follow.
LEMMA Elsewhere ==
  ASSUME NEW c, NEW k, k.pc \notin Telling
  PROVE  ReadFollows(k) /\ SwitchFollows(c, k)
BY DEF ReadFollows, SwitchFollows

\* So does one that goes elsewhere.
LEMMA ElsewhereNext ==
  ASSUME NEW c \in Calls, call'[c].pc \notin Telling
  PROVE  ReadFollows(call[c])' /\ SwitchFollows(c, call[c])'
BY DEF ReadFollows, SwitchFollows

\* A call that runs with a vault, and is past its password, has made its choice.
LEMMA RunningChose ==
  ASSUME KeysHold, SelectionHolds, NEW c \in Calls, call[c].op \in Selecting,
         call[c].pc \notin {"encrypt", "verify", "session"}
  PROVE  vault # None /\ (Torn \/ Valid \/ Some(Astray))
BY DEF KeysHold, CallKeys, SelectionHolds, Chosen

\* A call that selects, and is no restore, is alone at the places that tell.
LEMMA SwitchTellsAlone ==
  ASSUME Typed, KeysHold, NetsHold, NEW c \in Calls, CallMoves(c), call[c].op \in Selecting \ Restoring
  PROVE  /\ \A d \in Calls \ {c} : call[d].pc \notin Telling /\ call'[d] = call[d] /\ call[d].op \notin Selecting
         /\ \A d \in Calls \ {c} : ReadFollows(call[d])' /\ SwitchFollows(d, call[d])'
<1>1. ASSUME NEW d \in Calls \ {c} PROVE call[d].pc \notin Telling /\ call[d].op \notin Selecting
  <2>1. call[d].op # "logout" /\ Placed(call[d])
    BY DEF KeysHold, KeysApart, Typed
  <2>2. QED
    BY <2>1, SwitchAlone DEF Placed
<1>2. \A d \in Calls \ {c} : call'[d] = call[d]
  BY DEF CallMoves
<1>3. QED
  BY <1>1, <1>2, ElsewhereNext

\* So what holds of it holds of all: its step keeps the invariant if it does for its own call.
LEMMA SwitchStep ==
  ASSUME Typed, KeysHold, NetsHold, NEW c \in Calls, CallMoves(c), call[c].op \in Selecting \ Restoring,
         mem'.list = accounts', Twinless(accounts'),
         mem'.active = prefs'.active \/ Torn' \/ call'[c].pc \in Ahead,
         vault' # None /\ Chosen' => Torn' \/ Valid' \/ call'[c].pc \in Astray,
         ReadFollows(call[c])', SwitchFollows(c, call[c])'
  PROVE  SelectionHolds'
<1>1. \A d \in Calls : ReadFollows(call[d])' /\ SwitchFollows(d, call[d])'
  BY SwitchTellsAlone
<1>2. (call'[c].pc \in Ahead => Some(Ahead)') /\ (call'[c].pc \in Astray => Some(Astray)')
  BY DEF Some
<1>3. QED
  BY <1>1, <1>2 DEF SelectionHolds

\* What the place of a call that selects tells of the preferences.
LEMMA SwitchIsAt ==
  ASSUME Typed, Shapes, KeysHold, NetsHold, SelectionHolds, NEW c \in Calls, CallMoves(c),
         call[c].op \in Selecting \ Restoring
  PROVE  /\ call[c].pc \notin Ahead => Torn \/ mem.active = prefs.active
         /\ call[c].pc \notin Astray \cup {"encrypt"} => vault # None /\ (Torn \/ Valid)
<1>1. Some(Ahead) => call[c].pc \in Ahead
  BY SwitchTellsAlone DEF Some
<1>2. Some(Astray) => call[c].pc \in Astray
  BY SwitchTellsAlone DEF Some
<1>3. call[c].pc \notin {"verify", "session"}
  BY DEF Shapes, CallOK
<1>4. call[c].pc \notin Ahead => Torn \/ mem.active = prefs.active
  BY <1>1 DEF SelectionHolds
<1>5. call[c].pc # "encrypt" => vault # None /\ (Torn \/ Valid \/ Some(Astray))
  BY <1>3, RunningChose
<1>6. QED
  BY <1>2, <1>4, <1>5

\* A step that leaves what is chosen, and everyone's place, where they are.
Still(c) ==
  /\ vault' = vault /\ accounts' = accounts /\ mem' = mem
  /\ prefs'.net = prefs.net /\ prefs'.active = prefs.active /\ ("torn" \in seen'.clash <=> "torn" \in seen.clash)
  /\ session' => session \/ (call[c].op \in Selecting /\ call[c].pc \notin {"encrypt", "verify", "session"})
  /\ call[c].pc \notin Telling \ {"default"} /\ call'[c].pc \notin Telling
  /\ call'[c].op \in Selecting /\ call'[c].pc \notin {"verify", "session"} =>
       call[c].op \in Selecting /\ call[c].pc \notin {"verify", "session"}
  /\ call[c].pc = "default" => ~Chosen'

\* Such a step keeps the selection.
LEMMA StillFollows ==
  ASSUME Typed, Shapes, KeysHold, NetsHold, SelectionHolds, NEW c \in Calls, CallMoves(c), Still(c)
  PROVE  SelectionHolds'
<1> USE DEF Still, CallMoves
<1>1. Some(Ahead) => Some(Ahead)'
  BY DEF Some
<1>2. call[c].pc # "default" => (Some(Astray) => Some(Astray)')
  BY DEF Some
<1>3. Chosen' /\ vault # None => Chosen
  BY DEF Chosen
<1>4. Torn' <=> Torn
  BY DEF Torn
<1>5. Valid' <=> Valid
  BY DEF Valid, On
<1>6. vault' # None /\ Chosen' => Torn' \/ Valid' \/ Some(Astray)'
  BY <1>2, <1>3, <1>4, <1>5 DEF SelectionHolds
<1>7. ASSUME NEW d \in Calls PROVE ReadFollows(call[d])' /\ SwitchFollows(d, call[d])'
  <2>1. CASE d = c
    BY <2>1, ElsewhereNext
  <2>2. CASE d # c
    <3>1. call'[d] = call[d] /\ ReadFollows(call[d]) /\ SwitchFollows(d, call[d])
      BY <2>2 DEF SelectionHolds
    <3>3. call[d].pc \in {"encrypt", "default"} => (mem.key = None => ~session')
      <4>1. CASE call[c].op \in Selecting
        <5>1. call[d].pc \notin {"encrypt", "default"}
          <6>1. CASE call[c].op \in Restoring
            BY <6>1, RestoreAlone
          <6>2. CASE call[c].op \notin Restoring
            BY <2>2, <4>1, <6>2, SwitchAlone
          <6>3. QED
            BY <6>1, <6>2
        <5>2. QED
          BY <5>1
      <4>2. CASE call[c].op \notin Selecting
        BY <3>1, <4>2 DEF ReadFollows
      <4>3. QED
        BY <4>1, <4>2
    <3>4. ReadFollows(call[d])'
      BY <1>4, <1>5, <3>1, <3>3 DEF ReadFollows
    <3>5. SwitchFollows(d, call[d])'
      BY <1>4, <1>5, <3>1 DEF SwitchFollows, On
    <3>6. QED
      BY <3>4, <3>5
  <2>3. QED
    BY <2>1, <2>2
<1>8. QED
  BY <1>1, <1>4, <1>5, <1>6, <1>7 DEF SelectionHolds

\* The steps that stand still.
LEMMA StillSteps ==
  ASSUME Typed, Shapes, KeysHold, NetsHold, SelectionHolds, NEW c \in Calls,
         \/ Keep(c) \/ BackedUp(c) \/ Verified(c) \/ Failed(c) \/ Counted(c) \/ Again(c) \/ Redial(c)
         \/ ForgetPassword(c)
         \/ (CreateDefault(c) \/ DeriveNext(c)) /\ mem.key = None
  PROVE  SelectionHolds'
<1>0. CallMoves(c) /\ Placed(call[c]) /\ CallOK(call[c]) /\ ReadFollows(call[c])
  <2>1. Step(c)
    BY DEF Step
  <2>2. QED
    BY <2>1, StepMoves DEF Typed, Shapes, SelectionHolds
<1>1. ASSUME Still(c) PROVE SelectionHolds'
  BY <1>0, <1>1, StillFollows
<1>2. Ends(c) => call'[c].op = "none" /\ call'[c].pc = "idle"
  BY DEF Ends, Idle
<1>3. "torn" \in seen'.clash <=> "torn" \in seen.clash
  <2>1. Step(c) /\ ~Decrypted(c) /\ ~Connect(c)
    BY KeepIs, BackedUpIs, PasswordIs, AgainIs, RedialIs, ForgetPasswordIs, CreateDefaultIs, DeriveNextIs, DecryptedIs,
       ConnectIs DEF Step
  <2>2. QED
    BY <2>1, StepClash
<1> USE DEF Still
<1>4. CASE Keep(c)
  BY <1>0, <1>1, <1>2, <1>3, <1>4, KeepIs DEF Comes, Placed
<1>5. CASE BackedUp(c)
  BY <1>0, <1>1, <1>2, <1>3, <1>5, BackedUpIs DEF KeepsStored
<1>6. CASE Verified(c) \/ Failed(c) \/ Counted(c)
  <2>1. /\ call[c].pc \in {"verify", "count"}
        /\ Ends(c) \/ Comes(c, "session") \/ (Comes(c, "count") /\ call'[c].op \notin Selecting)
        /\ vault' = vault /\ accounts' = accounts /\ mem' = mem /\ prefs' = prefs /\ dialled' = dialled /\ session' = session
    <3>1. CASE Verified(c)
      <4>1. call[c].pc = "verify" /\ call'[c].pc = "session"
        BY <1>0, <3>1 DEF Verified, At, Goto, Shapes, CallOK
      <4>2. QED
        BY <3>1, <4>1, PasswordIs DEF Comes
    <3>2. CASE Failed(c)
      <4>1. call[c].op = "guess" /\ call[c].pc = "verify" /\ call'[c].pc = "count"
        BY <1>0, <3>2 DEF Failed, At, Shapes, CallOK
      <4>2. QED
        BY <3>2, <4>1, PasswordIs DEF Comes
    <3>3. CASE Counted(c)
      <4>1. call[c].pc = "count"
        BY <3>3 DEF Counted
      <4>2. QED
        BY <3>3, <4>1, PasswordIs
    <3>4. QED
      BY <1>6, <3>1, <3>2, <3>3
  <2>2. QED
    BY <1>1, <1>2, <1>3, <2>1 DEF Comes
<1>7. CASE Again(c)
  BY <1>0, <1>1, <1>3, <1>7, AgainIs DEF KeepsStored, Comes, Placed
<1>8. CASE Redial(c)
  BY <1>0, <1>1, <1>2, <1>3, <1>8, RedialIs DEF KeepsStored, Placed
<1>9. CASE ForgetPassword(c)
  BY <1>1, <1>2, <1>3, <1>9, ForgetPasswordIs
<1>10. CASE DeriveNext(c) /\ mem.key = None
  <2>1. session' = session /\ call[c].pc = "derive"
    BY <1>10, DeriveNextIs
  <2>2. Ends(c) /\ mem' = mem /\ accounts' = accounts /\ vault' = vault /\ prefs' = prefs /\ dialled' = dialled
    BY <1>10, DeriveNextIs DEF Pushes
  <2>3. QED
    BY <1>0, <1>1, <1>2, <1>3, <2>1, <2>2
<1>11. CASE CreateDefault(c) /\ mem.key = None
  <2>1. session' = session /\ call[c].pc = "default"
    BY <1>11, CreateDefaultIs
  <2>2. Ends(c) /\ mem' = mem /\ accounts' = accounts /\ vault' = vault /\ prefs' = prefs /\ dialled' = dialled
    BY <1>11, CreateDefaultIs DEF Pushes
  <2>3. ~session /\ call[c].op \in Making
    BY <1>0, <1>11, <2>1 DEF ReadFollows, Placed
  <2>4. \A d \in Calls \ {c} : call'[d].op \notin Selecting
    BY <1>0, <2>3, SwitchTellsAlone
  <2>5. ~Chosen'
    BY <1>2, <1>11, <2>1, <2>2, <2>3, <2>4 DEF Chosen
  <2>6. QED
    BY <1>0, <1>1, <1>2, <1>3, <2>1, <2>2, <2>5
<1>12. QED
  BY <1>4, <1>5, <1>6, <1>7, <1>8, <1>9, <1>10, <1>11

\* What a list becomes with one more account.
LEMMA AppendIs ==
  ASSUME NEW S, NEW list \in Seq(S), NEW a \in S
  PROVE  LET more == Append(list, a) IN
           /\ Len(more) = Len(list) + 1 /\ Len(more) > 0 /\ more[Len(more)] = a
           /\ Twinless(list) /\ (\A i \in DOMAIN list : list[i] # a) => Twinless(more)
           /\ \A net : \A i \in On(list, net) : i \in On(more, net)
           /\ \A net : \A i \in On(more, net) : i \in On(list, net) \/ i = Len(more)
<1> DEFINE more == Append(list, a)
<1>1. Len(more) = Len(list) + 1 /\ Len(more) > 0 /\ more[Len(more)] = a /\ DOMAIN more = 1..Len(list) + 1
      /\ DOMAIN list = 1..Len(list) /\ Len(list) \in Nat /\ \A i \in DOMAIN list : more[i] = list[i]
  OBVIOUS
<1> HIDE DEF more
<1>2. ASSUME Twinless(list), \A i \in DOMAIN list : list[i] # a PROVE Twinless(more)
  <2> SUFFICES ASSUME NEW i \in DOMAIN more, NEW j \in DOMAIN more, more[i] = more[j] PROVE i = j
    BY DEF Twinless
  <2>1. (i \in DOMAIN list \/ i = Len(more)) /\ (j \in DOMAIN list \/ j = Len(more))
    BY <1>1
  <2>2. QED
    BY <1>1, <1>2, <2>1 DEF Twinless
<1>3. \A net : \A i \in On(list, net) : i \in On(more, net)
  BY <1>1 DEF On
<1>4. \A net : \A i \in On(more, net) : i \in On(list, net) \/ i = Len(more)
  BY <1>1 DEF On
<1>5. QED
  BY <1>1, <1>2, <1>3, <1>4 DEF more

\* The accounts are read once more, or for the first time.
LEMMA SwitchReads ==
  ASSUME Typed, Shapes, KeysHold, NetsHold, SelectionHolds, NEW c \in Calls, call[c].op \in Selecting \ Restoring, Read(c)
  PROVE  SelectionHolds'
<1>0. CallMoves(c) /\ Placed(call[c]) /\ ReadFollows(call[c]) /\ SwitchFollows(c, call[c])
  BY StepMoves DEF Step, Typed, SelectionHolds
<1>1. Torn' <=> Torn
  BY StepClash, DecryptedIs, ConnectIs, ReadIs DEF Step, Torn
<1>2. /\ call[c].pc \in {"read", "reread"} /\ Comes(c, "assign") /\ KeepsArg(c)
      /\ call'[c].list = accounts /\ call'[c].then = call[c].then
      /\ call'[c].index = IF call[c].pc = "reread" THEN prefs.active ELSE call[c].index
      /\ KeepsStored /\ mem' = mem /\ prefs' = prefs /\ dialled' = dialled
  BY ReadIs
<1>3. Torn \/ Valid
  BY <1>0, <1>2, SwitchIsAt DEF ReadFollows
<1>4. call'[c].index = prefs.active
  BY <1>0, <1>2 DEF ReadFollows
<1>5. (Valid' <=> Valid) /\ mem'.list = accounts' /\ Twinless(accounts')
  BY <1>2 DEF Valid, On, SelectionHolds, KeepsStored
<1>6. ReadFollows(call[c])'
  BY <1>1, <1>2, <1>3, <1>4, <1>5, <1>0 DEF ReadFollows, Comes, KeepsStored
<1>7. SwitchFollows(c, call[c])'
  BY <1>0, <1>1, <1>2 DEF SwitchFollows, Comes, KeepsArg, On, Placed
<1>8. QED
  BY <1>0, <1>1, <1>2, <1>3, <1>5, <1>6, <1>7, SwitchStep DEF Comes

\* The list that was read is the one that is there.
LEMMA SwitchAssigns ==
  ASSUME Typed, Shapes, KeysHold, NetsHold, SelectionHolds, NEW c \in Calls, call[c].op \in Selecting \ Restoring, Assign(c)
  PROVE  SelectionHolds'
<1>0. CallMoves(c) /\ Placed(call[c]) /\ ReadFollows(call[c]) /\ SwitchFollows(c, call[c]) /\ CallOK(call[c])
  BY StepMoves DEF Step, Typed, SelectionHolds, Shapes
<1>1. Torn' <=> Torn
  BY StepClash, DecryptedIs, ConnectIs, AssignIs DEF Step, Torn
<1>2. call[c].pc = "assign" /\ call[c].list = accounts /\ accounts \in Seq(AccountRecords) /\ Twinless(accounts)
  BY <1>0, AssignIs DEF ReadFollows, SelectionHolds, Typed
<1>3. Deduped(call[c].list) = call[c].list
  BY <1>2, DedupedIs
<1>4. /\ MemIs(mem.key, mem.net, call[c].list, call[c].index) /\ accounts' = accounts /\ Arrives(c)
      /\ vault' = vault /\ session' = session /\ prefs' = prefs /\ dialled' = dialled
  BY <1>3, AssignIs
<1>5. call[c].index = prefs.active /\ (Torn \/ Valid)
  BY <1>0, <1>2 DEF ReadFollows
<1>6. (Valid' <=> Valid) /\ mem'.list = accounts' /\ Twinless(accounts') /\ mem'.active = prefs'.active
  BY <1>2, <1>4, <1>5 DEF Valid, On, SelectionHolds, MemIs
<1>7. call'[c].pc \notin Telling \ {"dial"}
  BY <1>4, ArrivesCalmly
<1>8. ReadFollows(call[c])'
  BY <1>7 DEF ReadFollows
<1>9. SwitchFollows(c, call[c])'
  <2>1. CASE call'[c].pc # "dial"
    BY <1>7, <2>1 DEF SwitchFollows
  <2>2. CASE call'[c].pc = "dial"
    <3>1. call[c].then = "dial" /\ KeepsArg(c) /\ KeepsIndex(c) /\ Comes(c, "dial")
      BY <1>4, <2>2 DEF Arrives, Ends, Idle, Comes
    <3>2. call[c].op \in Switching
      BY <1>0, <1>2, <3>1 DEF Placed
    <3>3. Torn \/ call[c].prev.active \in On(mem.list, call[c].prev.net)
      BY <1>0, <1>2, <3>1, <3>2 DEF SwitchFollows
    <3>4. mem'.list = mem.list
      BY <1>2, <1>4 DEF MemIs, SelectionHolds
    <3>5. QED
      BY <1>1, <1>4, <1>5, <2>2, <3>1, <3>3, <3>4 DEF SwitchFollows, KeepsArg, KeepsIndex, On
  <2>3. QED
    BY <2>1, <2>2
<1>10. QED
  BY <1>0, <1>1, <1>5, <1>6, <1>8, <1>9, SwitchStep

\* The account that was made is the one that is chosen.
LEMMA SwitchAdded ==
  ASSUME Typed, Shapes, KeysHold, NetsHold, SelectionHolds, NEW c \in Calls, call[c].op \in Selecting \ Restoring, Added(c)
  PROVE  SelectionHolds'
<1>0. CallMoves(c) /\ Placed(call[c]) /\ ReadFollows(call[c]) /\ SwitchFollows(c, call[c])
  BY StepMoves DEF Step, Typed, SelectionHolds
<1>1. Torn' <=> Torn
  BY StepClash, DecryptedIs, ConnectIs, AddedIs DEF Step, Torn
<1>2. /\ call[c].pc = "added" /\ Comes(c, "read") /\ KeepsArg(c) /\ KeepsThen(c)
      /\ call'[c].index = Len(mem.list)
      /\ MemIs(mem.key, mem.net, mem.list, Len(mem.list)) /\ PrefsAre(prefs.net, Len(mem.list))
      /\ KeepsStored /\ dialled' = dialled
  BY AddedIs
<1>3. Len(mem.list) \in On(mem.list, prefs.net)
  <2>1. mem.list \in Seq(AccountRecords)
    BY DEF Typed, MemRecords
  <2>2. QED
    BY <1>0, <1>2, <2>1 DEF ReadFollows, On
<1>4. Valid' /\ mem'.list = accounts' /\ Twinless(accounts') /\ mem'.active = prefs'.active
  BY <1>2, <1>3 DEF Valid, On, SelectionHolds, KeepsStored, MemIs, PrefsAre
<1>6. ReadFollows(call[c])'
  BY <1>2, <1>4, <1>0 DEF ReadFollows, Comes, KeepsStored, PrefsAre
<1>7. SwitchFollows(c, call[c])'
  BY <1>0, <1>1, <1>2 DEF SwitchFollows, Comes, KeepsArg, KeepsThen, MemIs, On, Placed
<1>8. QED
  BY <1>0, <1>4, <1>6, <1>7, SwitchStep

\* A creation has no list yet.
LEMMA SwitchEncrypted ==
  ASSUME Typed, Shapes, KeysHold, NetsHold, SelectionHolds, NEW c \in Calls, Encrypted(c)
  PROVE  SelectionHolds'
<1>0. CallMoves(c) /\ Placed(call[c]) /\ ReadFollows(call[c])
  BY StepMoves DEF Step, Typed, SelectionHolds
<1>2. /\ call[c].pc = "encrypt" /\ Comes(c, "default") /\ KeepsArg(c) /\ KeepsThen(c) /\ KeepsIndex(c)
      /\ mem'.key = mem.key /\ mem'.net = mem.net /\ mem'.list = mem.list /\ mem'.active = mem.active
      /\ accounts' = accounts /\ session' = session /\ prefs' = prefs /\ dialled' = dialled
  BY EncryptedIs
<1>3. call[c].op \in Selecting \ Restoring
  BY <1>0, <1>2 DEF Placed
<1>1. Torn' <=> Torn
  BY <1>2, StepClash, DecryptedIs, ConnectIs DEF Step, Torn
<1>4. Torn \/ mem.active = prefs.active
  BY <1>0, <1>2, <1>3, SwitchIsAt
<1>5. mem'.list = accounts' /\ Twinless(accounts') /\ (Torn' \/ mem'.active = prefs'.active)
  BY <1>1, <1>2, <1>4 DEF SelectionHolds
<1>6. ReadFollows(call[c])'
  BY <1>0, <1>2 DEF ReadFollows, Comes
<1>7. SwitchFollows(c, call[c])'
  BY <1>2 DEF SwitchFollows, Comes
<1>8. QED
  BY <1>0, <1>2, <1>3, <1>5, <1>6, <1>7, SwitchStep DEF Comes

\* add(): an account that the list does not hold.
LEMMA SwitchPushes ==
  ASSUME Typed, Shapes, KeysHold, NetsHold, SelectionHolds, NEW c \in Calls, CreateDefault(c) \/ DeriveNext(c), mem.key # None
  PROVE  SelectionHolds'
<1>0. CallMoves(c) /\ Placed(call[c]) /\ ReadFollows(call[c])
  BY StepMoves DEF Step, Typed, SelectionHolds
<1>1. call[c].pc \in {"default", "derive"} /\ prefs' = prefs
  BY CreateDefaultIs, DeriveNextIs
<1>2. call[c].op \in Selecting \ Restoring /\ (call[c].op \in Switching => FALSE)
  BY <1>0, <1>1 DEF Placed
<1>3. mem.list \in Seq(AccountRecords) /\ mem.key \in KeyRecords /\ prefs.net \in Networks
  BY DEF Typed, MemRecords, PrefRecords
<1>4. PICK index \in Nat, then \in {"keep", "again"} :
         /\ Pushes(c, Derive(mem.key, mem.net, index), then)
         /\ \A i \in On(mem.list, prefs.net) : mem.list[i].index # index
  <2>1. CASE DeriveNext(c)
    <3>1. Pushes(c, Derive(mem.key, mem.net, NextIndex(mem.list, prefs.net)), "again")
      BY <2>1, DeriveNextIs
    <3>2. QED
      BY <1>3, <3>1, NextIndexIs
  <2>2. CASE CreateDefault(c)
    <3>1. Pushes(c, Derive(mem.key, mem.net, 0), "keep") /\ mem.list = <<>>
      BY <1>0, <2>2, CreateDefaultIs DEF ReadFollows
    <3>2. QED
      BY <3>1 DEF On
  <2>3. QED
    BY <2>1, <2>2
<1> DEFINE a == Derive(mem.key, mem.net, index)
<1>5. mem.net = prefs.net
  <2>1. ~Some(Moving)
    BY <1>0, <1>1, <1>2, SwitchAlone DEF Some
  <2>2. QED
    BY <2>1 DEF NetsHold, NetsAgree
<1>6. a \in AccountRecords /\ a.net = prefs.net /\ a.index = index
  BY <1>3, <1>5, DeriveIs DEF Derive, Networks
<1> HIDE DEF a
<1>7. \A i \in DOMAIN mem.list : mem.list[i] # a
  BY <1>4, <1>6 DEF On
<1> DEFINE more == Append(mem.list, a)
<1>8. mem'.list = more /\ accounts' = more /\ call'[c].pc = "added" /\ call'[c].then # "dial" /\ call'[c].op = call[c].op
  BY <1>4 DEF Pushes, MemIs, Comes, a
<1>9. Twinless(more) /\ Len(more) > 0 /\ more[Len(more)] = a
  BY <1>3, <1>6, <1>7, AppendIs DEF SelectionHolds
<1> HIDE DEF more
<1>10. ReadFollows(call[c])'
  BY <1>1, <1>2, <1>6, <1>8, <1>9 DEF ReadFollows
<1>11. SwitchFollows(c, call[c])'
  BY <1>8 DEF SwitchFollows
<1>12. QED
  BY <1>0, <1>2, <1>8, <1>9, <1>10, <1>11, SwitchStep

\* A switch to an account of the network, or the first step of any other.
LEMMA SwitchSwitches ==
  ASSUME Typed, Shapes, KeysHold, NetsHold, SelectionHolds, NEW c \in Calls, Switch(c)
  PROVE  SelectionHolds'
<1>0. CallMoves(c) /\ Placed(call[c]) /\ SwitchFollows(c, call[c]) /\ call[c].pc = "switch"
  BY StepMoves, SwitchIs DEF Step, Typed, SelectionHolds
<1>1. Torn' <=> Torn
  BY StepClash, DecryptedIs, ConnectIs, SwitchIs DEF Step, Torn
<1>2. call[c].op \in Selecting \ Restoring /\ call[c].op \in Switching
  BY <1>0 DEF Placed
<1>3. Torn \/ Valid
  BY <1>0, <1>2, SwitchIsAt
<1>4. KeepsStored /\ mem' = mem /\ mem'.list = accounts' /\ Twinless(accounts')
  BY SwitchIs DEF KeepsStored, SelectionHolds
<1>5. CASE call[c].op = "switchAccount" /\ call[c].arg = prefs.net
  <2>1. /\ Comes(c, "read") /\ KeepsIndex(c) /\ call'[c].then = "done" /\ PrefsAre(prefs.net, call[c].index)
    BY <1>5, SwitchIs
  <2>2. Valid'
    BY <1>0, <1>4, <1>5, <2>1 DEF SwitchFollows, Valid, On, PrefsAre
  <2>3. ReadFollows(call[c])'
    BY <1>2, <2>1, <2>2 DEF ReadFollows, Comes, KeepsIndex, PrefsAre
  <2>4. SwitchFollows(c, call[c])'
    BY <2>1 DEF SwitchFollows, Comes
  <2>5. QED
    BY <1>0, <1>2, <1>4, <2>1, <2>2, <2>3, <2>4, SwitchStep DEF Comes
<1>6. CASE ~(call[c].op = "switchAccount" /\ call[c].arg = prefs.net)
  <2>1. /\ Comes(c, "rekey") /\ call'[c].prev = prefs /\ KeepsIndex(c)
        /\ PrefsAre(call[c].arg, IF call[c].op = "switchAccount" THEN call[c].index ELSE prefs.active)
    BY <1>6, SwitchIs
  <2>2. ReadFollows(call[c])'
    BY <2>1 DEF ReadFollows, Comes
  <2>3. call[c].op = "switchAccount" => Valid' /\ call'[c].index = prefs'.active
    BY <1>0, <1>4, <2>1 DEF SwitchFollows, Valid, On, PrefsAre, KeepsIndex
  <2>4. SwitchFollows(c, call[c])'
    BY <1>1, <1>3, <1>4, <2>1, <2>3 DEF SwitchFollows, Comes, Valid, On
  <2>5. QED
    BY <1>0, <1>2, <1>4, <2>1, <2>2, <2>4, SwitchStep DEF Comes
<1>7. QED
  BY <1>5, <1>6

\* The rollback names what the switch found.
LEMMA SwitchRollsBack ==
  ASSUME Typed, Shapes, KeysHold, NetsHold, SelectionHolds, NEW c \in Calls, CallMoves(c), RollsBack(c), KeepsStored, mem' = mem,
         call[c].pc \in {"dial", "connect"}, Torn' <=> Torn
  PROVE  SelectionHolds'
<1>0. Placed(call[c]) /\ SwitchFollows(c, call[c])
  BY DEF Typed, SelectionHolds
<1>1. call[c].op \in Selecting \ Restoring
  BY <1>0 DEF Placed
<1>2. /\ PrefsAre(call[c].prev.net, call[c].prev.active) /\ Comes(c, "back") /\ KeepsArg(c)
  BY DEF RollsBack
<1>3. Torn' \/ Valid'
  BY <1>0, <1>2 DEF SwitchFollows, Valid, On, PrefsAre
<1>4. mem'.list = accounts' /\ Twinless(accounts')
  BY DEF KeepsStored, SelectionHolds
<1>5. ReadFollows(call[c])'
  BY <1>2 DEF ReadFollows, Comes
<1>6. SwitchFollows(c, call[c])'
  BY <1>2 DEF SwitchFollows, Comes, KeepsArg, PrefsAre
<1>7. QED
  BY <1>1, <1>2, <1>3, <1>4, <1>5, <1>6, SwitchStep DEF Comes

\* A switch dials and connects, with its account chosen; if it is overtaken then, the
\* account manager has not been told.
LEMMA SwitchDials ==
  ASSUME Typed, Shapes, KeysHold, NetsHold, SelectionHolds, NEW c \in Calls, Dial(c) \/ Connect(c)
  PROVE  SelectionHolds'
<1>0. CallMoves(c) /\ Placed(call[c]) /\ SwitchFollows(c, call[c])
  BY StepMoves DEF Step, Typed, SelectionHolds
<1> DEFINE Overtaken == Connect(c) /\ dialled # c
<1>1. call[c].pc \in {"dial", "connect"} /\ KeepsStored /\ mem' = mem
  BY DialIs, ConnectIs
<1>2. ~Overtaken => (Torn' <=> Torn)
  BY <1>1, StepClash, DecryptedIs DEF Step, Torn
<1>3. call[c].op \in Selecting \ Restoring /\ call[c].op \in Switching
  BY <1>0, <1>1 DEF Placed
<1>7. CASE Overtaken
  <2>1. Ends(c) /\ prefs' = prefs /\ Torn'
    BY <1>7, ConnectIs DEF Torn
  <2>2. call'[c].pc \notin Telling
    BY <2>1 DEF Ends, Idle
  <2>3. mem'.list = accounts' /\ Twinless(accounts')
    BY <1>1 DEF KeepsStored, SelectionHolds
  <2>4. ReadFollows(call[c])' /\ SwitchFollows(c, call[c])'
    BY <2>2, ElsewhereNext
  <2>5. QED
    BY <1>0, <1>3, <2>1, <2>3, <2>4, SwitchStep
<1>4. CASE ~Overtaken /\ RollsBack(c)
  BY <1>0, <1>1, <1>2, <1>4, SwitchRollsBack
<1>5. CASE ~Overtaken /\ ~RollsBack(c)
  <2>1. /\ prefs' = prefs
        /\ \/ Comes(c, "connect") /\ KeepsArg(c) /\ KeepsIndex(c) /\ dialled' = c
           \/ /\ Comes(c, "read") /\ KeepsArg(c) /\ call'[c].then = "done"
              /\ call'[c].index = IF call[c].op = "switchNetwork" THEN prefs.active ELSE call[c].index
    BY <1>1, <1>5, DialIs, ConnectIs
  <2>2. (Torn \/ Valid) /\ mem'.list = accounts' /\ Twinless(accounts') /\ (Valid' <=> Valid)
    BY <1>1, <1>3, <1>0, <2>1, SwitchIsAt DEF KeepsStored, SelectionHolds, Valid, On
  <2>3. call[c].op = "switchAccount" => call[c].index = prefs.active
    BY <1>0, <1>1 DEF SwitchFollows
  <2>4. ReadFollows(call[c])'
    BY <1>2, <1>3, <1>5, <2>1, <2>2, <2>3 DEF ReadFollows, Comes
  <2>5. SwitchFollows(c, call[c])'
    BY <1>0, <1>1, <1>2, <1>5, <2>1, <2>3 DEF SwitchFollows, Comes, KeepsArg, KeepsIndex, On
  <2>6. QED
    BY <1>0, <1>2, <1>3, <1>5, <2>1, <2>2, <2>4, <2>5, SwitchStep DEF Comes
<1>6. QED
  BY <1>4, <1>5, <1>7

\* The key of the network, and of the previous one after a rollback.
LEMMA SwitchKeys ==
  ASSUME Typed, Shapes, KeysHold, NetsHold, SelectionHolds, NEW c \in Calls,
         \/ Rekey(c) \/ Back(c) \/ BackKeyed(c) \/ (Rekeyed(c) /\ call[c].op # "switchNetwork")
  PROVE  SelectionHolds'
<1>0. CallMoves(c) /\ Placed(call[c]) /\ SwitchFollows(c, call[c])
  BY StepMoves DEF Step, Typed, SelectionHolds
<1>1. call[c].pc \in {"rekey", "rekeyed", "back", "backKeyed"}
  BY RekeyIs, RekeyedIs, BackIs, BackKeyedIs
<1>2. Torn' <=> Torn
  BY <1>1, StepClash, DecryptedIs, ConnectIs DEF Step, Torn
<1>3. call[c].op \in Selecting \ Restoring /\ call[c].op \in Switching
  BY <1>0, <1>1 DEF Placed
<1>4. mem.vault # None
  BY <1>1, <1>3, VaultIsThere
<1>5. /\ accounts' = accounts /\ mem'.list = mem.list /\ prefs' = prefs
      /\ \/ call[c].pc = "rekey" /\ Comes(c, "rekeyed") /\ KeepsIndex(c) /\ call'[c].prev = call[c].prev
         \/ call[c].pc = "rekeyed" /\ call[c].op # "switchNetwork" /\ Comes(c, "dial") /\ KeepsIndex(c) /\ call'[c].prev = call[c].prev
         \/ call[c].pc = "back" /\ Comes(c, "backKeyed") /\ call'[c].prev = call[c].prev
         \/ call[c].pc = "backKeyed" /\ Comes(c, "read") /\ call'[c].then = "redial" /\ call'[c].index = call[c].prev.active
  BY <1>4, RekeyIs, RekeyedIs, BackIs, BackKeyedIs DEF MemIs, KeepsStored, KeepsArg
<1>6. (Valid' <=> Valid) /\ mem'.list = accounts' /\ Twinless(accounts')
  BY <1>5 DEF SelectionHolds, Valid, On
<1>7. Torn \/ Valid \/ (call[c].pc = "rekey" /\ call'[c].pc = "rekeyed")
  <2>1. CASE call[c].pc = "rekeyed"
    BY <1>0, <1>3, <1>5, <2>1 DEF SwitchFollows
  <2>2. CASE call[c].pc \in {"back", "backKeyed"}
    BY <1>0, <1>3, <2>2, SwitchIsAt
  <2>3. QED
    BY <1>5, <2>1, <2>2 DEF Comes
<1>8. ReadFollows(call[c])'
  BY <1>0, <1>2, <1>3, <1>5, <1>6, <1>7 DEF ReadFollows, SwitchFollows, Comes
<1>9. SwitchFollows(c, call[c])'
  BY <1>0, <1>2, <1>5, <1>6 DEF SwitchFollows, Comes, KeepsIndex, On
<1>10. QED
  BY <1>0, <1>2, <1>3, <1>5, <1>6, <1>7, <1>8, <1>9, SwitchStep DEF Comes

\* The default account of the network a switch has come to.
LEMMA SwitchDefaults ==
  ASSUME Typed, Shapes, KeysHold, NetsHold, SelectionHolds, NEW c \in Calls, Rekeyed(c), call[c].op = "switchNetwork"
  PROVE  SelectionHolds'
<1>0. CallMoves(c) /\ Placed(call[c]) /\ Filled(call[c]) /\ SwitchFollows(c, call[c]) /\ call[c].pc = "rekeyed"
  BY StepMoves, RekeyedIs DEF Step, Typed, SelectionHolds
<1>1. Torn' <=> Torn
  BY <1>0, StepClash, DecryptedIs, ConnectIs DEF Step, Torn
<1>2. mem.net = prefs.net /\ prefs.net \in Networks /\ mem.list \in Seq(AccountRecords)
  BY <1>0 DEF NetsHold, Typed, PrefRecords, MemRecords
<1>3. Torn \/ call[c].prev.active \in On(mem.list, call[c].prev.net)
  BY <1>0 DEF SwitchFollows
<1> DEFINE key == Key(call[c].arg)
           a == Derive(key, mem.net, 0)
<1>4. Defaults(c, key, "dial")
  BY RekeyedIs
<1>5. key \in KeyRecords
  BY <1>0, KeyIs DEF Filled
<1>6. a \in AccountRecords /\ a.net = prefs.net /\ a.index = 0
  BY <1>2, <1>5, DeriveIs DEF Derive, Networks
<1> HIDE DEF a, key
<1>7. CASE Comes(c, "read")
  <2>1. /\ KeepsArg(c) /\ call'[c].then = "dial" /\ accounts' = accounts /\ call'[c].index = prefs'.active
        /\ mem'.list = mem.list /\ prefs'.net = prefs.net /\ prefs'.active \in On(mem.list, prefs.net)
    BY <1>4, <1>7 DEF Defaults, Comes, MemIs, PrefsAre
  <2>2. Valid' /\ mem'.list = accounts' /\ Twinless(accounts')
    BY <2>1 DEF Valid, On, SelectionHolds
  <2>3. ReadFollows(call[c])'
    BY <1>0, <1>7, <2>1, <2>2 DEF ReadFollows, Comes
  <2>4. SwitchFollows(c, call[c])'
    BY <1>1, <1>3, <1>7, <2>1 DEF SwitchFollows, Comes, KeepsArg, On
  <2>5. QED
    BY <1>0, <1>7, <2>2, <2>3, <2>4, SwitchStep DEF Comes
<1>8. CASE Comes(c, "added")
  <2> DEFINE more == Append(mem.list, a)
  <2>1. /\ KeepsArg(c) /\ call'[c].then = "dial" /\ accounts' = more /\ mem'.list = more /\ prefs' = prefs
        /\ \A i \in On(mem.list, prefs.net) : mem.list[i].index # 0
    BY <1>4, <1>8 DEF Defaults, Comes, MemIs, a
  <2>2. \A i \in DOMAIN mem.list : mem.list[i] # a
    BY <1>6, <2>1 DEF On
  <2>3. /\ Twinless(more) /\ Len(more) > 0 /\ more[Len(more)] = a
        /\ \A net : \A i \in On(mem.list, net) : i \in On(more, net)
    BY <1>2, <1>6, <2>2, AppendIs DEF SelectionHolds
  <2> HIDE DEF more
  <2>4. ReadFollows(call[c])'
    BY <1>0, <1>6, <1>8, <2>1, <2>3 DEF ReadFollows, Comes
  <2>5. SwitchFollows(c, call[c])'
    BY <1>1, <1>3, <1>8, <2>1, <2>3 DEF SwitchFollows, Comes, KeepsArg
  <2>6. QED
    BY <1>0, <1>8, <2>1, <2>3, <2>4, <2>5, SwitchStep DEF Comes
<1>9. QED
  BY <1>4, <1>7, <1>8 DEF Defaults

\* Beside a restore, only restores are at the places that tell.
LEMMA RestoresTell ==
  ASSUME Typed, KeysHold, NetsHold, NEW c \in Calls, call[c].op \in Restoring
  PROVE  \A d \in Calls : call[d].pc \in Telling => call[d].op \in Restoring /\ call[d].pc \in Reading \cup RestorePlaces
<1>1. ASSUME NEW d \in Calls, call[d].pc \in Telling
      PROVE  call[d].op \in Restoring /\ call[d].pc \in Reading \cup RestorePlaces
  <2>1. Placed(call[d]) /\ call[d].op # "logout"
    BY DEF Typed, KeysHold, KeysApart
  <2>2. QED
    BY <1>1, <2>1, RestoreAlone DEF Placed
<1>2. QED
  BY <1>1

\* The step of a restore keeps the invariant if it keeps what the restores read.
LEMMA RestoreStep ==
  ASSUME Typed, KeysHold, NetsHold, NEW c \in Calls, CallMoves(c), call[c].op \in Restoring,
         call'[c].op \in Restoring \/ call'[c].pc \notin Telling,
         call'[c].pc \notin {"rekey", "rekeyed", "dial", "connect", "back", "backKeyed", "encrypt", "default"},
         mem'.list = accounts', Twinless(accounts'),
         mem'.active = prefs'.active \/ Torn' \/ Some(Ahead)',
         vault' # None /\ Chosen' => Torn' \/ Valid' \/ Some(Astray)',
         ReadFollows(call[c])',
         \A d \in Calls \ {c} : call[d].op \in Restoring /\ call[d].pc \in Reading \cup RestorePlaces => ReadFollows(call[d])'
  PROVE  SelectionHolds'
<1>1. ASSUME NEW d \in Calls PROVE ReadFollows(call[d])' /\ SwitchFollows(d, call[d])'
  <2>1. CASE d = c
    <3>1. SwitchFollows(c, call[c])'
      BY DEF SwitchFollows
    <3>2. QED
      BY <2>1, <3>1
  <2>2. CASE d # c
    <3>1. call'[d] = call[d]
      BY <2>2 DEF CallMoves
    <3>2. CASE call[d].pc \notin Telling
      BY <3>1, <3>2, ElsewhereNext
    <3>3. CASE call[d].pc \in Telling
      <4>1. call[d].op \in Restoring /\ call[d].pc \in Reading \cup RestorePlaces
        BY <3>3, RestoresTell
      <4>2. SwitchFollows(d, call[d])'
        BY <3>1, <4>1 DEF SwitchFollows
      <4>3. QED
        BY <2>2, <4>1, <4>2
    <3>4. QED
      BY <3>2, <3>3
  <2>3. QED
    BY <2>1, <2>2
<1>2. QED
  BY <1>1 DEF SelectionHolds

\* What the other restores read stays so.
LEMMA RestoresKeep ==
  ASSUME SelectionHolds, NEW c \in Calls, NEW d \in Calls \ {c}, CallMoves(c),
         call[d].op \in Restoring, call[d].pc \in Reading \cup RestorePlaces,
         mem'.list = mem.list, accounts' = accounts, prefs'.net = prefs.net, prefs'.active = prefs.active,
         Torn' => Torn
  PROVE  ReadFollows(call[d])'
<1>1. ReadFollows(call[d]) /\ call'[d] = call[d] /\ (Valid' <=> Valid)
  BY DEF SelectionHolds, CallMoves, Valid, On
<1>2. QED
  BY <1>1 DEF ReadFollows

\* A restore reads the accounts, and the account that is chosen now.
LEMMA RestoreReads ==
  ASSUME Typed, Shapes, KeysHold, NetsHold, SelectionHolds, NEW c \in Calls, call[c].op \in Restoring,
         Read(c) \/ Assign(c)
  PROVE  SelectionHolds'
<1>0. CallMoves(c) /\ Placed(call[c]) /\ ReadFollows(call[c])
  BY StepMoves DEF Step, Typed, SelectionHolds
<1>1. call[c].pc \in {"read", "assign"} /\ call[c].then = "done"
  BY <1>0, ReadIs, AssignIs DEF Placed
<1>2. Torn' <=> Torn
  BY <1>1, StepClash, DecryptedIs, ConnectIs DEF Step, Torn
<1>3. accounts \in Seq(AccountRecords) /\ Twinless(accounts) /\ mem.list = accounts
  BY DEF Typed, SelectionHolds
<1>4. call[c].index = prefs.active /\ ~Torn /\ Valid
  BY <1>0, <1>1 DEF ReadFollows
<1>5. call[c].pc = "assign" => Deduped(call[c].list) = call[c].list /\ call[c].list = accounts
  BY <1>0, <1>3, DedupedIs DEF ReadFollows
<1>6. /\ mem'.list = mem.list /\ accounts' = accounts /\ prefs' = prefs
      /\ \/ Comes(c, "assign") /\ call'[c].list = accounts /\ call'[c].index = prefs.active
         \/ Ends(c) /\ mem'.active = prefs.active
  BY <1>1, <1>3, <1>4, <1>5, ReadIs, AssignIs DEF MemIs, KeepsStored, Arrives
<1>7. Valid' /\ mem'.list = accounts' /\ Twinless(accounts')
  BY <1>3, <1>4, <1>6 DEF Valid, On
<1>8. ReadFollows(call[c])'
  BY <1>2, <1>4, <1>6, <1>7 DEF ReadFollows, Comes, Ends, Idle
<1>9. mem'.active = prefs'.active \/ Some(Ahead)'
  BY <1>6 DEF Comes, Some
<1>10. \A d \in Calls \ {c} : call[d].op \in Restoring /\ call[d].pc \in Reading \cup RestorePlaces => ReadFollows(call[d])'
  BY <1>0, <1>2, <1>6, RestoresKeep
<1>11. /\ call'[c].op \in Restoring \/ call'[c].pc \notin Telling
       /\ call'[c].pc \notin {"rekey", "rekeyed", "dial", "connect", "back", "backKeyed", "encrypt", "default"}
  BY <1>6 DEF Comes, Ends, Idle
<1>12. QED
  BY <1>0, <1>7, <1>8, <1>9, <1>10, <1>11, RestoreStep

\* The restores that run have read the account that is chosen now, or will.
LEMMA RestoreAdded ==
  ASSUME Typed, Shapes, KeysHold, NetsHold, SelectionHolds, NEW c \in Calls, call[c].op \in Restoring, Added(c)
  PROVE  SelectionHolds'
<1>0. CallMoves(c) /\ Placed(call[c]) /\ ReadFollows(call[c])
  BY StepMoves DEF Step, Typed, SelectionHolds
<1>1. Torn' <=> Torn
  BY StepClash, DecryptedIs, ConnectIs, AddedIs DEF Step, Torn
<1>2. /\ call[c].pc = "added" /\ Comes(c, "read") /\ call'[c].index = Len(mem.list)
      /\ mem'.list = mem.list /\ mem'.active = Len(mem.list)
      /\ prefs'.net = prefs.net /\ prefs'.active = Len(mem.list) /\ accounts' = accounts
  BY AddedIs DEF MemIs, PrefsAre, KeepsStored
<1>3. mem.list \in Seq(AccountRecords)
  BY DEF Typed, MemRecords
<1>4. /\ ~Torn /\ Len(mem.list) \in On(mem.list, prefs.net) /\ (Valid => prefs.active = Len(mem.list))
      /\ Len(mem.list) > 0 /\ mem.list[Len(mem.list)].net = prefs.net /\ mem.list[Len(mem.list)].index = 0
  BY <1>0, <1>2, <1>3 DEF ReadFollows, On
<1>5. Valid' /\ mem'.list = accounts' /\ Twinless(accounts')
  BY <1>2, <1>4 DEF Valid, On, SelectionHolds
<1>6. ReadFollows(call[c])'
  BY <1>1, <1>2, <1>4, <1>5 DEF ReadFollows, Comes
<1>7. ASSUME NEW d \in Calls \ {c}, call[d].op \in Restoring, call[d].pc \in Reading \cup RestorePlaces
      PROVE  ReadFollows(call[d])'
  <2>1. ReadFollows(call[d]) /\ call'[d] = call[d]
    BY <1>0 DEF SelectionHolds, CallMoves
  <2>2. call[d].pc \in {"read", "assign"} => call[d].index = Len(mem.list)
    BY <1>4, <1>7, <2>1 DEF ReadFollows
  <2>3. QED
    BY <1>1, <1>2, <1>4, <1>5, <1>7, <2>1, <2>2 DEF ReadFollows
<1>8. QED
  BY <1>0, <1>2, <1>5, <1>6, <1>7, RestoreStep DEF Comes

\* A restore that comes to decrypt has still to choose.
LEMMA RestoreRestores ==
  ASSUME Typed, Shapes, KeysHold, NetsHold, SelectionHolds, NEW c \in Calls, Restore(c) \/ Unlocked(c)
  PROVE  SelectionHolds'
<1>0. CallMoves(c) /\ Placed(call[c]) /\ CallOK(call[c])
  BY StepMoves DEF Step, Typed, Shapes
<1>3. PICK pc \in {"password", "decrypt"} :
        /\ call[c].op \in Restoring /\ call[c].pc \in {"password", "session"} /\ Comes(c, pc)
        /\ mem'.list = mem.list /\ mem'.active = mem.active /\ prefs' = prefs /\ accounts' = accounts /\ vault' = vault
  <2>1. CASE Restore(c)
    <3>1. call[c].pc = "password" /\ call[c].op \in Restoring
      BY <1>0, <2>1, RestoreIs DEF Placed
    <3>2. mem.vault # None
      BY <3>1, VaultIsThere
    <3>3. MemIs(mem.key, prefs.net, mem.list, mem.active) /\ Comes(c, "decrypt") /\ KeepsStored /\ prefs' = prefs
      BY <2>1, <3>2, RestoreIs
    <3>4. QED
      BY <3>1, <3>3 DEF MemIs, KeepsStored
  <2>2. CASE Unlocked(c)
    <3>1. call[c].pc = "session"
      BY <2>2 DEF Unlocked
    <3>2. QED
      BY <1>0, <2>2, <3>1, PasswordIs DEF CallOK
  <2>3. QED
    BY <2>1, <2>2
<1>4. Torn' <=> Torn
  BY <1>3, StepClash, DecryptedIs, ConnectIs DEF Step, Torn
<1>5. mem'.list = accounts' /\ Twinless(accounts') /\ Some(Astray)' /\ (Some(Ahead) => Some(Ahead)')
  BY <1>0, <1>3 DEF SelectionHolds, Some, Comes, CallMoves
<1>6. mem'.active = prefs'.active \/ Torn' \/ Some(Ahead)'
  BY <1>3, <1>4, <1>5 DEF SelectionHolds
<1>7. ReadFollows(call[c])'
  BY <1>3 DEF ReadFollows, Comes
<1>8. \A d \in Calls \ {c} : call[d].op \in Restoring /\ call[d].pc \in Reading \cup RestorePlaces => ReadFollows(call[d])'
  BY <1>0, <1>3, <1>4, RestoresKeep
<1>9. QED
  BY <1>0, <1>3, <1>5, <1>6, <1>7, <1>8, RestoreStep DEF Comes

\* The account that a restore settles on, or makes.
LEMMA RestoreDefaults ==
  ASSUME Typed, Shapes, KeysHold, NetsHold, SelectionHolds, NEW c \in Calls, Decrypted(c)
  PROVE  SelectionHolds'
<1>0. CallMoves(c) /\ Placed(call[c]) /\ Filled(call[c]) /\ call[c].pc = "decrypt"
  BY StepMoves, DecryptedIs DEF Step, Typed
<1>1. ~Torn'
  BY DecryptedIs DEF Torn
<1>2. call[c].op \in Restoring
  BY <1>0 DEF Placed
<1>3. mem.net = prefs.net /\ prefs.net \in Networks /\ mem.list \in Seq(AccountRecords)
  <2>1. ~Some(Moving)
    BY <1>2, RestoreAlone DEF Some
  <2>2. NetsAgree
    BY <2>1 DEF NetsHold
  <2>3. QED
    BY <1>0, <2>2 DEF NetsAgree, Some, Typed, PrefRecords, MemRecords
<1> DEFINE key == Key(call[c].arg)
           a == Derive(key, mem.net, 0)
<1>4. Defaults(c, key, call[c].then)
  BY DecryptedIs
<1>5. key \in KeyRecords
  BY <1>0, KeyIs DEF Filled
<1>6. a \in AccountRecords /\ a.net = prefs.net /\ a.index = 0
  BY <1>3, <1>5, DeriveIs DEF Derive, Networks
<1> HIDE DEF a, key
<1>7. ASSUME NEW d \in Calls \ {c}, call[d].op \in Restoring, call[d].pc \in {"added", "read", "assign"}
      PROVE  /\ ReadFollows(call[d]) /\ ~Torn /\ call'[d] = call[d]
             /\ call[d].pc \in {"read", "assign"} => Valid
             /\ call[d].pc = "added" => /\ Len(mem.list) \in On(mem.list, prefs.net) /\ mem.list[Len(mem.list)].index = 0
  BY <1>0, <1>3, <1>7 DEF SelectionHolds, ReadFollows, CallMoves, On
<1>8. ASSUME NEW d \in Calls \ {c}, call[d].op \in Restoring, call[d].pc \in RestorePlaces \cup {"point"}
      PROVE  ReadFollows(call[d])'
  <2>1. call'[d] = call[d] /\ ReadFollows(call[d])
    BY <1>0, <1>8 DEF CallMoves, SelectionHolds
  <2>2. QED
    BY <1>8, <2>1 DEF ReadFollows
<1>9. CASE Comes(c, "read")
  <2>1. /\ accounts' = accounts /\ call'[c].index = prefs'.active
        /\ mem'.list = mem.list /\ prefs'.net = prefs.net /\ prefs'.active \in On(mem.list, prefs.net)
        /\ IF Valid THEN prefs'.active = prefs.active ELSE mem.list[prefs'.active].index = 0
    BY <1>4, <1>9 DEF Defaults, Comes, MemIs, PrefsAre
  <2>2. Valid' /\ mem'.list = accounts' /\ Twinless(accounts')
    BY <2>1 DEF Valid, On, SelectionHolds
  <2>3. ReadFollows(call[c])'
    BY <1>1, <1>9, <2>1, <2>2 DEF ReadFollows, Comes
  <2>4. ASSUME NEW d \in Calls \ {c}, call[d].op \in Restoring, call[d].pc \in {"added", "read", "assign"}
        PROVE  ReadFollows(call[d])'
    <3>1. CASE Valid
      BY <1>1, <1>7, <2>1, <2>2, <2>4, <3>1 DEF ReadFollows
    <3>2. CASE ~Valid
      <4>1. call[d].pc = "added"
        BY <1>7, <2>4, <3>2
      <4> DEFINE i == prefs'.active
                 n == Len(mem.list)
      <4>2. i \in On(mem.list, prefs.net) /\ n \in On(mem.list, prefs.net) /\ mem.list[i].index = 0 /\ mem.list[n].index = 0
        BY <1>7, <2>1, <2>4, <3>2, <4>1
      <4>3. i \in DOMAIN mem.list /\ n \in DOMAIN mem.list /\ mem.list[i].net = prefs.net /\ mem.list[n].net = prefs.net
        BY <4>2 DEF On
      <4> HIDE DEF i, n
      <4>4. /\ mem.list[i].seed = vault /\ mem.list[i].xpub = prefs.net
            /\ mem.list[n].seed = vault /\ mem.list[n].xpub = prefs.net
        BY <4>3 DEF KeysHold, Of
      <4>5. mem.list[i] \in AccountRecords /\ mem.list[n] \in AccountRecords
        BY <1>3, <4>3
      <4>6. mem.list[i] = mem.list[n]
        BY <4>2, <4>3, <4>4, <4>5 DEF AccountRecords
      <4>7. i = n
        BY <4>3, <4>6 DEF SelectionHolds, Twinless
      <4>8. QED
        BY <1>1, <1>7, <2>1, <2>4, <4>1, <4>7 DEF ReadFollows, i, n
    <3>3. QED
      BY <3>1, <3>2
  <2>5. \A d \in Calls \ {c} : call[d].op \in Restoring /\ call[d].pc \in Reading \cup RestorePlaces => ReadFollows(call[d])'
    BY <1>8, <2>4
  <2>6. Some(Ahead)'
    BY <1>9 DEF Some, Comes
  <2>7. QED
    BY <1>0, <1>2, <1>9, <2>2, <2>3, <2>5, <2>6, RestoreStep DEF Comes
<1>10. CASE Comes(c, "added")
  <2> DEFINE more == Append(mem.list, a)
  <2>1. /\ accounts' = more /\ mem'.list = more /\ prefs' = prefs
        /\ ~Valid /\ \A i \in On(mem.list, prefs.net) : mem.list[i].index # 0
    BY <1>4, <1>10 DEF Defaults, Comes, MemIs, a
  <2>2. \A i \in DOMAIN mem.list : mem.list[i] # a
    BY <1>6, <2>1 DEF On
  <2>3. /\ Twinless(more) /\ Len(more) > 0 /\ more[Len(more)] = a
        /\ \A net : \A i \in On(more, net) : i \in On(mem.list, net) \/ i = Len(more)
    BY <1>3, <1>6, <2>2, AppendIs DEF SelectionHolds
  <2> HIDE DEF more
  <2>4. Valid' => prefs'.active = Len(more)
    BY <2>1, <2>3 DEF Valid
  <2>5. ReadFollows(call[c])'
    BY <1>1, <1>6, <1>10, <2>1, <2>3, <2>4 DEF ReadFollows, Comes
  <2>6. \A d \in Calls \ {c} : call[d].op \in Restoring => call[d].pc \notin {"added", "read", "assign"}
    BY <1>7, <2>1
  <2>7. \A d \in Calls \ {c} : call[d].op \in Restoring /\ call[d].pc \in Reading \cup RestorePlaces => ReadFollows(call[d])'
    BY <1>8, <2>6
  <2>8. Some(Ahead)' /\ Some(Astray)'
    BY <1>10 DEF Some, Comes
  <2>9. QED
    BY <1>0, <1>2, <1>10, <2>1, <2>3, <2>5, <2>7, <2>8, RestoreStep DEF Comes
<1>11. QED
  BY <1>4, <1>9, <1>10 DEF Defaults

\* A logout empties the list, and then resets the preferences.
LEMMA LogoutFollows ==
  ASSUME Typed, Shapes, KeysHold, SelectionHolds, NEW c \in Calls,
         DestroyAccounts(c) \/ DestroyVault(c) \/ ResetPreferences(c)
  PROVE  SelectionHolds'
<1>0. CallMoves(c) /\ CallKeys(call[c])
  BY StepMoves DEF Step, KeysHold
<1>1. call[c].op = "logout" /\ call'[c].op = "logout" /\ call'[c].pc \in {"vault", "preferences", "forget"}
  BY DestroyAccountsIs, DestroyVaultIs, ResetPreferencesIs DEF Comes
<1>2. ASSUME NEW d \in Calls PROVE ReadFollows(call[d])' /\ SwitchFollows(d, call[d])'
  <2>1. call'[d].op \notin Selecting /\ call[d].op \notin Selecting
    BY <1>0, <1>1, LogoutAlone
  <2>2. call'[d].pc \notin Telling \ {"vault", "preferences"}
    <3>1. CASE d = c
      BY <1>1, <3>1
    <3>2. CASE d # c
      <4>1. call'[d] = call[d] /\ Placed(call[d])
        BY <1>0, <3>2 DEF CallMoves, Typed
      <4>2. QED
        BY <2>1, <4>1 DEF Placed
    <3>3. QED
      BY <3>1, <3>2
  <2>3. QED
    BY <2>1, <2>2 DEF ReadFollows, SwitchFollows
<1>3. CASE DestroyAccounts(c)
  <2>1. call'[c].pc = "vault" /\ mem'.list = <<>> /\ accounts' = <<>>
    BY <1>3, DestroyAccountsIs DEF Comes, MemIs
  <2>2. Some(Ahead)' /\ Some(Astray)' /\ Twinless(accounts')
    BY <2>1 DEF Some, Twinless
  <2>3. QED
    BY <1>2, <2>1, <2>2 DEF SelectionHolds
<1>4. CASE DestroyVault(c)
  <2>1. call'[c].pc = "preferences" /\ mem' = mem /\ accounts' = accounts /\ vault' = None
    BY <1>4, DestroyVaultIs DEF Comes
  <2>2. Some(Ahead)'
    BY <2>1 DEF Some
  <2>3. QED
    BY <1>2, <2>1, <2>2 DEF SelectionHolds
<1>5. CASE ResetPreferences(c)
  <2>1. /\ call[c].pc = "preferences" /\ mem'.list = mem.list /\ mem'.active = mem.active
        /\ prefs' = DefaultPrefs /\ accounts' = accounts /\ vault' = vault
    BY <1>5, ResetPreferencesIs DEF KeepsStored
  <2>2. mem.active = 0 /\ vault = None
    BY <1>0, <2>1 DEF CallKeys
  <2>3. mem'.active = prefs'.active
    BY <2>1, <2>2 DEF DefaultPrefs
  <2>4. QED
    BY <1>2, <2>1, <2>2, <2>3 DEF SelectionHolds
<1>6. QED
  BY <1>3, <1>4, <1>5

\* Every step of a call keeps the selection together.
LEMMA StepFollows ==
  ASSUME Typed, Shapes, KeysHold, NetsHold, SelectionHolds, NEW c \in Calls, Step(c)
  PROVE  SelectionHolds'
<1>0. Placed(call[c]) /\ ReadFollows(call[c])
  BY DEF Typed, SelectionHolds
<1>1. CASE Read(c) \/ Assign(c) \/ Added(c)
  <2>1. call[c].op \in Selecting
    BY <1>0, <1>1, ReadIs, AssignIs, AddedIs DEF Placed
  <2>2. CASE call[c].op \in Restoring
    BY <1>1, <2>2, RestoreReads, RestoreAdded
  <2>3. CASE call[c].op \notin Restoring
    BY <1>1, <2>1, <2>3, SwitchReads, SwitchAssigns, SwitchAdded
  <2>4. QED
    BY <2>2, <2>3
<1>2. ~Point(c)
  BY <1>0, PointIs DEF ReadFollows
<1>3. CASE CreateDefault(c) \/ DeriveNext(c)
  BY <1>3, SwitchPushes, StillSteps
<1>4. CASE Rekeyed(c)
  BY <1>4, SwitchDefaults, SwitchKeys
<1>5. CASE \/ Keep(c) \/ BackedUp(c) \/ Verified(c) \/ Failed(c) \/ Counted(c) \/ Again(c) \/ Redial(c) \/ ForgetPassword(c)
  BY <1>5, StillSteps
<1>6. CASE Encrypted(c) \/ Restore(c) \/ Unlocked(c) \/ Decrypted(c)
  BY <1>6, SwitchEncrypted, RestoreRestores, RestoreDefaults
<1>7. CASE Switch(c) \/ Dial(c) \/ Connect(c)
  BY <1>7, SwitchSwitches, SwitchDials
<1>8. CASE Rekey(c) \/ Back(c) \/ BackKeyed(c)
  BY <1>8, SwitchKeys
<1>9. CASE DestroyAccounts(c) \/ DestroyVault(c) \/ ResetPreferences(c)
  BY <1>9, LogoutFollows
<1>10. QED
  BY <1>1, <1>2, <1>3, <1>4, <1>5, <1>6, <1>7, <1>8, <1>9 DEF Step

\* A call begins with what it follows.
LEMMA StartFollows ==
  ASSUME Typed, Shapes, KeysHold, NetsHold, SelectionHolds, NEW c \in Calls, NEW k, Starts(c, k), "keys" \notin seen'.clash
  PROVE  SelectionHolds'
<1>1. /\ call[c].op = "none" /\ call[c].pc = "idle" /\ call'[c] = k /\ \A d \in Calls \ {c} : call'[d] = call[d]
      /\ "keys" \notin Overlaps(k.op)
  BY BeginsApart
<1>2. vault' = vault /\ accounts' = accounts /\ prefs' = prefs /\ (Torn' <=> Torn)
  <2>1. "torn" \notin Overlaps(k.op)
    BY DEF Overlaps, Kinds
  <2>2. QED
    BY <2>1, StartIs DEF Torn
<1>3. (Some(Ahead) => Some(Ahead)') /\ (Some(Astray) => Some(Astray)')
  BY <1>1 DEF Some
<1>4. CASE k.op \in Making
  <2>1. k.pc = "encrypt" /\ mem.vault = None /\ mem'.list = mem.list /\ mem'.active = mem.active /\ mem'.key # None
    BY <1>4, BeginsMaking
  <2>2. vault = None /\ mem.list = <<>>
    BY <2>1 DEF KeysHold
  <2>3. ASSUME NEW d \in Calls PROVE ReadFollows(call[d])' /\ SwitchFollows(d, call[d])'
    <3>1. CASE d = c
      <4>1. k.op # "switchAccount" /\ k.op \notin Switching
        BY <1>4
      <4>2. QED
        BY <1>1, <2>1, <2>2, <3>1, <4>1 DEF ReadFollows, SwitchFollows
    <3>2. CASE d # c
      <4>1. call[d].op \notin Making \cup {"logout"} /\ CallKeys(call[d]) /\ Placed(call[d])
        BY <1>1, <1>4, ApartFrom DEF KeysHold, Typed
      <4>2. call[d].op \notin Selecting \cup {"logout"}
        BY <2>2, <4>1 DEF CallKeys, Placed
      <4>3. call'[d].pc \notin Telling
        BY <1>1, <3>2, <4>1, <4>2 DEF Placed
      <4>4. QED
        BY <4>3, ElsewhereNext
    <3>3. QED
      BY <3>1, <3>2
  <2>4. QED
    BY <1>2, <1>3, <2>1, <2>2, <2>3 DEF SelectionHolds
<1>5. CASE k.op \notin Making
  <2>1. mem' = mem /\ session' = session /\ k.pc \in {"password", "reread", "backup", "accounts", "switch", "verify"}
    BY <1>5, StartIs, BeginsWith
  <2>2. Valid' <=> Valid
    BY <1>2, <2>1 DEF Valid, On
  <2>3. vault' # None /\ Chosen' => Torn' \/ Valid' \/ Some(Astray)'
    <3>1. CASE k.pc = "password"
      BY <1>1, <3>1 DEF Some
    <3>2. CASE k.pc # "password"
      <4>1. k.op \in Selecting /\ k.pc # "verify" => session
        <5>1. k.op = "unlock" => k.pc = "verify"
          BY DEF Starts, Started, Idle
        <5>2. k.op = "restore" => k.pc = "password"
          BY DEF Starts, Started, Idle
        <5>3. QED
          BY <1>5, <3>2, <5>1, <5>2, BeginsWith
      <4>2. Chosen' => Chosen
        BY <1>1, <2>1, <4>1 DEF Chosen
      <4>3. QED
        BY <1>2, <1>3, <2>2, <4>2 DEF SelectionHolds
    <3>3. QED
      BY <3>1, <3>2
  <2>4. ASSUME NEW d \in Calls PROVE ReadFollows(call[d])' /\ SwitchFollows(d, call[d])'
    <3>1. CASE d = c
      <4>1. ReadFollows(call[c])'
        BY <1>1, <2>1 DEF ReadFollows
      <4>2. k.op = "switchAccount" => k.index \in On(mem'.list, k.arg)
        BY <1>5, <2>1, BeginsWith DEF On, Typed, MemRecords
      <4>3. SwitchFollows(c, call[c])'
        BY <1>1, <2>1, <4>2 DEF SwitchFollows
      <4>4. QED
        BY <3>1, <4>1, <4>3
    <3>2. CASE d # c
      BY <1>1, <1>2, <2>1, <2>2, <3>2 DEF SelectionHolds, ReadFollows, SwitchFollows, On
    <3>3. QED
      BY <3>1, <3>2
  <2>5. QED
    BY <1>2, <1>3, <2>1, <2>3, <2>4 DEF SelectionHolds
<1>6. QED
  BY <1>4, <1>5

\* A lock and the end of a session take nothing that is chosen.
LEMMA OthersFollow ==
  ASSUME Typed, Shapes, SelectionHolds, Lock \/ SessionExpires \/ LockoutEnds \/ LoopDials \/ UNCHANGED vars
  PROVE  SelectionHolds'
<1>1. /\ vault' = vault /\ accounts' = accounts /\ prefs' = prefs /\ call' = call
      /\ session' => session
  BY DEF Lock, SessionExpires, LockoutEnds, LoopDials, vars, stored
<1>2. mem'.list = mem.list /\ mem'.active = mem.active /\ (mem'.key # None => mem.key # None)
      /\ (mem'.key = None /\ mem.key # None => ~session')
  <2>1. CASE Lock
    BY <2>1 DEF Lock, Typed, MemRecords
  <2>2. CASE ~Lock
    BY <2>2 DEF SessionExpires, LockoutEnds, LoopDials, vars, stored
  <2>3. QED
    BY <2>1, <2>2
<1>3. Torn' <=> Torn
  <2>1. "torn" \notin Overlaps("lock")
    BY DEF Overlaps, Kinds
  <2>2. CASE Lock
    BY <2>1, <2>2 DEF Lock, Torn, Shapes
  <2>3. CASE LockoutEnds
    BY <2>3 DEF LockoutEnds, Torn, Shapes
  <2>4. CASE SessionExpires \/ LoopDials \/ UNCHANGED vars
    BY <2>4 DEF SessionExpires, LoopDials, vars, Torn
  <2>5. QED
    BY <2>2, <2>3, <2>4
<1>4. (Valid' <=> Valid) /\ (Chosen' => Chosen)
  BY <1>1, <1>2 DEF Valid, On, Chosen
<1>5. (Some(Ahead)' <=> Some(Ahead)) /\ (Some(Astray)' <=> Some(Astray))
  BY <1>1 DEF Some
<1>6. ASSUME NEW d \in Calls PROVE ReadFollows(call[d])' /\ SwitchFollows(d, call[d])'
  BY <1>1, <1>2, <1>3, <1>4 DEF SelectionHolds, ReadFollows, SwitchFollows, On
<1>7. QED
  BY <1>1, <1>2, <1>3, <1>4, <1>5, <1>6 DEF SelectionHolds

\* A worker that has just started has read what is stored, and no call runs.
LEMMA DeathFollows ==
  ASSUME Typed, Shapes, WorkerDies
  PROVE  SelectionHolds'
<1>1. \A d \in Calls : call'[d].op = "none" /\ call'[d].pc = "idle"
  BY DEF WorkerDies, Idle
<1>2. mem'.list = accounts' /\ Twinless(accounts') /\ mem'.active = prefs'.active
  BY DedupedIs DEF WorkerDies, Typed
<1>3. Torn'
  BY DEF WorkerDies, Torn, Shapes
<1>4. \A d \in Calls : ReadFollows(call[d])' /\ SwitchFollows(d, call[d])'
  BY <1>1, ElsewhereNext
<1>5. QED
  BY <1>2, <1>3, <1>4 DEF SelectionHolds

\* At first the account manager follows the preferences.
LEMMA InitFollows == Init => SelectionHolds
<1> SUFFICES ASSUME Init PROVE SelectionHolds
  OBVIOUS
<1>1. \A d \in Calls : call[d].op = "none" /\ call[d].pc = "idle"
  BY DEF Init, Idle
<1>2. \/ vault = None /\ accounts = <<>> /\ mem.list = <<>> /\ mem.active = prefs.active
      \/ /\ accounts = <<Account(1, Mainnet, 0), Account(1, Mainnet, 1)>> /\ mem.list = accounts
         /\ mem.active = 1 /\ prefs.active = 1 /\ prefs.net = Mainnet
  BY DEF Init, DefaultPrefs
<1>3. mem.list = accounts /\ Twinless(accounts) /\ mem.active = prefs.active /\ (vault = None \/ Valid)
  BY <1>2 DEF Twinless, Account, Valid, On
<1>4. \A d \in Calls : ReadFollows(call[d]) /\ SwitchFollows(d, call[d])
  BY <1>1, Elsewhere
<1>5. QED
  BY <1>3, <1>4 DEF SelectionHolds

-----------------------------------------------------------------------------

SelectionFollows == Undisturbed("keys") /\ Undisturbed("selection") => SelectionHolds

\* Every step keeps the selection, as far as it is undisturbed.
LEMMA NextFollows == IInv /\ Typed /\ KeysInv /\ SelectionFollows /\ [Next]_vars => SelectionFollows'
<1> SUFFICES ASSUME IInv, Typed, KeysInv, SelectionFollows, [Next]_vars,
                    "keys" \notin seen'.clash, "selection" \notin seen'.clash
             PROVE  SelectionHolds'
  BY DEF SelectionFollows, Undisturbed
<1>0. Shapes
  BY DEF IInv
<1>1. CASE WorkerDies
  BY <1>0, <1>1, DeathFollows
<1>2. CASE ~WorkerDies
  <2>1. Undisturbed("keys") /\ Undisturbed("selection")
    BY <1>0, <1>2, ClashGrows DEF Undisturbed
  <2>2. KeysHold /\ NetsHold /\ SelectionHolds
    BY <2>1 DEF KeysInv, KeysAreOfTheVault, NetsFollow, SelectionFollows
  <2>3. QED
    BY <1>0, <1>2, <2>2, NextIs, StepFollows, StartFollows, OthersFollow
<1>3. QED
  BY <1>1, <1>2

\* Between calls, that is what the property says.
LEMMA SelectionSays == IInv /\ Typed /\ TwinsAreRead /\ SelectionFollows => SelectionAgrees
<1> SUFFICES ASSUME IInv, Typed, TwinsAreRead, SelectionFollows PROVE SelectionAgrees
  OBVIOUS
<1>1. TypeOK
  BY DEF Typed, TypeOK, PrefRecords, MemRecords, RateRecords, Seeds
<1>2. NoTwins
  BY TwinsAreFound
<1>3. ASSUME Quiet, seen.clash \cap {"selection", "torn", "keys"} = {}, vault # None, mem.key # None
      PROVE  /\ mem.active = prefs.active
             /\ prefs.active \in On(mem.list, prefs.net)
             /\ mem.list = accounts
  <2>1. SelectionHolds /\ ~Torn
    BY <1>3 DEF SelectionFollows, Undisturbed, Torn
  <2>2. \A d \in Calls : call[d].pc = "idle"
    BY <1>3 DEF Quiet, IInv, Shapes, CallOK
  <2>3. ~Some(Ahead) /\ ~Some(Astray)
    BY <2>2 DEF Some
  <2>4. QED
    BY <1>3, <2>1, <2>3 DEF SelectionHolds, Chosen, Valid
<1>4. QED
  BY <1>1, <1>2, <1>3 DEF SelectionAgrees

-----------------------------------------------------------------------------
(* The theorems.                                                           *)

\* The parts hold together, in every state.
THEOREM SessionInvariant == Spec => [](IInv /\ Typed /\ TwinsAreRead /\ KeysInv /\ SelectionFollows)
<1> DEFINE Inv == IInv /\ Typed /\ TwinsAreRead /\ KeysInv /\ SelectionFollows
<1>1. Init => Inv
  BY InitIInv, InitTyped, InitTwins, InitKeysInv, InitFollows DEF SelectionFollows
<1>2. Inv /\ [Next]_vars => Inv'
  BY NextIInv, NextTyped, NextTwins, NextKeys, NextFollows
<1>3. QED
  BY <1>1, <1>2, PTL DEF Spec

\* deriveRootAndXpub(), deriveAccount() and setBackupStatus(): between calls, every stored
\* account is of the vault's seed with its network's encoding, and so is the key; a wallet
\* called backed up is one whose seed the user has typed.
THEOREM AccountsStayOfTheVault == Spec => []AccountsAreOfTheVault
BY SessionInvariant, KeysInvSays, PTL

\* setActiveAccountIndex() and AccountManager.init(): between calls, the preferences and
\* the account manager name one account, which is stored once and of their network; but
\* for calls that overlapped, and from a death of the worker, or a switch whose connect()
\* another one overtook, to the next restore.
THEOREM SelectionStaysTogether == Spec => []SelectionAgrees
BY SessionInvariant, SelectionSays, PTL
=============================================================================
