----------------------------- MODULE WalletSession -----------------------------
(***************************************************************************)
(* The life of a wallet in the service worker: it is created or restored,  *)
(* locked and unlocked behind a rate limit, given accounts, moved between  *)
(* accounts and networks, backed up and removed, by calls of the pages     *)
(* that may overlap; the worker may die and start again, and the session   *)
(* password may run out.                                                   *)
(*                                                                         *)
(* A call runs from await to await: every action is the code between two.  *)
(* chrome.storage takes a write when it is called, so that the preferences *)
(* in memory and in storage are one variable.  A seed is a number; a key   *)
(* is its seed and the network it is encoded for; an account is the seed   *)
(* it is of, its network, its HD index and the encoding of its xpub.  List *)
(* indices count from one here, and 0 stands for -1.                       *)
(***************************************************************************)
EXTENDS Integers, Sequences, FiniteSets, SequencesExt

CONSTANTS
  Calls,            \* slots for calls that run at the same time
  Ops,              \* the operations that are called
  Mainnet, Testnet, \* the Bitcoin networks
  None,             \* no seed, no key, no network
  ShortThreshold,   \* failures before the short lockout
  LongThreshold,    \* failures before the long one
  MaxSeeds,         \* how many seeds there are
  MaxMoves          \* how many calls, expiries and deaths of the worker

ASSUME ThresholdAssumption ==
  /\ ShortThreshold \in Nat \ {0} /\ LongThreshold \in Nat
  /\ ShortThreshold <= LongThreshold

ASSUME ValuesAssumption ==
  /\ MaxSeeds \in Nat \ {0} /\ MaxMoves \in Nat
  /\ None \notin {Mainnet, Testnet}
  /\ \A seed \in 0..MaxSeeds, net \in {Mainnet, Testnet} : None \notin {seed, [seed |-> seed, net |-> net]}

VARIABLES
  vault,     \* the seed of the vault in storage
  accounts,  \* the accounts in storage
  prefs,     \* the preferences: network, list index of the active account, backed up
  session,   \* is the session password there?
  mem,       \* the Wallet and AccountManager objects
  rate,      \* the failures counted, and the lockout that holds
  call,      \* where every call stands
  dialled,   \* the call that took the Electrum connection last
  moves,     \* what the bound has left
  seen       \* what the properties remember

stored == <<vault, accounts, prefs, session>>
vars == <<stored, mem, rate, call, dialled, moves, seen>>

Networks == {Mainnet, Testnet}
DefaultPrefs == [net |-> Mainnet, active |-> 0, backed |-> FALSE]
Idle == [op |-> "none", pc |-> "idle", arg |-> None, index |-> 0, list |-> <<>>, prev |-> DefaultPrefs,
         then |-> "done"]

Account(seed, net, index) == [seed |-> seed, net |-> net, index |-> index, xpub |-> net]

\* Nothing is installed, or a wallet is open.
Init ==
  /\ \/ /\ vault = None /\ accounts = <<>> /\ prefs = DefaultPrefs /\ session = FALSE
        /\ mem = [vault |-> None, key |-> None, net |-> None, list |-> <<>>, active |-> 0]
     \/ /\ vault = 1 /\ accounts = <<Account(1, Mainnet, 0), Account(1, Mainnet, 1)>> /\ session = TRUE
        /\ prefs = [DefaultPrefs EXCEPT !.active = 1]
        /\ mem = [vault |-> 1, key |-> [seed |-> 1, net |-> Mainnet], net |-> Mainnet,
                  list |-> accounts, active |-> 1]
  /\ rate = [count |-> 0, until |-> "none"]
  /\ call = [c \in Calls |-> Idle]
  /\ dialled = None
  /\ moves = MaxMoves
  /\ seen = [seeds |-> IF vault = None THEN 0 ELSE 1, verified |-> {}, locked |-> FALSE, guesses |-> 0,
             clash |-> {}]

-----------------------------------------------------------------------------
(* The wallet's own operators.                                             *)

At(c, op, pc) == call[c].op = op /\ call[c].pc = pc
Goto(c, pc) == call' = [call EXCEPT ![c].pc = pc]
Done(c) == call' = [call EXCEPT ![c] = Idle]

\* deriveRootAndXpub(): a key of the seed, encoded for the network the wallet is on now.
Key(seed) == [seed |-> seed, net |-> IF mem.net = None THEN Mainnet ELSE mem.net]

\* deriveAccount()
Derive(key, net, index) ==
  [seed |-> key.seed, index |-> index, xpub |-> key.net, net |-> IF net = Mainnet THEN Mainnet ELSE Testnet]

On(list, net) == {i \in DOMAIN list : list[i].net = net}

\* deriveNextAccount(): the least HD index that the network has not used.
NextIndex(list, net) ==
  CHOOSE n \in 0..Len(list) :
    /\ \A i \in On(list, net) : list[i].index # n
    /\ \A m \in 0..n - 1 : \E i \in On(list, net) : list[i].index = m

\* The loop of AccountManager.load(): what is listed twice is kept once.
Deduped(list) ==
  LET first == {i \in DOMAIN list : \A j \in 1..i - 1 : list[j] # list[i]} IN
  [n \in 1..Cardinality(first) |->
     list[CHOOSE i \in first : Cardinality({j \in first : j <= i}) = n]]

\* Faulty variant: the account manager is not told.
ActivatePreference(c, i, then) ==
  /\ prefs' = [prefs EXCEPT !.active = i]
  /\ IF then = "done" THEN Done(c) ELSE Goto(c, then)

\* setActiveAccountIndex(): the preference now, and accountManager.init() after its save.
Activate(c, i, then) ==
  /\ prefs' = [prefs EXCEPT !.active = i]
  /\ call' = [call EXCEPT ![c].pc = "read", ![c].index = i, ![c].then = then]

\* AccountManager.add(): pushed and saved; it becomes active after the save.
Push(c, account, then) ==
  /\ mem' = [mem EXCEPT !.list = Append(@, account)]
  /\ accounts' = mem'.list
  /\ call' = [call EXCEPT ![c].pc = "added", ![c].then = then]

\* Faulty variant: the default is the first account even if another has been chosen.
EnsureFirst(c, key, then) ==
  LET firsts == {i \in On(mem.list, prefs.net) : mem.list[i].index = 0} IN
  IF firsts # {}
    THEN /\ Activate(c, CHOOSE i \in firsts : \A j \in firsts : i <= j, then)
         /\ mem' = [mem EXCEPT !.key = key]
         /\ UNCHANGED accounts
    ELSE /\ mem' = [mem EXCEPT !.key = key, !.list = Append(@, Derive(key, mem.net, 0))]
         /\ accounts' = mem'.list
         /\ call' = [call EXCEPT ![c].pc = "added", ![c].then = then]
         /\ UNCHANGED prefs

\* ensureDefaultAccount(): a valid choice is kept; else the network's first account, which
\* is made if there is none.  key is the one the wallet has by then.
EnsureDefault(c, key, then) ==
  LET firsts == {i \in On(mem.list, prefs.net) : mem.list[i].index = 0} IN
  IF prefs.active \in On(mem.list, prefs.net) \/ firsts # {}
    THEN /\ Activate(c, IF prefs.active \in On(mem.list, prefs.net) THEN prefs.active
                        ELSE CHOOSE i \in firsts : \A j \in firsts : i <= j, then)
         /\ mem' = [mem EXCEPT !.key = key]
         /\ UNCHANGED accounts
    ELSE /\ mem' = [mem EXCEPT !.key = key, !.list = Append(@, Derive(key, mem.net, 0))]
         /\ accounts' = mem'.list
         /\ call' = [call EXCEPT ![c].pc = "added", ![c].then = then]
         /\ UNCHANGED prefs

-----------------------------------------------------------------------------
(* Which calls disturb each other when they overlap: what the properties   *)
(* are not promised for.  A death of the worker undoes what overlapping    *)
(* calls did to the selection, but leaves it torn until the next restore;  *)
(* so does a switch whose connect() a newer connect() overtook.            *)
(* Two switches that overlap may leave the wallet on another network than  *)
(* the preferences: a key that a restore makes then is encoded for the     *)
(* one, an account that is created meanwhile is of the other.              *)

Making == {"create", "recover"}
Restoring == {"restore", "unlock"}
Switching == {"switchNetwork", "switchAccount"}
Selecting == Making \cup Restoring \cup Switching \cup {"createAccount"}
Rekeying == Restoring \cup Switching

Kinds(a, b) ==
  LET Pair(A, B) == (a \in A /\ b \in B) \/ (a \in B /\ b \in A) IN
  {k \in {"selection", "keys", "lock", "backup", "guess"} :
     CASE k = "selection" -> Pair(Selecting, Selecting \ Restoring)
       [] k = "keys" -> \/ Pair(Making, Making) \/ Pair({"logout"}, Selecting)
                        \/ Pair(Switching, Making \cup {"createAccount"})
                        \/ "selection" \in seen.clash /\ Pair(Restoring, {"createAccount"})
       [] k = "lock" -> Pair({"lock"}, Making \cup Rekeying)
       [] k = "backup" -> Pair(Making, Making) \/ Pair({"logout"}, {"backup", "recover", "death"})
       [] k = "guess" -> Pair({"guess"}, {"guess"})}

Overlaps(op) == UNION {Kinds(op, call[d].op) : d \in Calls}

-----------------------------------------------------------------------------
(* Calls begin.  One that its handler refuses at once changes nothing, and *)
(* is left out.                                                            *)

Begin(c, op, record) ==
  /\ call[c].op = "none" /\ op \in Ops /\ moves > 0
  /\ moves' = moves - 1
  /\ call' = [call EXCEPT ![c] = record]
  /\ seen' = [seen EXCEPT !.clash = @ \cup Overlaps(op)]

Started(op, pc) == [Idle EXCEPT !.op = op, !.pc = pc]

\* wallet.restore, when a page opens.
StartRestore(c) ==
  /\ session /\ mem.vault # None
  /\ Begin(c, "restore", Started("restore", "password"))
  /\ UNCHANGED <<stored, mem, rate, dialled>>

StartSwitchNetwork(c, net) ==
  /\ session /\ vault # None
  /\ Begin(c, "switchNetwork", [Started("switchNetwork", "switch") EXCEPT !.arg = net])
  /\ UNCHANGED <<stored, mem, rate, dialled>>

StartSwitchAccount(c, i) ==
  /\ session /\ i \in DOMAIN mem.list
  /\ Begin(c, "switchAccount", [Started("switchAccount", "switch") EXCEPT !.index = i, !.arg = mem.list[i].net])
  /\ UNCHANGED <<stored, mem, rate, dialled>>

StartCreateAccount(c) ==
  /\ session /\ vault # None
  /\ Begin(c, "createAccount", [Started("createAccount", "reread") EXCEPT !.then = "derive"])
  /\ UNCHANGED <<stored, mem, rate, dialled>>

\* The seed is shown, and the user types it again.
StartBackup(c) ==
  /\ session /\ mem.vault # None
  /\ Begin(c, "backup", [Started("backup", "backup") EXCEPT !.arg = mem.vault])
  /\ UNCHANGED <<stored, mem, rate, dialled>>

\* The caches go first.
StartLogout(c) ==
  /\ vault # None
  /\ Begin(c, "logout", Started("logout", "accounts"))
  /\ UNCHANGED <<stored, mem, rate, dialled>>

-----------------------------------------------------------------------------
(* Reading the accounts: AccountManager.init().                            *)

Arrived(c) ==
  IF call[c].then = "done" THEN Done(c)
                           ELSE call' = [call EXCEPT ![c].pc = call[c].then, ![c].list = <<>>]

Read(c) ==
  /\ call[c].pc \in {"read", "reread"}
  /\ call' = [call EXCEPT ![c].pc = "assign", ![c].list = accounts,
                          ![c].index = IF call[c].pc = "reread" THEN prefs.active ELSE @]
  /\ UNCHANGED <<stored, mem, rate, dialled, moves, seen>>

\* Two entries of one account are made one, and saved before the index is set.
Assign(c) ==
  /\ call[c].pc = "assign"
  /\ LET list == Deduped(call[c].list) IN
     IF list = call[c].list
       THEN /\ mem' = [mem EXCEPT !.list = list, !.active = call[c].index]
            /\ Arrived(c)
            /\ UNCHANGED accounts
       ELSE /\ mem' = [mem EXCEPT !.list = list]
            /\ accounts' = list
            /\ Goto(c, "point")
  /\ UNCHANGED <<vault, prefs, session, rate, dialled, moves, seen>>

Point(c) ==
  /\ call[c].pc = "point"
  /\ mem' = [mem EXCEPT !.active = call[c].index]
  /\ Arrived(c)
  /\ UNCHANGED <<stored, rate, dialled, moves, seen>>

\* The pushed account has been saved: the last of the list is active now.
Added(c) ==
  /\ call[c].pc = "added"
  /\ mem' = [mem EXCEPT !.active = Len(mem.list)]
  /\ Activate(c, Len(mem.list), call[c].then)
  /\ UNCHANGED <<vault, accounts, session, rate, dialled, moves, seen>>

-----------------------------------------------------------------------------
(* Creating a wallet, from a new seed or from one the user has.            *)

\* The pages set the session password first.
StartCreate(c, seed, op) ==
  /\ mem.vault = None
  /\ seed \in IF op = "create" THEN {seen.seeds + 1} ELSE 1..seen.seeds + 1
  /\ seed <= MaxSeeds
  /\ call[c].op = "none" /\ op \in Ops /\ moves > 0
  /\ moves' = moves - 1
  /\ call' = [call EXCEPT ![c] = [Started(op, "encrypt") EXCEPT !.arg = seed]]
  /\ seen' = [seen EXCEPT !.seeds = IF seed > @ THEN seed ELSE @, !.locked = FALSE,
       !.clash = @ \cup Overlaps(op)]
  /\ mem' = [mem EXCEPT !.net = prefs.net, !.key = [seed |-> seed, net |-> prefs.net]]
  /\ session' = TRUE
  /\ UNCHANGED <<vault, accounts, prefs, rate, dialled>>

Encrypted(c) ==
  /\ call[c].pc = "encrypt"
  /\ mem' = [mem EXCEPT !.vault = call[c].arg]
  /\ vault' = call[c].arg
  /\ Goto(c, "default")
  /\ UNCHANGED <<accounts, prefs, session, rate, dialled, moves, seen>>

\* ensureDefaultAccount(true), which throws if the key has gone meanwhile.
CreateDefault(c) ==
  /\ call[c].pc = "default"
  /\ IF mem.key = None THEN Done(c) /\ UNCHANGED <<mem, accounts>>
                       ELSE Push(c, Derive(mem.key, mem.net, 0), "keep")
  /\ UNCHANGED <<vault, prefs, session, rate, dialled, moves, seen>>

\* The handler sets the session password; a page that recovers a seed calls it backed up.
Keep(c) ==
  /\ call[c].pc = "keep"
  /\ session' = TRUE
  /\ IF call[c].op = "recover" THEN Goto(c, "backup") ELSE Done(c)
  /\ UNCHANGED <<vault, accounts, prefs, mem, rate, dialled, moves, seen>>

\* setBackupStatus(true)
BackedUp(c) ==
  /\ call[c].pc = "backup"
  /\ prefs' = [prefs EXCEPT !.backed = TRUE]
  /\ seen' = [seen EXCEPT !.verified = @ \cup {call[c].arg}]
  /\ Done(c)
  /\ UNCHANGED <<vault, accounts, session, mem, rate, dialled, moves>>

-----------------------------------------------------------------------------
(* Unlocking, and the rate limit.                                          *)

\* wallet.verifyPassword: the lockout is read, then the password tried.
StartVerify(c, op) ==
  /\ rate.until = "none" /\ mem.vault # None
  /\ call[c].op = "none" /\ op \in Ops /\ moves > 0
  /\ moves' = moves - 1
  /\ call' = [call EXCEPT ![c] = Started(op, "verify")]
  /\ seen' = [seen EXCEPT !.clash = @ \cup Overlaps(op)]
  /\ UNCHANGED <<stored, mem, rate, dialled>>

\* recordPasswordSuccess(); the page sets the session password next.
Verified(c) ==
  /\ At(c, "unlock", "verify")
  /\ rate' = [count |-> 0, until |-> "none"]
  /\ Goto(c, "session")
  /\ seen' = [seen EXCEPT !.guesses = 0]
  /\ UNCHANGED <<stored, mem, dialled, moves>>

Unlocked(c) ==
  /\ call[c].pc = "session"
  /\ session' = TRUE
  /\ Goto(c, "password")
  /\ seen' = [seen EXCEPT !.locked = FALSE]
  /\ UNCHANGED <<vault, accounts, prefs, mem, rate, dialled, moves>>

\* recordPasswordFailure(): the count is read ...
Failed(c) ==
  /\ At(c, "guess", "verify")
  /\ call' = [call EXCEPT ![c].pc = "count", ![c].index = rate.count]
  /\ UNCHANGED <<stored, mem, rate, dialled, moves, seen>>

\* Faulty variant: the lockout comes at the long threshold only.
CountedLate(c) ==
  /\ call[c].pc = "count"
  /\ LET count == call[c].index + 1 IN
     rate' = [count |-> count, until |-> IF count >= LongThreshold THEN "long" ELSE "none"]
  /\ Done(c)
  /\ seen' = [seen EXCEPT !.guesses = @ + 1]
  /\ UNCHANGED <<stored, mem, dialled, moves>>

\* ... and written, with the lockout it earns.
Counted(c) ==
  /\ call[c].pc = "count"
  /\ LET count == call[c].index + 1 IN
     rate' = [count |-> count,
              until |-> IF count >= LongThreshold THEN "long"
                        ELSE IF count >= ShortThreshold THEN "short" ELSE "none"]
  /\ Done(c)
  /\ seen' = [seen EXCEPT !.guesses = @ + 1]
  /\ UNCHANGED <<stored, mem, dialled, moves>>

LockoutEnds ==
  /\ rate.until # "none"
  /\ rate' = [rate EXCEPT !.until = "none"]
  /\ seen' = [seen EXCEPT !.guesses = 0]
  /\ UNCHANGED <<stored, mem, call, dialled, moves>>

\* restoreIfPossible() up to decryptVault().
Restore(c) ==
  /\ call[c].pc = "password"
  /\ IF mem.vault = None THEN Done(c) /\ UNCHANGED mem
     ELSE /\ mem' = [mem EXCEPT !.net = prefs.net]
          /\ call' = [call EXCEPT ![c].pc = "decrypt", ![c].arg = mem.vault, ![c].then = "done"]
  /\ UNCHANGED <<stored, rate, dialled, moves, seen>>

Decrypted(c) ==
  /\ call[c].pc = "decrypt"
  /\ EnsureDefault(c, Key(call[c].arg), call[c].then)
  /\ seen' = [seen EXCEPT !.clash = @ \ {"torn"}]
  /\ UNCHANGED <<vault, session, rate, dialled, moves>>

\* Faulty variant: the session ends, and the key stays in memory.
LockSession ==
  /\ "lock" \in Ops /\ moves > 0
  /\ moves' = moves - 1
  /\ session' = FALSE
  /\ seen' = [seen EXCEPT !.locked = TRUE, !.clash = (@ \ {"lock"}) \cup Overlaps("lock")]
  /\ UNCHANGED <<vault, accounts, prefs, mem, rate, call, dialled>>

\* lock(): the key goes, and the session password.
Lock ==
  /\ "lock" \in Ops /\ moves > 0
  /\ moves' = moves - 1
  /\ mem' = [mem EXCEPT !.key = None]
  /\ session' = FALSE
  /\ seen' = [seen EXCEPT !.locked = TRUE, !.clash = (@ \ {"lock"}) \cup Overlaps("lock")]
  /\ UNCHANGED <<vault, accounts, prefs, rate, call, dialled>>

SessionExpires ==
  /\ session /\ moves > 0
  /\ moves' = moves - 1
  /\ session' = FALSE
  /\ UNCHANGED <<vault, accounts, prefs, mem, rate, call, dialled, seen>>

-----------------------------------------------------------------------------
(* Switching, and creating an account.                                     *)

\* A switch to an account of the network is a matter of its index; any other tears the
\* connection down and moves the preferences.
Switch(c) ==
  /\ call[c].pc = "switch"
  /\ IF call[c].op = "switchAccount" /\ call[c].arg = prefs.net
       THEN Activate(c, call[c].index, "done") /\ UNCHANGED dialled
       ELSE /\ prefs' = [prefs EXCEPT !.net = call[c].arg,
                           !.active = IF call[c].op = "switchAccount" THEN call[c].index ELSE @]
            /\ dialled' = c
            /\ call' = [call EXCEPT ![c].pc = "rekey", ![c].prev = prefs]
  /\ UNCHANGED <<vault, accounts, session, mem, rate, moves, seen>>

\* The rollback of a switch that failed: preferences first.
RollBack(c) ==
  /\ prefs' = [prefs EXCEPT !.net = call[c].prev.net, !.active = call[c].prev.active]
  /\ dialled' = c
  /\ Goto(c, "back")

\* wallet.restore() for the new network, or for the previous one, whose failure is ignored.
Rekey(c) ==
  /\ call[c].pc = "rekey"
  /\ IF mem.vault = None THEN RollBack(c) /\ UNCHANGED mem
     ELSE /\ mem' = [mem EXCEPT !.net = call[c].arg]
          /\ call' = [call EXCEPT ![c].pc = "rekeyed", ![c].arg = mem.vault]
          /\ UNCHANGED <<prefs, dialled>>
  /\ UNCHANGED <<vault, accounts, session, rate, moves, seen>>

Rekeyed(c) ==
  /\ call[c].pc = "rekeyed"
  /\ IF call[c].op = "switchNetwork" THEN EnsureDefault(c, Key(call[c].arg), "dial")
     ELSE /\ mem' = [mem EXCEPT !.key = Key(call[c].arg)]
          /\ Goto(c, "dial")
          /\ UNCHANGED <<accounts, prefs>>
  /\ UNCHANGED <<vault, session, rate, dialled, moves, seen>>

\* electrumService.init() may find no server.
Dial(c) ==
  /\ call[c].pc = "dial"
  /\ \/ dialled' = c /\ Goto(c, "connect") /\ UNCHANGED prefs
     \/ RollBack(c)
  /\ UNCHANGED <<vault, accounts, session, mem, rate, moves, seen>>

\* The worker's start or the reconnect loop calls connect() while a switch dials; at any
\* other time nothing here depends on it.
LoopDials ==
  /\ \E c \in Calls : dialled = c /\ call[c].pc = "connect"
  /\ dialled' = None
  /\ UNCHANGED <<stored, mem, rate, call, moves, seen>>

\* electrumService.connect(): a newer one has taken over, and the switch ends where it
\* stands, with neither account manager nor rollback; or it succeeds or fails.
Connect(c) ==
  /\ call[c].pc = "connect"
  /\ \/ /\ dialled # c
        /\ Done(c)
        /\ seen' = [seen EXCEPT !.clash = @ \cup {"torn"}]
        /\ UNCHANGED <<prefs, dialled>>
     \/ /\ dialled = c
        /\ call' = [call EXCEPT ![c].pc = "read", ![c].then = "done",
                      ![c].index = IF call[c].op = "switchNetwork" THEN prefs.active ELSE @]
        /\ UNCHANGED <<prefs, dialled, seen>>
     \/ dialled = c /\ RollBack(c) /\ UNCHANGED seen
  /\ UNCHANGED <<vault, accounts, session, mem, rate, moves>>

Back(c) ==
  /\ call[c].pc = "back"
  /\ IF mem.vault = None
       THEN /\ call' = [call EXCEPT ![c].pc = "read", ![c].index = call[c].prev.active, ![c].then = "redial"]
            /\ UNCHANGED mem
       ELSE /\ mem' = [mem EXCEPT !.net = call[c].prev.net]
            /\ call' = [call EXCEPT ![c].pc = "backKeyed", ![c].arg = mem.vault]
  /\ UNCHANGED <<stored, rate, dialled, moves, seen>>

BackKeyed(c) ==
  /\ call[c].pc = "backKeyed"
  /\ mem' = [mem EXCEPT !.key = Key(call[c].arg)]
  /\ call' = [call EXCEPT ![c].pc = "read", ![c].index = call[c].prev.active, ![c].then = "redial"]
  /\ UNCHANGED <<stored, rate, dialled, moves, seen>>

Redial(c) ==
  /\ call[c].pc = "redial"
  /\ dialled' = c
  /\ Done(c)
  /\ UNCHANGED <<stored, mem, rate, moves, seen>>

\* deriveNextAccount(), once the accounts are read.
DeriveNext(c) ==
  /\ call[c].pc = "derive"
  /\ IF mem.key = None THEN Done(c) /\ UNCHANGED <<mem, accounts>>
     ELSE Push(c, Derive(mem.key, mem.net, NextIndex(mem.list, prefs.net)), "again")
  /\ UNCHANGED <<vault, prefs, session, rate, dialled, moves, seen>>

\* createAccount() reads them once more.
Again(c) ==
  /\ call[c].pc = "again"
  /\ call' = [call EXCEPT ![c].pc = "reread", ![c].then = "done"]
  /\ UNCHANGED <<stored, mem, rate, dialled, moves, seen>>

-----------------------------------------------------------------------------
(* Removing the wallet, and the death of the worker.                       *)

\* Faulty variant: the accounts are forgotten and left in storage.
ForgetAccounts(c) ==
  /\ At(c, "logout", "accounts")
  /\ mem' = [mem EXCEPT !.list = <<>>, !.active = 0]
  /\ Goto(c, "vault")
  /\ UNCHANGED <<stored, rate, dialled, moves, seen>>

DestroyAccounts(c) ==
  /\ At(c, "logout", "accounts")
  /\ mem' = [mem EXCEPT !.list = <<>>, !.active = 0]
  /\ accounts' = <<>>
  /\ Goto(c, "vault")
  /\ UNCHANGED <<vault, prefs, session, rate, dialled, moves, seen>>

DestroyVault(c) ==
  /\ At(c, "logout", "vault")
  /\ vault' = None
  /\ Goto(c, "preferences")
  /\ UNCHANGED <<accounts, prefs, session, mem, rate, dialled, moves, seen>>

\* The objects are cleared once the vault is out of the storage.
ResetPreferences(c) ==
  /\ At(c, "logout", "preferences")
  /\ mem' = [mem EXCEPT !.vault = None, !.key = None, !.net = None]
  /\ prefs' = DefaultPrefs
  /\ Goto(c, "forget")
  /\ UNCHANGED <<vault, accounts, session, rate, dialled, moves, seen>>

ForgetPassword(c) ==
  /\ At(c, "logout", "forget")
  /\ session' = FALSE
  /\ Done(c)
  /\ UNCHANGED <<vault, accounts, prefs, mem, rate, dialled, moves, seen>>

\* The worker dies and ensureBackgroundBootstrap() runs before the next message.
WorkerDies ==
  /\ moves > 0
  /\ moves' = moves - 1
  /\ call' = [c \in Calls |-> Idle]
  /\ accounts' = Deduped(accounts)
  /\ mem' = [vault |-> vault, key |-> None, net |-> None, list |-> accounts', active |-> prefs.active]
  /\ dialled' = None
  /\ seen' = [seen EXCEPT !.clash = (@ \ {"selection"}) \cup {"torn"} \cup Overlaps("death")]
  /\ UNCHANGED <<vault, prefs, session, rate>>

Step(c) ==
  \/ Read(c) \/ Assign(c) \/ Point(c) \/ Added(c)
  \/ Encrypted(c) \/ CreateDefault(c) \/ Keep(c) \/ BackedUp(c)
  \/ Verified(c) \/ Unlocked(c) \/ Failed(c) \/ Counted(c) \/ Restore(c) \/ Decrypted(c)
  \/ Switch(c) \/ Rekey(c) \/ Rekeyed(c) \/ Dial(c) \/ Connect(c)
  \/ Back(c) \/ BackKeyed(c) \/ Redial(c) \/ DeriveNext(c) \/ Again(c)
  \/ DestroyAccounts(c) \/ DestroyVault(c) \/ ResetPreferences(c) \/ ForgetPassword(c)

Next ==
  \/ \E c \in Calls : Step(c)
  \/ \E c \in Calls, seed \in 1..MaxSeeds, op \in {"create", "recover"} : StartCreate(c, seed, op)
  \/ \E c \in Calls : StartRestore(c) \/ StartCreateAccount(c) \/ StartBackup(c) \/ StartLogout(c)
  \/ \E c \in Calls, net \in Networks : StartSwitchNetwork(c, net)
  \/ \E c \in Calls, i \in 1..Len(mem.list) : StartSwitchAccount(c, i)
  \/ \E c \in Calls, op \in {"unlock", "guess"} : StartVerify(c, op)
  \/ Lock \/ SessionExpires \/ LockoutEnds \/ LoopDials \/ WorkerDies

Spec == Init /\ [][Next]_vars

-----------------------------------------------------------------------------
(* Properties.                                                             *)

Quiet == \A c \in Calls : call[c].op = "none"
Undisturbed(kind) == kind \notin seen.clash

\* Every variable stays in its set.
TypeOK ==
  /\ vault \in 0..MaxSeeds \cup {None} /\ mem.vault \in 0..MaxSeeds \cup {None}
  /\ prefs.net \in Networks /\ prefs.backed \in BOOLEAN /\ session \in BOOLEAN
  /\ prefs.active \in Nat /\ mem.active \in Nat
  /\ mem.net \in Networks \cup {None}
  /\ rate.count \in Nat /\ rate.until \in {"none", "short", "long"}
  /\ dialled \in Calls \cup {None} /\ moves \in 0..MaxMoves
  /\ rate.until # "none" => rate.count >= ShortThreshold

\* Between calls, however they overlapped, no account is stored twice, so that no list
\* index moves when the accounts are read again.
NoTwins == Quiet => \A i, j \in DOMAIN accounts : accounts[i] = accounts[j] => i = j

\* Between calls, an unlocked wallet's preferences and account manager name one account,
\* which is listed once, stored, and of the network the preferences name; else the pages
\* show one account and the addresses are another's, or nothing is scanned at all.
SelectionAgrees ==
  /\ TypeOK
  /\ NoTwins
  /\ Quiet /\ seen.clash \cap {"selection", "torn", "keys"} = {} /\ vault # None /\ mem.key # None =>
       /\ mem.active = prefs.active
       /\ prefs.active \in On(mem.list, prefs.net)
       /\ mem.list = accounts

\* Between calls, every stored account is derived from the seed in the vault, with its
\* own network's encoding: another one's coins could never be spent after an unlock.  And
\* the wallet is called backed up only when the user has typed that seed.
AccountsAreOfTheVault ==
  Quiet /\ Undisturbed("keys") =>
    /\ \A i \in DOMAIN accounts : accounts[i].seed = vault /\ accounts[i].xpub = accounts[i].net
    /\ mem.vault = vault
    /\ mem.key # None => mem.key.seed = vault
    /\ vault # None /\ prefs.backed /\ Undisturbed("backup") => vault \in seen.verified

\* A wallet that was locked, and not unlocked since, has neither the key nor the session
\* password, of which a restore would make the key again; but for a lock beside a creation,
\* restore, unlock or switch, which sets the one or the other afterwards.
LockedHoldsNoKey == Undisturbed("lock") /\ seen.locked => mem.key = None /\ ~session

\* No more wrong passwords are answered in a row than the short threshold, without a
\* lockout that had to end or a success; but for passwords tried at once, of which some are
\* not counted.
GuessesAreLimited == Undisturbed("guess") => seen.guesses <= ShortThreshold

\* A restore or an unlock keeps the account the user has chosen, if the network has it.
RestoreKeepsChoice ==
  [][\A c \in Calls :
       call[c].pc = "decrypt" /\ call'[c] # call[c] /\ prefs.active \in On(mem.list, prefs.net) =>
         prefs'.active = prefs.active]_vars
=============================================================================
