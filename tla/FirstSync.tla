------------------------------ MODULE FirstSync ------------------------------
(***************************************************************************)
(* The first sync of an account and the spinner that shows it: the full    *)
(* passes of the scan runtime (runAllScans, runPostConnectScan), the list  *)
(* of synced contexts in storage.session, the events of the popup's port   *)
(* and the popup's WalletContext, which asks for the status once and then  *)
(* follows the events - while the user switches accounts and networks, the *)
(* connection drops, and the popup and the service worker come and go.     *)
(*                                                                         *)
(* Code between two awaits is one action; a storage access takes effect    *)
(* when it is issued.  A scan is its beginning and its outcome (what it    *)
(* finds is in ScanManager); the scans that nothing indicates, of passes   *)
(* and of alarms, and the balances and histories that the popup reads as   *)
(* well are left out.  What the worker sends a popup, answers and events   *)
(* alike, arrives in the order in which it was sent.                       *)
(***************************************************************************)
EXTENDS Integers, Sequences, FiniteSets

CONSTANTS
  Contexts,      \* the accounts, each of one network
  First,         \* the one that is selected at the start
  None,          \* no account
  Kinds,         \* which of "account", "cross" and "network" switches happen
  Passes,        \* how many full passes run at once
  MaxMoves,      \* how many switches, drops, failures, deaths and closings happen
  MaxOpens,      \* how often the popup is opened
  Lag            \* how many messages are on their way to the popup at once

ASSUME SlotsAssumption == IsFiniteSet(Passes) /\ Cardinality(Passes) >= 2

ASSUME ContextsAssumption == First \in Contexts /\ None \notin Contexts

ASSUME BoundsAssumption == MaxMoves \in Nat /\ MaxOpens \in Nat /\ Lag \in Nat

VARIABLES
  prefs,         \* the account the preferences name
  mgr,           \* accountManager's active account
  switch,        \* the switch in progress: its kind, its target, how far it is
  connected,     \* electrumService.status === 'connected'
  starting,      \* is the connection that init() of the worker awaits still to come?
  pass,          \* the full passes that run
  inflight,      \* firstSyncInflight
  marked,        \* scanSyncedContexts in storage.session
  asks,          \* requests of the popup the worker has not begun to handle
  restoring,     \* the popups whose wallet.restore is under way
  news,          \* answers and events on their way to the popup
  popup,         \* WalletContext of the popup
  seen,          \* history: the accounts that may be marked, and those that failed to be
  moves          \* what the bounds have left

worker == <<prefs, mgr, switch, connected, starting, pass, inflight, marked>>
vars == <<worker, asks, restoring, news, popup, seen, moves>>

NoPass   == [pc |-> "idle", ctx |-> None, read |-> {}, on |-> None,
             stale |-> FALSE, broken |-> FALSE, disturbed |-> FALSE]
NoSwitch == [phase |-> "none", kind |-> "account", target |-> None, for |-> 0]
Closed   == [phase |-> "closed", id |-> 0, port |-> FALSE, prefs |-> None, spinner |-> FALSE,
             astray |-> FALSE]

Init ==
  /\ prefs = First /\ mgr = First
  /\ switch = NoSwitch
  /\ connected = FALSE /\ starting = TRUE
  /\ pass = [p \in Passes |-> NoPass]
  /\ inflight = [c \in Contexts |-> 0]
  /\ marked = {}
  /\ asks = <<>> /\ restoring = {} /\ news = <<>>
  /\ popup = Closed
  /\ seen = [earned |-> {}, failed |-> {}]
  /\ moves = [moves |-> MaxMoves, opens |-> MaxOpens]

Spend(what) == moves[what] > 0 /\ moves' = [moves EXCEPT ![what] = @ - 1]

\* scanKey(): nothing while the preferences and the account manager disagree.
Context == IF prefs = mgr THEN mgr ELSE None

\* broadcast() to the popup's port, and the answer to a request of popup id.
Event(queue, event) == IF popup.port THEN Append(queue, event) ELSE queue

Answer(queue, id, answer) == IF popup.id = id THEN Append(queue, answer) ELSE queue

Sync(c, on) == [type |-> "sync", ctx |-> c, on |-> on]

Status(on) == [type |-> "status", ctx |-> None, on |-> on]

Say(type, c) == [type |-> type, ctx |-> c, on |-> FALSE]

Ask(type, kind, c) == [type |-> type, kind |-> kind, ctx |-> c, by |-> popup.id]

-----------------------------------------------------------------------------
(* A full pass.                                                            *)

Free == {p \in Passes : pass[p].pc = "idle"}
Slot == CHOOSE p \in Free : TRUE

\* runAllScans() up to its first await: disconnected, it scans silently.
AllScans == IF connected THEN [NoPass EXCEPT !.pc = "look", !.ctx = mgr, !.read = marked] ELSE NoPass

Started(new) == Free # {} /\ pass' = [pass EXCEPT ![Slot] = new]

\* The marks are read: the pass is indicated if its account is not among them.
Look(p) ==
  /\ pass[p].pc = "look"
  /\ LET c == pass[p].ctx IN
     IF c \in pass[p].read
       THEN pass' = [pass EXCEPT ![p] = NoPass] /\ UNCHANGED <<inflight, news>>
       ELSE /\ pass' = [pass EXCEPT ![p] = [NoPass EXCEPT !.pc = "hot", !.ctx = c]]
            /\ inflight' = [inflight EXCEPT ![c] = @ + 1]
            /\ news' = IF inflight[c] = 0 THEN Event(news, Sync(c, TRUE)) ELSE news
  /\ UNCHANGED <<prefs, mgr, switch, connected, starting, marked, asks, restoring, popup, seen,
                 moves>>

\* Faulty variant: the end of one of two passes is announced as the end of both.
UnwindEarly(p) ==
  LET c == pass[p].ctx IN
  /\ pass' = [pass EXCEPT ![p] = NoPass]
  /\ inflight' = [inflight EXCEPT ![c] = @ - 1]
  /\ news' = Event(news, Sync(c, FALSE))

\* The finally of runAllScans().
Unwind(p) ==
  LET c == pass[p].ctx IN
  /\ pass' = [pass EXCEPT ![p] = NoPass]
  /\ inflight' = [inflight EXCEPT ![c] = @ - 1]
  /\ news' = IF inflight[c] = 1 THEN Event(news, Sync(c, FALSE)) ELSE news

\* History: what may be marked although it was not scanned, because the account was being
\* left, was returned to, or lost and regained its connection while its pass ran.
Disturbed(p) ==
  IF pass[p].disturbed \/ Context = None THEN [seen EXCEPT !.earned = @ \cup {pass[p].ctx}] ELSE seen

\* Faulty variant: the account is marked whichever is active by now.
ConcludeAnyway(p) ==
  IF connected
    THEN /\ pass' = [pass EXCEPT ![p] = [NoPass EXCEPT !.pc = "mark", !.ctx = pass[p].ctx, !.read = marked]]
         /\ UNCHANGED <<inflight, news>>
    ELSE Unwind(p)

\* The scans of pass p are over: mark its account if it is still the active one and the
\* server is connected, else unwind.
Conclude(p) ==
  IF pass[p].ctx = mgr /\ connected
    THEN /\ pass' = [pass EXCEPT ![p] = [NoPass EXCEPT !.pc = "mark", !.ctx = mgr, !.read = marked]]
         /\ UNCHANGED <<inflight, news>>
    ELSE Unwind(p)

\* The hot scan is over, done or not: the backfill and forward scans begin, for whatever
\* account is active by now.
HotEnds(p) ==
  /\ pass[p].pc = "hot"
  /\ IF Context = None
       THEN Conclude(p)
       ELSE pass' = [pass EXCEPT ![p].pc = "ensure", ![p].on = Context] /\ UNCHANGED <<inflight, news>>
  /\ seen' = IF Context = None THEN Disturbed(p) ELSE seen
  /\ UNCHANGED <<prefs, mgr, switch, connected, starting, marked, asks, restoring, popup, moves>>

Scans(p) == pass[p].pc \in {"hot", "ensure", "rest"}

\* ensureScanRuntime() is through.  Scans of the account that run are joined; those of before
\* a clear() are not found.
Ensured(p) ==
  /\ pass[p].pc = "ensure"
  /\ IF Context = pass[p].on
       THEN /\ pass' = [pass EXCEPT ![p].pc = "rest", ![p].broken = ~connected, ![p].stale = FALSE]
            /\ UNCHANGED <<inflight, news, seen>>
       ELSE Conclude(p) /\ seen' = Disturbed(p)
  /\ UNCHANGED <<prefs, mgr, switch, connected, starting, marked, asks, restoring, popup, moves>>

\* The backfill and forward scans return: to their end, or abandoned, or without a server.
RestEnds(p) ==
  /\ pass[p].pc = "rest"
  /\ seen' = IF ~pass[p].stale /\ Context = pass[p].on /\ ~pass[p].broken
                THEN [seen EXCEPT !.earned = @ \cup {pass[p].on}]
                ELSE Disturbed(p)
  /\ Conclude(p)
  /\ UNCHANGED <<prefs, mgr, switch, connected, starting, marked, asks, restoring, popup, moves>>

\* A request fails, or failed when the connection dropped: the pass rejects.
PassFails(p) ==
  /\ pass[p].pc \in {"hot", "rest"}
  /\ \/ pass[p].broken /\ UNCHANGED <<moves, seen>>
     \/ ~pass[p].broken /\ Spend("moves") /\ seen' = [seen EXCEPT !.failed = @ \cup {pass[p].ctx}]
  /\ Unwind(p)
  /\ UNCHANGED <<prefs, mgr, switch, connected, starting, marked, asks, restoring, popup>>

\* markContextSynced() writes the list it has read, with its account.
Mark(p) ==
  /\ pass[p].pc = "mark"
  /\ LET new == IF pass[p].ctx \in pass[p].read THEN marked ELSE pass[p].read \cup {pass[p].ctx}
     IN  marked' = new /\ seen' = [seen EXCEPT !.failed = @ \cup (marked \ new)]
  /\ Unwind(p)
  /\ UNCHANGED <<prefs, mgr, switch, connected, starting, asks, restoring, popup, moves>>

\* Bound: the popup is never further behind than Lag messages.
Heard == Len(news) < Lag

PassStep(p) == Heard /\ (Look(p) \/ HotEnds(p) \/ Ensured(p) \/ RestEnds(p) \/ Mark(p))

-----------------------------------------------------------------------------
(* The service worker.                                                     *)

\* Faulty variant: only the worker's start runs the scans, a later connection does not.
ConnectSilently ==
  /\ ~connected
  /\ connected' = TRUE /\ starting' = FALSE
  /\ starting => Free # {}
  /\ pass' = IF starting THEN [pass EXCEPT ![Slot] = [NoPass EXCEPT !.pc = "look", !.ctx = mgr, !.read = marked]]
                         ELSE pass
  /\ UNCHANGED <<prefs, mgr, switch, inflight, marked, asks, restoring, news, popup, seen, moves>>

\* A server is reached, for the worker's start, a reconnect or a switch: the status listener
\* runs the scans (runPostConnectScan; its own look at the marks is left out), and so does
\* init() of the worker once its connect() has returned.
Connect ==
  /\ ~connected
  /\ connected' = TRUE /\ starting' = FALSE
  /\ LET n == IF starting THEN 2 ELSE 1
         S == CHOOSE T \in SUBSET Free : Cardinality(T) = n
     IN  /\ Cardinality(Free) >= n
         /\ pass' = [p \in Passes |->
              IF p \in S THEN [NoPass EXCEPT !.pc = "look", !.ctx = mgr, !.read = marked]
                        ELSE [pass[p] EXCEPT !.disturbed = Scans(p)]]
  /\ UNCHANGED <<prefs, mgr, switch, inflight, marked, asks, restoring, news, popup, seen, moves>>

Broken == [p \in Passes |-> IF pass[p].pc \in {"hot", "rest"} THEN [pass[p] EXCEPT !.broken = TRUE]
                                                            ELSE pass[p]]

Drop ==
  /\ connected
  /\ Spend("moves")
  /\ connected' = FALSE
  /\ pass' = Broken
  /\ UNCHANGED <<prefs, mgr, switch, starting, inflight, marked, asks, restoring, news, popup,
                 seen>>

\* The worker dies, with all it was doing; what the popup awaits is rejected, its port is
\* disconnected, and only storage is left when the worker starts again.
Die ==
  /\ Spend("moves")
  /\ mgr' = prefs
  /\ switch' = NoSwitch
  /\ connected' = FALSE /\ starting' = TRUE
  /\ pass' = [p \in Passes |-> NoPass]
  /\ inflight' = [c \in Contexts |-> 0]
  /\ asks' = <<>> /\ restoring' = {} /\ news' = <<>>
  /\ popup' = IF popup.phase = "closed" THEN popup
                ELSE [popup EXCEPT !.phase = IF popup.prefs = None THEN "dead" ELSE "idle",
                                   !.port = FALSE, !.astray = TRUE]
  /\ UNCHANGED <<prefs, marked, seen>>

\* The switch begins: the preferences move, and to another network the connection goes.
BeginSwitch ==
  /\ asks # <<>> /\ Head(asks).type = "switch"
  /\ asks' = Tail(asks)
  /\ LET ask == Head(asks) IN
     /\ prefs' = ask.ctx
     /\ switch' = [phase |-> "begun", kind |-> ask.kind, target |-> ask.ctx, for |-> ask.by]
     /\ IF ask.kind = "account" THEN UNCHANGED <<connected, pass>>
                                ELSE connected' = FALSE /\ pass' = Broken
  /\ UNCHANGED <<mgr, starting, inflight, marked, restoring, news, popup, seen, moves>>

\* clear() abandons the running scans; a pass of the account that is selected now is
\* disturbed.
Cleared(c) ==
  [p \in Passes |-> [pass[p] EXCEPT !.stale = pass[p].pc = "rest",
                                   !.disturbed = @ \/ (Scans(p) /\ pass[p].ctx = c)]]

\* The account manager moves: switchNetwork() does it before it connects (ensureDefaultAccount)
\* and clears the scan caches later; switchAccount() does both at once, connected if it
\* has to.
MoveAccount ==
  /\ switch.phase = "begun"
  /\ switch.kind = "cross" => connected
  /\ mgr' = switch.target
  /\ IF switch.kind = "network"
       THEN switch' = [switch EXCEPT !.phase = "moved"] /\ UNCHANGED pass
       ELSE switch' = [switch EXCEPT !.phase = "cleared"] /\ pass' = Cleared(switch.target)
  /\ UNCHANGED <<prefs, connected, starting, inflight, marked, asks, restoring, news, popup, seen, moves>>

ClearScans ==
  /\ switch.phase = "moved" /\ connected
  /\ pass' = Cleared(mgr)
  /\ switch' = [switch EXCEPT !.phase = "cleared"]
  /\ UNCHANGED <<prefs, mgr, connected, starting, inflight, marked, asks, restoring, news, popup, seen,
                 moves>>

\* The handler triggers the scans of the new account and answers.
FinishSwitch ==
  /\ switch.phase = "cleared"
  /\ switch' = NoSwitch
  /\ Started(AllScans)
  /\ news' = Answer(news, switch.for, Say("prefs", prefs))
  /\ UNCHANGED <<prefs, mgr, connected, starting, inflight, marked, asks, restoring, popup, seen, moves>>

\* wallet.restore: it decrypts for a while, triggers the scans and answers.
BeginRestore ==
  /\ asks # <<>> /\ Head(asks).type = "restore"
  /\ asks' = Tail(asks)
  /\ restoring' = restoring \cup {Head(asks).by}
  /\ UNCHANGED <<worker, news, popup, seen, moves>>

FinishRestore(id) ==
  /\ id \in restoring
  /\ restoring' = restoring \ {id}
  /\ Started(AllScans)
  /\ news' = Answer(news, id, Say("prefs", prefs))
  /\ UNCHANGED <<prefs, mgr, switch, connected, starting, inflight, marked, asks, popup, seen, moves>>

\* scan.status is answered at once, for the account manager's account
\* (isActiveFirstSyncRunning).
Reply ==
  /\ asks # <<>> /\ Head(asks).type = "status"
  /\ asks' = Tail(asks)
  /\ news' = Answer(news, Head(asks).by, Status(inflight[mgr] > 0))
  /\ UNCHANGED <<worker, restoring, popup, seen, moves>>

-----------------------------------------------------------------------------
(* The popup.                                                              *)

Open ==
  /\ popup.phase = "closed"
  /\ Spend("opens")
  /\ popup' = [Closed EXCEPT !.phase = "restoring", !.id = moves.opens, !.port = TRUE,
                             !.astray = switch.phase # "none" \/ asks # <<>>]
  /\ asks' = Append(asks, [Ask("restore", "account", None) EXCEPT !.by = moves.opens])
  /\ UNCHANGED <<worker, restoring, news, seen>>

Close ==
  /\ popup.phase # "closed"
  /\ Spend("moves")
  /\ popup' = Closed
  /\ news' = <<>>
  /\ UNCHANGED <<worker, asks, restoring, seen>>

\* scheduleReconnect(): a new port, which wakes the worker.  Nothing is asked again.
Reconnect ==
  /\ popup.phase # "closed" /\ ~popup.port
  /\ popup' = [popup EXCEPT !.port = TRUE]
  /\ UNCHANGED <<worker, asks, restoring, news, seen, moves>>

\* The user chooses another account or network.
Choose(kind, c) ==
  /\ popup.phase = "idle" /\ popup.port
  /\ switch.phase = "none" /\ \A i \in 1..Len(asks) : asks[i].type # "switch"
  /\ c # prefs
  /\ Spend("moves")
  /\ popup' = [popup EXCEPT !.phase = "switching"]
  /\ asks' = Append(asks, Ask("switch", kind, c))
  /\ UNCHANGED <<worker, restoring, news, seen>>

\* The first answer or event reaches the popup: onSync(), refreshScanStatus(), init(),
\* hydrateSession(), switchAccount() and switchNetwork().
Deliver ==
  /\ news # <<>>
  /\ news' = Tail(news)
  /\ LET new == Head(news) IN
     \/ /\ new.type = "sync"
        /\ popup' = IF new.ctx = popup.prefs THEN [popup EXCEPT !.spinner = new.on] ELSE popup
        /\ UNCHANGED asks
     \/ /\ new.type = "status"
        /\ popup' = [popup EXCEPT !.spinner = new.on]
        /\ UNCHANGED asks
     \/ /\ new.type = "prefs"
        /\ popup' = [popup EXCEPT !.prefs = new.ctx, !.phase = "idle"]
        /\ asks' = Append(asks, Ask("status", "account", None))
  /\ UNCHANGED <<worker, restoring, seen, moves>>

Handle == Heard /\ (BeginSwitch \/ BeginRestore \/ Reply)

Go == Heard /\ (MoveAccount \/ ClearScans \/ FinishSwitch)

Restored == Heard /\ \E id \in restoring : FinishRestore(id)

Next ==
  \/ \E p \in Passes : PassStep(p)
  \/ \E p \in Passes : Heard /\ PassFails(p)
  \/ Connect \/ Drop \/ Die
  \/ Handle \/ Go
  \/ Restored
  \/ Open \/ Close \/ Reconnect
  \/ \E kind \in Kinds, c \in Contexts : Choose(kind, c)
  \/ Deliver

\* Awaits end, the service reconnects, handlers answer and messages arrive; the user has
\* nothing to do, and nothing has to fail.
Fairness ==
  /\ \A p \in Passes : WF_vars(PassStep(p))
  /\ WF_vars(Connect)
  /\ WF_vars(Handle) /\ WF_vars(Go) /\ WF_vars(Restored)
  /\ WF_vars(Reconnect) /\ WF_vars(Deliver)

Spec == Init /\ [][Next]_vars /\ Fairness

-----------------------------------------------------------------------------
(* Properties.                                                             *)

\* Every variable stays in its set.
TypeOK ==
  /\ prefs \in Contexts /\ mgr \in Contexts
  /\ switch.phase \in {"none", "begun", "moved", "cleared"}
  /\ \A p \in Passes : pass[p].pc \in {"idle", "look", "hot", "ensure", "rest", "mark"}
  /\ \A c \in Contexts : inflight[c] \in 0..Cardinality(Passes)
  /\ marked \subseteq Contexts
  /\ popup.phase \in {"closed", "restoring", "switching", "idle", "dead"}
  /\ seen \in [earned : SUBSET Contexts, failed : SUBSET Contexts]

Settled == asks = <<>> /\ news = <<>> /\ restoring = {} /\ switch.phase = "none"

\* When nothing is on its way, the popup shows the account the worker has, and its spinner
\* turns exactly while a first sync of that account runs; but for a popup that has survived
\* the worker or was opened in the middle of a switch.
SpinnerIsTruthful ==
  /\ TypeOK
  /\ Settled /\ popup.phase = "idle" /\ ~popup.astray =>
       popup.prefs = prefs /\ (popup.spinner <=> inflight[prefs] > 0)

\* An account is marked as synced only when its addresses were scanned to the end, but for
\* one that was being left or returned to, or was reconnected, during the pass.
MarkedMeansScanned == marked \subseteq seen.earned

\* The account in use gets its first sync in the end, whatever switches, drops and deaths
\* came between; unless a pass of it failed on a request or its mark was overwritten.
FirstSyncCompletes == <>[](mgr \in marked \cup seen.failed)
=============================================================================
