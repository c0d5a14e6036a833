------------------------- MODULE ElectrumConnection -------------------------
(***************************************************************************)
(* Who owns the Electrum connection: ElectrumService (server choice,       *)
(* rotation, adoption, teardown), the background reconnect loop that its   *)
(* status events drive, the start of the service worker and the network    *)
(* switches of WalletManager that tear the connection down and rebuild it. *)
(*                                                                         *)
(* Status listeners run synchronously inside setStatus(), so an action that *)
(* emits a status also does what the background listener does with it,     *)
(* including the first dial of a reconnect.  Code between two awaits is one *)
(* action.                                                                 *)
(*                                                                         *)
(* connectEpoch is only ever compared by the connect() call that took it,  *)
(* so `owner', the call whose epoch is the current one, stands for it; the *)
(* background epoch is likewise the flag `live' of an attempt.  Backoff    *)
(* delays and cooldown lengths are abstracted to "some time later".        *)
(***************************************************************************)
EXTENDS Naturals

CONSTANTS
  Networks,            \* the Bitcoin networks
  Servers,             \* the hosts of availableServerList
  NetOf,               \* the network of every server
  Rotations,           \* slots for connect() calls that run at the same time
  Switches,            \* the switchNetwork()/switchAccount() calls of a behaviour
  Kinds,               \* which of "network" and "account" switches are made
  None,                \* no server, no rotation
  MaxFaults,           \* how often a dial, a probe or a connection may fail
  Overlap,             \* may a switch start while another one runs?
  StartupOverlap,      \* may the worker's start dial, or fail, while a switch runs?
  RollbackProbeFails   \* may server selection fail during a rollback (at no fault's cost)?

ASSUME NetOfAssumption == NetOf \in [Servers -> Networks]
ASSUME NoneAssumption  == None \notin Servers /\ None \notin Rotations
ASSUME BoundsAssumption == MaxFaults \in Nat /\ Kinds \subseteq {"network", "account"}

VARIABLES
  prefs,         \* preferences.activeNetwork
  network,       \* ElectrumService.network
  healthy,       \* healthyServers
  selected,      \* selectedServer
  rpc,           \* rpcClient: its server, and whether its socket is up
  owner,         \* the rotation whose epoch is connectEpoch
  pending,       \* the rotation whose candidate is pendingCandidate
  cooling,       \* servers whose cooldown has not run out
  status,        \* last status emitted
  rot,           \* the running connect() calls
  reconnecting,  \* electrumReconnecting
  timer,         \* electrumReconnectTimer is armed
  startup,       \* where init() of background/index.ts and its catch stand
  sw,            \* where every switch stands
  latest,        \* the switch that started last
  faults,        \* faults left
  abandoned      \* was a live connection dropped without being closed?

serviceVars == <<network, healthy, selected, rpc, owner, pending, cooling, status, rot, abandoned>>
backgroundVars == <<reconnecting, timer, startup>>
vars == <<prefs, serviceVars, backgroundVars, sw, latest, faults>>

-----------------------------------------------------------------------------
(* Rotations: one record per running connect() call.                       *)

\* Who awaits the call: the worker's start, the reconnect loop, the fire-and-forget
\* reconnect after a rollback, or a switch.
Callers == {"startup", "background", "rollback"} \cup Switches

ASSUME CallersAssumption ==
  /\ Switches \cap {"startup", "background", "rollback"} = {}
  /\ None \notin Callers

RotationRecords ==
  [by : Callers \cup {None}, phase : {"idle", "dial", "rescan"},
   server : Servers \cup {None},   \* of the candidate being dialled
   killed : BOOLEAN,               \* the candidate was disconnected meanwhile
   todo : SUBSET Servers,          \* servers of this pass still to try
   pass : {1, 2},
   live : BOOLEAN]                 \* taken under the current background epoch

Idle == [by |-> None, phase |-> "idle", server |-> None, killed |-> FALSE,
         todo |-> {}, pass |-> 1, live |-> FALSE]

\* rotationOrder(): servers off cooldown, or all of them when every one is cooling.
Candidates(H, cool) == IF H \subseteq cool THEN H ELSE H \ cool

\* The selected server comes first unless every server is cooling.
FirstPicks(H, sel, cool) ==
  IF sel \in H \ cool THEN {sel} ELSE Candidates(H, cool)

\* A pass that dials s first; with no server to try the call goes on to the rescan.
Pass(by, n, H, s, cool) ==
  [by |-> by, phase |-> IF H = {} THEN "rescan" ELSE "dial",
   server |-> IF H = {} THEN None ELSE s, killed |-> FALSE,
   todo |-> Candidates(H, cool) \ {s}, pass |-> n, live |-> by = "background"]

Freed(r) == [rot EXCEPT ![r] = Idle]

\* pendingCandidate?.disconnect(): the dial of p will fail.
Kill(R, p) == IF p = None THEN R ELSE [R EXCEPT ![p].killed = TRUE]

\* cancelElectrumReconnect() moves the background epoch on.
Cancelled(R) == [r \in Rotations |-> [R[r] EXCEPT !.live = FALSE]]

Slot(R) == CHOOSE r \in Rotations : R[r].phase = "idle"

\* connect() up to its first await, in a state with rotations R and pending candidate
\* p: it disconnects the candidate of the call it supersedes and dials s.
Dialling(R, p, by, H, s) ==
  [Kill(R, p) EXCEPT ![Slot(R)] = Pass(by, 1, H, s, cooling')]

MayDial(R, H, sel, s) ==
  /\ \E r \in Rotations : R[r].phase = "idle"
  /\ H # {} => s \in FirstPicks(H, sel, cooling')

BeginConnect(R, p, by, H, sel, s) ==
  /\ MayDial(R, H, sel, s)
  /\ rot' = Dialling(R, p, by, H, s)
  /\ owner' = Slot(R)
  /\ pending' = IF H = {} THEN None ELSE Slot(R)

\* scheduleElectrumReconnect(); o owns the epoch when it is called.
Schedule(R, p, o, s) ==
  IF reconnecting
    THEN /\ rot' = R
         /\ pending' = p
         /\ owner' = o
         /\ UNCHANGED <<reconnecting, timer>>
    ELSE /\ BeginConnect(R, p, "background", healthy, selected, s)
         /\ reconnecting' = TRUE
         /\ timer' = FALSE

NoLonger(x, r) == IF x = r THEN None ELSE x

\* Switch k has begun and is not over.
Running(k) == sw[k].phase \notin {"idle", "done"}

\* The reconnect of a connected wallet that the start left behind is over.
Settled == IF startup = "redial" THEN "done" ELSE startup

-----------------------------------------------------------------------------
(* What a teardown or a replacement does.                                  *)

\* disconnect('switchNetwork') with rotations R and pending candidate p: nobody owns
\* the epoch, both clients are disconnected and the listener cancels its loop.
Teardown(R, p) ==
  /\ owner' = None
  /\ pending' = None
  /\ rot' = Cancelled(Kill(R, p))
  /\ rpc' = [rpc EXCEPT !.up = FALSE]
  /\ status' = "disconnected"
  /\ reconnecting' = FALSE
  /\ timer' = FALSE
  /\ startup' = Settled

\* The end of ElectrumService.init(): the servers found, one of them picked, and a
\* client for it that is not connected.  A client still in use is forgotten.
Replace(H, sel) ==
  /\ healthy' = H
  /\ selected' = sel
  /\ rpc' = [server |-> sel, up |-> FALSE]
  /\ abandoned' = (abandoned \/ rpc.up)

\* What selectBestServer() may find.
Found(net) == {H \in SUBSET {s \in Servers : NetOf[s] = net} : H # {}}

Spend == faults > 0 /\ faults' = faults - 1

\* Faulty variant: the preferences are not put back.
RollBackKeepsPrefs(k, R, p) ==
  /\ Teardown(R, p)
  /\ UNCHANGED prefs
  /\ sw' = [sw EXCEPT ![k].phase = "rollback"]

\* The catch block of switch k: teardown, then back to the previous preferences.
RollBack(k, R, p) ==
  /\ Teardown(R, p)
  /\ prefs' = sw[k].prev
  /\ sw' = [sw EXCEPT ![k].phase = "rollback"]

-----------------------------------------------------------------------------
(* How a connect() call ends for its caller.  r is the rotation that ends, *)
(* p the pending candidate by then, s the server a reconnect dials first.  *)

\* SupersededConnectError.
EndSuperseded(r, p, s) ==
  /\ UNCHANGED <<prefs, status, rpc>>
  /\ IF rot[r].by = "startup"
       THEN \* init().catch schedules a reconnect whatever the error was
            /\ Schedule(Freed(r), p, NoLonger(owner, r), s)
            /\ startup' = "done"
            /\ UNCHANGED sw
       ELSE /\ rot' = Freed(r)
            /\ pending' = p
            /\ owner' = NoLonger(owner, r)
            /\ timer' = (timer \/ rot[r].live)
            /\ reconnecting' = (reconnecting /\ ~rot[r].live)
            /\ sw' = [k \in Switches |->
                        IF rot[r].by = k
                          THEN [sw[k] EXCEPT !.phase = "done", !.result = "superseded"]
                          ELSE sw[k]]
            /\ UNCHANGED startup

\* Any other error; 'disconnected' is announced only by the call that owns the epoch.
EndFailed(r, p, s) ==
  CASE rot[r].by \in Switches ->
         LET k == rot[r].by
             R == IF owner = r /\ ~reconnecting
                    THEN Dialling(Freed(r), p, "background", healthy, s)
                    ELSE Freed(r)
             q == IF owner = r /\ ~reconnecting /\ healthy # {} THEN Slot(Freed(r)) ELSE p
         IN  /\ owner = r /\ ~reconnecting => MayDial(Freed(r), healthy, selected, s)
             /\ RollBack(k, R, q)
    [] rot[r].by = "background" ->
         /\ rot' = Freed(r)
         /\ pending' = p
         /\ owner' = NoLonger(owner, r)
         /\ status' = IF owner = r THEN "disconnected" ELSE status
         /\ timer' = (timer \/ rot[r].live)
         /\ reconnecting' = (reconnecting /\ ~rot[r].live)
         /\ UNCHANGED <<prefs, rpc, startup, sw>>
    [] rot[r].by = "startup" \/ (rot[r].by = "rollback" /\ owner = r) ->
         /\ Schedule(Freed(r), p, NoLonger(owner, r), s)
         /\ status' = IF owner = r THEN "disconnected" ELSE status
         /\ startup' = IF rot[r].by = "startup" THEN "done" ELSE startup
         /\ UNCHANGED <<prefs, rpc, sw>>
    [] OTHER ->
         /\ rot' = Freed(r)
         /\ pending' = p
         /\ owner' = NoLonger(owner, r)
         /\ UNCHANGED <<prefs, status, rpc, reconnecting, timer, startup, sw>>

-----------------------------------------------------------------------------
(* A running connect() call.                                               *)

\* Faulty variant: the reconnect loop is not released when its dial succeeds.
AdoptKeepsLoop(r) ==
  /\ rot[r].phase = "dial" /\ ~rot[r].killed
  /\ owner = r
  /\ rpc' = [server |-> rot[r].server, up |-> TRUE]
  /\ selected' = rot[r].server
  /\ cooling' = cooling \ {rot[r].server}
  /\ status' = "connected"
  /\ owner' = None
  /\ pending' = NoLonger(pending, r)
  /\ rot' = Cancelled(Freed(r))
  /\ startup' = IF rot[r].by = "startup" THEN "scans" ELSE Settled
  /\ sw' = [k \in Switches |->
              IF rot[r].by = k THEN [sw[k] EXCEPT !.phase = "finish"] ELSE sw[k]]
  /\ UNCHANGED <<prefs, network, healthy, reconnecting, timer, latest, faults, abandoned>>

\* The candidate connects.  The call that owns the epoch adopts it, drops the client
\* in use and announces 'connected'; a superseded one disconnects it again.  init() of
\* the worker goes on to its first scans.
Adopt(r) ==
  /\ rot[r].phase = "dial" /\ ~rot[r].killed
  /\ owner = r
  /\ rpc' = [server |-> rot[r].server, up |-> TRUE]
  /\ selected' = rot[r].server
  /\ cooling' = cooling \ {rot[r].server}
  /\ status' = "connected"
  /\ owner' = None
  /\ pending' = NoLonger(pending, r)
  /\ rot' = Cancelled(Freed(r))
  /\ reconnecting' = FALSE
  /\ timer' = FALSE
  /\ startup' = IF rot[r].by = "startup" THEN "scans" ELSE Settled
  /\ sw' = [k \in Switches |->
              IF rot[r].by = k THEN [sw[k] EXCEPT !.phase = "finish"] ELSE sw[k]]
  /\ UNCHANGED <<prefs, network, healthy, latest, faults, abandoned>>

DialSuperseded(r, s) ==
  /\ rot[r].phase = "dial" /\ ~rot[r].killed
  /\ owner # r
  /\ UNCHANGED <<network, healthy, selected, cooling, latest, faults, abandoned>>
  /\ EndSuperseded(r, NoLonger(pending, r), s)

\* candidate.connect() rejects: because it was disconnected, or at the cost of a
\* fault.  Only the owner of the epoch puts the server on cooldown.
DialRejected(r) ==
  /\ rot[r].phase = "dial"
  /\ IF rot[r].killed THEN UNCHANGED faults ELSE Spend
  /\ cooling' = IF owner = r THEN cooling \cup {rot[r].server} ELSE cooling
  /\ UNCHANGED <<network, healthy, selected, latest, abandoned>>

\* The loop goes on with server s.
TryNext(r, s) ==
  /\ DialRejected(r)
  /\ owner = r
  /\ s \in rot[r].todo
  /\ rot' = [rot EXCEPT ![r] = [@ EXCEPT !.server = s, !.killed = FALSE,
                                         !.todo = rot[r].todo \ {s}]]
  /\ pending' = r
  /\ UNCHANGED <<prefs, rpc, owner, status, backgroundVars, sw>>

\* The next assertCurrent() throws.
RejectedSuperseded(r, s) ==
  /\ DialRejected(r)
  /\ owner # r
  /\ rot[r].todo # {} \/ rot[r].pass = 1
  /\ EndSuperseded(r, NoLonger(pending, r), s)

\* The first pass is over, by its last server or by its deadline: rescan.
Rescan(r) ==
  /\ DialRejected(r)
  /\ owner = r
  /\ rot[r].pass = 1
  /\ rot' = [rot EXCEPT ![r] = [@ EXCEPT !.phase = "rescan", !.server = None,
                                         !.killed = FALSE, !.todo = {}]]
  /\ pending' = NoLonger(pending, r)
  /\ UNCHANGED <<prefs, rpc, owner, status, backgroundVars, sw>>

\* The second pass is over: throw lastError, without asking whose epoch it is.
RotationFails(r, s) ==
  /\ DialRejected(r)
  /\ rot[r].pass = 2
  /\ owner # r => rot[r].todo = {}
  /\ EndFailed(r, NoLonger(pending, r), s)

\* selectBestServer(refresh) returns the servers H; s is dialled first.
RescanFinds(r, H, s) ==
  /\ rot[r].phase = "rescan"
  /\ owner = r
  /\ UNCHANGED cooling
  /\ healthy' = H
  /\ s \in FirstPicks(H, selected, cooling)
  /\ rot' = [rot EXCEPT ![r] = [Pass(rot[r].by, 2, H, s, cooling) EXCEPT !.live = rot[r].live]]
  /\ pending' = r
  /\ UNCHANGED <<prefs, network, selected, rpc, owner, status, backgroundVars, sw, latest,
                 faults, abandoned>>

RescanSuperseded(r, s) ==
  /\ rot[r].phase = "rescan"
  /\ owner # r
  /\ UNCHANGED <<network, healthy, selected, cooling, latest, faults, abandoned>>
  /\ EndSuperseded(r, pending, s)

\* selectBestServer(refresh) throws.
RescanFails(r, s) ==
  /\ rot[r].phase = "rescan"
  /\ Spend
  /\ UNCHANGED <<network, healthy, selected, cooling, latest, abandoned>>
  /\ EndFailed(r, pending, s)

-----------------------------------------------------------------------------
(* The connection, the reconnect timer and the cooldowns.                  *)

\* Faulty variant: the suppression of client events is never lifted.
ConnectionDropsSilently(s) ==
  /\ rpc.up
  /\ Spend
  /\ rpc' = [rpc EXCEPT !.up = FALSE]
  /\ UNCHANGED <<prefs, network, healthy, selected, owner, pending, cooling, status, rot,
                 abandoned, backgroundVars, sw, latest>>

\* The adopted client loses its socket; after a request timeout its server cools.
ConnectionDrops(s) ==
  /\ rpc.up
  /\ Spend
  /\ cooling' \in {cooling, cooling \cup {rpc.server}}
  /\ rpc' = [rpc EXCEPT !.up = FALSE]
  /\ status' = "disconnected"
  /\ Schedule(rot, pending, owner, s)
  /\ startup' = Settled
  /\ UNCHANGED <<prefs, network, healthy, selected, sw, latest, abandoned>>

ReconnectTimer(s) ==
  /\ timer
  /\ UNCHANGED cooling
  /\ IF reconnecting THEN timer' = FALSE /\ UNCHANGED <<rot, pending, owner, reconnecting>>
                     ELSE Schedule(rot, pending, owner, s)
  /\ UNCHANGED <<prefs, network, healthy, selected, rpc, status, startup, sw, latest, faults,
                 abandoned>>

CooldownEnds(s) ==
  /\ s \in cooling
  /\ cooling' = cooling \ {s}
  /\ UNCHANGED <<prefs, network, healthy, selected, rpc, owner, pending, status, rot,
                 abandoned, backgroundVars, sw, latest, faults>>

-----------------------------------------------------------------------------
(* init() of background/index.ts, from its call of electrumService.init(). *)

StartupFinds(H, sel, s) ==
  /\ startup = "probe"
  /\ UNCHANGED cooling
  /\ Replace(H, sel)
  /\ BeginConnect(rot, pending, "startup", H, sel, s)
  /\ startup' = "connect"
  /\ UNCHANGED <<prefs, network, status, reconnecting, timer, sw, latest, faults>>

\* Faulty variant: the failure of init() is only logged.
StartupGivesUp(s) ==
  /\ startup = "probe"
  /\ Spend
  /\ startup' = "done"
  /\ UNCHANGED <<prefs, serviceVars, reconnecting, timer, sw, latest>>

\* selectBestServer() throws: catch schedules a reconnect.
StartupFindsNone(s) ==
  /\ startup = "probe"
  /\ Spend
  /\ UNCHANGED cooling
  /\ Schedule(rot, pending, owner, s)
  /\ startup' = "done"
  /\ UNCHANGED <<prefs, network, healthy, selected, rpc, status, sw, latest, abandoned>>

\* runAllScans() is over; init() returns.
ScansEnd ==
  /\ startup = "scans"
  /\ startup' = "done"
  /\ UNCHANGED <<prefs, serviceVars, reconnecting, timer, sw, latest, faults>>

\* runAllScans() rejects: the catch schedules a reconnect of a wallet that is, as a
\* rule, still connected.
ScansFail(s) ==
  /\ startup = "scans"
  /\ StartupOverlap \/ \A k \in Switches : ~Running(k)
  /\ UNCHANGED cooling
  /\ Schedule(rot, pending, owner, s)
  /\ startup' = IF rpc.up THEN "redial" ELSE "done"
  /\ UNCHANGED <<prefs, network, healthy, selected, rpc, status, sw, latest, faults, abandoned>>

-----------------------------------------------------------------------------
(* switchNetwork() and the network-changing path of switchAccount().       *)

\* Up to the first await: the teardown, then the new preferences.
StartSwitch(k, kind, net) ==
  /\ sw[k].phase = "idle" /\ k = CHOOSE j \in Switches : sw[j].phase = "idle"
  /\ Overlap \/ \A j \in Switches : ~Running(j)
  /\ StartupOverlap \/ startup \notin {"probe", "connect"}
  /\ kind = "account" => net # prefs
  /\ Teardown(rot, pending)
  /\ prefs' = net
  /\ sw' = [sw EXCEPT ![k] = [phase |-> "prepare", kind |-> kind, target |-> net,
                              prev |-> prefs, result |-> "none"]]
  /\ latest' = k
  /\ UNCHANGED <<network, healthy, selected, cooling, faults, abandoned>>

\* Preferences saved, wallet restored, account ensured: electrumService.init(target)
\* takes the epoch and looks for servers.
Prepared(k) ==
  /\ sw[k].phase = "prepare"
  /\ network' = sw[k].target
  /\ owner' = None
  /\ sw' = [sw EXCEPT ![k].phase = "init"]
  /\ UNCHANGED <<prefs, healthy, selected, rpc, pending, cooling, status, rot, abandoned,
                 backgroundVars, latest, faults>>

InitFinds(k, H, sel, s) ==
  /\ sw[k].phase = "init"
  /\ UNCHANGED cooling
  /\ Replace(H, sel)
  /\ BeginConnect(rot, pending, k, H, sel, s)
  /\ sw' = [sw EXCEPT ![k].phase = "connect"]
  /\ UNCHANGED <<prefs, network, status, backgroundVars, latest, faults>>

\* Anything awaited before connect() throws.
SwitchThrows(k) ==
  /\ sw[k].phase \in {"prepare", "init"}
  /\ Spend
  /\ RollBack(k, rot, pending)
  /\ UNCHANGED <<network, healthy, selected, cooling, latest, abandoned>>

SwitchCompletes(k) ==
  /\ sw[k].phase = "finish"
  /\ sw' = [sw EXCEPT ![k].phase = "done", ![k].result = "ok"]
  /\ UNCHANGED <<prefs, serviceVars, backgroundVars, latest, faults>>

\* Preferences, wallet, accounts and scan caches are back: electrumService.init(prev).
RolledBack(k) ==
  /\ sw[k].phase = "rollback"
  /\ network' = sw[k].prev
  /\ owner' = None
  /\ sw' = [sw EXCEPT ![k].phase = "restore"]
  /\ UNCHANGED <<prefs, healthy, selected, rpc, pending, cooling, status, rot, abandoned,
                 backgroundVars, latest, faults>>

Failed(k) == [sw EXCEPT ![k].phase = "done", ![k].result = "failed"]

RestoreFinds(k, H, sel, s) ==
  /\ sw[k].phase = "restore"
  /\ UNCHANGED cooling
  /\ Replace(H, sel)
  /\ BeginConnect(rot, pending, "rollback", H, sel, s)
  /\ sw' = Failed(k)
  /\ UNCHANGED <<prefs, network, status, backgroundVars, latest, faults>>

\* The rollback finds no server.  switchNetwork() then calls disconnect() without a
\* reason: its event starts a reconnect, and the rest of disconnect() disconnects the
\* candidate that reconnect has just started to dial.  switchAccount() does nothing.
RestoreFindsNone(k, s) ==
  /\ RollbackProbeFails
  /\ sw[k].phase = "restore"
  /\ UNCHANGED cooling
  /\ sw' = Failed(k)
  /\ IF sw[k].kind = "account"
       THEN UNCHANGED <<rpc, status, rot, owner, pending, reconnecting, timer>>
       ELSE /\ rpc' = [rpc EXCEPT !.up = FALSE]
            /\ status' = "disconnected"
            /\ pending' = None
            /\ IF reconnecting
                 THEN /\ rot' = Kill(rot, pending)
                      /\ owner' = None
                      /\ UNCHANGED <<reconnecting, timer>>
                 ELSE /\ MayDial(rot, healthy, selected, s)
                      /\ LET R == Dialling(rot, pending, "background", healthy, s)
                             r == Slot(rot)
                         IN  /\ rot' = IF healthy = {} THEN R ELSE Kill(R, r)
                             /\ owner' = r
                      /\ reconnecting' = TRUE
                      /\ timer' = FALSE
  /\ UNCHANGED <<prefs, network, healthy, selected, startup, latest, faults, abandoned>>

-----------------------------------------------------------------------------

Init ==
  /\ prefs \in Networks
  /\ network = prefs
  /\ healthy = {}
  /\ selected = None
  /\ rpc = [server |-> None, up |-> FALSE]
  /\ owner = None
  /\ pending = None
  /\ cooling = {}
  /\ status = "disconnected"
  /\ rot = [r \in Rotations |-> Idle]
  /\ reconnecting = FALSE
  /\ timer = FALSE
  /\ startup = "probe"
  /\ sw = [k \in Switches |-> [phase |-> "idle", kind |-> "network", target |-> prefs,
                               prev |-> prefs, result |-> "none"]]
  /\ latest = None
  /\ faults = MaxFaults
  /\ abandoned = FALSE

\* A dial or a rescan of r comes to its end.
Rotate(r) ==
  \/ Adopt(r)
  \/ \E s \in Servers : DialSuperseded(r, s)
  \/ \E s \in Servers : TryNext(r, s)
  \/ \E s \in Servers : RejectedSuperseded(r, s)
  \/ Rescan(r)
  \/ \E s \in Servers : RotationFails(r, s)
  \/ \E H \in Found(network), s \in Servers : RescanFinds(r, H, s)
  \/ \E s \in Servers : RescanSuperseded(r, s)
  \/ \E s \in Servers : RescanFails(r, s)

Start ==
  \/ \E H \in Found(network), sel, s \in Servers : sel \in H /\ StartupFinds(H, sel, s)
  \/ \E s \in Servers : StartupFindsNone(s)
  \/ ScansEnd
  \/ \E s \in Servers : ScansFail(s)

\* Switch k goes on after its current await.
Advance(k) ==
  \/ Prepared(k)
  \/ \E H \in Found(sw[k].target), sel, s \in Servers : sel \in H /\ InitFinds(k, H, sel, s)
  \/ SwitchThrows(k)
  \/ SwitchCompletes(k)
  \/ RolledBack(k)
  \/ \E H \in Found(sw[k].prev), sel, s \in Servers : sel \in H /\ RestoreFinds(k, H, sel, s)
  \/ \E s \in Servers : RestoreFindsNone(k, s)

Next ==
  \/ \E r \in Rotations : Rotate(r)
  \/ Start
  \/ \E k \in Switches, kind \in Kinds, net \in Networks : StartSwitch(k, kind, net)
  \/ \E k \in Switches : Advance(k)
  \/ \E s \in Servers : ConnectionDrops(s)
  \/ \E s \in Servers : ReconnectTimer(s)
  \/ \E s \in Servers : CooldownEnds(s)

\* Awaited promises settle and armed timers fire; nothing makes a user switch, a
\* connection drop or a cooldown end.
Fairness ==
  /\ \A r \in Rotations : WF_vars(Rotate(r))
  /\ WF_vars(Start)
  /\ \A k \in Switches : WF_vars(Advance(k))
  /\ WF_vars(\E s \in Servers : ReconnectTimer(s))

Spec == Init /\ [][Next]_vars /\ Fairness

-----------------------------------------------------------------------------
(* Properties.                                                             *)

SwitchRecords ==
  [phase : {"idle", "prepare", "init", "connect", "finish", "rollback", "restore", "done"},
   kind : {"network", "account"}, target : Networks, prev : Networks,
   result : {"none", "ok", "failed", "superseded"}]

\* Every variable stays in its set.
TypeOK ==
  /\ prefs \in Networks /\ network \in Networks
  /\ healthy \in SUBSET Servers
  /\ selected \in Servers \cup {None}
  /\ rpc \in [server : Servers \cup {None}, up : BOOLEAN]
  /\ owner \in Rotations \cup {None} /\ pending \in Rotations \cup {None}
  /\ cooling \in SUBSET Servers
  /\ status \in {"connected", "disconnected"}
  /\ rot \in [Rotations -> RotationRecords]
  /\ reconnecting \in BOOLEAN /\ timer \in BOOLEAN
  /\ startup \in {"probe", "connect", "scans", "redial", "done"}
  /\ sw \in [Switches -> SwitchRecords]
  /\ latest \in Switches \cup {None}
  /\ faults \in 0..MaxFaults
  /\ abandoned \in BOOLEAN

NoSwitchRuns == startup \notin {"probe", "connect"} /\ \A k \in Switches : ~Running(k)

\* A connect() call is running that may still adopt or will arm the reconnect timer, or
\* the timer is armed.
OnTheWay ==
  timer \/ \E r \in Rotations : rot[r].phase # "idle" /\ (owner = r \/ rot[r].live)

\* What the wallet announces is what it has: 'connected' exactly while the adopted
\* client's socket is up, and no other live connection is ever replaced without being
\* closed.  The one exception is the reconnect of a connected wallet that a failure of the
\* start's first scans leaves behind: when its rotation fails the wallet announces
\* 'disconnected' with its client up, and then that reconnect goes on until it adopts.
StatusIsTruthful ==
  /\ TypeOK
  /\ status = "connected" => rpc.up
  /\ rpc.up /\ status # "connected" => startup = "redial" /\ OnTheWay
  /\ ~abandoned

\* Between switches, a connected wallet is connected to a server of the network that
\* its preferences name; a wrong network answers every scan with empty histories.
ConnectionServesPreferences ==
  NoSwitchRuns /\ rpc.up => NetOf[rpc.server] = prefs

\* Between switches, a wallet that is not connected, or says so, is on its way.
NeverStranded ==
  NoSwitchRuns /\ (~rpc.up \/ status # "connected") => OnTheWay

\* Once faults and switches have stopped, the wallet ends up connected.
EventuallyConnected == <>[](status = "connected" /\ rpc.up)
=============================================================================
