----------------------- MODULE ElectrumConnectionProofs -----------------------
(***************************************************************************)
(* Proofs about the Electrum connection and the client below it.           *)
(*                                                                         *)
(* The safety of ElectrumConnection, for every set of servers, networks,   *)
(* rotations and switches: when switches run one at a time, the worker's   *)
(* start neither dials nor fails while one runs, and a rollback finds a     *)
(* server, the wallet announces what it has but for the reconnect that a    *)
(* failed first scan leaves behind, is connected to the network of its      *)
(* preferences between switches, and is never left without anything that    *)
(* reconnects.                                                             *)
(*                                                                         *)
(* And the safety of one ElectrumRpcClient, for every set of dials and     *)
(* requests: nothing of one connection touches another.                    *)
(***************************************************************************)
EXTENDS ElectrumConnection, ElectrumRpcClient, TLAPS

-----------------------------------------------------------------------------
(* The inductive invariant.                                                *)

\* A switch is between its teardown and its own dial.
Torn == \E k \in Switches : sw[k].phase \in {"prepare", "init", "rollback", "restore"}

\* The worker's start or a switch has the connection to itself.
Busy == startup \in {"probe", "connect"} \/ \E k \in Switches : Running(k) /\ sw[k].phase # "finish"

Active(r) == rot[r].phase # "idle"
Live(r) == Active(r) /\ rot[r].live

\* Operations run one at a time.
Serial ==
  /\ \A j, k \in Switches : Running(j) /\ Running(k) => j = k
  /\ startup \in {"probe", "connect"} => \A k \in Switches : sw[k].phase = "idle"

Announced ==
  /\ status = "connected" => rpc.up
  /\ rpc.up /\ startup # "redial" => status = "connected"
  /\ ~abandoned

\* While an operation has the connection to itself nothing else is armed to dial, and
\* the epoch is nobody's or its own call's; a connected wallet dials nothing but what the
\* failed scans of the start made it dial, between switches.
Alone ==
  /\ Busy => ~timer /\ ~reconnecting /\ ~rpc.up /\ \A r \in Rotations : ~Live(r)
  /\ Torn \/ startup = "probe" => owner = None
  /\ startup = "connect" /\ owner # None => rot[owner].by = "startup"
  /\ \A k \in Switches : sw[k].phase = "connect" /\ owner # None => rot[owner].by = k
  /\ rpc.up /\ startup # "redial" =>
       owner = None /\ ~timer /\ ~reconnecting /\ \A r \in Rotations : ~Live(r)
  /\ startup = "redial" =>
       /\ rpc.up /\ \A k \in Switches : ~Running(k)
       /\ owner # None => rot[owner].by = "background"

\* A call of a switch or of the start owns the epoch for as long as it runs, a call of
\* the loop that owns it is a live one, and the owner dials the service's network.
CallOK(r) ==
  /\ rot[r].by # None
  /\ rot[r].by \in Switches => sw[rot[r].by].phase = "connect" /\ owner = r
  /\ rot[r].by = "startup" => startup = "connect" /\ owner = r
  /\ rot[r].live => rot[r].by = "background"
  /\ rot[r].by = "background" /\ owner = r => rot[r].live
  /\ rot[r].phase = "dial" => rot[r].server \in Servers
  /\ owner = r => \A s \in rot[r].todo : NetOf[s] = network
  /\ owner = r /\ rot[r].phase = "dial" => NetOf[rot[r].server] = network

Calls ==
  /\ \A r \in Rotations : Active(r) => CallOK(r)
  /\ owner # None => Active(owner)

\* The network of the preferences, of the service and of the servers it chose.
Aligned ==
  /\ \A k \in Switches :
       /\ sw[k].phase \in {"prepare", "init", "connect", "finish"} => prefs = sw[k].target
       /\ sw[k].phase \in {"init", "connect", "finish"} => network = sw[k].target
       /\ sw[k].phase \in {"rollback", "restore"} => prefs = sw[k].prev
       /\ sw[k].phase = "restore" => network = sw[k].prev
  /\ (\A k \in Switches : ~Running(k)) => prefs = network
  /\ ~Torn => \A s \in healthy : NetOf[s] = network
  /\ rpc.up => rpc.server \in Servers /\ NetOf[rpc.server] = network

\* The loop has a live call while it says it is reconnecting, and a wallet that is not
\* connected, or that is reconnecting all the same, has something that will end in a connection or in the timer.
OnItsWay ==
  /\ reconnecting => \E r \in Rotations : Live(r)
  /\ ~Busy /\ (~rpc.up \/ startup = "redial") =>
       timer \/ \E r \in Rotations : Active(r) /\ (owner = r \/ rot[r].live)

IInv == TypeOK /\ Serial /\ Announced /\ Alone /\ Calls /\ Aligned /\ OnItsWay

-----------------------------------------------------------------------------
(* Rotation records.                                                       *)

Rows == [Rotations -> RotationRecords]

\* Record b differs from record a in nothing but killed and live.
Alike(a, b) ==
  b.by = a.by /\ b.phase = a.phase /\ b.server = a.server /\ b.todo = a.todo /\ b.pass = a.pass

LEMMA FieldTypes ==
  ASSUME NEW a \in RotationRecords
  PROVE  /\ a.by \in Callers \cup {None}
         /\ a.phase \in {"idle", "dial", "rescan"}
         /\ a.server \in Servers \cup {None}
         /\ a.todo \in SUBSET Servers
         /\ a.live \in BOOLEAN
         /\ a.pass \in {1, 2}
         /\ a.killed \in BOOLEAN
BY DEF RotationRecords

LEMMA IdleIsARecord ==
  /\ Idle \in RotationRecords
  /\ Idle.phase = "idle"
  /\ Idle.live = FALSE
BY DEF Idle, RotationRecords

\* What connect() starts with.
LEMMA PassIsARecord ==
  ASSUME NEW by \in Callers, NEW n \in {1, 2}, NEW H \in SUBSET Servers,
         NEW s \in Servers, NEW cool
  PROVE  /\ Pass(by, n, H, s, cool) \in RotationRecords
         /\ Pass(by, n, H, s, cool).by = by
         /\ Pass(by, n, H, s, cool).phase = IF H = {} THEN "rescan" ELSE "dial"
         /\ Pass(by, n, H, s, cool).server = IF H = {} THEN None ELSE s
         /\ Pass(by, n, H, s, cool).todo \in SUBSET H
         /\ Pass(by, n, H, s, cool).live = (by = "background")
BY DEF Pass, RotationRecords, Candidates

\* The server dialled first is one of those found.
LEMMA FirstPickIsFound ==
  ASSUME NEW H, NEW sel, NEW cool, NEW s \in FirstPicks(H, sel, cool)
  PROVE  s \in H
BY DEF FirstPicks, Candidates

\* A killed call is still the call it was.
LEMMA KillKeeps ==
  ASSUME NEW R \in Rows, NEW p \in Rotations \cup {None}
  PROVE  /\ Kill(R, p) \in Rows
         /\ \A q \in Rotations : Alike(R[q], Kill(R, p)[q]) /\ Kill(R, p)[q].live = R[q].live
<1>1. CASE p = None
  BY <1>1 DEF Kill, Alike
<1>2. CASE p # None
  <2>1. p \in Rotations
    BY <1>2
  <2>2. Kill(R, p) = [R EXCEPT ![p] = [R[p] EXCEPT !.killed = TRUE]]
    BY <1>2 DEF Kill, Rows
  <2>3. R[p] \in RotationRecords
    BY <2>1 DEF Rows
  <2> DEFINE k == [R[p] EXCEPT !.killed = TRUE]
  <2>4. k \in RotationRecords /\ Alike(R[p], k) /\ k.live = R[p].live
    BY <2>3 DEF RotationRecords, Alike
  <2> HIDE DEF k
  <2>5. Kill(R, p) \in Rows
    BY <2>1, <2>2, <2>4 DEF Rows, k
  <2>6. \A q \in Rotations : Kill(R, p)[q] = IF q = p THEN k ELSE R[q]
    BY <2>1, <2>2 DEF Rows, k
  <2> QED
    BY <2>4, <2>5, <2>6 DEF Alike
<1> QED
  BY <1>1, <1>2

LEMMA CancelledKeeps ==
  ASSUME NEW R \in Rows
  PROVE  /\ Cancelled(R) \in Rows
         /\ \A q \in Rotations : Alike(R[q], Cancelled(R)[q]) /\ ~Cancelled(R)[q].live
<1>1. \A q \in Rotations :
        /\ Cancelled(R)[q] \in RotationRecords
        /\ Alike(R[q], Cancelled(R)[q]) /\ ~Cancelled(R)[q].live
  <2> SUFFICES ASSUME NEW q \in Rotations
               PROVE  /\ Cancelled(R)[q] \in RotationRecords
                      /\ Alike(R[q], Cancelled(R)[q]) /\ ~Cancelled(R)[q].live
    OBVIOUS
  <2>1. R[q] \in RotationRecords
    BY DEF Rows
  <2>2. Cancelled(R)[q] = [R[q] EXCEPT !.live = FALSE]
    BY DEF Cancelled
  <2> QED
    BY <2>1, <2>2 DEF RotationRecords, Alike
<1>2. Cancelled(R) \in Rows
  BY <1>1 DEF Cancelled, Rows
<1> QED
  BY <1>1, <1>2

LEMMA FreedKeeps ==
  ASSUME rot \in Rows, NEW r \in Rotations
  PROVE  /\ Freed(r) \in Rows
         /\ \A q \in Rotations : Freed(r)[q] = IF q = r THEN Idle ELSE rot[q]
BY IdleIsARecord DEF Freed, Rows

LEMMA SlotIsIdle ==
  ASSUME NEW R, \E r \in Rotations : R[r].phase = "idle"
  PROVE  Slot(R) \in Rotations /\ R[Slot(R)].phase = "idle"
BY DEF Slot

\* Dialling, for any set of cooling servers.
Dialled(R, p, by, H, s, cool) == [Kill(R, p) EXCEPT ![Slot(R)] = Pass(by, 1, H, s, cool)]

\* A call that starts takes a free slot and leaves every other call what it was.
TakesASlot(R, p, by, H, s, cool) ==
  /\ Dialled(R, p, by, H, s, cool) \in Rows
  /\ Dialled(R, p, by, H, s, cool)[Slot(R)] = Pass(by, 1, H, s, cool)
  /\ \A q \in Rotations \ {Slot(R)} :
       /\ Alike(R[q], Dialled(R, p, by, H, s, cool)[q])
       /\ Dialled(R, p, by, H, s, cool)[q].live = R[q].live

LEMMA DialledKeeps ==
  ASSUME NEW R \in Rows, NEW p \in Rotations \cup {None}, NEW by \in Callers,
         NEW H \in SUBSET Servers, NEW s \in Servers, NEW cool,
         \E r \in Rotations : R[r].phase = "idle"
  PROVE  TakesASlot(R, p, by, H, s, cool)
<1>1. Slot(R) \in Rotations
  BY SlotIsIdle
<1>2. Kill(R, p) \in Rows
  BY KillKeeps
<1>3. Pass(by, 1, H, s, cool) \in RotationRecords
  BY PassIsARecord
<1>4. Dialled(R, p, by, H, s, cool) = [Kill(R, p) EXCEPT ![Slot(R)] = Pass(by, 1, H, s, cool)]
  BY DEF Dialled
<1>5. Dialled(R, p, by, H, s, cool) \in Rows
  BY <1>1, <1>2, <1>3, <1>4 DEF Rows
<1>6. \A q \in Rotations : Dialled(R, p, by, H, s, cool)[q] =
                             IF q = Slot(R) THEN Pass(by, 1, H, s, cool) ELSE Kill(R, p)[q]
  BY <1>1, <1>2, <1>4 DEF Rows
<1>7. \A q \in Rotations : Alike(R[q], Kill(R, p)[q]) /\ Kill(R, p)[q].live = R[q].live
  BY KillKeeps
<1> DEFINE D == Dialled(R, p, by, H, s, cool)
           S == Slot(R)
           P == Pass(by, 1, H, s, cool)
           K == Kill(R, p)
<1>8. /\ D \in Rows /\ S \in Rotations
      /\ \A q \in Rotations : D[q] = IF q = S THEN P ELSE K[q]
      /\ \A q \in Rotations : Alike(R[q], K[q]) /\ K[q].live = R[q].live
  BY <1>1, <1>5, <1>6, <1>7
<1> HIDE DEF D, S, P, K
<1>9. D \in Rows /\ D[S] = P
      /\ \A q \in Rotations \ {S} : Alike(R[q], D[q]) /\ D[q].live = R[q].live
  BY <1>8
<1> QED
  BY <1>9 DEF D, S, P, K, TakesASlot

-----------------------------------------------------------------------------
(* A call ends for the reconnect loop, or for nobody.                      *)

SInv == Serial /\ Announced /\ Alone /\ Calls /\ Aligned /\ OnItsWay

\* Only the operation that has the connection to itself owns the epoch.
LEMMA OwnerIsBusy ==
  ASSUME TypeOK, SInv, NEW r \in Rotations, owner = r,
         rot[r].by \in {"background", "rollback"}
  PROVE  /\ ~Busy /\ ~Torn
         /\ rpc.up \/ startup = "redial" => startup = "redial" /\ rot[r].by = "background"
<1>1. owner # None
  BY NoneAssumption
<1>2. startup \notin {"probe", "connect"}
  BY <1>1 DEF SInv, Alone
<1>3. ~Torn /\ (rpc.up \/ startup = "redial" => startup = "redial" /\ rot[r].by = "background")
  BY <1>1 DEF SInv, Alone
<1>4. ASSUME NEW k \in Switches PROVE ~(Running(k) /\ sw[k].phase # "finish")
  <2>1. sw[k].phase # "connect"
    BY <1>1, CallersAssumption DEF SInv, Alone, Callers
  <2>2. sw[k] \in SwitchRecords
    BY DEF TypeOK
  <2> QED
    BY <1>3, <2>1, <2>2 DEF Torn, Running, SwitchRecords
<1> QED
  BY <1>2, <1>3, <1>4 DEF Busy

QuietEnd(r) ==
  /\ Active(r)
  /\ rot[r].by \in {"background", "rollback"}
  /\ rot[r].by = "rollback" => owner # r
  /\ rot' = Freed(r)
  /\ owner' = NoLonger(owner, r)
  /\ status' = IF owner = r THEN "disconnected" ELSE status
  /\ timer' = (timer \/ rot[r].live)
  /\ reconnecting' = (reconnecting /\ ~rot[r].live)
  /\ UNCHANGED <<prefs, network, healthy, rpc, startup, sw, abandoned>>

LEMMA QuietEndKeeps ==
  ASSUME TypeOK, SInv, NEW r \in Rotations, QuietEnd(r)
  PROVE  SInv'
<1>1. rot \in Rows /\ rot[r] \in RotationRecords
  BY DEF TypeOK, Rows
<1>2. /\ rot[r].live \in BOOLEAN /\ timer \in BOOLEAN /\ reconnecting \in BOOLEAN
      /\ timer' \in BOOLEAN /\ reconnecting' \in BOOLEAN
  BY <1>1, FieldTypes DEF TypeOK, QuietEnd
<1>3. \A q \in Rotations : rot'[q] = IF q = r THEN Idle ELSE rot[q]
  BY <1>1, FreedKeeps DEF QuietEnd
<1>4. /\ rot'[r].phase = "idle"
      /\ \A q \in Rotations : q # r => rot'[q] = rot[q]
  BY <1>3, IdleIsARecord
<1>5. owner \in Rotations \cup {None} /\ owner' \in Rotations \cup {None}
      /\ owner' = IF owner = r THEN None ELSE owner
  BY DEF QuietEnd, NoLonger, TypeOK
<1>6. (Torn' <=> Torn) /\ (Busy' <=> Busy)
      /\ \A k \in Switches : (Running(k)' <=> Running(k)) /\ sw'[k] = sw[k]
  BY DEF QuietEnd, Torn, Busy, Running
<1>7. owner = r /\ rpc.up => startup = "redial"
  BY NoneAssumption DEF SInv, Alone
<1>8. Serial'
  BY <1>6 DEF SInv, Serial, QuietEnd
<1>9. Announced'
  BY <1>7 DEF SInv, Announced, QuietEnd
<1>10. ~rot[r].live => (timer' <=> timer) /\ (reconnecting' <=> reconnecting)
  BY <1>2 DEF QuietEnd
<1>11. Alone'
  <2>1. (Busy => ~timer /\ ~reconnecting /\ ~rpc.up /\ \A q \in Rotations : ~Live(q))'
    BY <1>4, <1>6, <1>10 DEF SInv, Alone, QuietEnd, Live, Active
  <2>2. (Torn \/ startup = "probe" => owner = None)'
    BY <1>5, <1>6 DEF SInv, Alone, QuietEnd
  <2>3. (startup = "connect" /\ owner # None => rot[owner].by = "startup")'
    BY <1>4, <1>5 DEF SInv, Alone, QuietEnd, Active, Live
  <2>4. (\A k \in Switches : sw[k].phase = "connect" /\ owner # None => rot[owner].by = k)'
    BY <1>4, <1>5, <1>6 DEF SInv, Alone, QuietEnd, Active, Live
  <2>5. (rpc.up /\ startup # "redial" =>
           owner = None /\ ~timer /\ ~reconnecting /\ \A q \in Rotations : ~Live(q))'
    BY <1>4, <1>5, <1>10 DEF SInv, Alone, QuietEnd, Live, Active
  <2>6. (startup = "redial" => /\ rpc.up /\ \A k \in Switches : ~Running(k)
                               /\ owner # None => rot[owner].by = "background")'
    BY <1>4, <1>5, <1>6 DEF SInv, Alone, QuietEnd
  <2> QED
    BY <2>1, <2>2, <2>3, <2>4, <2>5, <2>6 DEF Alone
<1>12. Calls'
  <2>1. ASSUME NEW q \in Rotations, Active(q)'
        PROVE  CallOK(q)'
    <3>1. q # r /\ rot'[q] = rot[q] /\ Active(q) /\ CallOK(q)
      BY <1>4, <2>1 DEF SInv, Calls, Active, Live
    <3>2. (owner' = q) <=> (owner = q)
      BY <1>5, <3>1, NoneAssumption
    <3> QED
      BY <3>1, <3>2 DEF CallOK, QuietEnd
  <2>2. owner' # None => Active(owner)'
    BY <1>4, <1>5 DEF SInv, Calls, Active, Live
  <2> QED
    BY <2>1, <2>2 DEF Calls
<1>13. Aligned'
  BY <1>6 DEF SInv, Aligned, QuietEnd
<1>14. OnItsWay'
  <2>1. (reconnecting => \E q \in Rotations : Live(q))'
    <3> SUFFICES ASSUME reconnecting' PROVE \E q \in Rotations : Live(q)'
      OBVIOUS
    <3>1. reconnecting /\ ~rot[r].live
      BY <1>2 DEF QuietEnd
    <3>2. PICK q \in Rotations : Live(q)
      BY <3>1 DEF SInv, OnItsWay
    <3> QED
      BY <1>4, <3>1, <3>2 DEF Live, Active
  <2>2. (~Busy /\ (~rpc.up \/ startup = "redial") =>
           timer \/ \E q \in Rotations : Active(q) /\ (owner = q \/ rot[q].live))'
    <3> SUFFICES ASSUME ~Busy, ~rpc.up \/ startup = "redial", ~timer'
                 PROVE  \E q \in Rotations : Active(q)' /\ (owner' = q \/ rot'[q].live)
      BY <1>6 DEF QuietEnd
    <3>1. ~timer /\ ~rot[r].live
      BY <1>2 DEF QuietEnd
    <3>2. PICK q \in Rotations : Active(q) /\ (owner = q \/ rot[q].live)
      BY <3>1 DEF SInv, OnItsWay
    <3>3. q # r
      <4>1. q = r => owner = r /\ rot[r].by = "background"
        BY <3>1, <3>2 DEF QuietEnd
      <4>2. CallOK(r)
        BY DEF SInv, Calls, QuietEnd
      <4> QED
        BY <3>1, <4>1, <4>2 DEF CallOK
    <3> QED
      BY <1>4, <1>5, <3>2, <3>3 DEF Active, Live
  <2> QED
    BY <2>1, <2>2 DEF OnItsWay
<1> QED
  BY <1>8, <1>9, <1>11, <1>12, <1>13, <1>14 DEF SInv

-----------------------------------------------------------------------------
(* The reconnect loop is asked to take over.                               *)

\* Every call left is one of the loop or of a rollback, no live one has gone, and the
\* epoch is nobody's or is still owned by its call.
Remain(R, o) ==
  /\ \A q \in Rotations : R[q].phase # "idle" =>
       R[q] = rot[q] /\ rot[q].by \in {"background", "rollback"}
  /\ \A q \in Rotations : Live(q) => R[q] = rot[q]
  /\ o = None \/ (o = owner /\ R[o] = rot[o])

HandsOver(R, p, o, s) ==
  /\ Schedule(R, p, o, s)
  /\ UNCHANGED <<prefs, network, healthy, sw, abandoned>>
  /\ startup' \in {"scans", "redial", "done"}
  /\ startup' = "redial" => rpc' = rpc /\ rpc.up /\ \A k \in Switches : ~Running(k)
  /\ startup' # "redial" => rpc'.up = FALSE /\ status' = "disconnected"

\* What a reconnect starts with.
LEMMA LoopsCall ==
  ASSUME TypeOK, SInv, ~Torn, NEW s \in Servers, NEW cool,
         healthy # {} => s \in FirstPicks(healthy, selected, cool)
  PROVE  LET P == Pass("background", 1, healthy, s, cool)
         IN  /\ P.by = "background" /\ P.live /\ P.phase \in {"dial", "rescan"}
             /\ \A x \in P.todo : NetOf[x] = network
             /\ P.phase = "dial" => P.server \in Servers /\ NetOf[P.server] = network
<1> DEFINE P == Pass("background", 1, healthy, s, cool)
<1>1. "background" \in Callers /\ healthy \in SUBSET Servers /\ 1 \in {1, 2}
  BY DEF Callers, TypeOK
<1>2. /\ P.by = "background"
      /\ P.phase = IF healthy = {} THEN "rescan" ELSE "dial"
      /\ P.server = IF healthy = {} THEN None ELSE s
      /\ P.todo \in SUBSET healthy
      /\ P.live = TRUE
  BY DEF Pass, Candidates
<1> HIDE DEF P
<1>3. \A x \in healthy : NetOf[x] = network
  BY DEF SInv, Aligned
<1>4. healthy # {} => s \in healthy
  BY FirstPickIsFound
<1>5. P.live
  BY <1>2
<1>6. /\ P.phase \in {"dial", "rescan"}
      /\ \A x \in P.todo : NetOf[x] = network
      /\ P.phase = "dial" => P.server \in Servers /\ NetOf[P.server] = network
  BY <1>2, <1>3, <1>4
<1> QED
  BY <1>2, <1>5, <1>6 DEF P

LEMMA HandsOverKeeps ==
  ASSUME TypeOK, SInv, NEW R \in Rows, NEW p \in Rotations \cup {None},
         NEW o \in Rotations \cup {None}, NEW s \in Servers,
         HandsOver(R, p, o, s), Remain(R, o), ~Busy'
  PROVE  SInv'
<1>1. \A k \in Switches : sw[k].phase \in {"idle", "finish", "done"}
  BY DEF HandsOver, Busy, Running
<1>2. ~Torn /\ ~Torn' /\ (\A k \in Switches : sw'[k] = sw[k] /\ sw[k].phase # "connect")
  BY <1>1 DEF Torn, HandsOver
<1>3. Serial'
  BY <1>2 DEF HandsOver, Serial, SInv, Running
<1>4. Announced'
  BY DEF HandsOver, Announced, SInv
<1>5. ASSUME startup' = "redial" /\ owner' # None => rot'[owner'].by = "background"
      PROVE  Alone'
  <2>1. \A k \in Switches : startup' = "redial" => ~Running(k)'
    BY DEF HandsOver, Running
  <2>2. startup' = "redial" => rpc'.up
    BY DEF HandsOver
  <2>3. rpc'.up => startup' = "redial"
    BY DEF HandsOver
  <2>4. startup' \notin {"probe", "connect"}
    BY DEF HandsOver
  <2> QED
    BY <1>2, <1>5, <2>1, <2>2, <2>3, <2>4 DEF Alone
<1>6. Aligned'
  <2>1. rpc'.up => rpc' = rpc /\ rpc.up
    BY DEF HandsOver
  <2> QED
    BY <1>2, <2>1 DEF Aligned, HandsOver, SInv, Running
<1>7. ASSUME NEW q \in Rotations, R[q].phase # "idle"
      PROVE  /\ R[q] = rot[q] /\ CallOK(q) /\ rot[q].by \in {"background", "rollback"}
             /\ rot[q].by \notin Switches
  BY <1>7, CallersAssumption DEF Remain, SInv, Calls, Active, Callers
<1>8. o # None => o = owner /\ R[o] = rot[o] /\ R[o].phase # "idle"
  BY DEF Remain, SInv, Calls, Active
<1>9. CASE reconnecting
  <2>1. rot' = R /\ owner' = o /\ reconnecting'
    BY <1>9 DEF HandsOver, Schedule
  <2>2. ASSUME NEW q \in Rotations, R[q].phase # "idle"
        PROVE  CallOK(q)'
    <3>1. owner' = q => owner = q
      BY <1>8, <2>1, NoneAssumption
    <3> QED
      BY <1>7, <2>1, <2>2, <3>1 DEF CallOK, HandsOver
  <2>3. Calls'
    BY <1>8, <2>1, <2>2 DEF Calls, Active
  <2>4. PICK q \in Rotations : Live(q)
    BY <1>9 DEF SInv, OnItsWay
  <2>5. rot'[q].phase # "idle" /\ rot'[q].live
    BY <2>1, <2>4 DEF Remain, Live, Active
  <2>6. OnItsWay'
    BY <2>5 DEF OnItsWay, Live, Active
  <2>7. startup' = "redial" /\ owner' # None => rot'[owner'].by = "background"
    <3> SUFFICES ASSUME startup' = "redial", o # None
                 PROVE  R[o].by = "background"
      BY <2>1
    <3>1. rpc.up /\ o = owner /\ R[o] = rot[o]
      BY <1>8 DEF HandsOver
    <3> QED
      BY <3>1 DEF SInv, Alone
  <2> QED
    BY <1>3, <1>4, <1>5, <1>6, <2>3, <2>6, <2>7 DEF SInv
<1>10. CASE ~reconnecting
  <2> DEFINE S == Slot(R)
             P == Pass("background", 1, healthy, s, cooling')
  <2>1. /\ MayDial(R, healthy, selected, s)
        /\ rot' = Dialling(R, p, "background", healthy, s)
        /\ owner' = S
    BY <1>10 DEF HandsOver, Schedule, BeginConnect
  <2>2. /\ \E r \in Rotations : R[r].phase = "idle"
        /\ healthy # {} => s \in FirstPicks(healthy, selected, cooling')
    BY <2>1 DEF MayDial
  <2>3. S \in Rotations /\ R[S].phase = "idle"
    BY <2>2, SlotIsIdle
  <2>4. "background" \in Callers /\ healthy \in SUBSET Servers
    BY DEF Callers, TypeOK
  <2> DEFINE D == Dialled(R, p, "background", healthy, s, cooling')
  <2>d. /\ D \in Rows
        /\ D[S] = P
        /\ \A q \in Rotations \ {S} : Alike(R[q], D[q]) /\ D[q].live = R[q].live
    BY <2>2, <2>4, DialledKeeps DEF TakesASlot
  <2>e. rot' = D
    BY <2>1 DEF Dialling, Dialled
  <2> HIDE DEF D
  <2>5. /\ rot'[S] = P
        /\ \A q \in Rotations \ {S} : Alike(R[q], rot'[q]) /\ rot'[q].live = R[q].live
    BY <2>d, <2>e
  <2>6. /\ P.by = "background" /\ P.live /\ P.phase \in {"dial", "rescan"}
        /\ \A x \in P.todo : NetOf[x] = network
        /\ P.phase = "dial" => P.server \in Servers /\ NetOf[P.server] = network
    BY <1>2, <2>2, LoopsCall
  <2> HIDE DEF S, P
  <2>7. ASSUME NEW q \in Rotations, rot'[q].phase # "idle"
        PROVE  CallOK(q)'
    <3>1. CASE q = S
      <4>1. rot'[q] = P /\ owner' = q /\ network' = network
        BY <2>1, <2>5, <3>1 DEF HandsOver
      <4>2. "background" # None /\ "background" \notin Switches
        BY CallersAssumption DEF Callers
      <4> QED
        BY <2>6, <4>1, <4>2 DEF CallOK
    <3>2. CASE q # S
      <4>1. Alike(R[q], rot'[q]) /\ rot'[q].live = R[q].live /\ owner' # q
        BY <2>1, <2>5, <3>2
      <4>2. R[q] = rot[q] /\ CallOK(q) /\ rot[q].by \in {"background", "rollback"}
            /\ rot[q].by \notin Switches
        BY <1>7, <2>7, <4>1 DEF Alike
      <4> QED
        BY <4>1, <4>2 DEF CallOK, Alike
    <3> QED
      BY <3>1, <3>2
  <2>8. rot'[S].phase # "idle" /\ rot'[S].live
    BY <2>5, <2>6
  <2>9. Calls'
    BY <2>1, <2>7, <2>8 DEF Calls, Active
  <2>10. OnItsWay'
    BY <2>3, <2>8 DEF OnItsWay, Live, Active
  <2>11. rot'[owner'].by = "background"
    BY <2>1, <2>5, <2>6
  <2> QED
    BY <1>3, <1>4, <1>5, <1>6, <2>9, <2>10, <2>11 DEF SInv
<1> QED
  BY <1>9, <1>10

-----------------------------------------------------------------------------
(* The start of the worker, a switch or a rollback dials.                  *)

\* Every call that runs while nobody owns the epoch is one of the loop or of a rollback.
LEMMA Leftovers ==
  ASSUME TypeOK, SInv, NEW q \in Rotations, Active(q), owner # q
  PROVE  /\ rot[q].by \in {"background", "rollback"}
         /\ rot[q].by \notin Switches /\ rot[q].by # None
         /\ rot[q].phase = "dial" => rot[q].server \in Servers
         /\ rot[q].live => rot[q].by = "background"
<1>1. CallOK(q)
  BY DEF SInv, Calls
<1>2. rot[q].by \in Callers \cup {None}
  BY FieldTypes DEF TypeOK
<1> QED
  BY <1>1, <1>2, CallersAssumption DEF CallOK, Callers

OwnCall(by, H, sel, s) ==
  /\ BeginConnect(rot, pending, by, H, sel, s)
  /\ healthy' = H
  /\ rpc'.up = FALSE
  /\ abandoned' = (abandoned \/ rpc.up)
  /\ UNCHANGED <<network, status, reconnecting, timer>>
  /\ startup' \notin {"probe", "redial"} /\ ~Torn'
  /\ by \in Switches => sw'[by].phase = "connect"
  /\ by = "startup" => startup' = "connect"
  /\ startup' = "connect" => by = "startup"
  /\ \A k \in Switches : sw'[k].phase = "connect" => by = k

LEMMA OwnCallKeeps ==
  ASSUME TypeOK, SInv, Busy, owner = None, NEW by \in Callers \ {"background"},
         NEW H \in Found(network), NEW sel \in Servers, NEW s \in Servers,
         OwnCall(by, H, sel, s)
  PROVE  Announced' /\ Alone' /\ Calls' /\ OnItsWay'
<1>1. ~timer /\ ~reconnecting /\ ~rpc.up /\ \A r \in Rotations : ~Live(r)
  BY DEF SInv, Alone
<1>2. H \in SUBSET Servers /\ H # {} /\ \A x \in H : NetOf[x] = network
  BY DEF Found
<1> DEFINE S == Slot(rot)
           P == Pass(by, 1, H, s, cooling')
           D == Dialled(rot, pending, by, H, s, cooling')
<1>3. MayDial(rot, H, sel, s) /\ rot' = D /\ owner' = S
  BY DEF OwnCall, BeginConnect, Dialling, Dialled
<1>4. (\E r \in Rotations : rot[r].phase = "idle") /\ s \in H
  BY <1>2, <1>3, FirstPickIsFound DEF MayDial
<1>5. S \in Rotations /\ rot[S].phase = "idle"
  BY <1>4, SlotIsIdle
<1>6. rot \in Rows /\ pending \in Rotations \cup {None}
  BY DEF TypeOK, Rows
<1>7. /\ D[S] = P
      /\ \A q \in Rotations \ {S} : Alike(rot[q], D[q]) /\ D[q].live = rot[q].live
  <2>1. by \in Callers /\ H \in SUBSET Servers
    BY <1>2
  <2>2. \E r \in Rotations : rot[r].phase = "idle"
    BY <1>4
  <2> QED
    BY <1>6, <2>1, <2>2, DialledKeeps DEF TakesASlot
<1>8. /\ P.by = by /\ P.phase = "dial" /\ P.server = s /\ P.todo \in SUBSET H
      /\ P.live = FALSE
  BY <1>2 DEF Pass, Candidates
<1> HIDE DEF S, P, D
<1>9. rot'[S] = P /\ owner' = S
      /\ \A q \in Rotations \ {S} : Alike(rot[q], rot'[q]) /\ rot'[q].live = rot[q].live
  BY <1>3, <1>7
<1>10. Announced'
  BY <1>1 DEF OwnCall, Announced, SInv
<1>11. \A q \in Rotations : ~(rot'[q].phase # "idle" /\ rot'[q].live)
  BY <1>1, <1>8, <1>9 DEF Live, Active, Alike
<1>12. Alone'
  <2>1. (\A r \in Rotations : ~Live(r))'
    BY <1>11 DEF Live, Active
  <2>2. ~timer' /\ ~reconnecting' /\ ~rpc'.up
    BY <1>1 DEF OwnCall
  <2>3. rot'[owner'].by = by
    BY <1>8, <1>9
  <2> QED
    BY <2>1, <2>2, <2>3 DEF Alone, OwnCall
<1>13. ASSUME NEW q \in Rotations, rot'[q].phase # "idle"
       PROVE  CallOK(q)'
  <2>1. CASE q = S
    <3>1. rot'[q] = P /\ owner' = q /\ network' = network
      BY <1>9, <2>1 DEF OwnCall
    <3>2. by # None /\ by # "background"
      BY CallersAssumption
    <3> QED
      BY <1>2, <1>4, <1>8, <3>1, <3>2 DEF CallOK, OwnCall
  <2>2. CASE q # S
    <3>1. Alike(rot[q], rot'[q]) /\ rot'[q].live = rot[q].live /\ owner' # q
      BY <1>9, <2>2
    <3>2. rot[q].phase # "idle" /\ owner # q
      BY <1>13, <3>1, NoneAssumption DEF Alike
    <3>3. /\ rot[q].by \in {"background", "rollback"}
          /\ rot[q].by \notin Switches /\ rot[q].by # None
          /\ rot[q].phase = "dial" => rot[q].server \in Servers
          /\ rot[q].live => rot[q].by = "background"
      BY <3>2, Leftovers DEF Active
    <3> QED
      BY <3>1, <3>3 DEF CallOK, Alike
  <2> QED
    BY <2>1, <2>2
<1>14. rot'[S].phase # "idle"
  BY <1>8, <1>9
<1>15. Calls'
  BY <1>9, <1>13, <1>14 DEF Calls, Active
<1>16. OnItsWay'
  <2>1. ~reconnecting'
    BY <1>1 DEF OwnCall
  <2> QED
    BY <1>5, <1>9, <1>14, <2>1 DEF OnItsWay, Active
<1> QED
  BY <1>10, <1>12, <1>15, <1>16

-----------------------------------------------------------------------------
(* A switch starts or falls back: everything is torn down.                 *)

TornDown(R, p) ==
  /\ Teardown(R, p)
  /\ UNCHANGED abandoned
  /\ \A q \in Rotations : R[q].phase # "idle" =>
       /\ R[q].by \in {"background", "rollback"}
       /\ R[q].phase = "dial" => R[q].server \in Servers

LEMMA TornDownKeeps ==
  ASSUME TypeOK, SInv, NEW R \in Rows, NEW p \in Rotations \cup {None}, TornDown(R, p), Busy'
  PROVE  Announced' /\ Alone' /\ Calls' /\ OnItsWay'
<1> DEFINE K == Kill(R, p)
           C == Cancelled(K)
<1>1. /\ K \in Rows
      /\ \A q \in Rotations : Alike(R[q], K[q])
  BY KillKeeps
<1>2. rot' = C
  BY DEF TornDown, Teardown
<1>3. \A q \in Rotations : Alike(K[q], C[q]) /\ ~C[q].live
  BY <1>1, CancelledKeeps
<1> HIDE DEF K, C
<1>4. \A q \in Rotations : Alike(R[q], rot'[q]) /\ ~rot'[q].live
  BY <1>1, <1>2, <1>3 DEF Alike
<1>5. /\ owner' = None /\ ~rpc'.up /\ status' = "disconnected"
      /\ reconnecting' = FALSE /\ timer' = FALSE /\ abandoned' = abandoned
      /\ startup' # "redial"
  BY DEF TornDown, Teardown, TypeOK, Settled
<1>6. Announced'
  BY <1>5 DEF Announced, SInv
<1>7. Alone'
  BY <1>4, <1>5 DEF Alone, Live
<1>8. ASSUME NEW q \in Rotations, rot'[q].phase # "idle"
      PROVE  CallOK(q)'
  <2>1. /\ rot'[q].by \in {"background", "rollback"} /\ ~rot'[q].live
        /\ rot'[q].phase = "dial" => rot'[q].server \in Servers
    BY <1>4, <1>8 DEF Alike, TornDown
  <2>2. rot'[q].by \notin Switches /\ rot'[q].by # None
    BY <2>1, CallersAssumption DEF Callers
  <2>3. owner' # q
    BY <1>5, NoneAssumption
  <2> QED
    BY <2>1, <2>2, <2>3 DEF CallOK
<1>9. Calls'
  BY <1>5, <1>8 DEF Calls, Active
<1>10. OnItsWay'
  BY <1>5 DEF OnItsWay
<1> QED
  BY <1>6, <1>7, <1>9, <1>10

-----------------------------------------------------------------------------
(* The call that owns the epoch goes on.                                   *)

GoesOn(r) ==
  /\ owner = r
  /\ Active(r)
  /\ \A q \in Rotations : q # r => rot'[q] = rot[q]
  /\ rot'[r].by = rot[r].by /\ rot'[r].live = rot[r].live
  /\ rot'[r].phase # "idle"
  /\ rot'[r].phase = "dial" => rot'[r].server \in Servers /\ NetOf[rot'[r].server] = network
  /\ \A x \in rot'[r].todo : NetOf[x] = network
  /\ \A x \in healthy' : NetOf[x] = network
  /\ UNCHANGED <<prefs, network, rpc, owner, status, reconnecting, timer, startup, sw, abandoned>>

LEMMA GoesOnKeeps ==
  ASSUME TypeOK, SInv, NEW r \in Rotations, GoesOn(r)
  PROVE  SInv'
<1>1. (Torn' <=> Torn) /\ (Busy' <=> Busy)
      /\ \A k \in Switches : (Running(k)' <=> Running(k)) /\ sw'[k] = sw[k]
  BY DEF GoesOn, Torn, Busy, Running
<1>2. \A q \in Rotations : /\ (rot'[q].phase = "idle") <=> (rot[q].phase = "idle")
                           /\ rot'[q].by = rot[q].by /\ rot'[q].live = rot[q].live
  BY DEF GoesOn, Active
<1>3. Serial'
  BY <1>1 DEF SInv, Serial, GoesOn
<1>4. Announced'
  BY DEF SInv, Announced, GoesOn
<1>5. owner = r /\ owner' = r /\ r # None
  BY NoneAssumption DEF GoesOn
<1>6. Alone'
  BY <1>1, <1>2, <1>5 DEF SInv, Alone, GoesOn, Live, Active
<1>7. ASSUME NEW q \in Rotations, rot'[q].phase # "idle"
      PROVE  CallOK(q)'
  <2>1. CallOK(q)
    BY <1>2, <1>7 DEF SInv, Calls, Active
  <2>2. CASE q = r
    BY <2>1, <2>2 DEF CallOK, GoesOn
  <2>3. CASE q # r
    BY <2>1, <2>3 DEF CallOK, GoesOn
  <2> QED
    BY <2>2, <2>3
<1>8. Calls'
  BY <1>5, <1>7 DEF Calls, Active, GoesOn
<1>9. Aligned'
  BY <1>1 DEF SInv, Aligned, GoesOn
<1>10. OnItsWay'
  <2>1. \A q \in Rotations : Live(q) => rot'[q].phase # "idle" /\ rot'[q].live
    BY <1>2 DEF Live, Active
  <2>2. rot'[r].phase # "idle" /\ owner' = r
    BY <1>5 DEF GoesOn
  <2> QED
    BY <2>1, <2>2 DEF SInv, OnItsWay, GoesOn, Live, Active
<1> QED
  BY <1>3, <1>4, <1>6, <1>8, <1>9, <1>10 DEF SInv

-----------------------------------------------------------------------------
(* Every action keeps the types.                                           *)

\* One switch moves to phase ph.
LEMMA SwitchMoves ==
  ASSUME sw \in [Switches -> SwitchRecords], NEW k \in Switches,
         NEW ph \in {"idle", "prepare", "init", "connect", "finish", "rollback", "restore", "done"},
         NEW res \in {"none", "ok", "failed", "superseded"},
         \/ sw' = [sw EXCEPT ![k].phase = ph]
         \/ sw' = [sw EXCEPT ![k].phase = ph, ![k].result = res]
  PROVE  /\ sw' \in [Switches -> SwitchRecords]
         /\ sw'[k].phase = ph /\ sw'[k].target = sw[k].target /\ sw'[k].prev = sw[k].prev
         /\ \A j \in Switches : j # k => sw'[j] = sw[j]
<1> DEFINE b == [sw[k] EXCEPT !.phase = ph]
           c == [sw[k] EXCEPT !.phase = ph, !.result = res]
<1>1. /\ b \in SwitchRecords /\ b.phase = ph /\ b.target = sw[k].target /\ b.prev = sw[k].prev
      /\ c \in SwitchRecords /\ c.phase = ph /\ c.target = sw[k].target /\ c.prev = sw[k].prev
  <2>1. sw[k] \in SwitchRecords
    OBVIOUS
  <2> QED
    BY <2>1 DEF SwitchRecords
<1>2. sw' = [sw EXCEPT ![k] = b] \/ sw' = [sw EXCEPT ![k] = c]
  <2>1. CASE sw' = [sw EXCEPT ![k].phase = ph]
    BY <2>1
  <2>2. CASE sw' = [sw EXCEPT ![k].phase = ph, ![k].result = res]
    BY <2>2
  <2> QED
    BY <2>1, <2>2
<1> HIDE DEF b, c
<1> QED
  BY <1>1, <1>2

-----------------------------------------------------------------------------
(* The owner's candidate connects.                                         *)

LEMMA AdoptKeeps ==
  ASSUME TypeOK, SInv, NEW r \in Rotations, Adopt(r)
  PROVE  TypeOK' /\ SInv'
<1>1. /\ owner = r /\ r # None /\ Active(r) /\ rot[r].phase = "dial" /\ CallOK(r)
      /\ owner' = None
  BY NoneAssumption DEF Adopt, Active, SInv, Calls
<1>2. ~Torn /\ startup # "probe"
  BY <1>1 DEF SInv, Alone
<1>3. rot[r].server \in Servers /\ NetOf[rot[r].server] = network
  BY <1>1 DEF CallOK
<1>4. rot \in Rows
  BY DEF TypeOK, Rows
<1>5. Freed(r) \in Rows /\ \A q \in Rotations : Freed(r)[q] = IF q = r THEN Idle ELSE rot[q]
  BY <1>4, FreedKeeps
<1>6. /\ Cancelled(Freed(r)) \in Rows
      /\ \A q \in Rotations : Alike(Freed(r)[q], Cancelled(Freed(r))[q])
                             /\ ~Cancelled(Freed(r))[q].live
  BY <1>5, CancelledKeeps
<1>7. rot' \in Rows
      /\ \A q \in Rotations : Alike(Freed(r)[q], rot'[q]) /\ ~rot'[q].live
  BY <1>6 DEF Adopt
<1>8. /\ rot'[r].phase = "idle"
      /\ \A q \in Rotations : ~rot'[q].live /\ (q # r => Alike(rot[q], rot'[q]))
  BY <1>5, <1>7, IdleIsARecord DEF Alike
<1>9. /\ rpc' = [server |-> rot[r].server, up |-> TRUE] /\ rpc'.up
      /\ rpc'.server = rot[r].server /\ status' = "connected"
      /\ reconnecting' = FALSE /\ timer' = FALSE
      /\ prefs' = prefs /\ network' = network /\ healthy' = healthy /\ abandoned' = abandoned
  BY DEF Adopt
<1>10. \A k \in Switches :
         /\ sw'[k] \in SwitchRecords
         /\ rot[r].by = k => /\ sw'[k].phase = "finish" /\ sw'[k].target = sw[k].target
                             /\ sw'[k].prev = sw[k].prev
         /\ rot[r].by # k => sw'[k] = sw[k]
  <2> SUFFICES ASSUME NEW k \in Switches
               PROVE  /\ sw'[k] \in SwitchRecords
                      /\ rot[r].by = k => /\ sw'[k].phase = "finish" /\ sw'[k].target = sw[k].target
                                          /\ sw'[k].prev = sw[k].prev
                      /\ rot[r].by # k => sw'[k] = sw[k]
    OBVIOUS
  <2>1. sw[k] \in SwitchRecords
    BY DEF TypeOK
  <2>2. sw'[k] = IF rot[r].by = k THEN [sw[k] EXCEPT !.phase = "finish"] ELSE sw[k]
    BY DEF Adopt
  <2> DEFINE b == [sw[k] EXCEPT !.phase = "finish"]
  <2>3. /\ b \in SwitchRecords /\ b.phase = "finish" /\ b.target = sw[k].target
        /\ b.prev = sw[k].prev
    BY <2>1 DEF SwitchRecords
  <2> HIDE DEF b
  <2>4. sw'[k] = IF rot[r].by = k THEN b ELSE sw[k]
    BY <2>2 DEF b
  <2> QED
    BY <2>1, <2>3, <2>4
<1>11. sw' \in [Switches -> SwitchRecords]
  BY <1>10 DEF Adopt
<1>12. TypeOK'
  <2>1. startup' \in {"probe", "connect", "scans", "redial", "done"}
    BY DEF Adopt, TypeOK, Settled
  <2>2. pending' \in Rotations \cup {None} /\ cooling' \in SUBSET Servers
    BY DEF Adopt, TypeOK, NoLonger
  <2>3. rpc' \in [server : Servers \cup {None}, up : BOOLEAN] /\ selected' \in Servers \cup {None}
    BY <1>3, <1>9 DEF Adopt
  <2> QED
    BY <1>1, <1>7, <1>9, <1>11, <2>1, <2>2, <2>3 DEF TypeOK, Adopt, Rows
<1>13. ASSUME NEW k \in Switches
       PROVE  /\ Running(k)' => Running(k)
              /\ Running(k)' => sw'[k].phase = "finish"
              /\ sw[k].phase = "idle" => sw'[k].phase = "idle"
  <2>1. sw[k] \in SwitchRecords
    BY DEF TypeOK
  <2>2. CASE rot[r].by = k
    <3>1. sw[k].phase = "connect"
      BY <1>1, <2>2 DEF CallOK
    <3> QED
      BY <1>10, <2>2, <3>1 DEF Running
  <2>3. CASE rot[r].by # k
    <3>1. sw[k].phase # "connect"
      BY <1>1, <2>3 DEF SInv, Alone
    <3>2. sw[k].phase \in {"idle", "finish", "done"}
      BY <1>2, <2>1, <3>1 DEF SwitchRecords, Torn
    <3> QED
      BY <1>10, <2>3, <3>2 DEF Running
  <2> QED
    BY <2>2, <2>3
<1>14. startup' \in {"scans", "done"}
  <2>1. CASE startup = "connect"
    BY <1>1, <2>1 DEF SInv, Alone, Adopt
  <2>2. CASE startup \in {"scans", "redial", "done"}
    BY <2>2 DEF Adopt, Settled
  <2> QED
    BY <1>2, <2>1, <2>2 DEF TypeOK
<1>15. ~Busy' /\ ~Torn'
  BY <1>13, <1>14 DEF Busy, Torn, Running
<1>16. Serial'
  BY <1>13, <1>14 DEF SInv, Serial
<1>17. Announced'
  BY <1>9 DEF SInv, Announced
<1>18. Alone'
  BY <1>1, <1>8, <1>9, <1>14, <1>15 DEF Alone, Live
<1>19. Calls'
  <2>1. ASSUME NEW q \in Rotations, rot'[q].phase # "idle"
        PROVE  CallOK(q)'
    <3>1. q # r /\ Alike(rot[q], rot'[q]) /\ ~rot'[q].live /\ rot[q].phase # "idle" /\ owner' # q
      BY <1>1, <1>8, <2>1, NoneAssumption DEF Alike
    <3>2. /\ rot[q].by \in {"background", "rollback"}
          /\ rot[q].by \notin Switches /\ rot[q].by # None
          /\ rot[q].phase = "dial" => rot[q].server \in Servers
      BY <1>1, <3>1, Leftovers DEF Active
    <3> QED
      BY <3>1, <3>2 DEF CallOK, Alike
  <2> QED
    BY <1>1, <2>1 DEF Calls, Active
<1>20. Aligned'
  <2>1. (\A k \in Switches : ~Running(k)') => prefs' = network'
    <3>1. CASE rot[r].by \in Switches
      <4>1. PICK k \in Switches : k = rot[r].by
        BY <3>1
      <4>2. sw'[k].phase = "finish"
        BY <1>10, <4>1
      <4> QED
        BY <4>2 DEF Running
    <3>2. CASE rot[r].by \notin Switches
      <4>1. \A k \in Switches : Running(k)' <=> Running(k)
        BY <1>10, <3>2 DEF Running
      <4> QED
        BY <1>9, <4>1 DEF SInv, Aligned
    <3> QED
      BY <3>1, <3>2
  <2>2. ASSUME NEW k \in Switches
        PROVE  /\ sw'[k].phase \in {"prepare", "init", "connect", "finish"} => prefs' = sw'[k].target
               /\ sw'[k].phase \in {"init", "connect", "finish"} => network' = sw'[k].target
               /\ sw'[k].phase \in {"rollback", "restore"} => prefs' = sw'[k].prev
               /\ sw'[k].phase = "restore" => network' = sw'[k].prev
    <3>1. CASE rot[r].by = k
      <4>1. sw[k].phase = "connect"
        BY <1>1, <3>1 DEF CallOK
      <4>2. prefs = sw[k].target /\ network = sw[k].target
        BY <4>1 DEF SInv, Aligned
      <4> QED
        BY <1>9, <1>10, <3>1, <4>2
    <3>2. CASE rot[r].by # k
      BY <1>9, <1>10, <3>2 DEF SInv, Aligned
    <3> QED
      BY <3>1, <3>2
  <2>3. (~Torn => \A s \in healthy : NetOf[s] = network)'
    BY <1>2, <1>9 DEF SInv, Aligned
  <2>4. (rpc.up => rpc.server \in Servers /\ NetOf[rpc.server] = network)'
    BY <1>3, <1>9
  <2> QED
    BY <2>1, <2>2, <2>3, <2>4 DEF Aligned
<1>21. OnItsWay'
  BY <1>9, <1>14 DEF OnItsWay
<1> QED
  BY <1>12, <1>16, <1>17, <1>18, <1>19, <1>20, <1>21 DEF SInv

-----------------------------------------------------------------------------
(* A call ends.                                                            *)

LEMMA ScheduleTypes ==
  ASSUME TypeOK, NEW R \in Rows, NEW p \in Rotations \cup {None},
         NEW o \in Rotations \cup {None}, NEW s \in Servers, Schedule(R, p, o, s)
  PROVE  /\ rot' \in Rows
         /\ owner' \in Rotations \cup {None} /\ pending' \in Rotations \cup {None}
         /\ reconnecting' \in BOOLEAN /\ timer' \in BOOLEAN
<1>1. CASE reconnecting
  BY <1>1 DEF Schedule, TypeOK
<1>2. CASE ~reconnecting
  <2> DEFINE D == Dialled(R, p, "background", healthy, s, cooling')
  <2>1. MayDial(R, healthy, selected, s) /\ rot' = D /\ owner' = Slot(R)
        /\ pending' = IF healthy = {} THEN None ELSE Slot(R)
    BY <1>2 DEF Schedule, BeginConnect, Dialling, Dialled
  <2>2. \E r \in Rotations : R[r].phase = "idle"
    BY <2>1 DEF MayDial
  <2>3. "background" \in Callers /\ healthy \in SUBSET Servers
    BY DEF Callers, TypeOK
  <2>4. D \in Rows
    BY <2>2, <2>3, DialledKeeps DEF TakesASlot
  <2>5. Slot(R) \in Rotations
    BY <2>2, SlotIsIdle
  <2> HIDE DEF D
  <2>6. reconnecting' = TRUE /\ timer' = FALSE
    BY <1>2 DEF Schedule
  <2> QED
    BY <2>1, <2>4, <2>5, <2>6
<1> QED
  BY <1>1, <1>2

\* What the end of a call leaves alone or only moves within its type.
EndsWith(p) ==
  /\ p \in Rotations \cup {None}
  /\ cooling' \in SUBSET Servers
  /\ faults' \in 0..MaxFaults
  /\ UNCHANGED <<network, healthy, selected, latest, abandoned>>

LEMMA QuietEndTypes ==
  ASSUME TypeOK, SInv, NEW r \in Rotations, NEW p, EndsWith(p), QuietEnd(r), pending' = p
  PROVE  TypeOK' /\ SInv'
<1>1. rot' \in Rows
  BY FreedKeeps DEF TypeOK, Rows, QuietEnd
<1>2. owner' \in Rotations \cup {None} /\ status' \in {"connected", "disconnected"}
  BY DEF QuietEnd, NoLonger, TypeOK
<1>3. timer' \in BOOLEAN /\ reconnecting' \in BOOLEAN
  BY DEF QuietEnd
<1>4. TypeOK'
  BY <1>1, <1>2, <1>3 DEF TypeOK, Rows, QuietEnd, EndsWith
<1> QED
  BY <1>4, QuietEndKeeps

LEMMA SupersededKeeps ==
  ASSUME TypeOK, SInv, NEW r \in Rotations, Active(r), owner # r, NEW p, NEW s \in Servers,
         EndsWith(p), EndSuperseded(r, p, s)
  PROVE  TypeOK' /\ SInv'
<1>1. rot[r].by \in {"background", "rollback"} /\ rot[r].by \notin Switches
  BY Leftovers
<1>2. rot[r].by # "startup"
  BY <1>1
<1>3. sw' = sw
  <2>1. sw' = [k \in Switches |->
                 IF rot[r].by = k
                   THEN [sw[k] EXCEPT !.phase = "done", !.result = "superseded"]
                   ELSE sw[k]]
    BY <1>2 DEF EndSuperseded
  <2>2. \A k \in Switches : sw'[k] = sw[k]
    BY <1>1, <2>1
  <2> QED
    BY <2>1, <2>2 DEF TypeOK
<1>4. QuietEnd(r) /\ pending' = p
  BY <1>1, <1>2, <1>3 DEF EndSuperseded, QuietEnd, EndsWith
<1> QED
  BY <1>4, QuietEndTypes


\* The start's call or that of a rollback fails: the reconnect loop takes over.
LEMMA LoopTakesOver ==
  ASSUME TypeOK, SInv, NEW r \in Rotations, Active(r), NEW p, NEW s \in Servers, EndsWith(p),
         rot[r].by = "startup" \/ (rot[r].by = "rollback" /\ owner = r),
         Schedule(Freed(r), p, NoLonger(owner, r), s),
         status' = IF owner = r THEN "disconnected" ELSE status,
         startup' = IF rot[r].by = "startup" THEN "done" ELSE startup,
         UNCHANGED <<prefs, rpc, sw>>
  PROVE  TypeOK' /\ SInv'
<1>1. owner = r /\ owner # None /\ CallOK(r)
  BY NoneAssumption DEF SInv, Calls, CallOK
<1>2. startup' \in {"scans", "done"} /\ \A k \in Switches : ~(Running(k) /\ sw[k].phase # "finish")
  <2>1. CASE rot[r].by = "startup"
    <3>1. startup = "connect"
      BY <1>1, <2>1 DEF CallOK
    <3>2. \A k \in Switches : sw[k].phase = "idle"
      BY <3>1 DEF SInv, Serial
    <3> QED
      BY <2>1, <3>2 DEF Running
  <2>2. CASE rot[r].by = "rollback" /\ owner = r
    <3>1. ~Busy /\ startup # "redial"
      BY <2>2, OwnerIsBusy
    <3> QED
      BY <2>2, <3>1 DEF Busy, TypeOK
  <2> QED
    BY <2>1, <2>2
<1>3. NoLonger(owner, r) = None
  BY <1>1 DEF NoLonger
<1>4. ~rpc.up
  <2>1. startup # "redial"
    BY <1>1 DEF SInv, Alone
  <2> QED
    BY <1>1, <2>1 DEF SInv, Alone
<1>5. Freed(r) \in Rows /\ \A q \in Rotations : Freed(r)[q] = IF q = r THEN Idle ELSE rot[q]
  BY FreedKeeps DEF TypeOK, Rows
<1> DEFINE R == Freed(r)
           o == NoLonger(owner, r)
<1> HIDE DEF R, o
<1>6. R \in Rows /\ o = None /\ \A q \in Rotations : R[q] = IF q = r THEN Idle ELSE rot[q]
  BY <1>3, <1>5 DEF R, o
<1>7. PICK S : S = R
  OBVIOUS
<1>8. HandsOver(S, p, None, s)
  <2>1. Schedule(S, p, None, s)
    BY <1>6, <1>7 DEF R, o
  <2>2. rpc'.up = FALSE
    BY <1>4 DEF TypeOK
  <2> QED
    BY <1>1, <1>2, <2>1, <2>2 DEF HandsOver, EndsWith
<1>9. Remain(S, None)
  <2>1. ASSUME NEW q \in Rotations, S[q].phase # "idle"
        PROVE  S[q] = rot[q] /\ rot[q].by \in {"background", "rollback"}
    <3>1. q # r /\ S[q] = rot[q]
      BY <1>6, <1>7, <2>1, IdleIsARecord
    <3> QED
      BY <1>1, <2>1, <3>1, Leftovers DEF Active
  <2>2. ~Live(r)
    BY <1>1 DEF Live, CallOK
  <2> QED
    BY <1>6, <1>7, <2>1, <2>2 DEF Remain
<1>10. ~Busy'
  BY <1>2 DEF Busy, Running
<1>11. SInv'
  BY <1>6, <1>7, <1>8, <1>9, <1>10, HandsOverKeeps DEF EndsWith
<1>12. /\ rot' \in Rows
       /\ owner' \in Rotations \cup {None} /\ pending' \in Rotations \cup {None}
       /\ reconnecting' \in BOOLEAN /\ timer' \in BOOLEAN
  BY <1>6, <1>7, <1>8, ScheduleTypes DEF EndsWith, HandsOver
<1>13. TypeOK'
  BY <1>1, <1>2, <1>12 DEF TypeOK, Rows, EndsWith
<1> QED
  BY <1>11, <1>13

\* Calls that are of the loop or of a rollback and are typed.
Harmless(R) ==
  \A q \in Rotations : R[q].phase # "idle" =>
    /\ R[q].by \in {"background", "rollback"}
    /\ R[q].phase = "dial" => R[q].server \in Servers

LEMMA TeardownTypes ==
  ASSUME TypeOK, NEW R \in Rows, NEW p \in Rotations \cup {None}, Teardown(R, p)
  PROVE  /\ rot' \in Rows /\ rpc' \in [server : Servers \cup {None}, up : BOOLEAN]
         /\ owner' = None /\ pending' = None /\ status' = "disconnected"
         /\ reconnecting' = FALSE /\ timer' = FALSE /\ ~rpc'.up
         /\ startup' = Settled
<1>1. Kill(R, p) \in Rows
  BY KillKeeps
<1>2. Cancelled(Kill(R, p)) \in Rows
  BY <1>1, CancelledKeeps
<1>3. rpc' \in [server : Servers \cup {None}, up : BOOLEAN] /\ ~rpc'.up
  BY DEF Teardown, TypeOK
<1> QED
  BY <1>2, <1>3 DEF Teardown

\* The catch block of a switch.
LEMMA RollBackKeeps ==
  ASSUME TypeOK, SInv, NEW k \in Switches, Running(k), sw[k].phase # "finish",
         NEW R \in Rows, Harmless(R), NEW p \in Rotations \cup {None},
         RollBack(k, R, p), NEW q, EndsWith(q)
  PROVE  TypeOK' /\ SInv'
<1>1. sw' = [sw EXCEPT ![k].phase = "rollback"] /\ prefs' = sw[k].prev /\ Teardown(R, p)
  BY DEF RollBack
<1>2. /\ sw' \in [Switches -> SwitchRecords]
      /\ sw'[k].phase = "rollback" /\ sw'[k].target = sw[k].target /\ sw'[k].prev = sw[k].prev
      /\ \A j \in Switches : j # k => sw'[j] = sw[j]
  <2>1. "none" \in {"none", "ok", "failed", "superseded"}
    OBVIOUS
  <2> QED
    BY <1>1, <2>1, SwitchMoves DEF TypeOK
<1>3. sw[k].prev \in Networks
  BY DEF TypeOK, SwitchRecords
<1>4. /\ rot' \in Rows /\ rpc' \in [server : Servers \cup {None}, up : BOOLEAN]
      /\ owner' = None /\ pending' = None /\ status' = "disconnected"
      /\ reconnecting' = FALSE /\ timer' = FALSE /\ ~rpc'.up /\ startup' = Settled
  BY <1>1, TeardownTypes
<1>5. TypeOK'
  BY <1>1, <1>2, <1>3, <1>4 DEF TypeOK, EndsWith, Rows, Settled
<1>6. startup' \in {"scans", "done"} /\ \A j \in Switches : j # k => ~Running(j)
  BY <1>4 DEF SInv, Serial, Running, TypeOK, Settled
<1>7. Running(k)' /\ \A j \in Switches : j # k => ~Running(j)'
  BY <1>2, <1>6 DEF Running
<1>8. Torn' /\ Busy'
  BY <1>2, <1>7 DEF Torn, Busy
<1>9. Announced' /\ Alone' /\ Calls' /\ OnItsWay'
  BY <1>1, <1>8, TornDownKeeps DEF TornDown, Harmless, EndsWith
<1>10. Serial'
  BY <1>6, <1>7 DEF Serial
<1>11. Aligned'
  <2>1. \A j \in Switches : j # k => sw'[j].phase \in {"idle", "done"}
    BY <1>7 DEF Running
  <2> QED
    BY <1>1, <1>2, <1>4, <1>7, <1>8, <2>1 DEF Aligned
<1> QED
  BY <1>5, <1>9, <1>10, <1>11 DEF SInv

\* The call of a switch fails: its error reaches the loop, which dials, and then the
\* catch block of the switch, which tears that down too.
LEMMA SwitchFallsBack ==
  ASSUME TypeOK, SInv, NEW r \in Rotations, Active(r), NEW p, NEW s \in Servers, EndsWith(p),
         rot[r].by \in Switches, EndFailed(r, p, s)
  PROVE  TypeOK' /\ SInv'
<1>1. PICK k \in Switches : k = rot[r].by
  OBVIOUS
<1>2. owner = r /\ sw[k].phase = "connect" /\ Running(k)
  BY <1>1 DEF SInv, Calls, CallOK, Running
<1>3. ~reconnecting
  BY <1>2 DEF SInv, Alone, Busy
<1>0. PICK F : F = Freed(r)
  OBVIOUS
<1> DEFINE R == Dialled(F, p, "background", healthy, s, cooling')
           q0 == IF healthy # {} THEN Slot(F) ELSE p
<1>4. /\ MayDial(F, healthy, selected, s)
      /\ RollBack(k, R, q0)
  BY <1>0, <1>1, <1>2, <1>3, CallersAssumption DEF EndFailed, Dialling, Dialled, Callers, Freed
<1>5. F \in Rows /\ \A q \in Rotations : F[q] = IF q = r THEN Idle ELSE rot[q]
  BY <1>0, FreedKeeps DEF TypeOK, Rows
<1>6. \E q \in Rotations : F[q].phase = "idle"
  BY <1>4 DEF MayDial
<1>7. "background" \in Callers /\ healthy \in SUBSET Servers /\ p \in Rotations \cup {None}
  BY DEF Callers, TypeOK, EndsWith
<1> DEFINE S == Slot(F)
           P == Pass("background", 1, healthy, s, cooling')
<1>8. /\ R \in Rows /\ R[S] = P
      /\ \A q \in Rotations \ {S} : Alike(F[q], R[q]) /\ R[q].live = F[q].live
  <2>1. F \in Rows /\ (\E x \in Rotations : F[x].phase = "idle") /\ healthy \in SUBSET Servers
        /\ p \in Rotations \cup {None} /\ "background" \in Callers
    BY <1>5, <1>6, <1>7
  <2>2. TakesASlot(F, p, "background", healthy, s, cooling')
    BY <2>1, DialledKeeps
  <2> QED
    BY <2>2 DEF TakesASlot
<1>9. S \in Rotations
  BY <1>6, SlotIsIdle
<1>10. P.by = "background" /\ (P.phase = "dial" => P.server \in Servers)
  BY DEF Pass
<1>11. q0 \in Rotations \cup {None}
  BY <1>7, <1>9
<1> HIDE DEF R, q0, S, P
<1>12. ASSUME NEW q \in Rotations, R[q].phase # "idle"
       PROVE  /\ R[q].by \in {"background", "rollback"}
              /\ R[q].phase = "dial" => R[q].server \in Servers
  <2>1. CASE q = S
    BY <1>8, <1>10, <2>1
  <2>2. CASE q # S
    <3>1. Alike(F[q], R[q])
      BY <1>8, <2>2
    <3>2. q # r /\ F[q] = rot[q] /\ rot[q].phase # "idle"
      BY <1>5, <1>12, <3>1, IdleIsARecord DEF Alike
    <3> QED
      BY <1>2, <3>1, <3>2, Leftovers DEF Active, Alike
  <2> QED
    BY <2>1, <2>2
<1>13. PICK G : G = R
  OBVIOUS
<1>14. G \in Rows /\ Harmless(G)
  BY <1>8, <1>12, <1>13 DEF Harmless
<1>15. RollBack(k, G, q0)
  BY <1>4, <1>13 DEF R, RollBack, Teardown
<1> QED
  BY <1>2, <1>4, <1>11, <1>14, <1>15, RollBackKeeps

LEMMA FailedKeeps ==
  ASSUME TypeOK, SInv, NEW r \in Rotations, Active(r), NEW p, NEW s \in Servers,
         EndsWith(p), EndFailed(r, p, s)
  PROVE  TypeOK' /\ SInv'
<1>1. CallOK(r) /\ rot[r].by \in Callers
  <2>1. CallOK(r)
    BY DEF SInv, Calls
  <2>2. rot[r].by \in Callers \cup {None}
    BY FieldTypes DEF TypeOK
  <2> QED
    BY <2>1, <2>2 DEF CallOK
<1>2. CASE rot[r].by \in Switches
  BY <1>2, SwitchFallsBack
<1>3. CASE rot[r].by = "background"
  <2>1. /\ rot' = Freed(r) /\ pending' = p /\ owner' = NoLonger(owner, r)
        /\ status' = IF owner = r THEN "disconnected" ELSE status
        /\ timer' = (timer \/ rot[r].live)
        /\ reconnecting' = (reconnecting /\ ~rot[r].live)
        /\ UNCHANGED <<prefs, rpc, startup, sw>>
    BY <1>3, CallersAssumption DEF EndFailed
  <2>2. QuietEnd(r)
    BY <1>3, <2>1 DEF QuietEnd, EndsWith
  <2> QED
    BY <2>1, <2>2, QuietEndTypes
<1>4. CASE rot[r].by = "startup" \/ (rot[r].by = "rollback" /\ owner = r)
  <2>1. /\ Schedule(Freed(r), p, NoLonger(owner, r), s)
        /\ status' = IF owner = r THEN "disconnected" ELSE status
        /\ startup' = IF rot[r].by = "startup" THEN "done" ELSE startup
        /\ UNCHANGED <<prefs, rpc, sw>>
    BY <1>4, CallersAssumption DEF EndFailed
  <2> QED
    BY <1>4, <2>1, LoopTakesOver
<1>5. CASE rot[r].by = "rollback" /\ owner # r
  <2>1. /\ rot' = Freed(r) /\ pending' = p /\ owner' = NoLonger(owner, r)
        /\ UNCHANGED <<prefs, status, rpc, reconnecting, timer, startup, sw>>
    BY <1>5, CallersAssumption DEF EndFailed
  <2>2. rot[r].live = FALSE
    BY <1>1, <1>5, FieldTypes DEF CallOK, TypeOK
  <2>3. timer' = (timer \/ rot[r].live) /\ reconnecting' = (reconnecting /\ ~rot[r].live)
    BY <2>1, <2>2 DEF TypeOK
  <2>4. QuietEnd(r)
    BY <1>5, <2>1, <2>3 DEF QuietEnd, EndsWith
  <2> QED
    BY <2>1, <2>4, QuietEndTypes
<1> QED
  BY <1>1, <1>2, <1>3, <1>4, <1>5 DEF Callers

-----------------------------------------------------------------------------
(* The steps of a running call.                                            *)

\* What a rejected dial changes beside the call itself.
LEMMA Rejected ==
  ASSUME TypeOK, SInv, NEW r \in Rotations, DialRejected(r)
  PROVE  /\ Active(r) /\ EndsWith(NoLonger(pending, r))
         /\ UNCHANGED <<network, healthy, selected, latest, abandoned>>
         /\ cooling' \in SUBSET Servers /\ faults' \in 0..MaxFaults
<1>1. Active(r)
  BY DEF DialRejected, Active
<1>2. rot[r].server \in Servers
  BY <1>1 DEF DialRejected, SInv, Calls, CallOK
<1>3. faults' \in 0..MaxFaults
  BY BoundsAssumption DEF DialRejected, Spend, TypeOK
<1>4. cooling' \in SUBSET Servers
  BY <1>2 DEF DialRejected, TypeOK
<1>5. NoLonger(pending, r) \in Rotations \cup {None}
  BY DEF NoLonger, TypeOK
<1> QED
  BY <1>1, <1>3, <1>4, <1>5 DEF EndsWith, DialRejected

\* Types when the owner goes on.
LEMMA GoesOnTypes ==
  ASSUME TypeOK, SInv, NEW r \in Rotations, GoesOn(r), rot' \in Rows,
         pending' \in Rotations \cup {None}, cooling' \in SUBSET Servers, faults' \in 0..MaxFaults,
         healthy' \in SUBSET Servers, UNCHANGED <<selected, latest>>
  PROVE  TypeOK' /\ SInv'
<1>1. TypeOK'
  BY DEF TypeOK, GoesOn, Rows
<1> QED
  BY <1>1, GoesOnKeeps

LEMMA TryNextKeeps ==
  ASSUME TypeOK, SInv, NEW r \in Rotations, NEW s \in Servers, TryNext(r, s)
  PROVE  TypeOK' /\ SInv'
<1>1. DialRejected(r) /\ owner = r /\ s \in rot[r].todo
  BY DEF TryNext
<1>2. /\ Active(r) /\ UNCHANGED <<network, healthy, selected, latest, abandoned>>
      /\ cooling' \in SUBSET Servers /\ faults' \in 0..MaxFaults
  BY <1>1, Rejected
<1>3. CallOK(r) /\ rot[r].phase = "dial" /\ owner # None
  BY <1>1, <1>2, NoneAssumption DEF SInv, Calls, DialRejected
<1> DEFINE c == [rot[r] EXCEPT !.server = s, !.killed = FALSE, !.todo = rot[r].todo \ {s}]
<1>4. rot[r] \in RotationRecords /\ rot \in Rows
  BY DEF TypeOK, Rows
<1>5. /\ c \in RotationRecords /\ c.by = rot[r].by /\ c.live = rot[r].live
      /\ c.phase = rot[r].phase /\ c.server = s /\ c.todo \subseteq rot[r].todo
  BY <1>4 DEF RotationRecords
<1>6. rot' = [rot EXCEPT ![r] = c]
  BY DEF TryNext
<1> HIDE DEF c
<1>7. rot' \in Rows /\ rot'[r] = c /\ \A q \in Rotations : q # r => rot'[q] = rot[q]
  BY <1>4, <1>5, <1>6 DEF Rows
<1>8. \A x \in healthy : NetOf[x] = network
  BY <1>3 DEF SInv, Alone, Aligned
<1>9. \A x \in rot[r].todo : NetOf[x] = network
  BY <1>1, <1>3 DEF CallOK
<1>10. GoesOn(r)
  BY <1>1, <1>2, <1>3, <1>5, <1>7, <1>8, <1>9 DEF GoesOn, TryNext, backgroundVars
<1> QED
  BY <1>2, <1>7, <1>10, GoesOnTypes DEF TryNext, TypeOK

LEMMA RescanKeeps ==
  ASSUME TypeOK, SInv, NEW r \in Rotations, Rescan(r)
  PROVE  TypeOK' /\ SInv'
<1>1. DialRejected(r) /\ owner = r
  BY DEF Rescan
<1>2. /\ Active(r) /\ UNCHANGED <<network, healthy, selected, latest, abandoned>>
      /\ cooling' \in SUBSET Servers /\ faults' \in 0..MaxFaults
  BY <1>1, Rejected
<1>3. owner # None
  BY <1>1, NoneAssumption
<1> DEFINE c == [rot[r] EXCEPT !.phase = "rescan", !.server = None, !.killed = FALSE, !.todo = {}]
<1>4. rot[r] \in RotationRecords /\ rot \in Rows
  BY DEF TypeOK, Rows
<1>5. /\ c \in RotationRecords /\ c.by = rot[r].by /\ c.live = rot[r].live
      /\ c.phase = "rescan" /\ c.todo = {}
  BY <1>4 DEF RotationRecords
<1>6. rot' = [rot EXCEPT ![r] = c]
  BY DEF Rescan
<1> HIDE DEF c
<1>7. rot' \in Rows /\ rot'[r] = c /\ \A q \in Rotations : q # r => rot'[q] = rot[q]
  BY <1>4, <1>5, <1>6 DEF Rows
<1>8. \A x \in healthy : NetOf[x] = network
  BY <1>3 DEF SInv, Alone, Aligned
<1>9. GoesOn(r)
  BY <1>1, <1>2, <1>5, <1>7, <1>8 DEF GoesOn, Rescan, backgroundVars
<1> QED
  BY <1>2, <1>7, <1>9, GoesOnTypes DEF Rescan, NoLonger, TypeOK

LEMMA RescanFindsKeeps ==
  ASSUME TypeOK, SInv, NEW r \in Rotations, NEW H \in Found(network), NEW s \in Servers,
         RescanFinds(r, H, s)
  PROVE  TypeOK' /\ SInv'
<1>1. rot[r].phase = "rescan" /\ owner = r /\ healthy' = H /\ s \in FirstPicks(H, selected, cooling)
  BY DEF RescanFinds
<1>2. H \in SUBSET Servers /\ H # {} /\ \A x \in H : NetOf[x] = network
  BY DEF Found
<1>3. s \in H
  BY <1>1, FirstPickIsFound
<1>4. rot[r] \in RotationRecords /\ rot \in Rows /\ CallOK(r) /\ Active(r)
  BY <1>1 DEF TypeOK, Rows, SInv, Calls, Active
<1>5. rot[r].by \in Callers /\ rot[r].live \in BOOLEAN
  BY <1>4, FieldTypes DEF CallOK
<1> DEFINE P == Pass(rot[r].by, 2, H, s, cooling)
           c == [P EXCEPT !.live = rot[r].live]
<1>6. P \in RotationRecords
  BY <1>2, <1>5, PassIsARecord
<1>7. /\ P.by = rot[r].by /\ P.phase = "dial" /\ P.server = s /\ P.todo \in SUBSET H
  BY <1>2 DEF Pass, Candidates
<1> HIDE DEF P
<1>8. /\ c \in RotationRecords /\ c.by = rot[r].by /\ c.live = rot[r].live
      /\ c.phase = "dial" /\ c.server = s /\ c.todo \in SUBSET H
  BY <1>5, <1>6, <1>7 DEF RotationRecords
<1>9. rot' = [rot EXCEPT ![r] = c]
  BY DEF RescanFinds, P
<1> HIDE DEF c
<1>10. rot' \in Rows /\ rot'[r] = c /\ \A q \in Rotations : q # r => rot'[q] = rot[q]
  BY <1>4, <1>8, <1>9 DEF Rows
<1>11. GoesOn(r)
  BY <1>1, <1>2, <1>3, <1>4, <1>8, <1>10 DEF GoesOn, RescanFinds, backgroundVars
<1> QED
  BY <1>1, <1>2, <1>10, <1>11, GoesOnTypes DEF RescanFinds, TypeOK

\* A dial or a rescan of r comes to its end.
LEMMA RotateKeeps ==
  ASSUME TypeOK, SInv, NEW r \in Rotations, Rotate(r)
  PROVE  TypeOK' /\ SInv'
<1>1. NoLonger(pending, r) \in Rotations \cup {None} /\ pending \in Rotations \cup {None}
  BY DEF NoLonger, TypeOK
<1>2. ASSUME NEW s \in Servers, DialSuperseded(r, s) PROVE TypeOK' /\ SInv'
  <2>1. Active(r) /\ owner # r /\ EndsWith(NoLonger(pending, r))
        /\ EndSuperseded(r, NoLonger(pending, r), s)
    BY <1>1, <1>2 DEF DialSuperseded, EndsWith, Active, TypeOK
  <2> QED
    BY <2>1, SupersededKeeps
<1>3. ASSUME NEW s \in Servers, RejectedSuperseded(r, s) PROVE TypeOK' /\ SInv'
  <2>1. DialRejected(r) /\ owner # r /\ EndSuperseded(r, NoLonger(pending, r), s)
    BY <1>3 DEF RejectedSuperseded
  <2>2. Active(r) /\ EndsWith(NoLonger(pending, r))
    BY <2>1, Rejected
  <2> QED
    BY <2>1, <2>2, SupersededKeeps
<1>4. ASSUME NEW s \in Servers, RotationFails(r, s) PROVE TypeOK' /\ SInv'
  <2>1. DialRejected(r) /\ EndFailed(r, NoLonger(pending, r), s)
    BY <1>4 DEF RotationFails
  <2>2. Active(r) /\ EndsWith(NoLonger(pending, r))
    BY <2>1, Rejected
  <2> QED
    BY <2>1, <2>2, FailedKeeps
<1>5. ASSUME NEW s \in Servers, RescanSuperseded(r, s) PROVE TypeOK' /\ SInv'
  <2>1. Active(r) /\ owner # r /\ EndsWith(pending) /\ EndSuperseded(r, pending, s)
    BY <1>1, <1>5 DEF RescanSuperseded, EndsWith, Active, TypeOK
  <2> QED
    BY <2>1, SupersededKeeps
<1>6. ASSUME NEW s \in Servers, RescanFails(r, s) PROVE TypeOK' /\ SInv'
  <2>1. faults' \in 0..MaxFaults
    BY <1>6, BoundsAssumption DEF RescanFails, Spend, TypeOK
  <2>2. Active(r) /\ EndsWith(pending) /\ EndFailed(r, pending, s)
    BY <1>1, <1>6, <2>1 DEF RescanFails, EndsWith, Active, TypeOK
  <2> QED
    BY <2>2, FailedKeeps
<1> QED
  BY <1>2, <1>3, <1>4, <1>5, <1>6, AdoptKeeps, TryNextKeeps, RescanKeeps, RescanFindsKeeps
     DEF Rotate

-----------------------------------------------------------------------------
(* The connection, the timer, the cooldowns and the start of the worker.   *)

\* The calls that run are all of the loop or of rollbacks when nothing is busy.
LEMMA NothingBusy ==
  ASSUME TypeOK, SInv, ~Busy
  PROVE  Remain(rot, owner)
<1>1. ASSUME NEW q \in Rotations, rot[q].phase # "idle"
      PROVE  rot[q].by \in {"background", "rollback"}
  <2>1. CallOK(q)
    BY <1>1 DEF SInv, Calls, Active
  <2>2. rot[q].by \in Callers \cup {None}
    BY FieldTypes DEF TypeOK
  <2>3. rot[q].by \notin Switches
    BY <2>1 DEF CallOK, Busy, Running
  <2> QED
    BY <2>1, <2>2, <2>3 DEF CallOK, Busy, Callers
<1> QED
  BY <1>1 DEF Remain

LEMMA LoopReconnects ==
  ASSUME TypeOK, SInv, ~Busy, NEW s \in Servers, Schedule(rot, pending, owner, s),
         startup' \in {"scans", "redial", "done"},
         startup' = "redial" => rpc' = rpc /\ rpc.up /\ \A k \in Switches : ~Running(k),
         startup' # "redial" => rpc' = [rpc EXCEPT !.up = FALSE] /\ status' = "disconnected",
         status' \in {"connected", "disconnected"},
         cooling' \in SUBSET Servers, faults' \in 0..MaxFaults,
         UNCHANGED <<prefs, network, healthy, selected, sw, latest, abandoned>>
  PROVE  TypeOK' /\ SInv'
<1>1. rot \in Rows /\ owner \in Rotations \cup {None} /\ pending \in Rotations \cup {None}
  BY DEF TypeOK, Rows
<1>2. PICK R, p, o : R = rot /\ p = pending /\ o = owner
  OBVIOUS
<1>3. Schedule(R, p, o, s) /\ Remain(R, o)
  <2>1. Remain(R, o)
    BY <1>2, NothingBusy DEF Remain
  <2>2. Schedule(R, p, o, s)
    BY <1>2 DEF Schedule, BeginConnect, Dialling
  <2> QED
    BY <2>1, <2>2
<1>4. rpc' \in [server : Servers \cup {None}, up : BOOLEAN]
      /\ (startup' # "redial" => rpc'.up = FALSE)
  BY DEF TypeOK
<1>6. HandsOver(R, p, o, s)
  BY <1>3, <1>4 DEF HandsOver
<1>7. ~Busy'
  BY DEF Busy, Running
<1>8. SInv'
  BY <1>1, <1>2, <1>3, <1>6, <1>7, HandsOverKeeps
<1>9. /\ rot' \in Rows
      /\ owner' \in Rotations \cup {None} /\ pending' \in Rotations \cup {None}
      /\ reconnecting' \in BOOLEAN /\ timer' \in BOOLEAN
  BY <1>1, <1>2, <1>3, ScheduleTypes
<1>10. TypeOK'
  BY <1>4, <1>9 DEF TypeOK, Rows
<1> QED
  BY <1>8, <1>10

LEMMA ConnectionDropsKeeps ==
  ASSUME TypeOK, SInv, NEW s \in Servers, ConnectionDrops(s)
  PROVE  TypeOK' /\ SInv'
<1>1. ~Busy /\ rpc.server \in Servers
  BY DEF ConnectionDrops, SInv, Alone, Aligned
<1>2. faults' \in 0..MaxFaults /\ cooling' \in SUBSET Servers
  BY <1>1, BoundsAssumption DEF ConnectionDrops, Spend, TypeOK
<1>3. startup' \in {"scans", "done"}
  BY <1>1 DEF ConnectionDrops, Settled, Busy, TypeOK
<1> QED
  BY <1>1, <1>2, <1>3, LoopReconnects DEF ConnectionDrops

LEMMA ReconnectTimerKeeps ==
  ASSUME TypeOK, SInv, NEW s \in Servers, ReconnectTimer(s)
  PROVE  TypeOK' /\ SInv'
<1>1. ~Busy /\ startup \in {"scans", "redial", "done"}
  BY DEF ReconnectTimer, SInv, Alone, Busy, TypeOK
<1>2. CASE ~reconnecting
  <2>1. CASE startup = "redial"
    <3>1. rpc.up /\ \A k \in Switches : ~Running(k)
      BY <2>1 DEF SInv, Alone
    <3>2. Schedule(rot, pending, owner, s) /\ startup' = startup /\ rpc' = rpc /\ status' = status
          /\ cooling' = cooling /\ faults' = faults
          /\ UNCHANGED <<prefs, network, healthy, selected, sw, latest, abandoned>>
      BY <1>2 DEF ReconnectTimer
    <3>3. status' \in {"connected", "disconnected"} /\ cooling' \in SUBSET Servers
          /\ faults' \in 0..MaxFaults
      BY <3>2 DEF TypeOK
    <3> QED
      BY <1>1, <2>1, <3>1, <3>2, <3>3, LoopReconnects
  <2>2. CASE startup # "redial"
    <3>1. ~rpc.up
      BY <2>2 DEF ReconnectTimer, SInv, Alone
    <3>2. rpc = [rpc EXCEPT !.up = FALSE] /\ status = "disconnected"
      BY <3>1 DEF TypeOK, SInv, Announced
    <3>3. Schedule(rot, pending, owner, s)
      BY <1>2 DEF ReconnectTimer
    <3>4. cooling' \in SUBSET Servers /\ faults' \in 0..MaxFaults
      BY DEF ReconnectTimer, TypeOK
    <3> QED
      BY <1>1, <2>2, <3>2, <3>3, <3>4, LoopReconnects DEF ReconnectTimer
  <2> QED
    BY <2>1, <2>2
<1>3. CASE reconnecting
  <2>1. timer' = FALSE
        /\ UNCHANGED <<prefs, network, healthy, selected, rpc, owner, pending, cooling, status, rot,
                       abandoned, reconnecting, startup, sw, latest, faults>>
    BY <1>3 DEF ReconnectTimer
  <2>2. TypeOK'
    BY <2>1 DEF TypeOK
  <2>3. Serial' /\ Announced' /\ Aligned'
    BY <2>1 DEF SInv, Serial, Announced, Aligned, Running, Torn
  <2>4. Alone' /\ Calls'
    BY <2>1 DEF SInv, Alone, Calls, CallOK, Busy, Torn, Live, Active, Running
  <2>5. PICK q \in Rotations : Live(q)
    BY <1>3 DEF SInv, OnItsWay
  <2>6. OnItsWay'
    BY <2>1, <2>5 DEF OnItsWay, Live, Active
  <2> QED
    BY <2>2, <2>3, <2>4, <2>6 DEF SInv
<1> QED
  BY <1>2, <1>3

\* The start's first scans reject: its catch schedules a reconnect of what may be connected.
LEMMA ScansFailKeeps ==
  ASSUME ~StartupOverlap, TypeOK, SInv, NEW s \in Servers, ScansFail(s)
  PROVE  TypeOK' /\ SInv'
<1>1. /\ startup = "scans" /\ (\A k \in Switches : ~Running(k))
      /\ Schedule(rot, pending, owner, s)
      /\ startup' = IF rpc.up THEN "redial" ELSE "done"
      /\ UNCHANGED <<prefs, network, healthy, selected, rpc, cooling, status, sw, latest, faults,
                     abandoned>>
  BY DEF ScansFail
<1>2. ~Busy
  BY <1>1 DEF Busy
<1>3. ~rpc.up => rpc' = [rpc EXCEPT !.up = FALSE] /\ status' = "disconnected"
  BY <1>1 DEF TypeOK, SInv, Announced
<1>4. status' \in {"connected", "disconnected"} /\ cooling' \in SUBSET Servers
      /\ faults' \in 0..MaxFaults
  BY <1>1 DEF TypeOK
<1> QED
  BY <1>1, <1>2, <1>3, <1>4, LoopReconnects

LEMMA ScansEndKeeps ==
  ASSUME TypeOK, SInv, ScansEnd
  PROVE  TypeOK' /\ SInv'
<1>1. startup = "scans" /\ startup' = "done"
      /\ UNCHANGED <<prefs, network, healthy, selected, rpc, owner, pending, cooling, status, rot,
                     abandoned, reconnecting, timer, sw, latest, faults>>
  BY DEF ScansEnd, serviceVars
<1>2. TypeOK'
  BY <1>1 DEF TypeOK
<1>3. Serial' /\ Announced' /\ Aligned'
  BY <1>1 DEF SInv, Serial, Announced, Aligned, Running, Torn
<1>4. Alone' /\ Calls' /\ OnItsWay'
  BY <1>1 DEF SInv, Alone, Calls, OnItsWay, CallOK, Busy, Torn, Live, Active, Running
<1> QED
  BY <1>2, <1>3, <1>4 DEF SInv

\* A step that leaves everything the invariant speaks of.
LEMMA CooldownEndsKeeps ==
  ASSUME TypeOK, SInv, NEW s \in Servers, CooldownEnds(s)
  PROVE  TypeOK' /\ SInv'
<1>1. UNCHANGED <<prefs, network, healthy, selected, rpc, owner, pending, status, rot, abandoned,
                  reconnecting, timer, startup, sw, latest, faults>>
  BY DEF CooldownEnds, backgroundVars
<1>2. TypeOK'
  BY <1>1 DEF TypeOK, CooldownEnds
<1>3. Serial' /\ Announced' /\ Aligned'
  BY <1>1 DEF SInv, Serial, Announced, Aligned, Running, Torn
<1>4. Alone' /\ Calls' /\ OnItsWay'
  BY <1>1 DEF SInv, Alone, Calls, OnItsWay, CallOK, Busy, Torn, Live, Active, Running
<1> QED
  BY <1>2, <1>3, <1>4 DEF SInv

LEMMA ConnectTypes ==
  ASSUME TypeOK, NEW by \in Callers, NEW H \in Found(network), NEW sel \in Servers,
         NEW s \in Servers, BeginConnect(rot, pending, by, H, sel, s)
  PROVE  rot' \in Rows /\ owner' \in Rotations \cup {None} /\ pending' \in Rotations \cup {None}
<1> DEFINE D == Dialled(rot, pending, by, H, s, cooling')
<1>1. MayDial(rot, H, sel, s) /\ rot' = D /\ owner' = Slot(rot)
      /\ pending' = IF H = {} THEN None ELSE Slot(rot)
  BY DEF BeginConnect, Dialling, Dialled
<1>2. \E r \in Rotations : rot[r].phase = "idle"
  BY <1>1 DEF MayDial
<1>3. H \in SUBSET Servers /\ rot \in Rows /\ pending \in Rotations \cup {None}
  BY DEF Found, TypeOK, Rows
<1>4. TakesASlot(rot, pending, by, H, s, cooling')
  BY <1>2, <1>3, DialledKeeps
<1>5. D \in Rows
  BY <1>4 DEF TakesASlot
<1>6. Slot(rot) \in Rotations
  BY <1>2, SlotIsIdle
<1> HIDE DEF D
<1> QED
  BY <1>1, <1>5, <1>6

LEMMA StartupFindsKeeps ==
  ASSUME TypeOK, SInv, NEW H \in Found(network), NEW sel \in Servers, NEW s \in Servers,
         StartupFinds(H, sel, s)
  PROVE  TypeOK' /\ SInv'
<1>1. startup = "probe" /\ startup' = "connect" /\ sw' = sw /\ prefs' = prefs /\ network' = network
  BY DEF StartupFinds
<1>2. Busy /\ owner = None /\ (\A k \in Switches : sw[k].phase = "idle")
  BY <1>1 DEF Busy, SInv, Alone, Serial
<1>3. \A k \in Switches : sw'[k].phase = "idle"
  BY <1>1, <1>2
<1>4. ~Torn' /\ (\A k \in Switches : ~Running(k) /\ ~Running(k)')
  BY <1>2, <1>3 DEF Torn, Running
<1>5. "startup" \in Callers \ {"background"} /\ "startup" \notin Switches
  BY CallersAssumption DEF Callers
<1>6. /\ BeginConnect(rot, pending, "startup", H, sel, s) /\ healthy' = H /\ selected' = sel
      /\ rpc' = [server |-> sel, up |-> FALSE] /\ abandoned' = (abandoned \/ rpc.up)
      /\ UNCHANGED <<cooling, status, reconnecting, timer, latest, faults>>
  BY DEF StartupFinds, Replace
<1>7. OwnCall("startup", H, sel, s)
  BY <1>1, <1>3, <1>4, <1>5, <1>6 DEF OwnCall
<1>8. Announced' /\ Alone' /\ Calls' /\ OnItsWay'
  BY <1>2, <1>5, <1>7, OwnCallKeeps
<1>9. H \in SUBSET Servers /\ H # {} /\ \A x \in H : NetOf[x] = network
  BY DEF Found
<1>10. Serial' /\ Aligned'
  BY <1>1, <1>3, <1>4, <1>6, <1>9 DEF SInv, Serial, Aligned
<1>11. TypeOK'
  <2>1. rot' \in Rows /\ owner' \in Rotations \cup {None} /\ pending' \in Rotations \cup {None}
    BY <1>5, <1>6, ConnectTypes
  <2>2. rpc' \in [server : Servers \cup {None}, up : BOOLEAN]
    BY <1>6
  <2>3. abandoned' \in BOOLEAN
    BY <1>6
  <2> QED
    BY <1>1, <1>6, <1>9, <2>1, <2>2, <2>3 DEF TypeOK, Rows
<1> QED
  BY <1>8, <1>10, <1>11 DEF SInv

\* init() of the worker ends without a server: its catch block starts the loop.
LEMMA StartupFindsNoneKeeps ==
  ASSUME TypeOK, SInv, NEW s \in Servers, StartupFindsNone(s)
  PROVE  TypeOK' /\ SInv'
<1>1. startup = "probe" /\ startup' = "done"
      /\ Schedule(rot, pending, owner, s)
      /\ UNCHANGED <<cooling, prefs, network, healthy, selected, rpc, status, sw, latest, abandoned>>
  BY DEF StartupFindsNone
<1>2. Busy /\ owner = None /\ (\A k \in Switches : sw[k].phase = "idle")
  BY <1>1 DEF Busy, SInv, Alone, Serial
<1>3. ~rpc.up /\ rpc.up = FALSE /\ status = "disconnected"
  BY <1>2 DEF SInv, Alone, Announced, TypeOK
<1>4. faults' \in 0..MaxFaults
  BY BoundsAssumption DEF StartupFindsNone, Spend, TypeOK
<1>5. PICK R, p : R = rot /\ p = pending
  OBVIOUS
<1>6. R \in Rows /\ p \in Rotations \cup {None}
  BY <1>5 DEF TypeOK, Rows
<1>7. HandsOver(R, p, None, s)
  <2>1. Schedule(R, p, None, s)
    BY <1>1, <1>2, <1>5 DEF Schedule, BeginConnect, Dialling
  <2> QED
    BY <1>1, <1>3, <2>1 DEF HandsOver
<1>8. Remain(R, None)
  <2>1. ASSUME NEW q \in Rotations, R[q].phase # "idle"
        PROVE  rot[q].by \in {"background", "rollback"}
    BY <1>2, <1>5, <2>1, NoneAssumption, Leftovers DEF Active
  <2> QED
    BY <1>5, <2>1 DEF Remain
<1>9. ~Busy'
  BY <1>1, <1>2 DEF Busy, Running
<1>10. SInv'
  BY <1>6, <1>7, <1>8, <1>9, HandsOverKeeps
<1>11. /\ rot' \in Rows
       /\ owner' \in Rotations \cup {None} /\ pending' \in Rotations \cup {None}
       /\ reconnecting' \in BOOLEAN /\ timer' \in BOOLEAN
  BY <1>6, <1>7, ScheduleTypes DEF HandsOver
<1>12. TypeOK'
  BY <1>1, <1>4, <1>11 DEF TypeOK, Rows
<1> QED
  BY <1>10, <1>12

-----------------------------------------------------------------------------
(* Switches.                                                               *)

\* A switch that runs is alone, and the start is over.
LEMMA OnlyOne ==
  ASSUME TypeOK, SInv, NEW k \in Switches, Running(k)
  PROVE  /\ startup \in {"scans", "done"}
         /\ \A j \in Switches : j # k => ~Running(j) /\ sw[j].phase \in {"idle", "done"}
<1>1. startup # "redial"
  BY DEF SInv, Alone
<1> QED
  BY <1>1 DEF SInv, Serial, Running, TypeOK

LEMMA StartSwitchKeeps ==
  ASSUME ~Overlap, ~StartupOverlap, TypeOK, SInv,
         NEW k \in Switches, NEW kind \in Kinds, NEW net \in Networks, StartSwitch(k, kind, net)
  PROVE  TypeOK' /\ SInv'
<1>1. /\ startup \notin {"probe", "connect"} /\ sw[k].phase = "idle"
      /\ (\A j \in Switches : ~Running(j)) /\ Teardown(rot, pending) /\ prefs' = net
      /\ latest' = k
      /\ UNCHANGED <<network, healthy, selected, cooling, faults, abandoned>>
  BY DEF StartSwitch
<1> DEFINE c == [phase |-> "prepare", kind |-> kind, target |-> net, prev |-> prefs,
                 result |-> "none"]
<1>2. /\ c \in SwitchRecords /\ c.phase = "prepare" /\ c.target = net
  BY BoundsAssumption DEF SwitchRecords, TypeOK
<1>3. sw' = [sw EXCEPT ![k] = c]
  BY DEF StartSwitch
<1> HIDE DEF c
<1>4. /\ sw' \in [Switches -> SwitchRecords] /\ sw'[k] = c
      /\ \A j \in Switches : j # k => sw'[j] = sw[j]
  BY <1>2, <1>3 DEF TypeOK
<1>5. rot \in Rows /\ pending \in Rotations \cup {None}
  BY DEF TypeOK, Rows
<1>6. /\ rot' \in Rows /\ rpc' \in [server : Servers \cup {None}, up : BOOLEAN]
      /\ owner' = None /\ pending' = None /\ status' = "disconnected"
      /\ reconnecting' = FALSE /\ timer' = FALSE /\ ~rpc'.up /\ startup' = Settled
  BY <1>1, <1>5, TeardownTypes
<1>7. TypeOK'
  BY <1>1, <1>4, <1>6 DEF TypeOK, Rows, Settled
<1>8. Torn' /\ Busy' /\ Running(k)' /\ \A j \in Switches : j # k => ~Running(j)'
  BY <1>1, <1>2, <1>4 DEF Torn, Busy, Running
<1>9. ASSUME NEW q \in Rotations, rot[q].phase # "idle"
      PROVE  /\ rot[q].by \in {"background", "rollback"}
             /\ rot[q].phase = "dial" => rot[q].server \in Servers
  <2>1. CallOK(q)
    BY <1>9 DEF SInv, Calls, Active
  <2>2. rot[q].by \in Callers \cup {None}
    BY FieldTypes DEF TypeOK
  <2>3. rot[q].by \notin Switches
    BY <1>1, <2>1 DEF CallOK, Running
  <2> QED
    BY <1>1, <2>1, <2>2, <2>3 DEF CallOK, Callers
<1>10. TornDown(rot, pending)
  BY <1>1, <1>9 DEF TornDown
<1>11. Announced' /\ Alone' /\ Calls' /\ OnItsWay'
  BY <1>5, <1>8, <1>10, TornDownKeeps
<1>12. Serial'
  BY <1>1, <1>6, <1>8 DEF Serial, Settled
<1>13. Aligned'
  <2>1. \A j \in Switches : j # k => sw'[j].phase \in {"idle", "done"}
    BY <1>8 DEF Running
  <2> QED
    BY <1>1, <1>2, <1>4, <1>6, <1>8, <2>1 DEF Aligned
<1> QED
  BY <1>7, <1>11, <1>12, <1>13 DEF SInv

\* electrumService.init(net) of a switch, or of its rollback, takes the epoch.
LEMMA InitStarts ==
  ASSUME TypeOK, SInv, NEW k \in Switches, NEW ph \in {"init", "restore"},
         ph = "init" => sw[k].phase = "prepare" /\ network' = sw[k].target,
         ph = "restore" => sw[k].phase = "rollback" /\ network' = sw[k].prev,
         owner' = None, sw' = [sw EXCEPT ![k].phase = ph],
         UNCHANGED <<prefs, healthy, selected, rpc, pending, cooling, status, rot, abandoned,
                     reconnecting, timer, startup, latest, faults>>
  PROVE  TypeOK' /\ SInv'
<1>1. Running(k) /\ Torn
  BY DEF Running, Torn
<1>2. Busy /\ owner = None
  BY <1>1 DEF Busy, Running, SInv, Alone
<1>3. /\ startup \in {"scans", "done"}
      /\ \A j \in Switches : j # k => ~Running(j) /\ sw[j].phase \in {"idle", "done"}
  BY <1>1, OnlyOne
<1>4. /\ sw' \in [Switches -> SwitchRecords]
      /\ sw'[k].phase = ph /\ sw'[k].target = sw[k].target /\ sw'[k].prev = sw[k].prev
      /\ \A j \in Switches : j # k => sw'[j] = sw[j]
  <2>1. "none" \in {"none", "ok", "failed", "superseded"}
    OBVIOUS
  <2> QED
    BY <2>1, SwitchMoves DEF TypeOK
<1>5. sw[k] \in SwitchRecords
  BY DEF TypeOK
<1>6. TypeOK'
  BY <1>4, <1>5 DEF TypeOK, SwitchRecords
<1>7. Running(k)' /\ Torn' /\ Busy' /\ \A j \in Switches : j # k => ~Running(j)'
  BY <1>3, <1>4 DEF Running, Torn, Busy
<1>8. ~timer /\ ~reconnecting /\ ~rpc.up /\ \A r \in Rotations : ~Live(r)
  BY <1>2 DEF SInv, Alone
<1>9. Serial' /\ Announced'
  BY <1>3, <1>7 DEF SInv, Serial, Announced
<1>10. Alone'
  BY <1>3, <1>8 DEF Alone, Live, Active
<1>11. Calls'
  <2>1. ASSUME NEW q \in Rotations, rot'[q].phase # "idle"
        PROVE  CallOK(q)'
    <3>1. rot[q].phase # "idle" /\ owner # q /\ owner' # q
      BY <1>2, <2>1, NoneAssumption
    <3>2. CallOK(q)
      BY <3>1 DEF SInv, Calls, Active
    <3>3. /\ rot[q].by \in {"background", "rollback"}
          /\ rot[q].by \notin Switches /\ rot[q].by # None
      BY <3>1, Leftovers DEF Active
    <3> QED
      BY <3>1, <3>2, <3>3 DEF CallOK
  <2> QED
    BY <2>1 DEF Calls, Active
<1>12. Aligned'
  <2>1. \A j \in Switches : j # k => sw'[j].phase \in {"idle", "done"}
    BY <1>3, <1>4
  <2>2. /\ ph = "init" => prefs = sw[k].target
        /\ ph = "restore" => prefs = sw[k].prev
    BY DEF SInv, Aligned
  <2> QED
    BY <1>4, <1>7, <1>8, <2>1, <2>2 DEF Aligned
<1>13. OnItsWay'
  BY <1>7, <1>8 DEF OnItsWay
<1> QED
  BY <1>6, <1>9, <1>10, <1>11, <1>12, <1>13 DEF SInv

\* electrumService.init() has found servers and connect() dials: for the switch, or, after
\* its rollback, for nobody.
LEMMA FindsKeeps ==
  ASSUME TypeOK, SInv, NEW k \in Switches, NEW by \in Callers \ {"background", "startup"},
         NEW H \in Found(network), NEW sel \in Servers, NEW s \in Servers,
         NEW ph \in {"connect", "done"}, NEW res \in {"none", "ok", "failed", "superseded"},
         ph = "connect" => sw[k].phase = "init" /\ by = k,
         ph = "done" => sw[k].phase = "restore" /\ by \notin Switches,
         \/ sw' = [sw EXCEPT ![k].phase = ph]
         \/ sw' = [sw EXCEPT ![k].phase = ph, ![k].result = res],
         Replace(H, sel), BeginConnect(rot, pending, by, H, sel, s),
         UNCHANGED <<cooling, prefs, network, status, reconnecting, timer, startup, latest, faults>>
  PROVE  TypeOK' /\ SInv'
<1>1. Running(k) /\ Torn
  BY DEF Running, Torn
<1>2. Busy /\ owner = None
  BY <1>1 DEF Busy, Running, SInv, Alone
<1>3. /\ startup \in {"scans", "done"}
      /\ \A j \in Switches : j # k => ~Running(j) /\ sw[j].phase \in {"idle", "done"}
  BY <1>1, OnlyOne
<1>4. /\ sw' \in [Switches -> SwitchRecords]
      /\ sw'[k].phase = ph /\ sw'[k].target = sw[k].target /\ sw'[k].prev = sw[k].prev
      /\ \A j \in Switches : j # k => sw'[j] = sw[j]
  BY SwitchMoves DEF TypeOK
<1>5. H \in SUBSET Servers /\ H # {} /\ \A x \in H : NetOf[x] = network
  BY DEF Found
<1>6. ~rpc.up /\ ~reconnecting
  BY <1>2 DEF SInv, Alone
<1>7. /\ healthy' = H /\ selected' = sel /\ rpc' = [server |-> sel, up |-> FALSE]
      /\ abandoned' = (abandoned \/ rpc.up)
  BY DEF Replace
<1>8. by \in Callers /\ by \in Callers \ {"background"}
  OBVIOUS
<1>9. TypeOK'
  <2>1. rot' \in Rows /\ owner' \in Rotations \cup {None} /\ pending' \in Rotations \cup {None}
    BY <1>8, ConnectTypes
  <2>2. rpc' \in [server : Servers \cup {None}, up : BOOLEAN] /\ abandoned' \in BOOLEAN
    BY <1>7
  <2> QED
    BY <1>4, <1>5, <1>7, <2>1, <2>2 DEF TypeOK, Rows
<1>10. /\ \A j \in Switches : j # k => sw'[j].phase \in {"idle", "done"} /\ ~Running(j)'
       /\ ~Torn'
  BY <1>3, <1>4 DEF Torn, Running
<1>11. OwnCall(by, H, sel, s)
  <2>1. startup' \notin {"probe", "redial"} /\ by # "startup" /\ startup' # "connect"
    BY <1>3
  <2>2. by \in Switches => sw'[by].phase = "connect"
    BY <1>4
  <2>3. \A j \in Switches : sw'[j].phase = "connect" => by = j
    BY <1>4, <1>10
  <2> QED
    BY <1>7, <1>10, <2>1, <2>2, <2>3 DEF OwnCall
<1>12. Announced' /\ Alone' /\ Calls' /\ OnItsWay'
  BY <1>2, <1>8, <1>11, OwnCallKeeps
<1>13. Serial'
  BY <1>3, <1>10 DEF Serial
<1>14. Aligned'
  <2>1. /\ ph = "connect" => prefs = sw[k].target /\ network = sw[k].target
        /\ ph = "done" => prefs = sw[k].prev /\ network = sw[k].prev
    BY DEF SInv, Aligned
  <2> QED
    BY <1>4, <1>5, <1>7, <1>10, <2>1 DEF Aligned, Running
<1> QED
  BY <1>9, <1>12, <1>13, <1>14 DEF SInv

LEMMA SwitchThrowsKeeps ==
  ASSUME TypeOK, SInv, NEW k \in Switches, SwitchThrows(k)
  PROVE  TypeOK' /\ SInv'
<1>1. /\ sw[k].phase \in {"prepare", "init"} /\ RollBack(k, rot, pending)
      /\ UNCHANGED <<network, healthy, selected, cooling, latest, abandoned>>
  BY DEF SwitchThrows
<1>2. Running(k) /\ sw[k].phase # "finish" /\ Torn
  BY <1>1 DEF Running, Torn
<1>3. owner = None
  BY <1>2 DEF SInv, Alone
<1>4. rot \in Rows /\ pending \in Rotations \cup {None}
  BY DEF TypeOK, Rows
<1>5. faults' \in 0..MaxFaults
  BY BoundsAssumption DEF SwitchThrows, Spend, TypeOK
<1>6. EndsWith(pending)
  BY <1>1, <1>4, <1>5 DEF EndsWith, TypeOK
<1>7. Harmless(rot)
  BY <1>3, Leftovers, NoneAssumption DEF Harmless, Active
<1> QED
  BY <1>1, <1>2, <1>4, <1>6, <1>7, RollBackKeeps

LEMMA SwitchCompletesKeeps ==
  ASSUME TypeOK, SInv, NEW k \in Switches, SwitchCompletes(k)
  PROVE  TypeOK' /\ SInv'
<1>1. /\ sw[k].phase = "finish"
      /\ sw' = [sw EXCEPT ![k].phase = "done", ![k].result = "ok"]
      /\ UNCHANGED <<prefs, network, healthy, selected, rpc, owner, pending, cooling, status, rot,
                     abandoned, reconnecting, timer, startup, latest, faults>>
  BY DEF SwitchCompletes, serviceVars, backgroundVars
<1>2. /\ sw' \in [Switches -> SwitchRecords]
      /\ sw'[k].phase = "done"
      /\ \A j \in Switches : j # k => sw'[j] = sw[j]
  <2>1. "ok" \in {"none", "ok", "failed", "superseded"}
    OBVIOUS
  <2>2. "done" \in {"idle", "prepare", "init", "connect", "finish", "rollback", "restore", "done"}
    OBVIOUS
  <2> QED
    BY <1>1, <2>1, <2>2, SwitchMoves DEF TypeOK
<1>3. Running(k)
  BY <1>1 DEF Running
<1>4. /\ startup \in {"scans", "done"}
      /\ \A j \in Switches : j # k => ~Running(j) /\ sw[j].phase \in {"idle", "done"}
  BY <1>3, OnlyOne
<1>5. \A j \in Switches : sw'[j].phase \in {"idle", "done"} /\ ~Running(j)'
  BY <1>2, <1>4 DEF Running
<1>6. ~Busy /\ ~Busy' /\ ~Torn /\ ~Torn'
  BY <1>1, <1>2, <1>4, <1>5 DEF Busy, Torn, Running
<1>7. TypeOK'
  BY <1>1, <1>2 DEF TypeOK
<1>8. Serial' /\ Announced'
  BY <1>1, <1>4, <1>5 DEF SInv, Serial, Announced
<1>9. Alone'
  BY <1>1, <1>4, <1>5, <1>6 DEF SInv, Alone, Live, Active
<1>10. Calls'
  <2>1. ASSUME NEW q \in Rotations, rot'[q].phase # "idle"
        PROVE  CallOK(q)'
    <3>1. CallOK(q)
      BY <1>1, <2>1 DEF SInv, Calls, Active
    <3>2. rot[q].by \notin Switches
      BY <1>1, <1>4, <3>1 DEF CallOK
    <3> QED
      BY <1>1, <3>1, <3>2 DEF CallOK
  <2> QED
    BY <1>1, <2>1 DEF SInv, Calls, Active
<1>11. Aligned'
  BY <1>1, <1>2, <1>5, <1>6 DEF SInv, Aligned
<1>12. OnItsWay'
  BY <1>1, <1>6 DEF SInv, OnItsWay, Live, Active
<1> QED
  BY <1>7, <1>8, <1>9, <1>10, <1>11, <1>12 DEF SInv

LEMMA AdvanceKeeps ==
  ASSUME ~RollbackProbeFails, TypeOK, SInv, NEW k \in Switches, Advance(k)
  PROVE  TypeOK' /\ SInv'
<1>1. CASE Prepared(k)
  BY <1>1, InitStarts DEF Prepared, backgroundVars
<1>2. ASSUME NEW H \in Found(sw[k].target), NEW sel \in Servers, NEW s \in Servers,
             InitFinds(k, H, sel, s)
      PROVE  TypeOK' /\ SInv'
  <2>1. sw[k].phase = "init" /\ network = sw[k].target
    BY <1>2 DEF InitFinds, SInv, Aligned
  <2>2. k \in Callers \ {"background", "startup"}
    BY CallersAssumption DEF Callers
  <2>3. "none" \in {"none", "ok", "failed", "superseded"} /\ "connect" \in {"connect", "done"}
    OBVIOUS
  <2> QED
    BY <1>2, <2>1, <2>2, <2>3, FindsKeeps DEF InitFinds, backgroundVars
<1>3. CASE SwitchThrows(k)
  BY <1>3, SwitchThrowsKeeps
<1>4. CASE SwitchCompletes(k)
  BY <1>4, SwitchCompletesKeeps
<1>5. CASE RolledBack(k)
  BY <1>5, InitStarts DEF RolledBack, backgroundVars
<1>6. ASSUME NEW H \in Found(sw[k].prev), NEW sel \in Servers, NEW s \in Servers,
             RestoreFinds(k, H, sel, s)
      PROVE  TypeOK' /\ SInv'
  <2>1. sw[k].phase = "restore" /\ network = sw[k].prev
    BY <1>6 DEF RestoreFinds, SInv, Aligned
  <2>2. "rollback" \in Callers \ {"background", "startup"} /\ "rollback" \notin Switches
    BY CallersAssumption DEF Callers
  <2>3. "failed" \in {"none", "ok", "failed", "superseded"} /\ "done" \in {"connect", "done"}
    OBVIOUS
  <2> QED
    BY <1>6, <2>1, <2>2, <2>3, FindsKeeps DEF RestoreFinds, Failed, backgroundVars
<1>7. ASSUME NEW s \in Servers, RestoreFindsNone(k, s)
      PROVE  FALSE
  BY <1>7 DEF RestoreFindsNone
<1> QED
  BY <1>1, <1>2, <1>3, <1>4, <1>5, <1>6, <1>7 DEF Advance

-----------------------------------------------------------------------------
(* The theorems.  Each is about the wallet whose switches run one at a      *)
(* time, whose start neither dials nor fails while one runs, and whose      *)
(* rollbacks find a server.                                                 *)

Orderly == ~Overlap /\ ~StartupOverlap /\ ~RollbackProbeFails

LEMMA InitHolds ==
  ASSUME Init
  PROVE  IInv
<1>1. TypeOK
  <2>1. sw \in [Switches -> SwitchRecords]
    BY DEF Init, SwitchRecords
  <2>2. rot \in [Rotations -> RotationRecords]
    BY IdleIsARecord DEF Init
  <2>3. rpc \in [server : Servers \cup {None}, up : BOOLEAN] /\ faults \in 0..MaxFaults
    BY BoundsAssumption DEF Init
  <2> QED
    BY <2>1, <2>2, <2>3 DEF Init, TypeOK
<1>2. Serial /\ Announced /\ Alone /\ Aligned
  BY IdleIsARecord DEF Init, Serial, Announced, Alone, Aligned, Running, Torn, Live, Active
<1>3. Calls /\ OnItsWay
  BY IdleIsARecord DEF Init, Calls, OnItsWay, Busy, Active
<1> QED
  BY <1>1, <1>2, <1>3 DEF IInv

LEMMA NextKeeps ==
  ASSUME Orderly, IInv, [Next]_vars
  PROVE  IInv'
<1>1. TypeOK /\ SInv
  BY DEF IInv, SInv
<1>2. ~Overlap /\ ~StartupOverlap /\ ~RollbackProbeFails
  BY DEF Orderly
<1>3. ASSUME NEW r \in Rotations, Rotate(r) PROVE TypeOK' /\ SInv'
  BY <1>1, <1>3, RotateKeeps
<1>4. ASSUME Start PROVE TypeOK' /\ SInv'
  BY <1>1, <1>2, <1>4, StartupFindsKeeps, StartupFindsNoneKeeps, ScansEndKeeps, ScansFailKeeps
     DEF Start
<1>5. ASSUME NEW k \in Switches, NEW kind \in Kinds, NEW net \in Networks, StartSwitch(k, kind, net)
      PROVE  TypeOK' /\ SInv'
  BY <1>1, <1>2, <1>5, StartSwitchKeeps
<1>6. ASSUME NEW k \in Switches, Advance(k) PROVE TypeOK' /\ SInv'
  BY <1>1, <1>2, <1>6, AdvanceKeeps
<1>7. ASSUME NEW s \in Servers, ConnectionDrops(s) \/ ReconnectTimer(s) \/ CooldownEnds(s)
      PROVE  TypeOK' /\ SInv'
  BY <1>1, <1>7, ConnectionDropsKeeps, ReconnectTimerKeeps, CooldownEndsKeeps
<1>8. ASSUME UNCHANGED vars PROVE TypeOK' /\ SInv'
  <2>1. UNCHANGED <<prefs, network, healthy, selected, rpc, owner, pending, cooling, status, rot,
                    abandoned, reconnecting, timer, startup, sw, latest, faults>>
    BY <1>8 DEF vars, serviceVars, backgroundVars
  <2>2. TypeOK'
    BY <1>1, <2>1 DEF TypeOK
  <2>3. Serial' /\ Announced' /\ Aligned'
    BY <1>1, <2>1 DEF SInv, Serial, Announced, Aligned, Running, Torn
  <2>4. Alone' /\ Calls' /\ OnItsWay'
    BY <1>1, <2>1 DEF SInv, Alone, Calls, OnItsWay, CallOK, Busy, Torn, Live, Active, Running
  <2> QED
    BY <2>2, <2>3, <2>4 DEF SInv
<1>9. TypeOK' /\ SInv'
  BY <1>3, <1>4, <1>5, <1>6, <1>7, <1>8 DEF Next
<1> QED
  BY <1>9 DEF IInv, SInv

\* Every state of every behaviour satisfies the inductive invariant.
THEOREM InductiveInvariant ==
  ASSUME Orderly
  PROVE  Spec => []IInv
<1>1. IInv /\ [Next]_vars => IInv'
  BY NextKeeps
<1> QED
  BY <1>1, InitHolds, PTL DEF Spec

\* 'connected' is announced exactly while the adopted client is up, except that a wallet
\* reconnecting after its start's first scans failed may announce 'disconnected' and is then
\* on its way; and no live connection is replaced without being closed (setStatus, the
\* adoption in connect() and disconnect()).
THEOREM AnnouncedIsTrue ==
  ASSUME Orderly
  PROVE  Spec => []StatusIsTruthful
<1>1. IInv => StatusIsTruthful
  <2>1. ASSUME IInv, rpc.up, status # "connected"
        PROVE  startup = "redial" /\ OnTheWay
    <3>1. startup = "redial" /\ ~Busy
      BY <2>1 DEF IInv, Announced, Alone, Busy
    <3> QED
      BY <2>1, <3>1 DEF IInv, OnItsWay, OnTheWay, Active
  <2> QED
    BY <2>1 DEF IInv, Announced, StatusIsTruthful
<1> QED
  BY <1>1, InductiveInvariant, PTL

\* Between switches a connected wallet talks to a server of the network that its
\* preferences name, however dials, rescans and rollbacks went.
THEOREM ConnectedWhereMeant ==
  ASSUME Orderly
  PROVE  Spec => []ConnectionServesPreferences
<1>1. IInv => ConnectionServesPreferences
  BY DEF IInv, Aligned, ConnectionServesPreferences, NoSwitchRuns
<1> QED
  BY <1>1, InductiveInvariant, PTL

\* Between switches a wallet that is not connected, or says so, has a call that may still adopt or will
\* arm the reconnect timer, or has the timer: the reconnect loop never dies.
THEOREM LoopNeverDies ==
  ASSUME Orderly
  PROVE  Spec => []NeverStranded
<1>1. IInv => NeverStranded
  <2> SUFFICES ASSUME IInv, NoSwitchRuns, ~rpc.up \/ status # "connected"
               PROVE  OnTheWay
    BY DEF NeverStranded
  <2>1. ~Busy
    BY DEF Busy, NoSwitchRuns
  <2>2. ~rpc.up \/ startup = "redial"
    BY DEF IInv, Announced
  <2> QED
    BY <2>1, <2>2 DEF IInv, OnItsWay, OnTheWay, Active
<1> QED
  BY <1>1, InductiveInvariant, PTL

-----------------------------------------------------------------------------
(* The client below the service, for any number of dials and requests.     *)
(* Its invariant is inductive once it says where outstanding requests come *)
(* from: each was sent on a real socket, the one in use, and a checkpoint  *)
(* request is sent only after server.version was answered on that socket.  *)

\* A socket in use was created by some connect().
SocketInUse == socket # NoSocket => ready[socket] # "unused"

\* Outstanding requests left on a socket.
TrackedOnSocket == \A q \in tracked : request[q].on \in Sockets

\* The header is asked for only after server.version was answered.
HeaderAfterVersion ==
  \A q \in Requests : request[q].purpose = "header" =>
    \E v \in Requests :
      request[v] = [purpose |-> "version", on |-> request[q].on, promise |-> "resolved"]

ClientIInv ==
  /\ ClientTypeOK
  /\ NoOrphanTimer
  /\ TrackedOnCurrentSocket
  /\ TrackedOnSocket
  /\ NoForgottenRequest
  /\ NoLeakedSocket
  /\ SocketInUse
  /\ HeaderAfterVersion
  /\ ConnectedIsVerified

USE DEF ReadyStates, PromiseStates, Purposes, Statuses,
        RequestRecords, Unused

-----------------------------------------------------------------------------

\* The initial state satisfies the inductive invariant.
LEMMA ClientInitIInv == ClientInit => ClientIInv
BY NoSocketAssumption
   DEF ClientInit, ClientIInv, ClientTypeOK, NoOrphanTimer, TrackedOnCurrentSocket,
       TrackedOnSocket,
       NoForgottenRequest, NoLeakedSocket, SocketInUse, HeaderAfterVersion,
       ConnectedIsVerified

\* disconnect() on a client that holds a socket preserves the invariant.
LEMMA ClientDropSocketIInv ==
  ASSUME ClientIInv, socket # NoSocket,
         NEW Q \in SUBSET Requests, NEW a \in PromiseStates,
         DropSocket(Q, a), UNCHANGED opened
  PROVE  ClientIInv'
<1>1. socket \in Sockets /\ ready \in [Sockets -> ReadyStates]
  BY DEF ClientIInv, ClientTypeOK
<1>2. ClientTypeOK'
  BY <1>1 DEF ClientIInv, ClientTypeOK, DropSocket, Reject, Closed
<1>3. /\ socket' = NoSocket
      /\ announced' = "disconnected"
      /\ tracked' = {}
  BY <1>1 DEF ClientIInv, ClientTypeOK, DropSocket, Reject
<1>4. NoOrphanTimer'
  BY DEF ClientIInv, NoOrphanTimer, DropSocket, Reject
<1>5. NoForgottenRequest'
  BY DEF ClientIInv, ClientTypeOK, NoForgottenRequest, DropSocket, Reject
<1>6. NoLeakedSocket'
  BY <1>1 DEF ClientIInv, NoLeakedSocket, DropSocket, Closed
<1>7. HeaderAfterVersion'
  BY DEF ClientIInv, ClientTypeOK, HeaderAfterVersion, DropSocket, Reject
<1>8. TrackedOnCurrentSocket' /\ TrackedOnSocket' /\ SocketInUse' /\ ConnectedIsVerified'
  BY <1>3 DEF TrackedOnCurrentSocket, TrackedOnSocket, SocketInUse, ConnectedIsVerified
<1>9. QED
  BY <1>2, <1>4, <1>5, <1>6, <1>7, <1>8 DEF ClientIInv

\* fail() of an attempt that is not settled preserves the invariant.
LEMMA ClientFailIInv ==
  ASSUME ClientIInv, NEW s \in Sockets, attempt[s] = "pending", Fail(s), UNCHANGED opened
  PROVE  ClientIInv'
<1>1. CASE s = socket
  <2>1. socket # NoSocket
    BY <1>1, NoSocketAssumption
  <2>2. DropSocket({}, "rejected")
    BY <1>1 DEF Fail
  <2>3. QED
    BY <2>1, <2>2, ClientDropSocketIInv
<1>2. CASE s # socket
  <2>1. /\ ready' = [ready EXCEPT ![s] = Closed(s)]
        /\ attempt' = [attempt EXCEPT ![s] = "rejected"]
        /\ UNCHANGED <<socket, request, tracked, armed, announced>>
    BY <1>2 DEF Fail
  <2>2. ClientTypeOK'
    BY <2>1 DEF ClientIInv, ClientTypeOK, Closed
  <2>3. NoLeakedSocket'
    BY <2>1 DEF ClientIInv, ClientTypeOK, NoLeakedSocket, Closed
  <2>4. SocketInUse' /\ ConnectedIsVerified'
    BY <1>2, <2>1 DEF ClientIInv, ClientTypeOK, SocketInUse, ConnectedIsVerified
  <2>5. /\ NoOrphanTimer'
        /\ TrackedOnCurrentSocket'
        /\ TrackedOnSocket'
        /\ NoForgottenRequest'
        /\ HeaderAfterVersion'
    BY <2>1 DEF ClientIInv, NoOrphanTimer, TrackedOnCurrentSocket, TrackedOnSocket,
                NoForgottenRequest, HeaderAfterVersion
  <2>6. QED
    BY <2>2, <2>3, <2>4, <2>5 DEF ClientIInv
<1>3. QED
  BY <1>1, <1>2

\* Rejecting one outstanding request, and nothing else, preserves the invariant.
LEMMA ClientRejectIInv ==
  ASSUME ClientIInv, NEW q \in tracked, Reject({q}),
         UNCHANGED <<socket, ready, opened, attempt, announced>>
  PROVE  ClientIInv'
<1>1. request[q].promise = "pending"
  BY DEF ClientIInv, TrackedOnCurrentSocket
<1>2. ClientTypeOK'
  BY DEF ClientIInv, ClientTypeOK, Reject
<1>3. /\ NoOrphanTimer'
      /\ TrackedOnCurrentSocket'
      /\ TrackedOnSocket'
      /\ NoForgottenRequest'
  BY DEF ClientIInv, ClientTypeOK, Reject, NoOrphanTimer, TrackedOnCurrentSocket,
         TrackedOnSocket,
         NoForgottenRequest
<1>4. NoLeakedSocket' /\ SocketInUse'
  BY DEF ClientIInv, NoLeakedSocket, SocketInUse
<1>5. \A v \in Requests : request[v].promise = "resolved" => request'[v] = request[v]
  BY <1>1 DEF Reject
<1>6. HeaderAfterVersion'
  BY <1>5 DEF ClientIInv, ClientTypeOK, HeaderAfterVersion, Reject
<1>7. ConnectedIsVerified'
  BY <1>5 DEF ClientIInv, ConnectedIsVerified
<1>8. QED
  BY <1>2, <1>3, <1>4, <1>6, <1>7 DEF ClientIInv

\* Tracking fresh requests that are not header requests preserves the invariant.
LEMMA ClientTrackIInv ==
  ASSUME ClientIInv, socket # NoSocket,
         NEW Q \in SUBSET Requests, \A q \in Q : Fresh(q),
         NEW purpose \in Purposes \ {"none", "header"}, Track(Q, purpose),
         UNCHANGED <<socket, ready, opened, attempt, announced>>
  PROVE  ClientIInv'
<1>1. socket \in Sockets
  BY DEF ClientIInv, ClientTypeOK
<1>2. ClientTypeOK'
  BY <1>1 DEF ClientIInv, ClientTypeOK, Track
<1>3. /\ NoOrphanTimer'
      /\ TrackedOnCurrentSocket'
      /\ TrackedOnSocket'
      /\ NoForgottenRequest'
  BY <1>1 DEF ClientIInv, ClientTypeOK, Track, NoOrphanTimer,
              TrackedOnCurrentSocket, TrackedOnSocket,
         NoForgottenRequest
<1>4. NoLeakedSocket' /\ SocketInUse'
  BY DEF ClientIInv, NoLeakedSocket, SocketInUse
<1>5. \A v \in Requests : request[v].promise = "resolved" => request'[v] = request[v]
  BY DEF Track, Fresh
<1>6. HeaderAfterVersion'
  BY <1>5 DEF ClientIInv, ClientTypeOK, HeaderAfterVersion, Track
<1>7. ConnectedIsVerified'
  BY <1>5 DEF ClientIInv, ConnectedIsVerified
<1>8. QED
  BY <1>2, <1>3, <1>4, <1>6, <1>7 DEF ClientIInv

-----------------------------------------------------------------------------

\* A new dial preserves the invariant: the socket in use is dropped with all its
\* requests before the new one takes its place.
LEMMA ClientConnectIInv ==
  ASSUME ClientIInv, NEW s \in Sockets, Connect(s)
  PROVE  ClientIInv'
<1>1. /\ ready \in [Sockets -> ReadyStates]
      /\ attempt \in [Sockets -> PromiseStates]
      /\ ready[s] = "unused"
      /\ socket' = s
      /\ s # socket
  BY NoSocketAssumption DEF ClientIInv, ClientTypeOK, Connect, SocketInUse
<1>2. CASE socket = NoSocket
  <2>1. /\ ready' = [ready EXCEPT ![s] = "connecting"]
        /\ attempt' = [attempt EXCEPT ![s] = "pending"]
        /\ UNCHANGED <<request, tracked, armed, announced, opened>>
    BY <1>2 DEF Connect
  <2>2. tracked = {}
    BY <1>2, NoSocketAssumption DEF ClientIInv, TrackedOnCurrentSocket, TrackedOnSocket
  <2>3. ClientTypeOK' /\ NoLeakedSocket' /\ SocketInUse'
    BY <1>1, <1>2, <2>1, NoSocketAssumption
       DEF ClientIInv, ClientTypeOK, NoLeakedSocket, SocketInUse
  <2>4. NoOrphanTimer' /\ TrackedOnCurrentSocket' /\ TrackedOnSocket'
        /\ NoForgottenRequest'
    BY <2>1, <2>2 DEF ClientIInv, NoOrphanTimer, TrackedOnCurrentSocket, TrackedOnSocket,
                      NoForgottenRequest
  <2>5. HeaderAfterVersion' /\ ConnectedIsVerified'
    BY <1>2, <2>1 DEF ClientIInv, HeaderAfterVersion, ConnectedIsVerified
  <2>6. QED
    BY <2>3, <2>4, <2>5 DEF ClientIInv
<1>3. CASE socket # NoSocket
  <2>1. /\ Reject(tracked)
        /\ ready' = [ready EXCEPT ![socket] = Closed(socket), ![s] = "connecting"]
        /\ attempt' = [attempt EXCEPT ![socket] = HandshakeRejected(socket),
                                      ![s] = "pending"]
        /\ announced' = "disconnected"
        /\ opened' = opened
    BY <1>3 DEF Connect
  <2>2. socket \in Sockets
    BY <1>3 DEF ClientIInv, ClientTypeOK
  <2>3. ClientTypeOK'
    BY <1>1, <2>1, <2>2 DEF ClientIInv, ClientTypeOK, Reject, Closed, HandshakeRejected
  <2>4. NoLeakedSocket' /\ SocketInUse'
    BY <1>1, <2>1, <2>2, NoSocketAssumption DEF ClientIInv, NoLeakedSocket, SocketInUse, Closed
  <2>5. NoOrphanTimer' /\ TrackedOnCurrentSocket' /\ TrackedOnSocket'
        /\ NoForgottenRequest'
    BY <2>1 DEF ClientIInv, ClientTypeOK, Reject, NoOrphanTimer, TrackedOnCurrentSocket,
                TrackedOnSocket, NoForgottenRequest
  <2>6. HeaderAfterVersion' /\ ConnectedIsVerified'
    BY <2>1 DEF ClientIInv, ClientTypeOK, Reject, HeaderAfterVersion, ConnectedIsVerified
  <2>7. QED
    BY <2>3, <2>4, <2>5, <2>6 DEF ClientIInv
<1>4. QED
  BY <1>2, <1>3

\* The open event preserves the invariant.
LEMMA ClientOnOpenIInv ==
  ASSUME ClientIInv, NEW s \in Sockets, NEW q \in Requests, OnOpen(s, q)
  PROVE  ClientIInv'
<1>1. attempt[s] = "pending" /\ s \in Sockets
  BY DEF OnOpen
<1>2. CASE s # socket
  BY <1>1, <1>2, ClientFailIInv DEF OnOpen
<1>3. CASE s = socket
  <2>1. /\ request[q].promise = "unused"
        /\ ready' = [ready EXCEPT ![s] = "open"]
        /\ opened' = opened \cup {s}
        /\ Track({q}, "version")
        /\ UNCHANGED <<socket, attempt, announced>>
    BY <1>3 DEF OnOpen, Fresh
  <2>2. /\ request' = [r \in Requests |->
                         IF r = q THEN [purpose |-> "version", on |-> s,
                                        promise |-> "pending"]
                                  ELSE request[r]]
        /\ tracked' = tracked \cup {q}
        /\ armed' = armed \cup {q}
    BY <1>3, <2>1 DEF Track
  <2>3. ClientTypeOK'
    BY <2>1, <2>2 DEF ClientIInv, ClientTypeOK
  <2>4. NoLeakedSocket' /\ SocketInUse' /\ NoOrphanTimer'
    BY <1>3, <2>1, <2>2 DEF ClientIInv, ClientTypeOK, NoLeakedSocket, SocketInUse,
                            NoOrphanTimer
  <2>5. TrackedOnCurrentSocket' /\ TrackedOnSocket' /\ NoForgottenRequest'
    BY <1>3, <2>1, <2>2 DEF ClientIInv, ClientTypeOK, TrackedOnCurrentSocket, TrackedOnSocket,
                            NoForgottenRequest
  <2>6. HeaderAfterVersion'
    BY <2>1, <2>2 DEF ClientIInv, HeaderAfterVersion
  <2>7. ConnectedIsVerified'
    BY <1>1, <1>3, <2>1 DEF ClientIInv, ConnectedIsVerified
  <2>8. QED
    BY <2>3, <2>4, <2>5, <2>6, <2>7 DEF ClientIInv
<1>4. QED
  BY <1>2, <1>3

\* A good answer preserves the invariant: only the answer to the header request of
\* the socket in use announces the connection.
LEMMA ClientAnswerOkIInv ==
  ASSUME ClientIInv, NEW q \in Requests, NEW h \in Requests, AnswerOk(q, h)
  PROVE  ClientIInv'
<1>1. /\ q \in tracked
      /\ request[q].on = socket
      /\ request[q].promise = "pending"
      /\ socket \in Sockets
      /\ UNCHANGED <<socket, ready, opened>>
  BY DEF AnswerOk, ClientIInv, TrackedOnCurrentSocket, TrackedOnSocket
<1>2. NoLeakedSocket' /\ SocketInUse'
  BY <1>1 DEF ClientIInv, NoLeakedSocket, SocketInUse
<1>3. CASE request[q].purpose = "version"
  <2>1. /\ request[h].promise = "unused"
        /\ h # q
        /\ request' = [request EXCEPT
                         ![q].promise = "resolved",
                         ![h] = [purpose |-> "header", on |-> socket,
                                 promise |-> "pending"]]
        /\ tracked' = (tracked \ {q}) \cup {h}
        /\ armed' = (armed \ {q}) \cup {h}
        /\ UNCHANGED <<attempt, announced>>
    BY <1>1, <1>3 DEF AnswerOk, Fresh
  <2>2. /\ request'[q] = [purpose |-> "version", on |-> socket, promise |-> "resolved"]
        /\ request'[h] = [purpose |-> "header", on |-> socket, promise |-> "pending"]
        /\ \A r \in Requests \ {q, h} : request'[r] = request[r]
    BY <1>1, <1>3, <2>1 DEF ClientIInv, ClientTypeOK
  <2>3. ClientTypeOK'
    BY <1>1, <2>1 DEF ClientIInv, ClientTypeOK
  <2>4. NoOrphanTimer' /\ TrackedOnCurrentSocket' /\ TrackedOnSocket'
        /\ NoForgottenRequest'
    BY <1>1, <2>1, <2>2 DEF ClientIInv, ClientTypeOK, NoOrphanTimer, TrackedOnCurrentSocket,
                            TrackedOnSocket, NoForgottenRequest
  <2>5. \A v \in Requests : request[v].promise = "resolved" => request'[v] = request[v]
    BY <1>1, <2>1, <2>2
  <2>6. HeaderAfterVersion'
    <3>1. SUFFICES ASSUME NEW r \in Requests, request'[r].purpose = "header"
                   PROVE  \E v \in Requests :
                            request'[v] = [purpose |-> "version", on |-> request'[r].on,
                                           promise |-> "resolved"]
      BY DEF HeaderAfterVersion
    <3>2. CASE r = h
      BY <2>2, <3>2
    <3>3. CASE r # h
      <4>1. r # q /\ request'[r] = request[r]
        BY <2>2, <3>1, <3>3
      <4>2. PICK v \in Requests :
              request[v] = [purpose |-> "version", on |-> request[r].on,
                            promise |-> "resolved"]
        BY <3>1, <4>1 DEF ClientIInv, HeaderAfterVersion
      <4>3. QED
        BY <2>5, <4>1, <4>2
    <3>4. QED
      BY <3>2, <3>3
  <2>7. ConnectedIsVerified'
    <3>1. SUFFICES ASSUME announced = "connected", NEW purpose \in {"version", "header"}
                   PROVE  \E r \in Requests :
                            request'[r] = [purpose |-> purpose, on |-> socket,
                                           promise |-> "resolved"]
      BY <1>1, <2>1 DEF ClientIInv, ConnectedIsVerified
    <3>2. PICK r \in Requests :
            request[r] = [purpose |-> purpose, on |-> socket, promise |-> "resolved"]
      BY <3>1 DEF ClientIInv, ConnectedIsVerified
    <3>3. QED
      BY <2>5, <3>2
  <2>8. QED
    BY <1>2, <2>3, <2>4, <2>6, <2>7 DEF ClientIInv
<1>4. CASE request[q].purpose # "version"
  <2>1. /\ request' = [request EXCEPT ![q].promise = "resolved"]
        /\ tracked' = tracked \ {q}
        /\ armed' = armed \ {q}
        /\ IF request[q].purpose = "header"
             THEN /\ attempt' = [attempt EXCEPT ![socket] = "resolved"]
                  /\ announced' = "connected"
             ELSE UNCHANGED <<attempt, announced>>
    BY <1>4 DEF AnswerOk
  <2>2. /\ request'[q] = [purpose |-> request[q].purpose, on |-> socket,
                          promise |-> "resolved"]
        /\ \A r \in Requests \ {q} : request'[r] = request[r]
    BY <1>1, <2>1 DEF ClientIInv, ClientTypeOK
  <2>3. ClientTypeOK'
    BY <1>1, <2>1 DEF ClientIInv, ClientTypeOK
  <2>4. NoOrphanTimer' /\ TrackedOnCurrentSocket' /\ TrackedOnSocket'
        /\ NoForgottenRequest'
    BY <1>1, <2>1, <2>2 DEF ClientIInv, ClientTypeOK, NoOrphanTimer, TrackedOnCurrentSocket,
                            TrackedOnSocket, NoForgottenRequest
  <2>5. \A v \in Requests : request[v].promise = "resolved" => request'[v] = request[v]
    BY <1>1, <2>2
  <2>6. HeaderAfterVersion'
    <3>1. SUFFICES ASSUME NEW r \in Requests, request'[r].purpose = "header"
                   PROVE  \E v \in Requests :
                            request'[v] = [purpose |-> "version", on |-> request'[r].on,
                                           promise |-> "resolved"]
      BY DEF HeaderAfterVersion
    <3>2. request[r].purpose = "header" /\ request'[r].on = request[r].on
      BY <1>1, <2>2, <3>1
    <3>3. PICK v \in Requests :
            request[v] = [purpose |-> "version", on |-> request[r].on,
                          promise |-> "resolved"]
      BY <3>2 DEF ClientIInv, HeaderAfterVersion
    <3>4. QED
      BY <2>5, <3>2, <3>3
  <2>7. ConnectedIsVerified'
    <3>1. CASE request[q].purpose = "header"
      <4>1. attempt'[socket] = "resolved"
        BY <1>1, <2>1, <3>1 DEF ClientIInv, ClientTypeOK
      <4>2. PICK v \in Requests :
              request[v] = [purpose |-> "version", on |-> socket, promise |-> "resolved"]
        BY <1>1, <3>1 DEF ClientIInv, HeaderAfterVersion
      <4>3. request'[v] = request[v]
        BY <1>1, <2>2, <4>2
      <4>4. QED
        BY <1>1, <2>2, <3>1, <4>1, <4>2, <4>3, NoSocketAssumption DEF ConnectedIsVerified
    <3>2. CASE request[q].purpose # "header"
      <4>1. UNCHANGED <<attempt, announced>>
        BY <2>1, <3>2
      <4>2. SUFFICES ASSUME announced = "connected", NEW purpose \in {"version", "header"}
                     PROVE  \E r \in Requests :
                              request'[r] = [purpose |-> purpose, on |-> socket,
                                             promise |-> "resolved"]
        BY <1>1, <4>1 DEF ClientIInv, ConnectedIsVerified
      <4>3. PICK r \in Requests :
              request[r] = [purpose |-> purpose, on |-> socket, promise |-> "resolved"]
        BY <4>2 DEF ClientIInv, ConnectedIsVerified
      <4>4. QED
        BY <2>5, <4>3
    <3>3. QED
      BY <3>1, <3>2
  <2>8. QED
    BY <1>2, <2>3, <2>4, <2>6, <2>7 DEF ClientIInv
<1>5. QED
  BY <1>3, <1>4

\* A failed answer preserves the invariant.
LEMMA ClientAnswerErrorIInv ==
  ASSUME ClientIInv, NEW q \in Requests, AnswerError(q)
  PROVE  ClientIInv'
<1>1. q \in tracked /\ request[q].on = socket /\ socket \in Sockets /\ socket # NoSocket
  BY NoSocketAssumption DEF AnswerError, ClientIInv, TrackedOnSocket
<1>2. CASE request[q].purpose \in {"version", "header"}
  <2>1. DropSocket({}, "rejected") /\ UNCHANGED opened
    BY <1>2 DEF AnswerError, Fail
  <2>2. QED
    BY <1>1, <2>1, ClientDropSocketIInv
<1>3. CASE request[q].purpose \notin {"version", "header"}
  BY <1>1, <1>3, ClientRejectIInv DEF AnswerError
<1>4. QED
  BY <1>2, <1>3

\* An error event preserves the invariant.
LEMMA ClientOnErrorIInv ==
  ASSUME ClientIInv, NEW s \in Sockets, OnError(s)
  PROVE  ClientIInv'
<1>1. CASE attempt[s] = "pending"
  BY <1>1, ClientFailIInv DEF OnError
<1>2. CASE attempt[s] # "pending"
  <2>1. /\ ready' = [ready EXCEPT ![s] = "closing"]
        /\ announced' = IF s = socket THEN "error" ELSE announced
        /\ UNCHANGED <<socket, attempt, request, tracked, armed, opened>>
    BY <1>2 DEF OnError
  <2>2. ClientTypeOK' /\ NoLeakedSocket' /\ SocketInUse' /\ ConnectedIsVerified'
    BY <2>1 DEF ClientIInv, ClientTypeOK, NoLeakedSocket, SocketInUse, ConnectedIsVerified
  <2>3. /\ NoOrphanTimer'
        /\ TrackedOnCurrentSocket'
        /\ TrackedOnSocket'
        /\ NoForgottenRequest'
        /\ HeaderAfterVersion'
    BY <2>1 DEF ClientIInv, NoOrphanTimer, TrackedOnCurrentSocket, TrackedOnSocket,
                NoForgottenRequest, HeaderAfterVersion
  <2>4. QED
    BY <2>2, <2>3 DEF ClientIInv
<1>3. QED
  BY <1>1, <1>2

\* A close event preserves the invariant.
LEMMA ClientOnCloseIInv ==
  ASSUME ClientIInv, NEW s \in Sockets, OnClose(s)
  PROVE  ClientIInv'
<1>1. ready' = [ready EXCEPT ![s] = "closed"] /\ opened' = opened
  BY DEF OnClose
<1>2. CASE s = socket
  <2>1. /\ Reject(tracked)
        /\ attempt' = [attempt EXCEPT ![s] = IF @ = "pending" THEN "rejected" ELSE @]
        /\ socket' = NoSocket
        /\ announced' = "disconnected"
    BY <1>2 DEF OnClose
  <2>2. ClientTypeOK' /\ NoLeakedSocket' /\ SocketInUse'
    BY <1>1, <1>2, <2>1 DEF ClientIInv, ClientTypeOK, Reject, NoLeakedSocket, SocketInUse
  <2>3. NoOrphanTimer' /\ TrackedOnCurrentSocket' /\ TrackedOnSocket'
        /\ NoForgottenRequest'
    BY <2>1 DEF ClientIInv, ClientTypeOK, Reject, NoOrphanTimer, TrackedOnCurrentSocket,
                TrackedOnSocket, NoForgottenRequest
  <2>4. HeaderAfterVersion' /\ ConnectedIsVerified'
    BY <2>1 DEF ClientIInv, ClientTypeOK, Reject, HeaderAfterVersion, ConnectedIsVerified
  <2>5. QED
    BY <2>2, <2>3, <2>4 DEF ClientIInv
<1>3. CASE s # socket
  <2>1. /\ attempt' = [attempt EXCEPT ![s] =
                         IF @ = "pending" /\ s \notin opened THEN "rejected" ELSE @]
        /\ UNCHANGED <<socket, request, tracked, armed, announced>>
    BY <1>3 DEF OnClose
  <2>2. ClientTypeOK' /\ NoLeakedSocket' /\ SocketInUse' /\ ConnectedIsVerified'
    BY <1>1, <1>3, <2>1
       DEF ClientIInv, ClientTypeOK, NoLeakedSocket, SocketInUse, ConnectedIsVerified
  <2>3. /\ NoOrphanTimer'
        /\ TrackedOnCurrentSocket'
        /\ TrackedOnSocket'
        /\ NoForgottenRequest'
        /\ HeaderAfterVersion'
    BY <2>1 DEF ClientIInv, NoOrphanTimer, TrackedOnCurrentSocket, TrackedOnSocket,
                NoForgottenRequest, HeaderAfterVersion
  <2>4. QED
    BY <2>2, <2>3 DEF ClientIInv
<1>4. QED
  BY <1>2, <1>3

\* A request timeout preserves the invariant.
LEMMA ClientRequestTimeoutIInv ==
  ASSUME ClientIInv, NEW q \in Requests, RequestTimeout(q)
  PROVE  ClientIInv'
<1>1. /\ q \in tracked
      /\ request[q].on = socket
      /\ socket \in Sockets
      /\ socket # NoSocket
      /\ opened' = opened
  BY NoSocketAssumption
     DEF RequestTimeout, ClientIInv, NoOrphanTimer, TrackedOnCurrentSocket,
         TrackedOnSocket
<1>2. CASE request[q].purpose = "call"
  <2>1. DropSocket({q}, HandshakeRejected(socket))
    BY <1>1, <1>2 DEF RequestTimeout
  <2>2. HandshakeRejected(socket) \in PromiseStates
    BY <1>1 DEF ClientIInv, ClientTypeOK, HandshakeRejected
  <2>3. QED
    BY <1>1, <2>1, <2>2, ClientDropSocketIInv
<1>3. CASE request[q].purpose \in {"version", "header"} /\ attempt[socket] = "pending"
  BY <1>1, <1>3, ClientFailIInv DEF RequestTimeout
<1>4. CASE /\ request[q].purpose # "call"
           /\ ~(request[q].purpose \in {"version", "header"} /\ attempt[socket] = "pending")
  <2>1. Reject({q}) /\ UNCHANGED <<socket, ready, attempt, announced>>
    BY <1>1, <1>4 DEF RequestTimeout
  <2>2. QED
    BY <1>1, <2>1, ClientRejectIInv
<1>5. QED
  BY <1>2, <1>3, <1>4

\* Every step preserves the inductive invariant.
LEMMA ClientNextIInv == ClientIInv /\ [ClientNext]_clientVars => ClientIInv'
<1>1. SUFFICES ASSUME ClientIInv, [ClientNext]_clientVars PROVE ClientIInv'
  OBVIOUS
<1>2. ASSUME NEW s \in Sockets, Connect(s) PROVE ClientIInv'
  BY <1>1, <1>2, ClientConnectIInv
<1>3. ASSUME Disconnect PROVE ClientIInv'
  <2>1. HandshakeRejected(socket) \in PromiseStates
    BY <1>1, <1>3 DEF Disconnect, ClientIInv, ClientTypeOK, HandshakeRejected
  <2>2. QED
    BY <1>1, <1>3, <2>1, ClientDropSocketIInv DEF Disconnect
<1>4. ASSUME NEW q \in Requests, SendRequest(q) PROVE ClientIInv'
  <2>1. PICK purpose \in {"call", "broadcast"} : Send({q}, purpose)
    BY <1>4 DEF SendRequest
  <2>2. QED
    BY <1>1, <2>1, ClientTrackIInv DEF Send
<1>5. ASSUME NEW Q \in SUBSET Requests, SendBatchRequest(Q) PROVE ClientIInv'
  BY <1>1, <1>5, ClientTrackIInv DEF SendBatchRequest, Send
<1>6. ASSUME NEW s \in Sockets, NEW q \in Requests, OnOpen(s, q) PROVE ClientIInv'
  BY <1>1, <1>6, ClientOnOpenIInv
<1>7. ASSUME NEW q \in Requests, NEW h \in Requests, AnswerOk(q, h) PROVE ClientIInv'
  BY <1>1, <1>7, ClientAnswerOkIInv
<1>8. ASSUME NEW q \in Requests, AnswerError(q) PROVE ClientIInv'
  BY <1>1, <1>8, ClientAnswerErrorIInv
<1>9. ASSUME NEW s \in Sockets, OnError(s) PROVE ClientIInv'
  BY <1>1, <1>9, ClientOnErrorIInv
<1>10. ASSUME NEW s \in Sockets, OnClose(s) PROVE ClientIInv'
  BY <1>1, <1>10, ClientOnCloseIInv
<1>11. ASSUME NEW s \in Sockets, ConnectTimeout(s) PROVE ClientIInv'
  BY <1>1, <1>11, ClientFailIInv DEF ConnectTimeout
<1>12. ASSUME NEW q \in Requests, RequestTimeout(q) PROVE ClientIInv'
  BY <1>1, <1>12, ClientRequestTimeoutIInv
<1>13. CASE UNCHANGED clientVars
  BY <1>1, <1>13
     DEF clientVars, ClientIInv, ClientTypeOK, NoOrphanTimer, TrackedOnCurrentSocket,
         TrackedOnSocket,
         NoForgottenRequest, NoLeakedSocket, SocketInUse, HeaderAfterVersion,
         ConnectedIsVerified
<1>14. QED
  BY <1>1, <1>2, <1>3, <1>4, <1>5, <1>6, <1>7, <1>8, <1>9, <1>10, <1>11, <1>12, <1>13
     DEF ClientNext

\* The inductive invariant holds in every reachable state.
THEOREM ClientInvariant == ClientSpec => []ClientIInv
BY ClientInitIInv, ClientNextIInv, PTL DEF ClientSpec

-----------------------------------------------------------------------------

\* The client's variables always have their types.
THEOREM ClientTyped == ClientSpec => []ClientTypeOK
<1>1. ClientIInv => ClientTypeOK
  BY DEF ClientIInv
<1>2. QED
  BY <1>1, ClientInvariant, PTL

\* Every armed timer belongs to an outstanding request, and every outstanding request
\* has its timer and travels on the connection in use (trackRequest and disconnect).
THEOREM RequestsBelongToTheConnection ==
  ClientSpec =>
    [](NoOrphanTimer /\ TrackedOnCurrentSocket /\ NoForgottenRequest)
<1>1. ClientIInv => NoOrphanTimer /\ TrackedOnCurrentSocket /\ NoForgottenRequest
  BY DEF ClientIInv
<1>2. QED
  BY <1>1, ClientInvariant, PTL

\* The client never leaks a WebSocket: any that is connecting or open is the one in use.
THEOREM NoSocketLeaks == ClientSpec => []NoLeakedSocket
<1>1. ClientIInv => NoLeakedSocket
  BY DEF ClientIInv
<1>2. QED
  BY <1>1, ClientInvariant, PTL

\* The client is announced connected only on a socket whose peer passed the handshake.
THEOREM ConnectedOnlyWhenVerified == ClientSpec => []ConnectedIsVerified
<1>1. ClientIInv => ConnectedIsVerified
  BY DEF ClientIInv
<1>2. QED
  BY <1>1, ClientInvariant, PTL

\* A request timeout tears down only the connection that carried the request.
THEOREM TimeoutsDropTheirOwnConnection ==
  ClientSpec => TimeoutDropsItsOwnConnection
<1>1. ClientIInv /\ [ClientNext]_clientVars =>
        [\A q \in Requests :
           RequestTimeout(q) /\ socket' # socket => request[q].on = socket]_clientVars
  BY DEF ClientIInv, NoOrphanTimer, TrackedOnCurrentSocket, RequestTimeout
<1>2. QED
  BY <1>1, ClientInvariant, PTL DEF ClientSpec, TimeoutDropsItsOwnConnection
=============================================================================
