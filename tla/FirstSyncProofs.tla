--------------------------- MODULE FirstSyncProofs ---------------------------
(***************************************************************************)
(* Proofs about FirstSync, for any accounts, kinds of switches, number of  *)
(* passes and bounds: a mark on an account was earned, and a popup that    *)
(* asks once and then follows the events shows what runs.                  *)
(*                                                                         *)
(* Both are about what two parties make of the same events, and the        *)
(* invariant says how far each is: of a pass, that whatever keeps it from  *)
(* scanning its account has disturbed it by the time it could mark it; of  *)
(* a popup, what it awaits, and that the last message on its way that      *)
(* moves the spinner says what the counters say.                           *)
(***************************************************************************)
EXTENDS FirstSync, FiniteSetTheorems, SequenceTheorems, TLAPS

PassTyped(k) ==
  /\ DOMAIN k = {"pc", "ctx", "read", "on", "stale", "broken", "disturbed"}
  /\ k.pc \in {"idle", "look", "hot", "ensure", "rest", "mark"}
  /\ k.pc # "idle" => k.ctx \in Contexts
  /\ k.pc \in {"ensure", "rest"} => k.on \in Contexts
  /\ k.read \subseteq Contexts

PassesTyped == DOMAIN pass = Passes /\ \A p \in Passes : PassTyped(pass[p])

SwitchTyped ==
  /\ switch.phase \in {"none", "begun", "moved", "cleared"}
  /\ switch.phase # "none" => switch.target \in Contexts /\ switch.for \in Nat
  /\ switch.phase = "moved" => switch.kind = "network"
  /\ DOMAIN switch = {"phase", "kind", "target", "for"}

WorkerTyped ==
  /\ prefs \in Contexts /\ mgr \in Contexts /\ connected \in BOOLEAN
  /\ inflight \in [Contexts -> Nat] /\ marked \subseteq Contexts
  /\ seen \in [earned : SUBSET Contexts, failed : SUBSET Contexts]
  /\ PassesTyped /\ SwitchTyped

AskRecords ==
  [type : {"restore", "status", "switch"}, kind : Kinds \cup {"account"},
   ctx : Contexts \cup {None}, by : Nat]
NewsRecords == [type : {"sync", "status", "prefs"}, ctx : Contexts \cup {None}, on : BOOLEAN]
PopupRecords ==
  [phase : {"closed", "restoring", "switching", "idle", "dead"}, id : Nat, port : BOOLEAN,
   prefs : Contexts \cup {None}, spinner : BOOLEAN, astray : BOOLEAN]

QueuesTyped ==
  /\ asks \in Seq(AskRecords) /\ news \in Seq(NewsRecords) /\ restoring \subseteq Nat
  /\ \A i \in 1..Len(asks) : asks[i].type = "switch" => asks[i].ctx \in Contexts
  /\ \A i \in 1..Len(news) : news[i].type = "prefs" => news[i].ctx \in Contexts
  /\ popup \in PopupRecords /\ moves \in [moves : Nat, opens : Nat]

\* The account manager and the preferences agree but between the two moves of a switch.
InStep ==
  /\ switch.phase = "begun" => prefs = switch.target
  /\ switch.phase # "begun" => mgr = prefs

\* A context's counter counts the passes of it that were indicated and have not ended.
Counts(k, c) == k.pc \in {"hot", "ensure", "rest", "mark"} /\ k.ctx = c
Counted(c) == {p \in Passes : Counts(pass[p], c)}
CountIsExact == \A c \in Contexts : inflight[c] = Cardinality(Counted(c))

\* Once account c is active and the server connected again, whatever keeps a pass of it from
\* scanning it has disturbed the pass.
Returning(c) == c = mgr \/ (switch.phase = "begun" /\ switch.kind = "network" /\ c = switch.target)
PassOK(k) ==
  /\ k.pc = "mark" => k.ctx \in seen.earned /\ k.read \subseteq seen.earned
  /\ k.pc \in {"hot", "ensure", "rest"} /\ connected =>
       /\ k.broken => k.disturbed
       /\ Returning(k.ctx) /\ k.pc \in {"ensure", "rest"} /\ k.on # k.ctx => k.disturbed
       /\ Returning(k.ctx) /\ k.pc = "rest" /\ k.stale => k.disturbed
Earned == marked \subseteq seen.earned /\ \A p \in Passes : PassOK(pass[p])

\* Popups are numbered downwards, and a closed one is sent nothing.
Fresh ==
  /\ \A i \in restoring : i > moves.opens
  /\ \A i \in 1..Len(asks) : asks[i].by > moves.opens
  /\ switch.phase # "none" => switch.for > moves.opens
  /\ IF popup.phase = "closed" THEN popup = Closed /\ news = <<>> ELSE popup.id > moves.opens

\* A popup that follows has at most one request under way that will be answered with the
\* preferences, or it is idle and has the worker's.
Follows == popup.phase # "closed" /\ ~popup.astray
AskedFor(type) == \E i \in 1..Len(asks) : asks[i].type = type
Told == \E i \in 1..Len(news) : news[i].type = "prefs"
Awaits ==
  /\ popup.port /\ popup.phase # "dead"
  /\ \A i \in 1..Len(asks) : asks[i].by = popup.id
  /\ \A i, j \in 1..Len(asks) : asks[i].type # "status" /\ asks[j].type # "status" => i = j
  /\ \A i, j \in 1..Len(news) : news[i].type = "prefs" /\ news[j].type = "prefs" => i = j
  /\ AskedFor("restore") => popup.phase = "restoring" /\ popup.id \notin restoring /\ ~Told
  /\ popup.id \in restoring => popup.phase = "restoring" /\ ~Told
  /\ AskedFor("switch") => popup.phase = "switching" /\ switch.phase = "none" /\ ~Told
  /\ switch.phase # "none" => popup.phase = "switching" /\ ~Told
  /\ Told => popup.phase \in {"restoring", "switching"}
  /\ \A i \in 1..Len(news) : news[i].type = "prefs" => news[i].ctx = prefs
  /\ popup.phase = "idle" => popup.prefs = prefs

\* The last message that moves the spinner, or the spinner itself if none is on its way,
\* says whether a first sync of the account runs.
Spins(m) == m.type = "status" \/ (m.type = "sync" /\ m.ctx = popup.prefs)
Runs == inflight[prefs] > 0
SpinnerFollows ==
  /\ (\A i \in 1..Len(news) : ~Spins(news[i])) => (popup.spinner <=> Runs)
  /\ \A i \in 1..Len(news) :
       Spins(news[i]) /\ (\A j \in (i + 1)..Len(news) : ~Spins(news[j])) => (news[i].on <=> Runs)

PopupOK ==
  Follows => Awaits /\ (popup.phase = "idle" /\ ~AskedFor("status") => SpinnerFollows)

\* The inductive invariant.
IInv == WorkerTyped /\ QueuesTyped /\ InStep /\ CountIsExact /\ Earned /\ Fresh /\ PopupOK

USE SlotsAssumption, ContextsAssumption, BoundsAssumption

-----------------------------------------------------------------------------
(* Passes and their count.                                                 *)

LEMMA NoPassTyped == PassTyped(NoPass) /\ NoPass.pc = "idle"
BY DEF PassTyped, NoPass

\* One pass moves.
LEMMA OnePass ==
  ASSUME PassesTyped, NEW p \in Passes, NEW k, PassTyped(k), pass' = [pass EXCEPT ![p] = k]
  PROVE  /\ PassesTyped'
         /\ pass'[p] = k /\ \A q \in Passes \ {p} : pass'[q] = pass[q]
BY DEF PassesTyped

LEMMA CountedIsFinite ==
  ASSUME NEW c PROVE IsFiniteSet(Counted(c)) /\ Cardinality(Counted(c)) \in 0..Cardinality(Passes)
<1>1. Counted(c) \in SUBSET Passes
  BY DEF Counted
<1>2. QED
  BY <1>1, FS_Subset, FS_CardinalityType

LEMMA CountKept ==
  ASSUME CountIsExact, inflight' = inflight,
         \A p \in Passes, c \in Contexts : Counts(pass'[p], c) <=> Counts(pass[p], c)
  PROVE  CountIsExact'
<1>1. \A c \in Contexts : Counted(c)' = Counted(c)
  BY DEF Counted, Counts
<1>2. QED
  BY <1>1 DEF CountIsExact

\* Pass p is counted for account c from now on.
LEMMA CountUp ==
  ASSUME CountIsExact, WorkerTyped, NEW p \in Passes, NEW k, NEW c \in Contexts,
         pass' = [pass EXCEPT ![p] = k], Counts(k, c), \A d \in Contexts : ~Counts(pass[p], d),
         inflight' = [inflight EXCEPT ![c] = @ + 1]
  PROVE  CountIsExact'
<1> SUFFICES ASSUME NEW d \in Contexts PROVE inflight'[d] = Cardinality(Counted(d)')
  BY DEF CountIsExact
<1>1. inflight[d] = Cardinality(Counted(d)) /\ inflight[d] \in Nat
  BY DEF CountIsExact, WorkerTyped
<1>2. CASE d = c
  <2>1. Counted(d)' = Counted(d) \cup {p} /\ p \notin Counted(d)
    BY <1>2 DEF Counted, Counts, WorkerTyped, PassesTyped
  <2>2. Cardinality(Counted(d) \cup {p}) = Cardinality(Counted(d)) + 1
    BY <2>1, CountedIsFinite, FS_AddElement
  <2>3. inflight'[d] = inflight[d] + 1
    BY <1>2 DEF WorkerTyped
  <2>4. QED
    BY <1>1, <2>1, <2>2, <2>3
<1>3. CASE d # c
  <2>1. Counted(d)' = Counted(d)
    BY <1>3 DEF Counted, Counts, WorkerTyped, PassesTyped
  <2>2. QED
    BY <1>1, <1>3, <2>1 DEF WorkerTyped
<1>4. QED
  BY <1>2, <1>3

\* Pass p is counted for account c no more.
LEMMA CountDown ==
  ASSUME CountIsExact, WorkerTyped, NEW p \in Passes, NEW c \in Contexts, Counts(pass[p], c),
         pass' = [pass EXCEPT ![p] = NoPass], inflight' = [inflight EXCEPT ![c] = @ - 1]
  PROVE  CountIsExact' /\ inflight[c] \in Nat \ {0}
<1>1. \A d \in Contexts : inflight[d] = Cardinality(Counted(d)) /\ inflight[d] \in Nat
  BY DEF CountIsExact, WorkerTyped
<1>2. Cardinality(Counted(c)) # 0
  BY CountedIsFinite, FS_EmptySet DEF Counted
<1>3. ASSUME NEW d \in Contexts PROVE inflight'[d] = Cardinality(Counted(d)')
  <2>1. CASE d = c
    <3>1. Counted(d)' = Counted(d) \ {p} /\ p \in Counted(d)
      BY <2>1 DEF Counted, Counts, WorkerTyped, PassesTyped, NoPass
    <3>2. Cardinality(Counted(d) \ {p}) = Cardinality(Counted(d)) - 1
      BY <3>1, CountedIsFinite, FS_RemoveElement
    <3>3. inflight'[d] = inflight[d] - 1
      BY <2>1 DEF WorkerTyped
    <3>4. QED
      BY <1>1, <3>1, <3>2, <3>3
  <2>2. CASE d # c
    <3>1. Counted(d)' = Counted(d)
      BY <2>2 DEF Counted, Counts, WorkerTyped, PassesTyped, NoPass
    <3>2. QED
      BY <1>1, <2>2, <3>1 DEF WorkerTyped
  <2>3. QED
    BY <2>1, <2>2
<1>4. QED
  BY <1>1, <1>2, <1>3 DEF CountIsExact

-----------------------------------------------------------------------------
(* The steps of a pass.                                                    *)

\* A step changes nothing that the popup and its requests depend on but the counters, and
\* it announces whatever it changes about what they say.
Quiet ==
  /\ UNCHANGED <<prefs, mgr, switch, asks, restoring, popup>>
  /\ moves' \in [moves : Nat, opens : Nat] /\ moves'.opens = moves.opens
Announces ==
  \/ news' = news /\ \A d \in Contexts : inflight'[d] > 0 <=> inflight[d] > 0
  \/ \E c \in Contexts, on \in BOOLEAN :
       /\ news' = Event(news, Sync(c, on))
       /\ inflight'[c] > 0 <=> on
       /\ \A d \in Contexts \ {c} : inflight'[d] > 0 <=> inflight[d] > 0

\* The worker's part of the invariant.
Works == WorkerTyped /\ InStep /\ CountIsExact /\ Earned

\* One pass moves to k, which is all right.
LEMMA OthersStay ==
  ASSUME Works, NEW p \in Passes, NEW k, PassTyped(k), pass' = [pass EXCEPT ![p] = k], PassOK(k)',
         UNCHANGED <<prefs, mgr, switch, connected>>, inflight' \in [Contexts -> Nat],
         seen' \in [earned : SUBSET Contexts, failed : SUBSET Contexts],
         seen.earned \subseteq seen'.earned, marked' \subseteq seen'.earned
  PROVE  WorkerTyped' /\ InStep' /\ Earned'
<1>1. PassesTyped' /\ pass'[p] = k /\ \A q \in Passes \ {p} : pass'[q] = pass[q]
  BY OnePass DEF Works, WorkerTyped
<1>2. WorkerTyped' /\ InStep'
  BY <1>1 DEF Works, WorkerTyped, SwitchTyped, InStep
<1>3. ASSUME NEW q \in Passes PROVE PassOK(pass[q])'
  <2>1. CASE q = p
    BY <1>1, <2>1 DEF PassOK, Returning
  <2>2. CASE q # p
    BY <1>1, <2>2 DEF Works, Earned, PassOK, Returning
  <2>3. QED
    BY <2>1, <2>2
<1>4. QED
  BY <1>2, <1>3 DEF Earned

LEMMA UnwindWorks ==
  ASSUME Works, NEW p \in Passes, Scans(p) \/ pass[p].pc = "mark", Unwind(p),
         UNCHANGED <<prefs, mgr, switch, connected>>,
         seen' \in [earned : SUBSET Contexts, failed : SUBSET Contexts],
         seen.earned \subseteq seen'.earned, marked' \subseteq seen'.earned
  PROVE  Works' /\ Announces
<1> DEFINE c == pass[p].ctx
<1>1. c \in Contexts /\ Counts(pass[p], c)
  BY DEF Works, WorkerTyped, PassesTyped, PassTyped, Counts, Scans
<1>2. /\ pass' = [pass EXCEPT ![p] = NoPass] /\ inflight' = [inflight EXCEPT ![c] = @ - 1]
      /\ news' = IF inflight[c] = 1 THEN Event(news, Sync(c, FALSE)) ELSE news
  BY DEF Unwind
<1> HIDE DEF c
<1>3. CountIsExact' /\ inflight[c] \in Nat \ {0}
  BY <1>1, <1>2, CountDown DEF Works
<1>4. inflight \in [Contexts -> Nat]
  BY DEF Works, WorkerTyped
<1>5. /\ inflight' \in [Contexts -> Nat] /\ inflight'[c] = inflight[c] - 1
      /\ \A d \in Contexts \ {c} : inflight'[d] = inflight[d]
  BY <1>1, <1>2, <1>3, <1>4
<1>6. PassOK(NoPass)'
  BY DEF PassOK, NoPass
<1>7. WorkerTyped' /\ InStep' /\ Earned'
  BY <1>2, <1>5, <1>6, NoPassTyped, OthersStay
<1>8. CASE inflight[c] = 1
  <2>1. news' = Event(news, Sync(c, FALSE)) /\ ~(inflight'[c] > 0)
    BY <1>2, <1>5, <1>8
  <2>2. QED
    BY <1>1, <1>3, <1>5, <1>7, <2>1 DEF Works, Announces
<1>9. CASE inflight[c] # 1
  <2>1. news' = news /\ inflight'[c] > 0 /\ inflight[c] > 0
    BY <1>2, <1>3, <1>5, <1>9
  <2>2. QED
    BY <1>3, <1>5, <1>7, <2>1 DEF Works, Announces
<1>10. QED
  BY <1>8, <1>9

\* A pass's place in the count stays while it is counted and remains so.
LEMMA StepWorks ==
  ASSUME Works, NEW p \in Passes, NEW k, PassTyped(k), pass' = [pass EXCEPT ![p] = k], PassOK(k)',
         \A c \in Contexts : Counts(k, c) <=> Counts(pass[p], c),
         UNCHANGED <<prefs, mgr, switch, connected, inflight, news, marked>>,
         seen' \in [earned : SUBSET Contexts, failed : SUBSET Contexts],
         seen.earned \subseteq seen'.earned
  PROVE  Works' /\ Announces
<1>1. pass'[p] = k /\ \A q \in Passes \ {p} : pass'[q] = pass[q]
  BY OnePass DEF Works, WorkerTyped
<1>2. CountIsExact'
  BY <1>1, CountKept DEF Works
<1>3. marked \subseteq seen'.earned /\ inflight' \in [Contexts -> Nat]
  BY DEF Works, WorkerTyped, Earned
<1>4. QED
  BY <1>2, <1>3, OthersStay DEF Works, Announces

\* A pass of the active account that is marked has earned it.
LEMMA ConcludeWorks ==
  ASSUME Works, NEW p \in Passes, Scans(p), Conclude(p),
         UNCHANGED <<prefs, mgr, switch, connected, marked>>,
         seen' \in [earned : SUBSET Contexts, failed : SUBSET Contexts],
         seen.earned \subseteq seen'.earned, pass[p].ctx = mgr /\ connected => mgr \in seen'.earned
  PROVE  Works' /\ Announces
<1>1. marked \subseteq seen'.earned /\ mgr \in Contexts /\ marked \subseteq Contexts
  BY DEF Works, WorkerTyped, Earned
<1>2. CASE pass[p].ctx = mgr /\ connected
  <2>1. PICK k : k = [NoPass EXCEPT !.pc = "mark", !.ctx = mgr, !.read = marked]
    OBVIOUS
  <2>2. PassTyped(k) /\ k.pc = "mark" /\ k.ctx = mgr /\ k.read = marked
    BY <1>1, <2>1 DEF PassTyped, NoPass
  <2>3. pass' = [pass EXCEPT ![p] = k] /\ UNCHANGED <<inflight, news>>
    BY <1>2, <2>1 DEF Conclude
  <2>4. PassOK(k)'
    BY <1>1, <1>2, <2>2 DEF PassOK
  <2>5. \A c \in Contexts : Counts(k, c) <=> Counts(pass[p], c)
    BY <1>2, <2>2 DEF Counts, Scans
  <2>6. QED
    BY <2>2, <2>3, <2>4, <2>5, StepWorks
<1>3. CASE ~(pass[p].ctx = mgr /\ connected)
  BY <1>1, <1>3, UnwindWorks DEF Conclude
<1>4. QED
  BY <1>2, <1>3
\* What a pass that is disturbed or ends in the middle of a switch may have marked.
LEMMA DisturbedSeen ==
  ASSUME Works, NEW p \in Passes, pass[p].pc # "idle", seen' = Disturbed(p)
  PROVE  /\ seen' \in [earned : SUBSET Contexts, failed : SUBSET Contexts]
         /\ seen.earned \subseteq seen'.earned
         /\ pass[p].disturbed \/ Context = None => pass[p].ctx \in seen'.earned
BY DEF Works, WorkerTyped, PassesTyped, PassTyped, Disturbed

LEMMA LookWorks ==
  ASSUME Works, NEW p \in Passes, Look(p)
  PROVE  Works' /\ Announces
<1> DEFINE c == pass[p].ctx
<1>1. c \in Contexts /\ pass[p].pc = "look"
  BY DEF Works, WorkerTyped, PassesTyped, PassTyped, Look
<1>2. \A d \in Contexts : ~Counts(pass[p], d)
  BY <1>1 DEF Counts
<1>3. CASE c \in pass[p].read
  <2>1. pass' = [pass EXCEPT ![p] = NoPass] /\ UNCHANGED <<inflight, news>>
    BY <1>3 DEF Look
  <2>2. \A d \in Contexts : Counts(NoPass, d) <=> Counts(pass[p], d)
    BY <1>2 DEF Counts, NoPass
  <2>3. PassOK(NoPass)'
    BY DEF PassOK, NoPass
  <2>4. QED
    BY <2>1, <2>2, <2>3, NoPassTyped, StepWorks DEF Look, Works, WorkerTyped
<1>4. CASE c \notin pass[p].read
  <2>1. PICK k : k = [NoPass EXCEPT !.pc = "hot", !.ctx = c]
    OBVIOUS
  <2>2. /\ pass' = [pass EXCEPT ![p] = k] /\ inflight' = [inflight EXCEPT ![c] = @ + 1]
        /\ news' = IF inflight[c] = 0 THEN Event(news, Sync(c, TRUE)) ELSE news
        /\ UNCHANGED <<prefs, mgr, switch, connected, marked, seen>>
    BY <1>4, <2>1 DEF Look
  <2>3. PassTyped(k) /\ Counts(k, c) /\ k.pc = "hot" /\ k.broken = FALSE
    BY <1>1, <2>1 DEF PassTyped, Counts, NoPass
  <2>4. PassOK(k)'
    BY <2>3 DEF PassOK
  <2> HIDE DEF c
  <2>5. CountIsExact'
    BY <1>1, <1>2, <2>2, <2>3, CountUp DEF Works
  <2>6. /\ inflight \in [Contexts -> Nat] /\ inflight' \in [Contexts -> Nat] /\ inflight'[c] = inflight[c] + 1
        /\ \A d \in Contexts \ {c} : inflight'[d] = inflight[d]
    BY <1>1, <2>2 DEF Works, WorkerTyped
  <2>7. WorkerTyped' /\ InStep' /\ Earned'
    BY <2>2, <2>3, <2>4, <2>6, OthersStay DEF Works, WorkerTyped, Earned
  <2>8. inflight'[c] > 0 /\ (inflight[c] # 0 => inflight[c] > 0)
    BY <1>1, <2>6
  <2>9. Announces
    BY <1>1, <2>2, <2>6, <2>8 DEF Announces
  <2>10. QED
    BY <2>5, <2>7, <2>9 DEF Works
<1>5. QED
  BY <1>3, <1>4

LEMMA HotEndsWorks ==
  ASSUME Works, NEW p \in Passes, HotEnds(p)
  PROVE  Works' /\ Announces
<1>1. pass[p].pc = "hot" /\ PassTyped(pass[p]) /\ UNCHANGED <<prefs, mgr, switch, connected, marked>>
  BY DEF Works, WorkerTyped, PassesTyped, HotEnds
<1>2. CASE Context = None
  <2>1. seen' = Disturbed(p) /\ Conclude(p) /\ Scans(p)
    BY <1>1, <1>2 DEF HotEnds, Scans
  <2>2. QED
    BY <1>1, <1>2, <2>1, DisturbedSeen, ConcludeWorks
<1>3. CASE Context # None
  <2>1. Context = mgr /\ mgr = prefs /\ mgr \in Contexts
    BY <1>3 DEF Context, Works, WorkerTyped
  <2>2. PICK k : k = [pass[p] EXCEPT !.pc = "ensure", !.on = mgr]
    OBVIOUS
  <2>3. pass' = [pass EXCEPT ![p] = k] /\ UNCHANGED <<inflight, news, seen>>
    BY <1>3, <2>1, <2>2 DEF HotEnds
  <2>4. /\ PassTyped(k) /\ k.pc = "ensure" /\ k.ctx = pass[p].ctx /\ k.broken = pass[p].broken
        /\ k.disturbed = pass[p].disturbed /\ k.on = mgr
    BY <1>1, <2>1, <2>2 DEF PassTyped
  <2>5. PassOK(k)'
    <3>1. connected => (pass[p].broken => pass[p].disturbed)
      BY <1>1 DEF PassOK, Works, Earned
    <3>2. Returning(k.ctx)' => k.on = k.ctx
      BY <1>1, <2>1, <2>4 DEF Returning, Works, InStep
    <3>3. QED
      BY <1>1, <2>4, <3>1, <3>2 DEF PassOK
  <2>6. \A c \in Contexts : Counts(k, c) <=> Counts(pass[p], c)
    BY <1>1, <2>4 DEF Counts
  <2>7. QED
    BY <1>1, <2>3, <2>4, <2>5, <2>6, StepWorks DEF Works, WorkerTyped
<1>4. QED
  BY <1>2, <1>3
LEMMA EnsuredWorks ==
  ASSUME Works, NEW p \in Passes, Ensured(p)
  PROVE  Works' /\ Announces
<1>1. /\ pass[p].pc = "ensure" /\ PassTyped(pass[p]) /\ UNCHANGED <<prefs, mgr, switch, connected, marked>>
      /\ connected \in BOOLEAN /\ PassOK(pass[p])
  BY DEF Works, WorkerTyped, PassesTyped, Ensured, Earned
<1>2. CASE Context = pass[p].on
  <2>1. PICK k : k = [pass[p] EXCEPT !.pc = "rest", !.broken = ~connected, !.stale = FALSE]
    OBVIOUS
  <2>2. pass' = [pass EXCEPT ![p] = k] /\ UNCHANGED <<inflight, news, seen>>
    BY <1>2, <2>1 DEF Ensured
  <2>3. /\ PassTyped(k) /\ k.pc = "rest" /\ k.ctx = pass[p].ctx /\ k.on = pass[p].on
        /\ k.read = pass[p].read
    BY <1>1, <2>1 DEF PassTyped
  <2>4. /\ k.broken <=> ~connected
        /\ ~k.stale
        /\ k.disturbed <=> pass[p].disturbed
    BY <1>1, <2>1, Zenon DEF PassTyped
  <2>5. PassOK(k)'
    <3>1. Returning(k.ctx)' <=> Returning(pass[p].ctx)
      BY <1>1, <2>3 DEF Returning
    <3>2. connected /\ Returning(k.ctx)' /\ k.on # k.ctx => pass[p].disturbed
      BY <1>1, <2>3, <3>1 DEF PassOK
    <3>3. QED
      BY <1>1, <2>3, <2>4, <3>2 DEF PassOK
  <2>6. \A c \in Contexts : Counts(k, c) <=> Counts(pass[p], c)
    BY <1>1, <2>3 DEF Counts
  <2>7. QED
    BY <1>1, <2>2, <2>3, <2>5, <2>6, StepWorks DEF Works, WorkerTyped
<1>3. CASE Context # pass[p].on
  <2>1. seen' = Disturbed(p) /\ Conclude(p) /\ Scans(p)
    BY <1>1, <1>3 DEF Ensured, Scans
  <2>2. pass[p].ctx = mgr /\ connected => pass[p].disturbed \/ Context = None
    BY <1>1, <1>3 DEF PassOK, Returning, Context
  <2>3. QED
    BY <1>1, <2>1, <2>2, DisturbedSeen, ConcludeWorks
<1>4. QED
  BY <1>2, <1>3

LEMMA RestEndsWorks ==
  ASSUME Works, NEW p \in Passes, RestEnds(p)
  PROVE  Works' /\ Announces
<1>1. /\ pass[p].pc = "rest" /\ PassTyped(pass[p]) /\ UNCHANGED <<prefs, mgr, switch, connected, marked>>
      /\ Conclude(p) /\ Scans(p) /\ PassOK(pass[p])
  BY DEF Works, WorkerTyped, PassesTyped, RestEnds, Scans, Earned
<1>2. CASE ~pass[p].stale /\ Context = pass[p].on /\ ~pass[p].broken
  <2>1. seen' = [seen EXCEPT !.earned = @ \cup {pass[p].on}]
    BY <1>2 DEF RestEnds
  <2>2. /\ seen' \in [earned : SUBSET Contexts, failed : SUBSET Contexts]
        /\ seen.earned \subseteq seen'.earned /\ pass[p].on \in seen'.earned
    BY <1>1, <2>1 DEF Works, WorkerTyped, PassTyped
  <2>3. pass[p].on = mgr
    BY <1>1, <1>2 DEF Context, PassTyped
  <2>4. QED
    BY <1>1, <2>2, <2>3, ConcludeWorks
<1>3. CASE ~(~pass[p].stale /\ Context = pass[p].on /\ ~pass[p].broken)
  <2>1. seen' = Disturbed(p)
    BY <1>3 DEF RestEnds
  <2>2. pass[p].ctx = mgr /\ connected => pass[p].disturbed \/ Context = None
    BY <1>1, <1>3 DEF PassOK, Returning, Context
  <2>3. QED
    BY <1>1, <2>1, <2>2, DisturbedSeen, ConcludeWorks
<1>4. QED
  BY <1>2, <1>3

\* A pass marks what it has read when it concluded, which was earned, and its account.
LEMMA MarkWorks ==
  ASSUME Works, NEW p \in Passes, Mark(p)
  PROVE  Works' /\ Announces
<1>1. pass[p].pc = "mark" /\ PassTyped(pass[p]) /\ PassOK(pass[p]) /\ marked \subseteq seen.earned
  BY DEF Works, WorkerTyped, PassesTyped, Mark, Earned
<1>2. marked' = IF pass[p].ctx \in pass[p].read THEN marked ELSE pass[p].read \cup {pass[p].ctx}
  BY DEF Mark
<1>3. seen' = [seen EXCEPT !.failed = @ \cup (marked \ marked')]
  BY DEF Mark
<1>4. marked' \subseteq seen.earned /\ marked \subseteq Contexts
  BY <1>1, <1>2 DEF PassOK, Works, WorkerTyped
<1>5. seen' \in [earned : SUBSET Contexts, failed : SUBSET Contexts] /\ seen'.earned = seen.earned
  BY <1>3, <1>4 DEF Works, WorkerTyped
<1>6. Unwind(p) /\ UNCHANGED <<prefs, mgr, switch, connected>>
  BY DEF Mark
<1>7. QED
  BY <1>1, <1>4, <1>5, <1>6, UnwindWorks

LEMMA PassFailsWorks ==
  ASSUME Works, NEW p \in Passes, PassFails(p)
  PROVE  Works' /\ Announces
<1>1. Scans(p) /\ Unwind(p) /\ UNCHANGED <<prefs, mgr, switch, connected, marked>>
  BY DEF PassFails, Scans
<1>2. seen' = seen \/ seen' = [seen EXCEPT !.failed = @ \cup {pass[p].ctx}]
  BY DEF PassFails
<1>3. pass[p].ctx \in Contexts
  BY <1>1 DEF Works, WorkerTyped, PassesTyped, PassTyped, Scans
<1>4. seen' \in [earned : SUBSET Contexts, failed : SUBSET Contexts] /\ seen'.earned = seen.earned
  BY <1>2, <1>3 DEF Works, WorkerTyped
<1>5. QED
  BY <1>1, <1>4, UnwindWorks DEF Works, Earned
-----------------------------------------------------------------------------
(* The worker's other steps.                                               *)

\* There are as many free passes as the next connection starts.
LEMMA SubsetOfSize ==
  ASSUME NEW S, IsFiniteSet(S), NEW n \in {1, 2}, Cardinality(S) >= n
  PROVE  \E T \in SUBSET S : Cardinality(T) = n
<1>1. PICK x : x \in S
  BY FS_EmptySet, FS_CardinalityType
<1>2. IsFiniteSet({x}) /\ Cardinality({x}) = 1
  BY FS_Singleton
<1>3. CASE n = 2
  <2>1. Cardinality(S \ {x}) = Cardinality(S) - 1 /\ IsFiniteSet(S \ {x})
    BY <1>1, FS_RemoveElement
  <2>2. PICK y : y \in S \ {x}
    BY <1>3, <2>1, FS_EmptySet, FS_CardinalityType
  <2>3. PICK X : X = {x}
    OBVIOUS
  <2>4. IsFiniteSet(X) /\ Cardinality(X) = 1 /\ y \notin X
    BY <1>2, <2>2, <2>3
  <2>5. Cardinality(X \cup {y}) = Cardinality(X) + 1
    BY <2>4, FS_AddElement
  <2>6. Cardinality(X \cup {y}) = 2
    BY <2>4, <2>5
  <2>7. QED
    BY <1>1, <1>3, <2>2, <2>3, <2>6
<1>4. QED
  BY <1>1, <1>2, <1>3

\* The counters stay, and so does what is counted.
LEMMA PassesWork ==
  ASSUME Works, DOMAIN pass' = Passes,
         \A p \in Passes : /\ PassTyped(pass'[p]) /\ PassOK(pass[p])'
                           /\ \A c \in Contexts : Counts(pass'[p], c) <=> Counts(pass[p], c),
         UNCHANGED <<inflight, marked, seen>>, prefs' \in Contexts, mgr' \in Contexts,
         connected' \in BOOLEAN, SwitchTyped', InStep'
  PROVE  Works'
<1>1. WorkerTyped' /\ Earned'
  BY DEF Works, WorkerTyped, PassesTyped, Earned
<1>2. CountIsExact'
  BY CountKept DEF Works
<1>3. QED
  BY <1>1, <1>2 DEF Works

LEMMA ConnectWorks ==
  ASSUME Works, Connect
  PROVE  Works' /\ Announces
<1> DEFINE n == IF starting THEN 2 ELSE 1
           S == CHOOSE T \in SUBSET Free : Cardinality(T) = n
<1>1. /\ ~connected /\ connected' = TRUE
      /\ Cardinality(Free) >= n
      /\ pass' = [p \in Passes |->
           IF p \in S THEN [NoPass EXCEPT !.pc = "look", !.ctx = mgr, !.read = marked]
                     ELSE [pass[p] EXCEPT !.disturbed = Scans(p)]]
      /\ UNCHANGED <<prefs, mgr, switch, inflight, marked, seen, news>>
  BY Zenon DEF Connect
<1>2. S \subseteq Free
  <2>1. Free \in SUBSET Passes
    BY DEF Free
  <2>2. IsFiniteSet(Free) /\ n \in {1, 2}
    BY <2>1, FS_Subset
  <2> HIDE DEF n
  <2>3. \E T \in SUBSET Free : Cardinality(T) = n
    BY <1>1, <2>2, SubsetOfSize
  <2>4. QED
    BY <2>3
<1> HIDE DEF n, S
<1>3. ASSUME NEW p \in Passes
      PROVE  /\ PassTyped(pass'[p]) /\ PassOK(pass[p])'
             /\ \A c \in Contexts : Counts(pass'[p], c) <=> Counts(pass[p], c)
  <2>1. PassTyped(pass[p]) /\ PassOK(pass[p]) /\ mgr \in Contexts /\ marked \subseteq Contexts
    BY DEF Works, WorkerTyped, PassesTyped, Earned
  <2>2. CASE p \in S
    <3>1. PICK k : k = [NoPass EXCEPT !.pc = "look", !.ctx = mgr, !.read = marked]
      OBVIOUS
    <3>2. pass'[p] = k /\ pass[p].pc = "idle"
      BY <1>1, <1>2, <2>2, <3>1 DEF Free
    <3>3. PassTyped(k) /\ k.pc = "look"
      BY <2>1, <3>1 DEF PassTyped, NoPass
    <3>4. QED
      BY <3>2, <3>3 DEF PassOK, Counts
  <2>3. CASE p \notin S
    <3>1. PICK k : k = [pass[p] EXCEPT !.disturbed = Scans(p)]
      OBVIOUS
    <3>2. pass'[p] = k
      BY <1>1, <2>3, <3>1
    <3>3. /\ PassTyped(k) /\ k.pc = pass[p].pc /\ k.ctx = pass[p].ctx /\ k.read = pass[p].read
      BY <2>1, <3>1 DEF PassTyped
    <3>4. k.disturbed <=> Scans(p)
      BY <2>1, <3>1, Zenon DEF PassTyped
    <3>5. PassOK(pass[p])'
      BY <1>1, <2>1, <3>2, <3>3, <3>4 DEF PassOK, Scans
    <3>6. QED
      BY <3>2, <3>3, <3>5 DEF Counts
  <2>4. QED
    BY <2>2, <2>3
<1>4. Works'
  BY <1>1, <1>3, PassesWork DEF Works, WorkerTyped, SwitchTyped, InStep
<1>5. QED
  BY <1>1, <1>4 DEF Announces

\* The connection goes, and its requests with it.
LEMMA BrokenWorks ==
  ASSUME Works, pass' = Broken, connected' = FALSE, UNCHANGED <<inflight, marked, seen>>,
         prefs' \in Contexts, mgr' \in Contexts, SwitchTyped', InStep'
  PROVE  Works'
<1>1. ASSUME NEW p \in Passes
      PROVE  /\ PassTyped(pass'[p]) /\ PassOK(pass[p])'
             /\ \A c \in Contexts : Counts(pass'[p], c) <=> Counts(pass[p], c)
  <2>1. PassTyped(pass[p]) /\ PassOK(pass[p])
    BY DEF Works, WorkerTyped, PassesTyped, Earned
  <2>2. /\ PassTyped(pass'[p]) /\ pass'[p].pc = pass[p].pc /\ pass'[p].ctx = pass[p].ctx
        /\ pass'[p].read = pass[p].read
    BY <2>1 DEF Broken, PassTyped
  <2>3. QED
    BY <2>1, <2>2 DEF PassOK, Counts
<1>2. DOMAIN pass' = Passes
  BY DEF Broken
<1>3. QED
  BY <1>1, <1>2, PassesWork

LEMMA DropWorks ==
  ASSUME Works, Drop
  PROVE  Works' /\ Announces
BY BrokenWorks DEF Drop, Works, WorkerTyped, SwitchTyped, InStep, Announces

\* clear() and the account manager's move to c: a pass of c is disturbed.
LEMMA ClearedWorks ==
  ASSUME Works, NEW c \in Contexts, pass' = Cleared(c), mgr' = c, UNCHANGED <<inflight, marked, seen, connected>>,
         prefs' \in Contexts, SwitchTyped', InStep', switch'.phase # "begun"
  PROVE  Works'
<1>1. ASSUME NEW p \in Passes
      PROVE  /\ PassTyped(pass'[p]) /\ PassOK(pass[p])'
             /\ \A d \in Contexts : Counts(pass'[p], d) <=> Counts(pass[p], d)
  <2>1. PassTyped(pass[p]) /\ PassOK(pass[p])
    BY DEF Works, WorkerTyped, PassesTyped, Earned
  <2>2. PICK k : k = [pass[p] EXCEPT !.stale = pass[p].pc = "rest",
                                    !.disturbed = @ \/ (Scans(p) /\ pass[p].ctx = c)]
    OBVIOUS
  <2>3. pass'[p] = k
    BY <2>2 DEF Cleared
  <2>4. /\ PassTyped(k) /\ k.pc = pass[p].pc /\ k.ctx = pass[p].ctx /\ k.read = pass[p].read
        /\ k.broken = pass[p].broken
    BY <2>1, <2>2 DEF PassTyped
  <2>5. k.disturbed <=> (pass[p].disturbed \/ (Scans(p) /\ pass[p].ctx = c))
    BY <2>1, <2>2, Zenon DEF PassTyped
  <2>6. PassOK(pass[p])'
    BY <2>1, <2>3, <2>4, <2>5 DEF PassOK, Returning, Scans
  <2>7. QED
    BY <2>3, <2>4, <2>6 DEF Counts
<1>2. DOMAIN pass' = Passes
  BY DEF Cleared
<1>3. QED
  BY <1>1, <1>2, PassesWork DEF Works, WorkerTyped
\* The handlers' scans of all start in a free pass, if the connection is there.
LEMMA StartedWorks ==
  ASSUME Works, Started(AllScans), UNCHANGED <<prefs, mgr, connected, inflight, marked, seen>>,
         SwitchTyped', InStep', \A c : Returning(c)' => Returning(c)
  PROVE  Works'
<1>1. Slot \in Free /\ Free \subseteq Passes /\ pass' = [pass EXCEPT ![Slot] = AllScans]
  BY DEF Started, Slot, Free
<1>2. PICK p : p = Slot
  OBVIOUS
<1>3. PICK k : k = AllScans
  OBVIOUS
<1>4. /\ p \in Passes /\ pass[p].pc = "idle" /\ pass' = [pass EXCEPT ![p] = k]
  BY <1>1, <1>2, <1>3 DEF Free
<1>5. PassTyped(k) /\ k.pc \in {"idle", "look"}
  BY <1>3 DEF PassTyped, AllScans, NoPass, Works, WorkerTyped
<1>6. PassesTyped' /\ pass'[p] = k /\ \A q \in Passes \ {p} : pass'[q] = pass[q]
  BY <1>4, <1>5, OnePass DEF Works, WorkerTyped
<1>7. ASSUME NEW q \in Passes
      PROVE  /\ PassTyped(pass'[q]) /\ PassOK(pass[q])'
             /\ \A c \in Contexts : Counts(pass'[q], c) <=> Counts(pass[q], c)
  <2>1. PassTyped(pass[q]) /\ PassOK(pass[q])
    BY DEF Works, WorkerTyped, PassesTyped, Earned
  <2>2. CASE q = p
    BY <1>4, <1>5, <1>6, <2>1, <2>2 DEF PassOK, Counts
  <2>3. CASE q # p
    BY <1>6, <2>1, <2>3 DEF PassOK, Counts
  <2>4. QED
    BY <2>2, <2>3
<1>8. QED
  BY <1>6, <1>7, PassesWork DEF Works, WorkerTyped, PassesTyped

\* The worker starts.
Starts ==
  /\ pass = [p \in Passes |-> NoPass] /\ inflight = [c \in Contexts |-> 0]
  /\ prefs \in Contexts /\ mgr = prefs /\ switch = NoSwitch /\ connected = FALSE
  /\ seen \in [earned : SUBSET Contexts, failed : SUBSET Contexts] /\ marked \subseteq seen.earned

LEMMA StartWorks == Starts => Works
<1> SUFFICES ASSUME Starts PROVE Works
  OBVIOUS
<1>1. \A p \in Passes : pass[p] = NoPass
  BY DEF Starts
<1>2. WorkerTyped
  BY <1>1, NoPassTyped DEF Starts, WorkerTyped, PassesTyped, SwitchTyped, NoSwitch
<1>3. InStep /\ Earned
  BY <1>1 DEF Starts, InStep, NoSwitch, Earned, PassOK, NoPass
<1>4. \A c \in Contexts : Counted(c) = {}
  BY <1>1 DEF Counted, Counts, NoPass
<1>5. CountIsExact
  BY <1>4, FS_EmptySet DEF Starts, CountIsExact
<1>6. QED
  BY <1>2, <1>3, <1>5 DEF Works

LEMMA DieWorks == Works /\ Die => Works'
<1>1. Works /\ Die => Starts'
  BY DEF Die, Starts, Works, WorkerTyped, Earned
<1>2. QED
  BY <1>1, StartWorks, PTL

LEMMA SwitchesWork ==
  ASSUME Works, QueuesTyped, BeginSwitch \/ MoveAccount \/ ClearScans \/ FinishSwitch
  PROVE  Works'
<1>1. CASE BeginSwitch
  <2>1. PICK ask : ask = Head(asks)
    OBVIOUS
  <2>2. /\ ask \in AskRecords /\ ask.ctx \in Contexts /\ ask.type = "switch"
    BY <1>1, <2>1, HeadTailProperties DEF BeginSwitch, QueuesTyped
  <2>3. /\ prefs' = ask.ctx /\ UNCHANGED <<mgr, inflight, marked, seen>>
        /\ switch' = [phase |-> "begun", kind |-> ask.kind, target |-> ask.ctx, for |-> ask.by]
        /\ IF ask.kind = "account" THEN UNCHANGED <<connected, pass>> ELSE connected' = FALSE /\ pass' = Broken
    BY <1>1, <2>1 DEF BeginSwitch
  <2>4. SwitchTyped' /\ InStep'
    BY <2>2, <2>3 DEF SwitchTyped, InStep, AskRecords
  <2>5. CASE ask.kind = "account"
    <3>1. \A c : Returning(c)' => Returning(c)
      BY <2>3, <2>5 DEF Returning
    <3>2. \A p \in Passes : PassTyped(pass'[p]) /\ PassOK(pass[p])'
      BY <2>3, <2>5, <3>1 DEF Works, WorkerTyped, PassesTyped, Earned, PassOK
    <3>3. QED
      BY <2>2, <2>3, <2>4, <2>5, <3>2, PassesWork DEF Works, WorkerTyped, PassesTyped
  <2>6. CASE ask.kind # "account"
    BY <2>2, <2>3, <2>4, <2>6, BrokenWorks DEF Works, WorkerTyped
  <2>7. QED
    BY <2>5, <2>6
<1>2. CASE MoveAccount
  <2>1. /\ switch.phase = "begun" /\ mgr' = switch.target /\ switch.target \in Contexts
        /\ UNCHANGED <<prefs, connected, inflight, marked, seen>>
    BY <1>2 DEF MoveAccount, Works, WorkerTyped, SwitchTyped
  <2>2. CASE switch.kind = "network"
    <3>1. switch' = [switch EXCEPT !.phase = "moved"] /\ UNCHANGED pass
      BY <1>2, <2>2 DEF MoveAccount
    <3>2. /\ switch'.phase = "moved" /\ switch'.kind = "network" /\ switch'.target = switch.target
          /\ switch'.for = switch.for /\ DOMAIN switch' = DOMAIN switch
      BY <2>2, <3>1 DEF Works, WorkerTyped, SwitchTyped
    <3>3. SwitchTyped' /\ InStep'
      BY <2>1, <3>2 DEF Works, WorkerTyped, SwitchTyped, InStep
    <3>4. \A c : Returning(c)' => Returning(c)
      BY <2>1, <2>2, <3>2 DEF Returning
    <3>5. \A p \in Passes : PassTyped(pass'[p]) /\ PassOK(pass[p])'
      BY <2>1, <3>1, <3>4 DEF Works, WorkerTyped, PassesTyped, Earned, PassOK
    <3>6. QED
      BY <2>1, <3>1, <3>3, <3>5, PassesWork DEF Works, WorkerTyped, PassesTyped
  <2>3. CASE switch.kind # "network"
    <3>1. switch' = [switch EXCEPT !.phase = "cleared"] /\ pass' = Cleared(switch.target)
      BY <1>2, <2>3 DEF MoveAccount
    <3>2. /\ switch'.phase = "cleared" /\ switch'.target = switch.target
          /\ switch'.for = switch.for /\ DOMAIN switch' = DOMAIN switch
      BY <3>1 DEF Works, WorkerTyped, SwitchTyped
    <3>3. SwitchTyped' /\ InStep' /\ switch'.phase # "begun"
      BY <2>1, <3>2 DEF Works, WorkerTyped, SwitchTyped, InStep
    <3>4. PICK c : c = switch.target
      OBVIOUS
    <3>5. c \in Contexts /\ pass' = Cleared(c) /\ mgr' = c
      BY <2>1, <3>1, <3>4
    <3>6. QED
      BY <2>1, <3>3, <3>5, ClearedWorks DEF Works, WorkerTyped
  <2>4. QED
    BY <2>2, <2>3
<1>3. CASE ClearScans
  <2>1. /\ switch' = [switch EXCEPT !.phase = "cleared"] /\ pass' = Cleared(mgr) /\ switch.phase = "moved"
        /\ UNCHANGED <<prefs, mgr, connected, inflight, marked, seen>>
    BY <1>3 DEF ClearScans
  <2>2. /\ switch'.phase = "cleared" /\ switch'.target = switch.target
        /\ switch'.for = switch.for /\ DOMAIN switch' = DOMAIN switch
    BY <2>1 DEF Works, WorkerTyped, SwitchTyped
  <2>3. SwitchTyped' /\ InStep' /\ switch'.phase # "begun"
    BY <2>1, <2>2 DEF Works, WorkerTyped, SwitchTyped, InStep
  <2>4. PICK c : c = mgr
    OBVIOUS
  <2>5. c \in Contexts /\ pass' = Cleared(c) /\ mgr' = c
    BY <2>1, <2>4 DEF Works, WorkerTyped
  <2>6. QED
    BY <2>1, <2>3, <2>5, ClearedWorks DEF Works, WorkerTyped
<1>4. CASE FinishSwitch
  <2>1. SwitchTyped' /\ InStep' /\ \A c : Returning(c)' => Returning(c)
    BY <1>4 DEF FinishSwitch, Works, WorkerTyped, SwitchTyped, InStep, NoSwitch, Returning
  <2>2. QED
    BY <1>4, <2>1, StartedWorks DEF FinishSwitch
<1>5. QED
  BY <1>1, <1>2, <1>3, <1>4

LEMMA RestoredWorks ==
  ASSUME Works, NEW id \in restoring, FinishRestore(id)
  PROVE  Works'
<1>1. SwitchTyped' /\ InStep' /\ \A c : Returning(c)' => Returning(c)
  BY DEF FinishRestore, Works, WorkerTyped, SwitchTyped, InStep, Returning
<1>2. QED
  BY <1>1, StartedWorks DEF FinishRestore
-----------------------------------------------------------------------------
(* What is on its way to the popup.                                        *)

LEMMA SentNews ==
  ASSUME QueuesTyped, NEW m \in NewsRecords, m.type = "prefs" => m.ctx \in Contexts
  PROVE  /\ Append(news, m) \in Seq(NewsRecords) /\ Len(Append(news, m)) = Len(news) + 1
         /\ Len(news) \in Nat
         /\ \A i \in 1..(Len(news) + 1) :
              Append(news, m)[i] = IF i = Len(news) + 1 THEN m ELSE news[i]
         /\ \A i \in 1..(Len(news) + 1) : Append(news, m)[i].type = "prefs" => Append(news, m)[i].ctx \in Contexts
<1>1. news \in Seq(NewsRecords) /\ \A i \in 1..Len(news) : news[i].type = "prefs" => news[i].ctx \in Contexts
  BY DEF QueuesTyped
<1>2. /\ Append(news, m) \in Seq(NewsRecords) /\ Len(Append(news, m)) = Len(news) + 1
      /\ Len(news) \in Nat
      /\ \A i \in 1..(Len(news) + 1) :
           Append(news, m)[i] = IF i = Len(news) + 1 THEN m ELSE news[i]
  BY <1>1
<1>3. ASSUME NEW i \in 1..(Len(news) + 1), Append(news, m)[i].type = "prefs"
      PROVE  Append(news, m)[i].ctx \in Contexts
  <2>1. CASE i = Len(news) + 1
    BY <1>2, <1>3, <2>1
  <2>2. CASE i # Len(news) + 1
    <3>1. i \in 1..Len(news)
      BY <1>2, <2>2
    <3>2. QED
      BY <1>1, <1>2, <1>3, <2>2, <3>1
  <2>3. QED
    BY <2>1, <2>2
<1>4. QED
  BY <1>2, <1>3

LEMMA SentAsk ==
  ASSUME QueuesTyped, NEW m \in AskRecords, m.type = "switch" => m.ctx \in Contexts
  PROVE  /\ Append(asks, m) \in Seq(AskRecords) /\ Len(Append(asks, m)) = Len(asks) + 1
         /\ Len(asks) \in Nat
         /\ \A i \in 1..(Len(asks) + 1) :
              Append(asks, m)[i] = IF i = Len(asks) + 1 THEN m ELSE asks[i]
         /\ \A i \in 1..(Len(asks) + 1) : Append(asks, m)[i].type = "switch" => Append(asks, m)[i].ctx \in Contexts
BY DEF QueuesTyped

LEMMA ReadNews ==
  ASSUME QueuesTyped, news # <<>>
  PROVE  /\ Head(news) \in NewsRecords /\ Head(news) = news[1] /\ Len(news) \in Nat \ {0}
         /\ Tail(news) \in Seq(NewsRecords) /\ Len(Tail(news)) = Len(news) - 1
         /\ \A i \in 1..(Len(news) - 1) : Tail(news)[i] = news[i + 1] /\ i + 1 \in 1..Len(news)
         /\ Head(news).type = "prefs" => Head(news).ctx \in Contexts
BY HeadTailProperties, EmptySeq DEF QueuesTyped

LEMMA ReadAsk ==
  ASSUME QueuesTyped, asks # <<>>
  PROVE  /\ Head(asks) \in AskRecords /\ Head(asks) = asks[1] /\ Len(asks) \in Nat \ {0}
         /\ Tail(asks) \in Seq(AskRecords) /\ Len(Tail(asks)) = Len(asks) - 1
         /\ \A i \in 1..(Len(asks) - 1) : Tail(asks)[i] = asks[i + 1] /\ i + 1 \in 1..Len(asks)
BY HeadTailProperties, EmptySeq DEF QueuesTyped

LEMMA AsksTyped ==
  ASSUME QueuesTyped PROVE \A i \in 1..Len(asks) : asks[i].type \in {"restore", "status", "switch"}
<1>1. \A i \in 1..Len(asks) : asks[i] \in AskRecords
  BY DEF QueuesTyped
<1>2. QED
  BY <1>1 DEF AskRecords

\* A message that moves the spinner says what runs; any other changes nothing about it.
LEMMA SpinnerSent ==
  ASSUME QueuesTyped, NEW m \in NewsRecords, m.type # "prefs", news' = Append(news, m),
         popup'.prefs = popup.prefs, popup'.spinner = popup.spinner,
         IF Spins(m) THEN m.on <=> Runs' ELSE SpinnerFollows /\ (Runs' <=> Runs)
  PROVE  SpinnerFollows'
<1>1. /\ Len(news') = Len(news) + 1 /\ Len(news) \in Nat
      /\ \A i \in 1..(Len(news) + 1) : news'[i] = IF i = Len(news) + 1 THEN m ELSE news[i]
  BY SentNews
<1>2. \A i \in 1..(Len(news) + 1) : Spins(news[i])' <=> IF i = Len(news) + 1 THEN Spins(m) ELSE Spins(news[i])
  BY <1>1 DEF Spins
<1>3. CASE Spins(m)
  <2>0. PICK n : n = Len(news) + 1
    OBVIOUS
  <2>1. n \in 1..Len(news') /\ n = Len(news') /\ Spins(news[n])' /\ news'[n] = m
    BY <1>1, <1>2, <1>3, <2>0
  <2>2. \A i \in 1..Len(news') : (\A j \in (i + 1)..Len(news') : ~Spins(news[j])') => i = n
    <3>1. \A i \in 1..Len(news') : i = n \/ n \in (i + 1)..Len(news')
      BY <1>1, <2>1
    <3>2. QED
      BY <2>1, <3>1
  <2>3. news'[n].on <=> Runs'
    BY <1>3, <2>1
  <2>4. QED
    BY <2>1, <2>2, <2>3 DEF SpinnerFollows
<1>4. CASE ~Spins(m)
  <2>1. \A i \in 1..Len(news') :
          Spins(news[i])' => i \in 1..Len(news) /\ news'[i] = news[i] /\ Spins(news[i])
    BY <1>1, <1>2, <1>4
  <2>2. \A i \in 1..Len(news) : news'[i] = news[i] /\ (Spins(news[i])' <=> Spins(news[i]))
    BY <1>1, <1>2
  <2>3. ASSUME \A i \in 1..Len(news') : ~Spins(news[i])' PROVE popup'.spinner <=> Runs'
    <3>1. \A i \in 1..Len(news) : ~Spins(news[i])
      BY <1>1, <2>2, <2>3
    <3>2. QED
      BY <1>4, <3>1 DEF SpinnerFollows
  <2>4. ASSUME NEW i \in 1..Len(news'), Spins(news[i])', \A j \in (i + 1)..Len(news') : ~Spins(news[j])'
        PROVE  news'[i].on <=> Runs'
    <3>1. i \in 1..Len(news) /\ news'[i] = news[i] /\ Spins(news[i])
      BY <2>1, <2>4
    <3>2. \A j \in (i + 1)..Len(news) : ~Spins(news[j])
      BY <1>1, <2>2, <2>4, <3>1
    <3>3. QED
      BY <1>4, <3>1, <3>2 DEF SpinnerFollows
  <2>5. QED
    BY <2>3, <2>4 DEF SpinnerFollows
<1>5. QED
  BY <1>3, <1>4

\* The popup reads the first message.
LEMMA SpinnerRead ==
  ASSUME QueuesTyped, SpinnerFollows, news # <<>>, news' = Tail(news), popup'.prefs = popup.prefs,
         Runs' <=> Runs,
         popup'.spinner = IF Spins(Head(news)) THEN Head(news).on ELSE popup.spinner
  PROVE  SpinnerFollows'
<1>1. /\ Len(news') = Len(news) - 1 /\ Len(news) \in Nat \ {0} /\ Head(news) = news[1]
      /\ \A i \in 1..(Len(news) - 1) : news'[i] = news[i + 1] /\ i + 1 \in 1..Len(news)
  BY ReadNews
<1>2. \A i \in 1..Len(news') : Spins(news[i])' <=> Spins(news[i + 1])
  BY <1>1 DEF Spins
<1>3. \A i \in 2..Len(news) : i - 1 \in 1..Len(news') /\ (i - 1) + 1 = i
  BY <1>1
<1>4. ASSUME \A i \in 1..Len(news') : ~Spins(news[i])' PROVE popup'.spinner <=> Runs'
  <2>1. \A i \in 2..Len(news) : ~Spins(news[i])
    BY <1>2, <1>3, <1>4
  <2>2. CASE Spins(news[1])
    <3>1. 1 \in 1..Len(news) /\ \A j \in (1 + 1)..Len(news) : ~Spins(news[j])
      BY <1>1, <2>1
    <3>2. news[1].on <=> Runs
      BY <2>2, <3>1 DEF SpinnerFollows
    <3>3. QED
      BY <1>1, <2>2, <3>2
  <2>3. CASE ~Spins(news[1])
    <3>1. \A i \in 1..Len(news) : ~Spins(news[i])
      BY <1>1, <2>1, <2>3
    <3>2. QED
      BY <1>1, <2>3, <3>1 DEF SpinnerFollows
  <2>4. QED
    BY <2>2, <2>3
<1>5. ASSUME NEW i \in 1..Len(news'), Spins(news[i])', \A j \in (i + 1)..Len(news') : ~Spins(news[j])'
      PROVE  news'[i].on <=> Runs'
  <2>1. i + 1 \in 1..Len(news) /\ news'[i] = news[i + 1] /\ Spins(news[i + 1])
    BY <1>1, <1>2, <1>5
  <2>2. ASSUME NEW j \in ((i + 1) + 1)..Len(news) PROVE ~Spins(news[j])
    <3>1. j - 1 \in (i + 1)..Len(news') /\ j - 1 \in 1..Len(news') /\ (j - 1) + 1 = j
      BY <1>1, <2>1
    <3>2. QED
      BY <1>2, <1>5, <3>1
  <2>3. QED
    BY <2>1, <2>2 DEF SpinnerFollows
<1>6. QED
  BY <1>4, <1>5 DEF SpinnerFollows
\* Nothing new is asked but the status, nothing new is told of the preferences, and what is
\* under way is what was (a and b messages have been read).
NothingNew(a, b) ==
  /\ popup'.phase = popup.phase /\ popup'.id = popup.id /\ popup'.port = popup.port
  /\ popup'.prefs = popup.prefs /\ prefs' = prefs
  /\ \A i \in 1..Len(asks') :
       /\ asks'[i].by = popup.id
       /\ asks'[i].type # "status" => i + a \in 1..Len(asks) /\ asks'[i] = asks[i + a]
  /\ \A i \in 1..Len(news') :
       news'[i].type = "prefs" => i + b \in 1..Len(news) /\ news'[i] = news[i + b]
  /\ popup.id \in restoring' => popup.id \in restoring
  /\ switch'.phase # "none" => switch.phase # "none"
  /\ Len(asks') \in Nat /\ Len(news') \in Nat

LEMMA AwaitsKept ==
  ASSUME Awaits, NEW a \in Nat, NEW b \in Nat, NothingNew(a, b)
  PROVE  Awaits'
<1>1. \A type \in {"restore", "switch"} : AskedFor(type)' => AskedFor(type)
  BY DEF NothingNew, AskedFor
<1>2. Told' => Told
  BY DEF NothingNew, Told
<1>3. \A i, j \in 1..Len(asks') : asks'[i].type # "status" /\ asks'[j].type # "status" => i = j
  <2>1. ASSUME NEW i \in 1..Len(asks'), NEW j \in 1..Len(asks'),
               asks'[i].type # "status", asks'[j].type # "status"
        PROVE  i + a = j + a
    <3>1. PICK x, y : x = i + a /\ y = j + a
      OBVIOUS
    <3>2. /\ x \in 1..Len(asks) /\ asks[x].type # "status"
          /\ y \in 1..Len(asks) /\ asks[y].type # "status"
      BY <2>1, <3>1 DEF NothingNew
    <3>3. x = y
      BY <3>2 DEF Awaits
    <3>4. QED
      BY <3>1, <3>3
  <2>2. QED
    BY <2>1
<1>4. \A i, j \in 1..Len(news') : news'[i].type = "prefs" /\ news'[j].type = "prefs" => i = j
  <2>1. ASSUME NEW i \in 1..Len(news'), NEW j \in 1..Len(news'),
               news'[i].type = "prefs", news'[j].type = "prefs"
        PROVE  i + b = j + b
    <3>1. PICK x, y : x = i + b /\ y = j + b
      OBVIOUS
    <3>2. /\ x \in 1..Len(news) /\ news[x].type = "prefs"
          /\ y \in 1..Len(news) /\ news[y].type = "prefs"
      BY <2>1, <3>1 DEF NothingNew
    <3>3. x = y
      BY <3>2 DEF Awaits
    <3>4. QED
      BY <3>1, <3>3
  <2>2. QED
    BY <2>1
<1>5. \A i \in 1..Len(news') : news'[i].type = "prefs" => news'[i].ctx = prefs'
  BY DEF NothingNew, Awaits
<1>6. QED
  BY <1>1, <1>2, <1>3, <1>4, <1>5 DEF NothingNew, Awaits

\* The counters move and the popup is told, if it listens.
LEMMA AnnouncedOK ==
  ASSUME IInv, Quiet, Announces
  PROVE  QueuesTyped' /\ Fresh' /\ PopupOK'
<1>1. /\ QueuesTyped /\ Fresh /\ PopupOK /\ WorkerTyped /\ Len(asks) \in Nat /\ Len(news) \in Nat
      /\ prefs \in Contexts
  BY DEF IInv, QueuesTyped, WorkerTyped
<1>2. /\ UNCHANGED <<prefs, switch, asks, restoring, popup>> /\ moves' \in [moves : Nat, opens : Nat]
      /\ moves'.opens = moves.opens
  BY DEF Quiet
<1>3. CASE news' = news
  <2>1. QueuesTyped' /\ Fresh'
    BY <1>1, <1>2, <1>3 DEF QueuesTyped, Fresh
  <2>2. ASSUME Follows PROVE Awaits'
    BY <1>1, <1>2, <1>3, <2>2 DEF PopupOK, Awaits, AskedFor, Told
  <2>3. ASSUME Follows, popup.phase = "idle", ~AskedFor("status") PROVE SpinnerFollows'
    <3>1. Runs' <=> Runs
      <4>1. CASE \A d \in Contexts : inflight'[d] > 0 <=> inflight[d] > 0
        BY <1>1, <1>2, <4>1 DEF Runs
      <4>2. CASE \E c \in Contexts, on \in BOOLEAN : news' = Event(news, Sync(c, on))
        <5>1. PICK c \in Contexts, on \in BOOLEAN : news' = Event(news, Sync(c, on))
          BY <4>2
        <5>2. popup.port /\ Sync(c, on) \in NewsRecords /\ Sync(c, on).type # "prefs"
          BY <1>1, <2>3 DEF PopupOK, Awaits, Sync, NewsRecords
        <5>3. Len(news') = Len(news) + 1
          BY <1>1, <5>1, <5>2, SentNews DEF Event
        <5>4. QED
          BY <1>1, <1>3, <5>3
      <4>3. QED
        BY <4>1, <4>2 DEF Announces
    <3>2. QED
      BY <1>1, <1>2, <1>3, <2>3, <3>1 DEF PopupOK, SpinnerFollows, Spins
  <2>4. QED
    BY <1>2, <2>1, <2>2, <2>3 DEF PopupOK, Follows, AskedFor
<1>4. CASE news' # news
  <2>1. PICK c \in Contexts, on \in BOOLEAN :
          /\ news' = Event(news, Sync(c, on)) /\ (inflight'[c] > 0 <=> on)
          /\ \A d \in Contexts \ {c} : inflight'[d] > 0 <=> inflight[d] > 0
    BY <1>4 DEF Announces
  <2>2. PICK m : m = Sync(c, on)
    OBVIOUS
  <2>3. m \in NewsRecords /\ m.type = "sync" /\ m.ctx = c /\ (m.on <=> on)
    BY <2>2 DEF Sync, NewsRecords
  <2>4. popup.port /\ news' = Append(news, m)
    BY <1>4, <2>1, <2>2 DEF Event
  <2>5. popup.phase # "closed"
    BY <1>1, <2>4 DEF Fresh, Closed
  <2>6. /\ Len(news') = Len(news) + 1 /\ news' \in Seq(NewsRecords)
        /\ \A i \in 1..(Len(news) + 1) : news'[i] = IF i = Len(news) + 1 THEN m ELSE news[i]
        /\ \A i \in 1..Len(news') : news'[i].type = "prefs" => news'[i].ctx \in Contexts
    BY <1>1, <2>3, <2>4, SentNews
  <2>7. QueuesTyped' /\ Fresh'
    BY <1>1, <1>2, <2>5, <2>6 DEF QueuesTyped, Fresh
  <2>8. ASSUME Follows PROVE Awaits'
    <3> PICK o \in Nat : o = 0
      OBVIOUS
    <3>1. \A i \in 1..Len(news') :
            news'[i].type = "prefs" => i + o \in 1..Len(news) /\ news'[i] = news[i + o]
      BY <1>1, <2>3, <2>6
    <3>2. \A i \in 1..Len(asks') : asks'[i].by = popup.id /\ i + o \in 1..Len(asks) /\ asks'[i] = asks[i + o]
      BY <1>1, <1>2, <2>8 DEF PopupOK, Awaits
    <3>3. Awaits /\ Len(asks') \in Nat /\ Len(news') \in Nat
      BY <1>1, <1>2, <2>6, <2>8 DEF PopupOK
    <3>4. NothingNew(o, o)
      BY <1>2, <3>1, <3>2, <3>3 DEF NothingNew
    <3>5. QED
      BY <3>3, <3>4, AwaitsKept
  <2>9. ASSUME Follows, popup.phase = "idle", ~AskedFor("status") PROVE SpinnerFollows'
    <3>1. popup.prefs = prefs /\ SpinnerFollows
      BY <1>1, <2>9 DEF PopupOK, Awaits
    <3>2. Spins(m) <=> c = prefs
      BY <2>3, <3>1 DEF Spins
    <3>3. IF Spins(m) THEN m.on <=> Runs' ELSE SpinnerFollows /\ (Runs' <=> Runs)
      BY <1>1, <1>2, <2>1, <2>3, <3>1, <3>2 DEF Runs
    <3>4. QED
      BY <1>1, <1>2, <2>3, <2>4, <3>3, SpinnerSent
  <2>10. QED
    BY <1>2, <2>7, <2>8, <2>9 DEF PopupOK, Follows, AskedFor
<1>5. QED
  BY <1>3, <1>4
\* What the invariant says of the queues and the popup.
Shows == QueuesTyped /\ Fresh /\ PopupOK

\* The worker answers with the preferences what popup id asked, if it is still there.
LEMMA PrefsAnswered ==
  ASSUME IInv, NEW id \in Nat, id > moves.opens, news' = Answer(news, id, Say("prefs", prefs)),
         UNCHANGED <<prefs, asks, popup, inflight, moves>>, restoring' \subseteq restoring,
         switch'.phase # "none" => switch' = switch,
         Follows /\ popup.id = id =>
           /\ ~Told /\ popup.phase \in {"restoring", "switching"}
           /\ ~AskedFor("restore") /\ ~AskedFor("switch")
           /\ popup.id \notin restoring' /\ switch'.phase = "none"
  PROVE  Shows'
<1>1. /\ QueuesTyped /\ Fresh /\ PopupOK /\ WorkerTyped /\ Len(asks) \in Nat /\ Len(news) \in Nat
      /\ prefs \in Contexts /\ moves.opens \in Nat
  BY DEF IInv, QueuesTyped, WorkerTyped
<1>2. \A i \in restoring' : i > moves'.opens
  BY <1>1 DEF Fresh
<1>3. switch'.phase # "none" => switch'.for > moves'.opens
  BY <1>1 DEF Fresh
<1>4. CASE popup.id # id
  <2>1. news' = news
    BY <1>4 DEF Answer
  <2>2. QueuesTyped' /\ Fresh'
    BY <1>1, <1>2, <1>3, <2>1 DEF QueuesTyped, Fresh
  <2>3. ASSUME Follows PROVE Awaits'
    BY <1>1, <2>1, <2>3 DEF PopupOK, Awaits, AskedFor, Told
  <2>4. ASSUME Follows, popup.phase = "idle", ~AskedFor("status") PROVE SpinnerFollows'
    BY <1>1, <2>1, <2>4 DEF PopupOK, SpinnerFollows, Spins, Runs
  <2>5. QED
    BY <2>2, <2>3, <2>4 DEF Shows, PopupOK, Follows, AskedFor
<1>5. CASE popup.id = id
  <2>1. PICK m : m = Say("prefs", prefs)
    OBVIOUS
  <2>2. m \in NewsRecords /\ m.type = "prefs" /\ m.ctx = prefs /\ news' = Append(news, m)
    BY <1>1, <1>5, <2>1 DEF Say, NewsRecords, Answer
  <2>3. /\ Len(news') = Len(news) + 1 /\ news' \in Seq(NewsRecords)
        /\ \A i \in 1..(Len(news) + 1) : news'[i] = IF i = Len(news) + 1 THEN m ELSE news[i]
        /\ \A i \in 1..Len(news') : news'[i].type = "prefs" => news'[i].ctx \in Contexts
    <3>1. /\ Len(Append(news, m)) = Len(news) + 1 /\ Append(news, m) \in Seq(NewsRecords)
          /\ \A i \in 1..(Len(news) + 1) : Append(news, m)[i] = IF i = Len(news) + 1 THEN m ELSE news[i]
          /\ \A i \in 1..(Len(news) + 1) : Append(news, m)[i].type = "prefs" => Append(news, m)[i].ctx \in Contexts
      BY <1>1, <2>2, SentNews
    <3>2. QED
      BY <2>2, <3>1
  <2>4. popup.phase # "closed"
    BY <1>1, <1>5 DEF Fresh, Closed
  <2>5. QueuesTyped' /\ Fresh'
    BY <1>1, <1>2, <1>3, <2>3, <2>4 DEF QueuesTyped, Fresh
  <2>6. ASSUME Follows PROVE Awaits' /\ popup.phase # "idle"
    <3>1. \A i \in 1..Len(news) : news[i].type # "prefs"
      BY <1>5, <2>6 DEF Told
    <3>2. \A i \in 1..Len(news') : news'[i].type = "prefs" => i = Len(news) + 1 /\ news'[i] = m
      BY <2>3, <3>1
    <3>3. \A i, j \in 1..Len(news') : news'[i].type = "prefs" /\ news'[j].type = "prefs" => i = j
      BY <3>2
    <3>4. ~AskedFor("restore")' /\ ~AskedFor("switch")'
      BY <1>5, <2>6 DEF AskedFor
    <3>5. \A i \in 1..Len(news') : news'[i].type = "prefs" => news'[i].ctx = prefs'
      BY <2>2, <3>2
    <3>6. QED
      BY <1>1, <1>5, <2>6, <3>3, <3>4, <3>5 DEF PopupOK, Awaits
  <2>7. QED
    BY <2>5, <2>6 DEF Shows, PopupOK, Follows
<1>6. QED
  BY <1>4, <1>5

LEMMA FinishSwitchShows ==
  ASSUME IInv, FinishSwitch
  PROVE  Shows'
<1>1. switch.phase = "cleared" /\ switch' = NoSwitch /\ news' = Answer(news, switch.for, Say("prefs", prefs))
  BY DEF FinishSwitch
<1>2. PICK id : id = switch.for
  OBVIOUS
<1>3. id \in Nat /\ id > moves.opens
  BY <1>1, <1>2 DEF IInv, WorkerTyped, SwitchTyped, Fresh
<1>4. Follows /\ popup.id = id =>
           /\ ~Told /\ popup.phase \in {"restoring", "switching"}
           /\ ~AskedFor("restore") /\ ~AskedFor("switch")
           /\ popup.id \notin restoring' /\ switch'.phase = "none"
  BY <1>1 DEF FinishSwitch, IInv, PopupOK, Awaits, NoSwitch
<1>5. QED
  BY <1>1, <1>2, <1>3, <1>4, PrefsAnswered DEF FinishSwitch, NoSwitch

LEMMA FinishRestoreShows ==
  ASSUME IInv, NEW id \in restoring, FinishRestore(id)
  PROVE  Shows'
<1>1. id \in Nat /\ id > moves.opens
  BY DEF IInv, QueuesTyped, Fresh
<1>2. Follows /\ popup.id = id =>
           /\ ~Told /\ popup.phase \in {"restoring", "switching"}
           /\ ~AskedFor("restore") /\ ~AskedFor("switch")
           /\ popup.id \notin restoring' /\ switch'.phase = "none"
  BY DEF FinishRestore, IInv, PopupOK, Awaits
<1>3. QED
  BY <1>1, <1>2, PrefsAnswered DEF FinishRestore

\* The switch goes on, behind the popup's back.
LEMMA SwitchMovesShows ==
  ASSUME IInv, MoveAccount \/ ClearScans
  PROVE  Shows'
<1>1. /\ UNCHANGED <<prefs, inflight, asks, restoring, news, popup, moves>>
      /\ switch.phase # "none" /\ switch'.for = switch.for
  BY DEF MoveAccount, ClearScans, IInv, WorkerTyped, SwitchTyped
<1>2. QueuesTyped /\ Fresh /\ PopupOK
  BY DEF IInv
<1>3. QueuesTyped' /\ Fresh'
  BY <1>1, <1>2 DEF QueuesTyped, Fresh
<1>4. ASSUME Follows PROVE Awaits'
  <2>1. Awaits
    BY <1>2, <1>4 DEF PopupOK
  <2>2. ~AskedFor("switch")
    BY <1>1, <2>1 DEF Awaits
  <2>3. QED
    BY <1>1, <2>1, <2>2 DEF Awaits, AskedFor, Told
<1>5. ASSUME Follows, popup.phase = "idle", ~AskedFor("status") PROVE SpinnerFollows'
  BY <1>1, <1>2, <1>5 DEF PopupOK, SpinnerFollows, Spins, Runs
<1>6. QED
  BY <1>1, <1>3, <1>4, <1>5 DEF Shows, PopupOK, Follows, AskedFor

\* The status tells what runs: a popup that is idle has no switch, and the account manager
\* is where the preferences are.
LEMMA ReplyShows ==
  ASSUME IInv, Reply
  PROVE  Shows'
<1>1. /\ QueuesTyped /\ Fresh /\ PopupOK /\ WorkerTyped /\ InStep /\ Len(asks) \in Nat /\ Len(news) \in Nat
  BY DEF IInv, QueuesTyped
<1>0. PICK on \in BOOLEAN : on = (inflight[mgr] > 0)
  <2>1. inflight[mgr] \in Nat
    BY DEF IInv, WorkerTyped
  <2>2. (inflight[mgr] > 0) \in BOOLEAN
    BY <2>1
  <2>3. QED
    BY <2>2, Zenon
<1>2. PICK id : id = Head(asks).by
  OBVIOUS
<1>3. PICK m : m = Status(on)
  OBVIOUS
<1>4. /\ asks # <<>> /\ asks' = Tail(asks) /\ news' = Answer(news, id, m)
      /\ UNCHANGED <<prefs, mgr, switch, inflight, restoring, popup, moves>>
  BY <1>0, <1>2, <1>3, Zenon DEF Reply, worker
<1>5. m \in NewsRecords /\ m.type = "status" /\ (m.on <=> inflight[mgr] > 0)
  <2>1. m \in NewsRecords /\ m.type = "status" /\ m.on = on
    BY <1>3 DEF Status, NewsRecords
  <2>2. on <=> inflight[mgr] > 0
    BY <1>0, Zenon
  <2>3. QED
    BY <2>1, <2>2
<1>6. /\ Len(asks') = Len(asks) - 1 /\ Len(asks) \in Nat \ {0} /\ Head(asks) = asks[1]
      /\ asks' \in Seq(AskRecords)
      /\ \A i \in 1..Len(asks') : asks'[i] = asks[i + 1] /\ i + 1 \in 1..Len(asks)
  BY <1>1, <1>4, ReadAsk
<1>7. news' = news \/ news' = Append(news, m)
  BY <1>4 DEF Answer
<1>8. /\ Len(Append(news, m)) = Len(news) + 1 /\ Append(news, m) \in Seq(NewsRecords)
      /\ \A i \in 1..(Len(news) + 1) : Append(news, m)[i] = IF i = Len(news) + 1 THEN m ELSE news[i]
      /\ \A i \in 1..(Len(news) + 1) : Append(news, m)[i].type = "prefs" => Append(news, m)[i].ctx \in Contexts
  BY <1>1, <1>5, SentNews
<1>9. id = asks[1].by /\ id > moves.opens /\ moves.opens \in Nat
  BY <1>1, <1>2, <1>6 DEF Fresh, QueuesTyped
<1>10. popup.phase = "closed" => news' = news
  BY <1>1, <1>4, <1>9 DEF Fresh, Closed, Answer
<1>11. QueuesTyped'
  <2>1. \A i \in 1..Len(asks') : asks'[i].type = "switch" => asks'[i].ctx \in Contexts
    BY <1>1, <1>6 DEF QueuesTyped
  <2>2. news' \in Seq(NewsRecords) /\ \A i \in 1..Len(news') : news'[i].type = "prefs" => news'[i].ctx \in Contexts
    BY <1>1, <1>7, <1>8 DEF QueuesTyped
  <2>3. QED
    BY <1>1, <1>4, <1>6, <2>1, <2>2 DEF QueuesTyped
<1>12. Fresh'
  BY <1>1, <1>4, <1>6, <1>10 DEF Fresh
<1>13. ASSUME Follows PROVE Awaits'
  <2> PICK a \in Nat, b \in Nat : a = 1 /\ b = 0
    OBVIOUS
  <2>1. \A i \in 1..Len(news') : news'[i].type = "prefs" => i + b \in 1..Len(news) /\ news'[i] = news[i + b]
    BY <1>1, <1>5, <1>7, <1>8
  <2>2. Awaits
    BY <1>1, <1>13 DEF PopupOK
  <2>3. \A i \in 1..Len(asks') : asks'[i].by = popup.id /\ i + a \in 1..Len(asks) /\ asks'[i] = asks[i + a]
    BY <1>6, <2>2 DEF Awaits
  <2>4. Len(asks') \in Nat /\ Len(news') \in Nat
    BY <1>1, <1>6, <1>7, <1>8
  <2>5. NothingNew(a, b)
    BY <1>4, <2>1, <2>3, <2>4 DEF NothingNew
  <2>6. QED
    BY <2>2, <2>5, AwaitsKept
<1>14. ASSUME Follows, popup.phase = "idle" PROVE SpinnerFollows'
  <2>1. Awaits
    BY <1>1, <1>14 DEF PopupOK
  <2>2. id = popup.id /\ prefs = mgr
    BY <1>1, <1>6, <1>9, <1>14, <2>1 DEF Awaits, InStep
  <2>3. news' = Append(news, m)
    BY <1>4, <2>2 DEF Answer
  <2>4. Spins(m) /\ (m.on <=> Runs')
    BY <1>4, <1>5, <2>2 DEF Spins, Runs
  <2>5. QED
    BY <1>1, <1>4, <1>5, <2>3, <2>4, SpinnerSent
<1>15. QED
  BY <1>4, <1>11, <1>12, <1>13, <1>14 DEF Shows, PopupOK, Follows
\* The switch begins: the popup waits for its end, and nothing else is told of the preferences.
LEMMA BeginSwitchShows ==
  ASSUME IInv, BeginSwitch
  PROVE  Shows'
<1>1. /\ QueuesTyped /\ Fresh /\ PopupOK /\ Len(asks) \in Nat /\ Len(news) \in Nat
  BY DEF IInv, QueuesTyped
<1>2. /\ asks # <<>> /\ asks' = Tail(asks) /\ Head(asks).type = "switch" /\ switch'.for = Head(asks).by
      /\ UNCHANGED <<restoring, news, popup, moves>>
  BY DEF BeginSwitch
<1>3. /\ Len(asks') = Len(asks) - 1 /\ Len(asks) \in Nat \ {0} /\ Head(asks) = asks[1]
      /\ asks' \in Seq(AskRecords)
      /\ \A i \in 1..Len(asks') : asks'[i] = asks[i + 1] /\ i + 1 \in 1..Len(asks)
  BY <1>1, <1>2, ReadAsk
<1>4. \A i \in 1..Len(asks') : asks'[i].type = "switch" => asks'[i].ctx \in Contexts
  BY <1>1, <1>3 DEF QueuesTyped
<1>5. QueuesTyped'
  BY <1>1, <1>2, <1>3, <1>4 DEF QueuesTyped
<1>6. 1 \in 1..Len(asks) /\ asks[1].by > moves.opens
  BY <1>1, <1>3 DEF Fresh
<1>7. Fresh'
  BY <1>1, <1>2, <1>3, <1>6 DEF Fresh
<1>8. ASSUME Follows PROVE Awaits' /\ popup.phase # "idle"
  <2>1. Awaits
    BY <1>1, <1>8 DEF PopupOK
  <2>2. AskedFor("switch")
    BY <1>2, <1>3, <1>6 DEF AskedFor
  <2>3. popup.phase = "switching" /\ ~Told /\ popup.id \notin restoring
    BY <2>1, <2>2 DEF Awaits
  <2>4. \A i \in 1..Len(asks') : asks'[i].type = "status"
    <3>1. ASSUME NEW i \in 1..Len(asks'), asks'[i].type # "status" PROVE FALSE
      <4>1. PICK j : j = i + 1
        OBVIOUS
      <4>2. j \in 1..Len(asks) /\ asks[j].type # "status" /\ j # 1
        BY <1>3, <3>1, <4>1
      <4>3. QED
        BY <1>2, <1>3, <1>6, <2>1, <4>2 DEF Awaits
    <3>2. QED
      BY <3>1
  <2>5. \A i \in 1..Len(asks') : asks'[i].by = popup.id
    BY <1>3, <2>1 DEF Awaits
  <2>6. ~AskedFor("restore")' /\ ~AskedFor("switch")'
    BY <2>4 DEF AskedFor
  <2>7. \A i \in 1..Len(news') : news'[i].type # "prefs"
    BY <1>2, <2>3 DEF Told
  <2>8. QED
    BY <1>2, <2>1, <2>3, <2>4, <2>5, <2>6, <2>7 DEF Awaits, Told
<1>9. QED
  BY <1>2, <1>5, <1>7, <1>8 DEF Shows, PopupOK, Follows

LEMMA BeginRestoreShows ==
  ASSUME IInv, BeginRestore
  PROVE  Shows'
<1>1. /\ QueuesTyped /\ Fresh /\ PopupOK /\ Len(asks) \in Nat /\ Len(news) \in Nat
  BY DEF IInv, QueuesTyped
<1>2. /\ asks # <<>> /\ asks' = Tail(asks) /\ Head(asks).type = "restore"
      /\ restoring' = restoring \cup {Head(asks).by}
      /\ UNCHANGED <<prefs, switch, inflight, news, popup, moves>>
  BY DEF BeginRestore, worker
<1>3. /\ Len(asks') = Len(asks) - 1 /\ Len(asks) \in Nat \ {0} /\ Head(asks) = asks[1]
      /\ asks' \in Seq(AskRecords) /\ Head(asks) \in AskRecords
      /\ \A i \in 1..Len(asks') : asks'[i] = asks[i + 1] /\ i + 1 \in 1..Len(asks)
  BY <1>1, <1>2, ReadAsk
<1>4. \A i \in 1..Len(asks') : asks'[i].type = "switch" => asks'[i].ctx \in Contexts
  BY <1>1, <1>3 DEF QueuesTyped
<1>5. asks[1].by \in Nat
  BY <1>3 DEF AskRecords
<1>6. QueuesTyped'
  BY <1>1, <1>2, <1>3, <1>4, <1>5 DEF QueuesTyped
<1>7. 1 \in 1..Len(asks) /\ asks[1].by > moves.opens
  BY <1>1, <1>3 DEF Fresh
<1>8. Fresh'
  BY <1>1, <1>2, <1>3, <1>7 DEF Fresh
<1>9. ASSUME Follows PROVE Awaits' /\ popup.phase # "idle"
  <2>1. Awaits
    BY <1>1, <1>9 DEF PopupOK
  <2>2. AskedFor("restore")
    BY <1>2, <1>3, <1>7 DEF AskedFor
  <2>3. popup.phase = "restoring" /\ ~Told
    BY <2>1, <2>2 DEF Awaits
  <2>4. \A i \in 1..Len(asks') : asks'[i].type = "status"
    <3>1. ASSUME NEW i \in 1..Len(asks'), asks'[i].type # "status" PROVE FALSE
      <4>1. PICK j : j = i + 1
        OBVIOUS
      <4>2. j \in 1..Len(asks) /\ asks[j].type # "status" /\ j # 1
        BY <1>3, <3>1, <4>1
      <4>3. QED
        BY <1>2, <1>3, <1>7, <2>1, <4>2 DEF Awaits
    <3>2. QED
      BY <3>1
  <2>5. \A i \in 1..Len(asks') : asks'[i].by = popup.id
    BY <1>3, <2>1 DEF Awaits
  <2>6. ~AskedFor("restore")' /\ ~AskedFor("switch")'
    BY <2>4 DEF AskedFor
  <2>7. \A i \in 1..Len(news') : news'[i].type # "prefs"
    BY <1>2, <2>3 DEF Told
  <2>8. QED
    BY <1>2, <2>1, <2>3, <2>4, <2>5, <2>6, <2>7 DEF Awaits, Told
<1>10. QED
  BY <1>2, <1>6, <1>8, <1>9 DEF Shows, PopupOK, Follows

\* A popup that opens while nothing is under way follows from its first request on.
LEMMA OpenShows ==
  ASSUME IInv, Open
  PROVE  Shows'
<1>1. /\ QueuesTyped /\ Fresh /\ Len(asks) \in Nat
  BY DEF IInv, QueuesTyped
<1>2. PICK id : id = moves.opens
  OBVIOUS
<1>3. PICK m : m = [Ask("restore", "account", None) EXCEPT !.by = id]
  OBVIOUS
<1>4. /\ popup.phase = "closed" /\ id > 0 /\ id \in Nat /\ moves' = [moves EXCEPT !.opens = @ - 1]
      /\ asks' = Append(asks, m) /\ UNCHANGED <<prefs, switch, inflight, restoring, news>>
  BY <1>1, <1>2, <1>3 DEF Open, Spend, worker, QueuesTyped
<1>5. /\ popup' = [Closed EXCEPT !.phase = "restoring", !.id = id, !.port = TRUE,
                               !.astray = switch.phase # "none" \/ asks # <<>>]
  BY <1>2 DEF Open
<1>6. popup' \in PopupRecords /\ popup'.phase = "restoring" /\ popup'.id = id /\ popup'.port
  BY <1>4, <1>5 DEF Closed, PopupRecords
<1>7. ~popup'.astray => switch.phase = "none" /\ asks = <<>>
  BY <1>5 DEF Closed
<1>8. m \in AskRecords /\ m.type = "restore" /\ m.by = id
  BY <1>3, <1>4, <1>1 DEF Ask, AskRecords, QueuesTyped, PopupRecords
<1>9. /\ asks' \in Seq(AskRecords) /\ Len(asks') = Len(asks) + 1
      /\ \A i \in 1..(Len(asks) + 1) : asks'[i] = IF i = Len(asks) + 1 THEN m ELSE asks[i]
      /\ \A i \in 1..(Len(asks) + 1) : asks'[i].type = "switch" => asks'[i].ctx \in Contexts
  BY <1>1, <1>4, <1>8, SentAsk
<1>10. moves' \in [moves : Nat, opens : Nat] /\ moves'.opens = id - 1 /\ moves.opens = id
  <2>1. moves \in [moves : Nat, opens : Nat]
    BY <1>1 DEF QueuesTyped
  <2>2. id - 1 \in Nat
    BY <1>4
  <2>3. moves' = [moves EXCEPT !.opens = id - 1]
    BY <1>2, <1>4, <2>1
  <2>4. QED
    BY <1>2, <2>1, <2>2, <2>3
<1>11. QueuesTyped'
  BY <1>1, <1>4, <1>6, <1>9, <1>10 DEF QueuesTyped
<1>12. news = <<>> /\ \A i \in restoring : i > id
  BY <1>1, <1>4, <1>10 DEF Fresh
<1>13. Fresh'
  <2>1. \A i \in restoring' : i > moves'.opens
    BY <1>1, <1>4, <1>10, <1>12 DEF QueuesTyped
  <2>2. \A i \in 1..Len(asks') : asks'[i].by > moves'.opens
    <3>1. ASSUME NEW i \in 1..Len(asks) PROVE asks[i].by > id /\ asks[i].by \in Nat
      <4>1. asks[i] \in AskRecords
        BY <1>1, <3>1 DEF QueuesTyped
      <4>2. QED
        BY <1>1, <1>10, <4>1 DEF Fresh, AskRecords
    <3>2. QED
      BY <1>1, <1>4, <1>8, <1>9, <1>10, <3>1
  <2>3. switch'.phase # "none" => switch'.for > moves'.opens
    BY <1>1, <1>4, <1>10 DEF Fresh, IInv, WorkerTyped, SwitchTyped
  <2>4. QED
    BY <1>4, <1>6, <1>10, <2>1, <2>2, <2>3 DEF Fresh
<1>14. ASSUME ~popup'.astray PROVE Awaits'
  <2>1. Len(asks') = 1 /\ asks'[1] = m
    BY <1>7, <1>9, <1>14
  <2>2. \A i \in 1..Len(asks') : i = 1 /\ asks'[i] = m
    BY <2>1
  <2>3. Len(news') = 0
    BY <1>4, <1>12
  <2>4. ~AskedFor("switch")' /\ ~Told'
    BY <1>8, <2>2, <2>3 DEF AskedFor, Told
  <2>5. id \notin restoring'
    BY <1>4, <1>12
  <2>6. \A i \in 1..Len(news') : FALSE
    BY <2>3
  <2>7. switch'.phase = "none"
    BY <1>4, <1>7, <1>14
  <2>8. QED
    BY <1>6, <1>8, <2>2, <2>4, <2>5, <2>6, <2>7 DEF Awaits
<1>15. QED
  BY <1>6, <1>11, <1>13, <1>14 DEF Shows, PopupOK, Follows

\* A popup that is not there, or has lost its port, follows nothing.
LEMMA CloseShows ==
  ASSUME IInv, Close
  PROVE  Shows'
<1>1. popup' = Closed /\ news' = <<>> /\ UNCHANGED <<switch, asks, restoring>>
  BY DEF Close, worker
<1>2. moves' \in [moves : Nat, opens : Nat] /\ moves'.opens = moves.opens
  BY DEF Close, Spend, IInv, QueuesTyped
<1>3. QueuesTyped'
  BY <1>1, <1>2 DEF IInv, QueuesTyped, Closed, PopupRecords
<1>4. Fresh' /\ PopupOK'
  BY <1>1, <1>2 DEF IInv, Fresh, PopupOK, Follows, Closed
<1>5. QED
  BY <1>3, <1>4 DEF Shows

LEMMA ReconnectShows ==
  ASSUME IInv, Reconnect
  PROVE  Shows'
<1>1. /\ popup.phase # "closed" /\ ~popup.port /\ popup' = [popup EXCEPT !.port = TRUE]
      /\ UNCHANGED <<switch, asks, restoring, news, moves>>
  BY DEF Reconnect, worker
<1>2. popup' \in PopupRecords /\ popup'.phase = popup.phase /\ popup'.id = popup.id
      /\ popup'.astray = popup.astray
  BY <1>1 DEF IInv, QueuesTyped, PopupRecords
<1>3. ~Follows
  BY <1>1 DEF IInv, PopupOK, Awaits
<1>4. QueuesTyped' /\ Fresh' /\ PopupOK'
  BY <1>1, <1>2, <1>3 DEF IInv, QueuesTyped, Fresh, PopupOK, Follows
<1>5. QED
  BY <1>4 DEF Shows

LEMMA DieShows ==
  ASSUME IInv, Die
  PROVE  Shows'
<1>1. /\ asks' = <<>> /\ restoring' = {} /\ news' = <<>> /\ switch' = NoSwitch
      /\ popup' = IF popup.phase = "closed" THEN popup
                    ELSE [popup EXCEPT !.phase = IF popup.prefs = None THEN "dead" ELSE "idle",
                                       !.port = FALSE, !.astray = TRUE]
  BY DEF Die
<1>2. moves' \in [moves : Nat, opens : Nat] /\ moves'.opens = moves.opens
  BY DEF Die, Spend, IInv, QueuesTyped
<1>3. /\ popup' \in PopupRecords /\ popup'.id = popup.id
      /\ IF popup.phase = "closed" THEN popup' = popup ELSE popup'.phase # "closed" /\ popup'.astray
  BY <1>1 DEF IInv, QueuesTyped, PopupRecords
<1>4. QueuesTyped'
  BY <1>1, <1>2, <1>3 DEF QueuesTyped
<1>5. Fresh' /\ PopupOK'
  BY <1>1, <1>2, <1>3 DEF IInv, Fresh, PopupOK, Follows, NoSwitch
<1>6. QED
  BY <1>4, <1>5 DEF Shows
\* The user chooses an account: the popup is idle, so nothing is under way but its status.
LEMMA ChooseShows ==
  ASSUME IInv, NEW kind \in Kinds, NEW c \in Contexts, Choose(kind, c)
  PROVE  Shows'
<1>1. /\ QueuesTyped /\ Fresh /\ PopupOK /\ Len(asks) \in Nat /\ Len(news) \in Nat
  BY DEF IInv, QueuesTyped
<1>2. PICK m : m = Ask("switch", kind, c)
  OBVIOUS
<1>3. /\ popup.phase = "idle" /\ popup.port /\ switch.phase = "none"
      /\ \A i \in 1..Len(asks) : asks[i].type # "switch"
      /\ popup' = [popup EXCEPT !.phase = "switching"] /\ asks' = Append(asks, m)
      /\ UNCHANGED <<prefs, switch, restoring, news>>
  BY <1>2 DEF Choose, worker
<1>4. moves' \in [moves : Nat, opens : Nat] /\ moves'.opens = moves.opens /\ moves.opens \in Nat
  BY <1>1 DEF Choose, Spend, QueuesTyped
<1>5. /\ popup' \in PopupRecords /\ popup'.phase = "switching" /\ popup'.id = popup.id /\ popup'.port
      /\ popup'.prefs = popup.prefs /\ popup'.astray = popup.astray /\ popup.id \in Nat
  BY <1>1, <1>3 DEF QueuesTyped, PopupRecords
<1>6. m \in AskRecords /\ m.type = "switch" /\ m.by = popup.id /\ m.ctx \in Contexts
  BY <1>2, <1>5 DEF Ask, AskRecords
<1>7. /\ asks' \in Seq(AskRecords) /\ Len(asks') = Len(asks) + 1
      /\ \A i \in 1..(Len(asks) + 1) : asks'[i] = IF i = Len(asks) + 1 THEN m ELSE asks[i]
      /\ \A i \in 1..(Len(asks) + 1) : asks'[i].type = "switch" => asks'[i].ctx \in Contexts
  BY <1>1, <1>3, <1>6, SentAsk
<1>8. QueuesTyped'
  BY <1>1, <1>3, <1>4, <1>5, <1>7 DEF QueuesTyped
<1>9. popup.id > moves.opens
  BY <1>1, <1>3 DEF Fresh
<1>10. \A i \in 1..Len(asks') : asks'[i].by > moves.opens
  BY <1>1, <1>6, <1>7, <1>9 DEF Fresh
<1>11. Fresh'
  BY <1>1, <1>3, <1>4, <1>5, <1>9, <1>10 DEF Fresh
<1>12. ASSUME Follows PROVE Awaits'
  <2>1. Awaits
    BY <1>1, <1>12 DEF PopupOK
  <2>2. ~AskedFor("restore") /\ popup.id \notin restoring /\ ~Told
    BY <1>3, <2>1 DEF Awaits
  <2>3. \A i \in 1..Len(asks) : asks[i].type = "status"
    <3>1. \A i \in 1..Len(asks) : asks[i].type \in {"restore", "status", "switch"}
      BY <1>1, AsksTyped
    <3>2. QED
      BY <1>3, <2>2, <3>1 DEF AskedFor
  <2>4. \A i \in 1..Len(asks') : asks'[i].by = popup.id /\ (asks'[i].type # "status" => i = Len(asks) + 1)
    BY <1>1, <1>6, <1>7, <2>1, <2>3 DEF Awaits
  <2>5. \A i, j \in 1..Len(asks') : asks'[i].type # "status" /\ asks'[j].type # "status" => i = j
    BY <2>4
  <2>6. ~AskedFor("restore")'
    BY <1>1, <1>6, <1>7, <2>3 DEF AskedFor
  <2>7. \A i \in 1..Len(news') : news'[i].type # "prefs"
    BY <1>3, <2>2 DEF Told
  <2>8. QED
    BY <1>3, <1>5, <2>2, <2>4, <2>5, <2>6, <2>7 DEF Awaits, Told
<1>13. QED
  BY <1>3, <1>5, <1>8, <1>11, <1>12 DEF Shows, PopupOK, Follows

\* The popup reads an event or a status: its spinner follows it.
LEMMA EventShows ==
  ASSUME IInv, news # <<>>, news' = Tail(news), Head(news).type \in {"sync", "status"},
         popup' = IF Spins(Head(news)) THEN [popup EXCEPT !.spinner = Head(news).on] ELSE popup,
         UNCHANGED <<prefs, switch, inflight, asks, restoring, moves>>
  PROVE  Shows'
<1>1. /\ QueuesTyped /\ Fresh /\ PopupOK /\ Len(asks) \in Nat /\ Len(news) \in Nat
  BY DEF IInv, QueuesTyped
<1>2. /\ Len(news') = Len(news) - 1 /\ Len(news) \in Nat \ {0} /\ Head(news) \in NewsRecords
      /\ news' \in Seq(NewsRecords)
      /\ \A i \in 1..Len(news') : news'[i] = news[i + 1] /\ i + 1 \in 1..Len(news)
  BY <1>1, ReadNews
<1>3. \A i \in 1..Len(news') : news'[i].type = "prefs" => news'[i].ctx \in Contexts
  BY <1>1, <1>2 DEF QueuesTyped
<1>4. PICK on : on = Head(news).on
  OBVIOUS
<1>5. on \in BOOLEAN
  BY <1>2, <1>4 DEF NewsRecords
<1>6. /\ popup' \in PopupRecords /\ popup'.phase = popup.phase /\ popup'.id = popup.id
      /\ popup'.port = popup.port /\ popup'.prefs = popup.prefs /\ popup'.astray = popup.astray
      /\ popup'.spinner = IF Spins(Head(news)) THEN Head(news).on ELSE popup.spinner
  BY <1>1, <1>4, <1>5 DEF QueuesTyped, PopupRecords
<1>7. QueuesTyped'
  BY <1>1, <1>2, <1>3, <1>6 DEF QueuesTyped
<1>8. popup.phase # "closed"
  BY <1>1 DEF Fresh
<1>9. Fresh'
  BY <1>1, <1>6, <1>8 DEF Fresh
<1>10. ASSUME Follows PROVE Awaits'
  <2> PICK a \in Nat, b \in Nat : a = 0 /\ b = 1
    OBVIOUS
  <2>1. Awaits
    BY <1>1, <1>10 DEF PopupOK
  <2>2. \A i \in 1..Len(asks') : asks'[i].by = popup.id /\ i + a \in 1..Len(asks) /\ asks'[i] = asks[i + a]
    BY <1>1, <2>1 DEF Awaits
  <2>3. \A i \in 1..Len(news') : i + b \in 1..Len(news) /\ news'[i] = news[i + b]
    BY <1>2
  <2>4. Len(asks') \in Nat /\ Len(news') \in Nat
    BY <1>1, <1>2
  <2>5. NothingNew(a, b)
    BY <1>6, <2>2, <2>3, <2>4 DEF NothingNew
  <2>6. QED
    BY <2>1, <2>5, AwaitsKept
<1>11. ASSUME Follows, popup.phase = "idle", ~AskedFor("status") PROVE SpinnerFollows'
  <2>1. SpinnerFollows /\ (Runs' <=> Runs)
    BY <1>1, <1>11 DEF PopupOK, Runs
  <2>2. QED
    BY <1>1, <1>6, <2>1, SpinnerRead
<1>12. QED
  BY <1>6, <1>7, <1>9, <1>10, <1>11 DEF Shows, PopupOK, Follows, AskedFor

\* The popup reads the preferences, of the one message that tells them, and asks for the status.
LEMMA PrefsShow ==
  ASSUME IInv, news # <<>>, news' = Tail(news), Head(news).type = "prefs",
         popup' = [popup EXCEPT !.prefs = Head(news).ctx, !.phase = "idle"],
         asks' = Append(asks, Ask("status", "account", None)),
         UNCHANGED <<prefs, switch, restoring, moves>>
  PROVE  Shows'
<1>1. /\ QueuesTyped /\ Fresh /\ PopupOK /\ Len(asks) \in Nat /\ Len(news) \in Nat
  BY DEF IInv, QueuesTyped
<1>2. /\ Len(news') = Len(news) - 1 /\ Len(news) \in Nat \ {0} /\ Head(news) = news[1]
      /\ news' \in Seq(NewsRecords) /\ Head(news).ctx \in Contexts
      /\ \A i \in 1..Len(news') : news'[i] = news[i + 1] /\ i + 1 \in 1..Len(news)
  BY <1>1, ReadNews
<1>3. \A i \in 1..Len(news') : news'[i].type = "prefs" => news'[i].ctx \in Contexts
  BY <1>1, <1>2 DEF QueuesTyped
<1>4. /\ popup' \in PopupRecords /\ popup'.phase = "idle" /\ popup'.id = popup.id /\ popup.id \in Nat
      /\ popup'.port = popup.port /\ popup'.prefs = news[1].ctx /\ popup'.astray = popup.astray
  BY <1>1, <1>2 DEF QueuesTyped, PopupRecords
<1>5. PICK m : m = Ask("status", "account", None)
  OBVIOUS
<1>6. m \in AskRecords /\ m.type = "status" /\ m.by = popup.id
  BY <1>4, <1>5 DEF Ask, AskRecords
<1>7. /\ asks' \in Seq(AskRecords) /\ Len(asks') = Len(asks) + 1
      /\ \A i \in 1..(Len(asks) + 1) : asks'[i] = IF i = Len(asks) + 1 THEN m ELSE asks[i]
      /\ \A i \in 1..(Len(asks) + 1) : asks'[i].type = "switch" => asks'[i].ctx \in Contexts
  BY <1>1, <1>5, <1>6, SentAsk
<1>8. QueuesTyped'
  BY <1>1, <1>2, <1>3, <1>4, <1>7 DEF QueuesTyped
<1>9. popup.phase # "closed" /\ popup.id > moves.opens
  BY <1>1 DEF Fresh
<1>10. \A i \in 1..Len(asks') : asks'[i].by > moves.opens
  BY <1>1, <1>6, <1>7, <1>9 DEF Fresh
<1>11. Fresh'
  BY <1>1, <1>4, <1>9, <1>10 DEF Fresh
<1>12. PICK n : n = Len(asks) + 1
  OBVIOUS
<1>13. AskedFor("status")'
  <2>1. n \in 1..Len(asks') /\ asks'[n].type = "status"
    BY <1>1, <1>6, <1>7, <1>12
  <2>2. QED
    BY <2>1 DEF AskedFor
<1>14. ASSUME Follows PROVE Awaits'
  <2>1. Awaits /\ 1 \in 1..Len(news)
    BY <1>1, <1>2, <1>14 DEF PopupOK
  <2>2. Told
    BY <1>2, <2>1 DEF Told
  <2>3. ~AskedFor("restore") /\ ~AskedFor("switch") /\ popup.id \notin restoring /\ switch.phase = "none"
    BY <2>1, <2>2 DEF Awaits
  <2>4. \A i \in 1..Len(asks) : asks[i].type = "status" /\ asks[i].by = popup.id
    <3>1. \A i \in 1..Len(asks) : asks[i].type \in {"restore", "status", "switch"}
      BY <1>1, AsksTyped
    <3>2. QED
      BY <2>1, <2>3, <3>1 DEF AskedFor, Awaits
  <2>5. \A i \in 1..Len(asks') : asks'[i].type = "status" /\ asks'[i].by = popup.id
    BY <1>1, <1>6, <1>7, <2>4
  <2>6. \A i \in 1..Len(news') : news'[i].type # "prefs"
    <3>1. ASSUME NEW i \in 1..Len(news'), news'[i].type = "prefs" PROVE FALSE
      <4>1. PICK j : j = i + 1
        OBVIOUS
      <4>2. j \in 1..Len(news) /\ news[j].type = "prefs" /\ j # 1
        BY <1>2, <3>1, <4>1
      <4>3. QED
        BY <1>2, <2>1, <4>2 DEF Awaits
    <3>2. QED
      BY <3>1
  <2>7. popup'.prefs = prefs
    BY <1>2, <1>4, <2>1 DEF Awaits
  <2>8. ~AskedFor("restore")' /\ ~AskedFor("switch")' /\ ~Told'
    BY <2>5, <2>6 DEF AskedFor, Told
  <2>9. popup'.port /\ popup'.phase # "dead" /\ popup.id \notin restoring' /\ switch'.phase = "none"
    BY <1>4, <2>1, <2>3 DEF Awaits
  <2>10. QED
    BY <1>4, <2>5, <2>6, <2>7, <2>8, <2>9 DEF Awaits
<1>15. QED
  BY <1>4, <1>8, <1>9, <1>11, <1>13, <1>14 DEF Shows, PopupOK, Follows

LEMMA DeliverShows ==
  ASSUME IInv, Deliver
  PROVE  Shows'
<1>1. /\ news # <<>> /\ news' = Tail(news) /\ UNCHANGED <<prefs, switch, inflight, restoring, moves>>
  BY DEF Deliver, worker
<1>2. CASE /\ Head(news).type = "sync" /\ UNCHANGED asks
           /\ popup' = IF Head(news).ctx = popup.prefs THEN [popup EXCEPT !.spinner = Head(news).on] ELSE popup
  <2>1. popup' = IF Spins(Head(news)) THEN [popup EXCEPT !.spinner = Head(news).on] ELSE popup
    BY <1>2 DEF Spins
  <2>2. QED
    BY <1>1, <1>2, <2>1, EventShows
<1>3. CASE /\ Head(news).type = "status" /\ UNCHANGED asks
           /\ popup' = [popup EXCEPT !.spinner = Head(news).on]
  <2>1. popup' = IF Spins(Head(news)) THEN [popup EXCEPT !.spinner = Head(news).on] ELSE popup
    BY <1>3 DEF Spins
  <2>2. QED
    BY <1>1, <1>3, <2>1, EventShows
<1>4. CASE /\ Head(news).type = "prefs"
           /\ popup' = [popup EXCEPT !.prefs = Head(news).ctx, !.phase = "idle"]
           /\ asks' = Append(asks, Ask("status", "account", None))
  BY <1>1, <1>4, PrefsShow
<1>5. QED
  BY <1>2, <1>3, <1>4, Zenon DEF Deliver
-----------------------------------------------------------------------------
(* The theorems.                                                           *)

LEMMA InitIInv == Init => IInv
<1> SUFFICES ASSUME Init PROVE IInv
  OBVIOUS
<1>1. Works
  BY StartWorks DEF Init, Starts
<1>2. MaxMoves \in Nat /\ MaxOpens \in Nat
  OBVIOUS
<1>3. Closed \in PopupRecords /\ Closed.phase = "closed"
  BY DEF Closed, PopupRecords
<1>4. QueuesTyped
  BY <1>2, <1>3 DEF Init, QueuesTyped
<1>5. Fresh /\ PopupOK
  BY <1>3 DEF Init, Fresh, PopupOK, Follows, NoSwitch
<1>6. QED
  BY <1>1, <1>4, <1>5 DEF Works, IInv

\* A step of a pass announces what it changes, whatever else is on its way.
LEMMA PassStepIInv ==
  ASSUME IInv, NEW p \in Passes, PassStep(p) \/ PassFails(p)
  PROVE  IInv'
<1>1. Works /\ moves \in [moves : Nat, opens : Nat]
  BY DEF IInv, Works, QueuesTyped
<1>2. Works' /\ Announces
  BY <1>1, LookWorks, HotEndsWorks, EnsuredWorks, RestEndsWorks, MarkWorks, PassFailsWorks DEF PassStep
<1>3. UNCHANGED <<prefs, mgr, switch, asks, restoring, popup>>
  BY DEF PassStep, PassFails, Look, HotEnds, Ensured, RestEnds, Mark
<1>4. moves' \in [moves : Nat, opens : Nat] /\ moves'.opens = moves.opens
  <2>1. moves' = moves \/ Spend("moves")
    BY DEF PassStep, PassFails, Look, HotEnds, Ensured, RestEnds, Mark
  <2>2. QED
    BY <1>1, <2>1 DEF Spend
<1>5. QueuesTyped' /\ Fresh' /\ PopupOK'
  BY <1>2, <1>3, <1>4, AnnouncedOK DEF Quiet
<1>6. QED
  BY <1>2, <1>5 DEF Works, IInv

LEMMA ConnectionIInv ==
  ASSUME IInv, Connect \/ Drop
  PROVE  IInv'
<1>1. Works
  BY DEF IInv, Works
<1>2. Works' /\ Announces
  BY <1>1, ConnectWorks, DropWorks
<1>3. Quiet
  BY DEF Quiet, Connect, Drop, Spend, IInv, QueuesTyped
<1>4. QED
  BY <1>2, <1>3, AnnouncedOK DEF Works, IInv

\* The popup's own steps leave the worker alone, and so do the requests it only queues.
LEMMA WorkerStays ==
  ASSUME Works, UNCHANGED <<worker, seen>>
  PROVE  Works'
BY DEF Works, worker, WorkerTyped, PassesTyped, SwitchTyped, InStep, CountIsExact, Counted, Counts,
       Earned, PassOK, Returning

LEMMA NextIInv == IInv /\ [Next]_vars => IInv'
<1> SUFFICES ASSUME IInv, [Next]_vars PROVE IInv'
  OBVIOUS
<1>1. Works /\ QueuesTyped
  BY DEF IInv, Works
<1>2. Works' /\ Shows' => IInv'
  BY DEF Works, Shows, IInv
<1>3. CASE Die
  BY <1>1, <1>2, <1>3, DieWorks, DieShows
<1>4. CASE BeginSwitch \/ MoveAccount \/ ClearScans \/ FinishSwitch
  BY <1>1, <1>2, <1>4, SwitchesWork, BeginSwitchShows, SwitchMovesShows, FinishSwitchShows
<1>5. CASE Restored
  BY <1>1, <1>2, <1>5, RestoredWorks, FinishRestoreShows DEF Restored
<1>6. CASE BeginRestore \/ Reply
  <2>1. UNCHANGED <<worker, seen>>
    BY <1>6 DEF BeginRestore, Reply
  <2>2. QED
    BY <1>1, <1>2, <1>6, <2>1, WorkerStays, BeginRestoreShows, ReplyShows
<1>7. CASE Open \/ Close \/ Reconnect \/ Deliver
  <2>1. UNCHANGED <<worker, seen>>
    BY <1>7 DEF Open, Close, Reconnect, Deliver
  <2>2. QED
    BY <1>1, <1>2, <1>7, <2>1, WorkerStays, OpenShows, CloseShows, ReconnectShows, DeliverShows
<1>8. CASE \E kind \in Kinds, c \in Contexts : Choose(kind, c)
  <2>1. UNCHANGED <<worker, seen>>
    BY <1>8 DEF Choose
  <2>2. QED
    BY <1>1, <1>2, <1>8, <2>1, WorkerStays, ChooseShows
<1>9. CASE UNCHANGED vars
  <2>1. UNCHANGED <<worker, seen>>
    BY <1>9 DEF vars
  <2>2. Quiet /\ Announces
    BY <1>1, <1>9 DEF vars, worker, Quiet, Announces, QueuesTyped
  <2>3. QED
    BY <1>1, <2>1, <2>2, WorkerStays, AnnouncedOK DEF Works, IInv
<1>10. QED
  BY <1>3, <1>4, <1>5, <1>6, <1>7, <1>8, <1>9, PassStepIInv, ConnectionIInv DEF Next, Handle, Go

\* Every reachable state satisfies the inductive invariant.
THEOREM InductiveInvariant == Spec => []IInv
BY InitIInv, NextIInv, PTL DEF Spec

\* runAllScans() and markContextSynced(): an account that is marked was scanned to the end,
\* or its pass was disturbed, or ended in the middle of a switch.
THEOREM MarksAreEarned == Spec => []MarkedMeansScanned
<1>1. IInv => MarkedMeansScanned
  BY DEF IInv, Earned, MarkedMeansScanned
<1>2. QED
  BY <1>1, InductiveInvariant, PTL

\* WalletContext's onSync() and refreshScanStatus(): when nothing is on its way, a popup that
\* follows shows the worker's account, and its spinner turns exactly while a first sync runs.
THEOREM SpinnerTellsTheTruth == Spec => []SpinnerIsTruthful
<1>1. IInv => TypeOK
  <2> SUFFICES ASSUME IInv PROVE TypeOK
    OBVIOUS
  <2>1. \A c \in Contexts : inflight[c] \in 0..Cardinality(Passes)
    BY CountedIsFinite DEF IInv, CountIsExact
  <2>2. popup.phase \in {"closed", "restoring", "switching", "idle", "dead"}
    BY DEF IInv, QueuesTyped, PopupRecords
  <2>3. QED
    BY <2>1, <2>2 DEF IInv, WorkerTyped, PassesTyped, PassTyped, SwitchTyped, TypeOK
<1>2. IInv => SpinnerIsTruthful
  <2> SUFFICES ASSUME IInv, Settled, popup.phase = "idle", ~popup.astray
               PROVE  popup.prefs = prefs /\ (popup.spinner <=> inflight[prefs] > 0)
    BY <1>1 DEF SpinnerIsTruthful
  <2>1. Follows /\ ~AskedFor("status") /\ \A i \in 1..Len(news) : ~Spins(news[i])
    BY DEF Settled, Follows, AskedFor
  <2>2. Awaits /\ SpinnerFollows
    BY <2>1 DEF IInv, PopupOK
  <2>3. QED
    BY <2>1, <2>2 DEF Awaits, SpinnerFollows, Runs
<1>3. QED
  BY <1>2, InductiveInvariant, PTL
=============================================================================
