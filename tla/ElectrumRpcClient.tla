------------------------- MODULE ElectrumRpcClient -------------------------
(***************************************************************************)
(* One ElectrumRpcClient: the WebSocket it dials, the connect() promise of *)
(* every dial, the table of outstanding JSON-RPC requests and their        *)
(* timers.  A callback of the browser (open, message, error, close, a      *)
(* timer) is one action, and the promise continuations it releases run in  *)
(* the same action, because no other callback runs before them.            *)
(*                                                                         *)
(* Sockets and Requests bound how many dials and requests a behaviour has; *)
(* an element is used once, as `new WebSocket' and ++runningRequestId do.  *)
(*                                                                         *)
(* The names that every specification has are the client's here, so that   *)
(* one module can speak of the client and of ElectrumConnection.           *)
(***************************************************************************)
CONSTANTS Sockets,    \* the WebSocket objects that connect() creates
          Requests,   \* the ids that ++runningRequestId hands out
          NoSocket    \* this.socket === null

ASSUME NoSocketAssumption == NoSocket \notin Sockets

VARIABLES
  socket,     \* this.socket
  ready,      \* readyState of every socket
  opened,     \* sockets whose open handler ran to the handshake
  attempt,    \* the connect() promise of every socket
  request,    \* what every request is, the socket it left on, its promise
  tracked,    \* keys of this.requests
  armed,      \* requests whose timeout is armed
  announced   \* last status emitted

clientVars == <<socket, ready, opened, attempt, request, tracked, armed, announced>>

ReadyStates    == {"unused", "connecting", "open", "closing", "closed"}
Purposes       == {"none", "version", "header", "call", "broadcast"}
PromiseStates  == {"unused", "pending", "resolved", "rejected"}
Statuses       == {"none", "connected", "error", "disconnected"}

Unused == [purpose |-> "none", on |-> NoSocket, promise |-> "unused"]

RequestRecords == [purpose : Purposes, on : Sockets, promise : PromiseStates] \cup {Unused}

ClientInit ==
  /\ socket  = NoSocket
  /\ ready   = [s \in Sockets |-> "unused"]
  /\ opened  = {}
  /\ attempt = [s \in Sockets |-> "unused"]
  /\ request = [q \in Requests |-> Unused]
  /\ tracked = {}
  /\ armed   = {}
  /\ announced = "none"

-----------------------------------------------------------------------------
(* Helpers: what the methods that other handlers call do to the state.     *)

\* socket.close(): a socket that is connecting or open starts to close.
Closed(s) == IF ready[s] \in {"connecting", "open"} THEN "closing" ELSE ready[s]

\* Faulty variant: the timers keep running.
RejectKeepsTimers(Q) ==
  /\ request' = [q \in Requests |->
                   IF q \in Q /\ request[q].promise = "pending"
                     THEN [request[q] EXCEPT !.promise = "rejected"]
                     ELSE request[q]]
  /\ tracked' = tracked \ Q
  /\ UNCHANGED armed

\* Settling the requests of Q deletes them from the map, and the reject closure
\* clears their timers.
Reject(Q) ==
  /\ request' = [q \in Requests |->
                   IF q \in Q /\ request[q].promise = "pending"
                     THEN [request[q] EXCEPT !.promise = "rejected"]
                     ELSE request[q]]
  /\ tracked' = tracked \ Q
  /\ armed'   = armed \ Q

\* Rejecting the handshake's request makes completeHandshake() reject, and its
\* catch settles the connect() promise of a socket that had opened.
HandshakeRejected(s) ==
  IF s \in opened /\ attempt[s] = "pending" THEN "rejected" ELSE attempt[s]

\* Faulty variant: the socket is given up but not closed.
DropSocketUnclosed(Q, attemptNow) ==
  /\ Reject(tracked \cup Q)
  /\ attempt' = [attempt EXCEPT ![socket] = attemptNow]
  /\ socket'  = NoSocket
  /\ announced' = "disconnected"
  /\ UNCHANGED ready

\* this.disconnect(detail) on a client that holds a socket; every tracked request
\* is rejected, and those of Q with them.
DropSocket(Q, attemptNow) ==
  /\ Reject(tracked \cup Q)
  /\ ready'   = [ready EXCEPT ![socket] = Closed(socket)]
  /\ attempt' = [attempt EXCEPT ![socket] = attemptNow]
  /\ socket'  = NoSocket
  /\ announced' = "disconnected"

\* Faulty variant: the attempt of a replaced socket is not settled.
FailOnlyCurrent(s) ==
  IF s = socket THEN DropSocket({}, "rejected")
                ELSE UNCHANGED <<socket, ready, attempt, request, tracked, armed, announced>>

\* fail(error) of the attempt that dials s, while it is not settled: the current
\* socket is torn down; a replaced one only settles its own promise.
Fail(s) ==
  IF s = socket
    THEN DropSocket({}, "rejected")
    ELSE /\ ready'   = [ready EXCEPT ![s] = Closed(s)]
         /\ attempt' = [attempt EXCEPT ![s] = "rejected"]
         /\ UNCHANGED <<socket, request, tracked, armed, announced>>

\* trackRequest() followed by socket.send(), for every request of Q.
Track(Q, purpose) ==
  /\ request' = [q \in Requests |->
                   IF q \in Q THEN [purpose |-> purpose, on |-> socket,
                                    promise |-> "pending"]
                              ELSE request[q]]
  /\ tracked' = tracked \cup Q
  /\ armed'   = armed \cup Q

Fresh(q) == request[q].promise = "unused"

-----------------------------------------------------------------------------
(* Calls.                                                                  *)

\* Faulty variant: the requests of the replaced connection stay tracked.
ConnectKeepsRequests(s) ==
  /\ ready[s] = "unused"
  /\ socket'  = s
  /\ IF socket = NoSocket
       THEN ready' = [ready EXCEPT ![s] = "connecting"] /\ UNCHANGED announced
       ELSE /\ ready' = [ready EXCEPT ![socket] = Closed(socket), ![s] = "connecting"]
            /\ announced' = "disconnected"
  /\ attempt' = [attempt EXCEPT ![s] = "pending"]
  /\ UNCHANGED <<opened, request, tracked, armed>>

\* connect(): drops the socket in use, then dials s.
Connect(s) ==
  /\ ready[s] = "unused"
  /\ socket'  = s
  /\ IF socket = NoSocket
       THEN /\ ready'   = [ready EXCEPT ![s] = "connecting"]
            /\ attempt' = [attempt EXCEPT ![s] = "pending"]
            /\ UNCHANGED <<request, tracked, armed, announced>>
       ELSE /\ Reject(tracked)
            /\ ready'   = [ready EXCEPT ![socket] = Closed(socket), ![s] = "connecting"]
            /\ attempt' = [attempt EXCEPT ![socket] = HandshakeRejected(socket),
                                          ![s] = "pending"]
            /\ announced' = "disconnected"
  /\ UNCHANGED opened

\* disconnect() called by the owner of the client.
Disconnect ==
  /\ socket # NoSocket
  /\ DropSocket({}, HandshakeRejected(socket))
  /\ UNCHANGED opened

\* sendRequest() and sendBatchRequest(): refused unless the socket is open.
Send(Q, purpose) ==
  /\ socket # NoSocket
  /\ ready[socket] = "open"
  /\ \A q \in Q : Fresh(q)
  /\ Track(Q, purpose)
  /\ UNCHANGED <<socket, ready, opened, attempt, announced>>

SendRequest(q) == \E purpose \in {"call", "broadcast"} : Send({q}, purpose)

\* All legs of a batch are tracked before the one frame is sent.
SendBatchRequest(Q) ==
  /\ \E q, r \in Q : q # r
  /\ Send(Q, "call")

-----------------------------------------------------------------------------
(* Callbacks of the socket.                                                *)

\* onopen of s, late when close() already overtook it.  A settled attempt ignores
\* it, a replaced one fails, the current one starts the handshake by sending
\* server.version as request q.
OnOpen(s, q) ==
  /\ \/ ready[s] = "connecting"
     \/ ready[s] = "closing" /\ s \notin opened
  /\ attempt[s] = "pending"
  /\ IF s = socket
       THEN /\ Fresh(q)
            /\ ready'  = [ready EXCEPT ![s] = "open"]
            /\ opened' = opened \cup {s}
            /\ Track({q}, "version")
            /\ UNCHANGED <<socket, attempt, announced>>
       ELSE /\ Fail(s)
            /\ UNCHANGED opened

\* Faulty variant: the connection counts as verified without the checkpoint header.
AnswerOkSkipsHeader(q, h) ==
  /\ q \in tracked
  /\ request[q].on = socket
  /\ ready[socket] = "open"
  /\ request' = [request EXCEPT ![q].promise = "resolved"]
  /\ tracked' = tracked \ {q}
  /\ armed'   = armed \ {q}
  /\ IF request[q].purpose = "version"
       THEN attempt' = [attempt EXCEPT ![socket] = "resolved"] /\ announced' = "connected"
       ELSE UNCHANGED <<attempt, announced>>
  /\ UNCHANGED <<socket, ready, opened>>

\* onmessage of the current socket: the peer answers request q.  The answer to
\* server.version releases the request for the checkpoint header, h.
AnswerOk(q, h) ==
  /\ q \in tracked
  /\ request[q].on = socket
  /\ ready[socket] = "open"
  /\ IF request[q].purpose = "version"
       THEN /\ Fresh(h)
            /\ request' = [request EXCEPT
                             ![q].promise = "resolved",
                             ![h] = [purpose |-> "header", on |-> socket,
                                     promise |-> "pending"]]
            /\ tracked' = (tracked \ {q}) \cup {h}
            /\ armed'   = (armed \ {q}) \cup {h}
            /\ UNCHANGED <<attempt, announced>>
       ELSE /\ request' = [request EXCEPT ![q].promise = "resolved"]
            /\ tracked' = tracked \ {q}
            /\ armed'   = armed \ {q}
            /\ IF request[q].purpose = "header"
                 THEN /\ attempt' = [attempt EXCEPT ![socket] = "resolved"]
                      /\ announced' = "connected"
                 ELSE UNCHANGED <<attempt, announced>>
  /\ UNCHANGED <<socket, ready, opened>>

\* onmessage of the current socket: an error, or a header of another chain.  A
\* handshake request that fails fails the attempt.
AnswerError(q) ==
  /\ q \in tracked
  /\ request[q].on = socket
  /\ ready[socket] = "open"
  /\ IF request[q].purpose \in {"version", "header"}
       THEN Fail(socket)
       ELSE /\ Reject({q})
            /\ UNCHANGED <<socket, ready, attempt, announced>>
  /\ UNCHANGED opened

\* onerror of s; the browser then closes the socket.  A settled attempt only
\* reports the error: tearing down is left to onclose.
OnError(s) ==
  /\ ready[s] \in {"connecting", "open"} \/ (ready[s] = "closing" /\ s \notin opened)
  /\ IF attempt[s] = "pending"
       THEN Fail(s)
       ELSE /\ ready'  = [ready EXCEPT ![s] = "closing"]
            /\ announced' = IF s = socket THEN "error" ELSE announced
            /\ UNCHANGED <<socket, attempt, request, tracked, armed>>
  /\ UNCHANGED opened

\* onclose of s, by the peer or after close(): before the open handler ran it
\* fails the attempt, afterwards it drops the socket if s is still in use.
OnClose(s) ==
  /\ ready[s] \in {"connecting", "open", "closing"}
  /\ ready' = [ready EXCEPT ![s] = "closed"]
  /\ IF s = socket
       THEN /\ Reject(tracked)
            /\ attempt' = [attempt EXCEPT ![s] =
                             IF @ = "pending" THEN "rejected" ELSE @]
            /\ socket'  = NoSocket
            /\ announced' = "disconnected"
       ELSE /\ attempt' = [attempt EXCEPT ![s] =
                             IF @ = "pending" /\ s \notin opened THEN "rejected" ELSE @]
            /\ UNCHANGED <<socket, request, tracked, armed, announced>>
  /\ UNCHANGED opened

-----------------------------------------------------------------------------
(* Timers.                                                                 *)

\* The connect watchdog of s; every settle clears it.
ConnectTimeout(s) ==
  /\ attempt[s] = "pending"
  /\ Fail(s)
  /\ UNCHANGED opened

\* The timeout of request q.  A broadcast leaves the connection alone, a handshake
\* request fails its attempt, any other drops whatever socket is in use.
RequestTimeout(q) ==
  /\ q \in armed
  /\ CASE request[q].purpose = "call" /\ socket # NoSocket ->
            DropSocket({q}, HandshakeRejected(socket))
       [] request[q].purpose \in {"version", "header"}
            /\ attempt[request[q].on] = "pending" -> Fail(request[q].on)
       [] OTHER ->
            /\ Reject({q})
            /\ UNCHANGED <<socket, ready, attempt, announced>>
  /\ UNCHANGED opened

ClientNext ==
  \/ \E s \in Sockets : Connect(s)
  \/ Disconnect
  \/ \E q \in Requests : SendRequest(q)
  \/ \E Q \in SUBSET Requests : SendBatchRequest(Q)
  \/ \E s \in Sockets, q \in Requests : OnOpen(s, q)
  \/ \E q, h \in Requests : AnswerOk(q, h)
  \/ \E q \in Requests : AnswerError(q)
  \/ \E s \in Sockets : OnError(s)
  \/ \E s \in Sockets : OnClose(s)
  \/ \E s \in Sockets : ConnectTimeout(s)
  \/ \E q \in Requests : RequestTimeout(q)

\* Armed timers fire; nothing is assumed of the peer or the browser, which may never
\* open, answer or close.
ClientFairness ==
  /\ \A s \in Sockets : WF_clientVars(ConnectTimeout(s))
  /\ \A q \in Requests : WF_clientVars(RequestTimeout(q))

ClientSpec == ClientInit /\ [][ClientNext]_clientVars /\ ClientFairness

-----------------------------------------------------------------------------
(* Properties.                                                             *)

\* Every variable stays in its set.
ClientTypeOK ==
  /\ socket  \in Sockets \cup {NoSocket}
  /\ ready   \in [Sockets -> ReadyStates]
  /\ opened  \in SUBSET Sockets
  /\ attempt \in [Sockets -> PromiseStates]
  /\ request \in [Requests -> RequestRecords]
  /\ tracked \in SUBSET Requests
  /\ armed   \in SUBSET Requests
  /\ announced \in Statuses

\* No timer outlives its request: the comment of trackRequest() promises that every
\* settle path clears it.
NoOrphanTimer == armed = tracked

\* An outstanding request was sent on the connection in use, so that no answer,
\* timeout or teardown is ever applied to a request of another connection.
TrackedOnCurrentSocket ==
  \A q \in tracked : request[q].on = socket /\ request[q].promise = "pending"

\* A request whose promise is pending is still tracked: nobody waits for a request
\* that the client forgot.
NoForgottenRequest ==
  \A q \in Requests : request[q].promise = "pending" => q \in tracked

\* A socket that is no longer in use is closing: replacing, failing or dropping a
\* connection never leaks a WebSocket.
NoLeakedSocket ==
  \A s \in Sockets : ready[s] \in {"connecting", "open"} => s = socket

\* 'connected' is announced only for the socket in use, whose peer has answered
\* server.version and served the checkpoint header.
ConnectedIsVerified ==
  announced = "connected" =>
    /\ socket # NoSocket
    /\ attempt[socket] = "resolved"
    /\ \A purpose \in {"version", "header"} : \E q \in Requests :
          request[q] = [purpose |-> purpose, on |-> socket, promise |-> "resolved"]

\* A timeout drops a connection only when the request that timed out was sent on it.
TimeoutDropsItsOwnConnection ==
  [][\A q \in Requests : RequestTimeout(q) /\ socket' # socket => request[q].on = socket]_clientVars

\* Every connect() and every request settles, whatever the peer does and whatever replaces
\* the socket: the reconnect loop and the scans await them.
PromisesSettle ==
  /\ \A s \in Sockets : attempt[s] = "pending" ~> attempt[s] # "pending"
  /\ \A q \in Requests : request[q].promise = "pending" ~> request[q].promise # "pending"
=============================================================================
