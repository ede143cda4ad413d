------------------------------ MODULE AzureRelay ------------------------------
(***************************************************************************)
(* The relay client of azure_relay.py: the worker that dials the cloud and *)
(* serves one socket at a time, the bounded queue between the scoreboard   *)
(* and the worker, and the operator's requests (sign in, cancel, sign out, *)
(* change or end the meet, reconnect) that reach the same state.           *)
(*                                                                         *)
(* Under gevent the requests run without yielding, so each is one action;  *)
(* the worker yields at every network call, so it is split there.  Clock   *)
(* readings are abstracted: a backoff delay elapses, and a heartbeat is    *)
(* acknowledged in time or late, at any moment.                            *)
(***************************************************************************)
EXTENDS Naturals, Sequences

CONSTANTS
  MeetIds,      \* meet IDs the operator chooses or the client generates
  NoMeet,       \* signed out: no credentials
  Requests,     \* bound: the kinds of request the operator makes
  QueueSize,    \* maxsize of the outgoing queue
  MaxUpdates,   \* bound: scoreboard updates forwarded
  MaxFlows,     \* bound: device-code flows started
  MaxAttempt    \* cap of the attempt counter: the length of the backoff schedule

RequestKinds == {"login", "logout", "meet_id", "end_meet", "reconnect"}

ASSUME MeetAssumption == NoMeet \notin MeetIds
ASSUME RequestAssumption == Requests \subseteq RequestKinds
ASSUME BoundAssumption ==
  /\ QueueSize \in Nat \ {0} /\ MaxAttempt \in Nat \ {0}
  /\ MaxUpdates \in Nat /\ MaxFlows \in Nat

VARIABLES
  creds,        \* the meet ID of self._creds, NoMeet when it is None
  state,        \* _state
  attempt,      \* _attempt, capped
  retry_wait,   \* whether _next_retry_at lies in the future
  reconnect,    \* the event _force_reconnect
  queue,        \* _queue
  device_flow,  \* the flow in progress, 0 when there is none
  flows,        \* flows started so far
  blocked,      \* flows with a complete_login call blocked in MSAL
  pc,           \* where the worker thread is
  held,         \* the meet ID of the credentials the worker read
  aliased,      \* whether those are still the object in self._creds
  authed,       \* the meet ID the cloud authenticated for the worker's socket
  up,           \* connected_evt: the socket has not been closed by the cloud
  cloud,        \* the meet the cloud has in session for this Pi
  published,    \* updates the scoreboard has forwarded
  delivered     \* the last update emitted to the cloud

account == <<creds, device_flow, flows, blocked>>
worker == <<pc, held, aliased, authed, up>>
outside == <<cloud, published, delivered>>
vars == <<account, state, attempt, retry_wait, reconnect, queue, worker, outside>>

States == {"disconnected", "needs_auth", "authenticating", "connecting",
           "connected", "degraded", "backoff"}

\* "off": not started; "idle": waiting in _run; "token", "dial", "open" and "push":
\* in the handshake, before the access token, in client.connect, before meet_open
\* and before the pushes that follow it; "serve": at the test of the serve loop;
\* "get": waiting for an event on an empty queue, past that test; "leave": past the
\* loop, in the client.disconnect of its finally block.
Handshake == {"token", "dial", "open", "push"}
Serving == {"serve", "get"}
Places == {"off", "idle", "leave"} \cup Handshake \cup Serving

\* Queue entries: n numbers the updates.
Close == [name |-> "meet_close", n |-> 0]
Update(n) == [name |-> "update_scoreboard", n |-> n]
Noop == [name |-> "__noop__", n |-> 0]

-----------------------------------------------------------------------------
(* The queue *)

\* Mutant: the queue has no maxsize.
forward_event_Unbounded(event) == queue' = Append(queue, event)

\* forward_event: put_nowait, whose failure drops the event.
forward_event(event) ==
  queue' = IF Len(queue) < QueueSize THEN Append(queue, event) ELSE queue

\* broadcast_scoreboard forwards every update, connected or not.
ForwardUpdate ==
  /\ published < MaxUpdates
  /\ published' = published + 1
  /\ forward_event(Update(published'))
  /\ UNCHANGED <<account, state, attempt, retry_wait, reconnect, worker, cloud, delivered>>

-----------------------------------------------------------------------------
(* The operator's requests *)

\* start(): the worker runs from now on.
started(place) == IF place = "off" THEN "idle" ELSE place

force_reconnect_state ==
  IF state \in {"backoff", "degraded", "disconnected"} THEN "connecting" ELSE state

force_reconnect ==
  /\ attempt' = 0
  /\ retry_wait' = FALSE
  /\ state' = force_reconnect_state
  /\ reconnect' = TRUE
  /\ pc' = started(pc)
  /\ forward_event(Noop)

ForceReconnect ==
  /\ "reconnect" \in Requests
  /\ force_reconnect
  /\ UNCHANGED <<account, held, aliased, authed, up, outside>>

\* rotate_meet_id and set_meet_id write the new ID into the credentials object,
\* which the worker may be holding.
SetMeetId(meet) ==
  /\ "meet_id" \in Requests /\ creds # NoMeet
  /\ creds' = meet
  /\ held' = IF aliased THEN meet ELSE held
  /\ force_reconnect
  /\ UNCHANGED <<device_flow, flows, blocked, aliased, authed, up, outside>>

EndMeet ==
  /\ "end_meet" \in Requests /\ creds # NoMeet
  /\ forward_event(Close)
  /\ UNCHANGED <<account, state, attempt, retry_wait, reconnect, worker, outside>>

Logout ==
  /\ "logout" \in Requests
  /\ forward_event(Close)
  /\ creds' = NoMeet
  /\ aliased' = FALSE
  /\ state' = "needs_auth"
  /\ UNCHANGED <<device_flow, flows, blocked, attempt, retry_wait,
                 reconnect, pc, held, authed, up, outside>>

RequestLogin ==
  /\ "login" \in Requests /\ flows < MaxFlows
  /\ flows' = flows + 1
  /\ device_flow' = flows'
  /\ state' = "authenticating"
  /\ UNCHANGED <<creds, blocked, attempt, retry_wait, reconnect, queue,
                 worker, outside>>

\* complete_login up to its blocking call.
CompleteLogin ==
  /\ device_flow # 0
  /\ blocked' = blocked \cup {device_flow}
  /\ UNCHANGED <<creds, device_flow, flows, state, attempt, retry_wait,
                 reconnect, queue, worker, outside>>

\* The rest of complete_login.  MSAL looks at expires_at only between two polls,
\* so the poll under way when the flow was cancelled may still bring a token.
LoginSucceeds(flow, meet) ==
  /\ flow \in blocked
  /\ blocked' = blocked \ {flow}
  /\ creds' = meet
  /\ aliased' = FALSE
  /\ device_flow' = 0
  /\ attempt' = 0
  /\ state' = "connecting"
  /\ pc' = started(pc)
  /\ UNCHANGED <<flows, retry_wait, reconnect, queue, held, authed, up, outside>>

LoginFails(flow) ==
  /\ flow \in blocked
  /\ blocked' = blocked \ {flow}
  /\ device_flow' = 0
  /\ state' = "needs_auth"
  /\ UNCHANGED <<creds, flows, attempt, retry_wait, reconnect, queue,
                 worker, outside>>

\* Mutant: a signed-in client is taken to be connected.
cancelled_state_Connected == IF creds # NoMeet THEN "connected" ELSE "needs_auth"

cancelled_state == IF creds # NoMeet THEN "disconnected" ELSE "needs_auth"

CancelLogin ==
  /\ "login" \in Requests
  /\ device_flow' = 0
  /\ state' = cancelled_state
  /\ UNCHANGED <<creds, flows, blocked, attempt, retry_wait, reconnect, queue,
                 worker, outside>>

-----------------------------------------------------------------------------
(* The worker *)

\* Mutant: the worker thread ends with its connection.
failed_Dies ==
  /\ pc' = "off"
  /\ attempt' = IF attempt < MaxAttempt THEN attempt + 1 ELSE attempt
  /\ retry_wait' = TRUE
  /\ state' = "backoff"

\* The except arm of _run: whatever was in progress, wait and try again.
failed ==
  /\ pc' = "idle"
  /\ attempt' = IF attempt < MaxAttempt THEN attempt + 1 ELSE attempt
  /\ retry_wait' = TRUE
  /\ state' = "backoff"

\* One turn of _run that decides to connect.
Wake ==
  /\ pc = "idle"
  /\ state # "needs_auth" /\ creds # NoMeet /\ ~retry_wait
  /\ pc' = "token"
  /\ held' = creds /\ aliased' = TRUE
  /\ UNCHANGED <<account, state, attempt, retry_wait, reconnect, queue, authed, up,
                 outside>>

BackoffElapses ==
  /\ retry_wait
  /\ retry_wait' = FALSE
  /\ UNCHANGED <<account, state, attempt, reconnect, queue, worker, outside>>

\* The access token is granted; client.connect takes the meet ID of this moment.
TokenGranted ==
  /\ pc = "token"
  /\ pc' = "dial" /\ authed' = held
  /\ UNCHANGED <<account, state, attempt, retry_wait, reconnect, queue, held, aliased,
                 up, outside>>

\* The socket connects.
Dial ==
  /\ pc = "dial"
  /\ pc' = "open" /\ up' = TRUE
  /\ UNCHANGED <<account, state, attempt, retry_wait, reconnect, queue, held, aliased,
                 authed, outside>>

\* The cloud refuses a meet_open for another ID than the socket's (the operator has
\* changed it since); no callback brings the answer, and the handshake goes on.
SendMeetOpen ==
  /\ pc = "open" /\ up
  /\ cloud' = IF held = authed THEN held ELSE cloud
  /\ pc' = "push"
  /\ UNCHANGED <<account, state, attempt, retry_wait, reconnect, queue, held, aliased,
                 authed, up, published, delivered>>

\* The bundle and the context are pushed; the handshake is over.
Connected ==
  /\ pc = "push" /\ up
  /\ pc' = "serve"
  /\ state' = "connected"
  /\ attempt' = 0 /\ retry_wait' = FALSE /\ reconnect' = FALSE
  /\ UNCHANGED <<account, queue, held, aliased, authed, up, outside>>

\* Anything raised in the handshake: no token, no socket, an emit that fails.
HandshakeFails ==
  /\ pc \in Handshake
  /\ failed
  /\ UNCHANGED <<account, reconnect, queue, held, aliased, authed, up, outside>>

\* With nothing to send, the worker waits for an event, or until its timeout.
Await ==
  /\ pc = "serve" /\ up /\ ~reconnect /\ queue = <<>>
  /\ pc' = "get"
  /\ UNCHANGED <<account, state, attempt, retry_wait, reconnect, queue, held, aliased,
                 authed, up, outside>>

GetTimesOut ==
  /\ pc = "get" /\ queue = <<>>
  /\ pc' = "serve"
  /\ UNCHANGED <<account, state, attempt, retry_wait, reconnect, queue, held, aliased,
                 authed, up, outside>>

\* The worker gets an event: right after the test of the loop, without yielding,
\* or in a wait, whatever has been requested since that test.
taking == queue # <<>> /\ (pc = "get" \/ (pc = "serve" /\ up /\ ~reconnect))

\* One turn of the serve loop that takes an event and emits it.
Emit ==
  /\ taking /\ (up \/ Head(queue).name = "__noop__")
  /\ pc' = "serve"
  /\ queue' = Tail(queue)
  /\ cloud' = IF Head(queue).name = "meet_close" THEN NoMeet ELSE cloud
  /\ delivered' = IF Head(queue).name = "update_scoreboard" THEN Head(queue).n ELSE delivered
  /\ UNCHANGED <<account, state, attempt, retry_wait, reconnect, held, aliased, authed,
                 up, published>>

\* Mutant: the event is put back for the next connection.
after_failed_emit_Requeued == Append(Tail(queue), Head(queue))

after_failed_emit == Tail(queue)

\* The same turn, when the emit raises: the event has left the queue, and the worker
\* enters the finally block.
EmitFails ==
  /\ taking /\ Head(queue).name # "__noop__"
  /\ queue' = after_failed_emit
  /\ pc' = "leave"
  /\ UNCHANGED <<account, state, attempt, retry_wait, reconnect, held, aliased, authed,
                 up, outside>>

\* The age of the last heartbeat's acknowledgement, at the end of a turn.
Heartbeat ==
  /\ pc = "serve"
  /\ \/ state = "connected" /\ state' = "degraded"
     \/ state = "degraded" /\ state' = "connected"
  /\ UNCHANGED <<account, attempt, retry_wait, reconnect, queue, worker, outside>>

\* The cloud closes the socket.
CloudDrops ==
  /\ pc \in {"open", "push"} \cup Serving /\ up
  /\ up' = FALSE
  /\ UNCHANGED <<account, state, attempt, retry_wait, reconnect, queue, pc, held,
                 aliased, authed, outside>>

\* Mutant: a requested reconnect is only seen while the socket is healthy.
must_leave_Healthy == ~up \/ (reconnect /\ state = "connected")

must_leave == ~up \/ reconnect

\* The loop ends, and the worker enters the finally block.
LeaveServe ==
  /\ pc = "serve" /\ must_leave
  /\ pc' = "leave"
  /\ UNCHANGED <<account, state, attempt, retry_wait, reconnect, queue, held, aliased,
                 authed, up, outside>>

\* client.disconnect returns; the rest of the finally block (disconnected, if the
\* status still is connected or degraded) and the raise lead back to _run.
Disconnected ==
  /\ pc = "leave"
  /\ failed
  /\ UNCHANGED <<account, reconnect, queue, held, aliased, authed, up, outside>>

-----------------------------------------------------------------------------
\* A Pi that was signed in when it was last switched off starts its worker.
Init ==
  /\ creds \in MeetIds \cup {NoMeet}
  /\ state = IF creds = NoMeet THEN "needs_auth" ELSE "disconnected"
  /\ pc = IF creds = NoMeet THEN "off" ELSE "idle"
  /\ attempt = 0 /\ retry_wait = FALSE /\ reconnect = FALSE
  /\ queue = <<>>
  /\ device_flow = 0 /\ flows = 0 /\ blocked = {}
  /\ held = NoMeet /\ aliased = FALSE /\ authed = NoMeet /\ up = FALSE
  /\ cloud = NoMeet /\ published = 0 /\ delivered = 0

Operator ==
  \/ ForceReconnect \/ EndMeet \/ Logout
  \/ \E meet \in MeetIds : SetMeetId(meet)
  \/ RequestLogin \/ CompleteLogin \/ CancelLogin
  \/ \E flow \in 1..MaxFlows, meet \in MeetIds : LoginSucceeds(flow, meet)
  \/ \E flow \in 1..MaxFlows : LoginFails(flow)

Worker ==
  Wake \/ SendMeetOpen \/ Connected \/ Await \/ GetTimesOut \/ LeaveServe \/ Disconnected

Network ==
  TokenGranted \/ Dial \/ HandshakeFails \/ Emit \/ EmitFails \/ Heartbeat \/ CloudDrops

Next == ForwardUpdate \/ Operator \/ Worker \/ BackoffElapses \/ Network

Spec == Init /\ [][Next]_vars

\* The worker thread is scheduled, waits and delays end, an emit on a closed socket
\* raises, and the network, however often it fails, also succeeds again and again.
Fairness ==
  /\ WF_vars(Wake) /\ WF_vars(LeaveServe) /\ WF_vars(Disconnected)
  /\ WF_vars(BackoffElapses)
  /\ WF_vars(GetTimesOut) /\ WF_vars(pc = "get" /\ (Emit \/ EmitFails))
  /\ WF_vars(pc \in {"open", "push"} /\ ~up /\ HandshakeFails)
  /\ SF_vars(TokenGranted) /\ SF_vars(Dial) /\ SF_vars(SendMeetOpen) /\ SF_vars(Connected)
  /\ SF_vars(Emit)

FairSpec == Spec /\ Fairness

-----------------------------------------------------------------------------
(* Properties *)

Events == [name: {"__noop__", "meet_close", "update_scoreboard"}, n: 0..MaxUpdates]

\* Types: the queue keeps to its size, and the pending device-code flow is one
\* that was started.
TypeOK ==
  /\ creds \in MeetIds \cup {NoMeet} /\ state \in States
  /\ attempt \in 0..MaxAttempt
  /\ retry_wait \in BOOLEAN /\ reconnect \in BOOLEAN
  /\ queue \in Seq(Events) /\ Len(queue) <= QueueSize
  /\ flows \in 0..MaxFlows /\ device_flow \in 0..flows
  /\ blocked \in SUBSET (1..flows)
  /\ pc \in Places /\ held \in MeetIds \cup {NoMeet}
  /\ authed \in MeetIds \cup {NoMeet}
  /\ aliased \in BOOLEAN /\ up \in BOOLEAN
  /\ cloud \in MeetIds \cup {NoMeet}
  /\ published \in 0..MaxUpdates /\ delivered \in 0..MaxUpdates

\* The status never claims a connection nobody serves: whatever the operator
\* does, connected and degraded are shown only while the worker is in the serve
\* loop, or closes its socket behind it.
ShownConnectedIsServed ==
  state \in {"connected", "degraded"} => pc \in Serving \cup {"leave"}

\* A worker that shows a backoff has a failure on its counter: no request that
\* resets the counter leaves the backoff on the display.
BackoffCountsFailures == state = "backoff" => attempt > 0

\* Reconnects, failed emits and a full queue may lose updates, but the worker
\* emits those that are left once each and in the order of the boards.  (How the
\* cloud passes them on is LiveFeed's subject.)
DeliveredInOrder == [][delivered' # delivered => delivered' > delivered]_vars

\* "it should reconnect consistently" (docs/plan-azure.md:18): a signed-in relay
\* that lost its connection serves again, unless the operator signs out or a
\* sign-in fails.
ComesBack ==
  (pc \notin Serving /\ creds # NoMeet) ~>
    (pc \in Serving \/ creds = NoMeet \/ state = "needs_auth")

\* A reconnect requested while a socket is served ends that socket.
ReconnectLeaves == (pc \in Serving /\ reconnect) ~> (pc \notin Serving)

\* An update in the queue does not stay there.
QueueDrains ==
  \A n \in 1..MaxUpdates :
    (\E i \in DOMAIN queue : queue[i].n = n) ~>
      (\/ ~\E i \in DOMAIN queue : queue[i].n = n
       \/ creds = NoMeet \/ state = "needs_auth")
=============================================================================
