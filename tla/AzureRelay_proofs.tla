--------------------------- MODULE AzureRelay_proofs ---------------------------
(***************************************************************************)
(* Proofs about the relay client for every queue size, every set of meet   *)
(* IDs and every number of updates, sign-ins and failures.                 *)
(***************************************************************************)
EXTENDS AzureRelay, TLAPS

-----------------------------------------------------------------------------
(* Types *)

\* Every counter may be reset.
LEMMA Resets ==
  /\ 0 \in 0..MaxAttempt /\ 0 \in 0..MaxUpdates /\ 0 \in 0..MaxFlows
  /\ \A n \in 0..MaxFlows : 0 \in 0..n
  BY BoundAssumption

\* The counters, and those in the queue, are natural numbers.
LEMMA CountersNat ==
  ASSUME TypeOK
  PROVE  /\ published \in Nat /\ delivered \in Nat
         /\ \A i \in 1..Len(queue) : queue[i].n \in Nat
<1>1. \A n \in 0..MaxUpdates : n \in Nat
  BY BoundAssumption
<1>2. \A i \in 1..Len(queue) : queue[i] \in Events
  BY DEF TypeOK
<1>3. \A i \in 1..Len(queue) : queue[i].n \in 0..MaxUpdates
  BY <1>2 DEF Events
<1> QED BY <1>1, <1>3 DEF TypeOK

\* forward_event keeps the queue typed and within its size.
LEMMA ForwardTyped ==
  ASSUME TypeOK, NEW event \in Events, forward_event(event)
  PROVE  queue' \in Seq(Events) /\ Len(queue') <= QueueSize
<1>1. CASE Len(queue) < QueueSize
  BY <1>1, BoundAssumption DEF forward_event, TypeOK
<1>2. CASE ~(Len(queue) < QueueSize)
  BY <1>2 DEF forward_event, TypeOK
<1> QED BY <1>1, <1>2

LEMMA EventsTyped ==
  /\ Noop \in Events
  /\ Close \in Events
  /\ \A n \in 0..MaxUpdates : Update(n) \in Events
  BY BoundAssumption DEF Noop, Close, Update, Events

\* Taking the first event keeps the queue typed.
LEMMA TailTyped ==
  ASSUME TypeOK, queue # <<>>
  PROVE  /\ Tail(queue) \in Seq(Events) /\ Len(Tail(queue)) <= QueueSize
         /\ Head(queue) \in Events
  BY BoundAssumption DEF TypeOK

\* The except arm of _run keeps the worker's variables typed.
LEMMA FailedTyped ==
  ASSUME TypeOK, failed
  PROVE  /\ pc' \in Places /\ attempt' \in 0..MaxAttempt
         /\ retry_wait' \in BOOLEAN /\ state' \in States
  BY BoundAssumption DEF TypeOK, failed, Places, Handshake, Serving, States

LEMMA ForceReconnectTyped ==
  ASSUME TypeOK, force_reconnect
  PROVE  /\ pc' \in Places /\ attempt' \in 0..MaxAttempt /\ state' \in States
         /\ retry_wait' \in BOOLEAN /\ reconnect' \in BOOLEAN
         /\ queue' \in Seq(Events) /\ Len(queue') <= QueueSize
<1>1. queue' \in Seq(Events) /\ Len(queue') <= QueueSize
  BY EventsTyped, ForwardTyped DEF force_reconnect
<1>2. pc' \in Places /\ state' \in States
  BY DEF TypeOK, force_reconnect, force_reconnect_state, started, Places, Handshake,
         Serving, States
<1>3. attempt' \in 0..MaxAttempt
  BY Resets DEF force_reconnect
<1>4. retry_wait' \in BOOLEAN /\ reconnect' \in BOOLEAN
  BY DEF force_reconnect
<1> QED BY <1>1, <1>2, <1>3, <1>4

\* One request of the operator keeps the types.
LEMMA OperatorTyped ==
  ASSUME TypeOK, Operator
  PROVE  TypeOK'
<1> USE DEF account, worker, outside
<1>1. CASE ForceReconnect
  BY <1>1, ForceReconnectTyped DEF ForceReconnect, TypeOK
<1>2. CASE EndMeet
  <2>1. queue' \in Seq(Events) /\ Len(queue') <= QueueSize
    BY <1>2, EventsTyped, ForwardTyped DEF EndMeet, TypeOK
  <2> QED BY <1>2, <2>1 DEF EndMeet, TypeOK
<1>3. CASE Logout
  <2>1. queue' \in Seq(Events) /\ Len(queue') <= QueueSize
    BY <1>3, EventsTyped, ForwardTyped DEF Logout, TypeOK
  <2> QED BY <1>3, <2>1 DEF Logout, TypeOK, States
<1>4. ASSUME NEW meet \in MeetIds, SetMeetId(meet)
      PROVE  TypeOK'
  BY <1>4, ForceReconnectTyped DEF SetMeetId, TypeOK
<1>5. CASE RequestLogin
  BY <1>5, BoundAssumption DEF RequestLogin, TypeOK, States
<1>6. CASE CompleteLogin
  BY <1>6, BoundAssumption DEF CompleteLogin, TypeOK
<1>7. CASE CancelLogin
  BY <1>7, BoundAssumption DEF CancelLogin, cancelled_state, TypeOK, States
<1>8. ASSUME NEW flow \in 1..MaxFlows, NEW meet \in MeetIds, LoginSucceeds(flow, meet)
      PROVE  TypeOK'
  <2>1. attempt' \in 0..MaxAttempt /\ device_flow' \in 0..flows'
    BY <1>8, Resets DEF LoginSucceeds, TypeOK
  <2>2. pc' \in Places /\ state' \in States
    BY <1>8 DEF LoginSucceeds, started, TypeOK, States, Places, Handshake, Serving
  <2> QED BY <1>8, <2>1, <2>2 DEF LoginSucceeds, TypeOK
<1>9. ASSUME NEW flow \in 1..MaxFlows, LoginFails(flow)
      PROVE  TypeOK'
  BY <1>9, BoundAssumption DEF LoginFails, TypeOK, States
<1> QED BY <1>1, <1>2, <1>3, <1>4, <1>5, <1>6, <1>7, <1>8, <1>9 DEF Operator

\* One step of the worker, or of the network it uses, keeps the types.
LEMMA WorkerTyped ==
  ASSUME TypeOK, Worker \/ Network \/ BackoffElapses
  PROVE  TypeOK'
<1> USE DEF account, worker, outside
<1>1. CASE Wake
  BY <1>1 DEF Wake, TypeOK, Places, Handshake, Serving
<1>2. CASE SendMeetOpen
  BY <1>2 DEF SendMeetOpen, TypeOK, Places, Handshake, Serving
<1>3. CASE Connected
  <2>1. attempt' \in 0..MaxAttempt /\ pc' \in Places /\ state' \in States
    BY <1>3, Resets DEF Connected, Places, Handshake, Serving, States
  <2> QED BY <1>3, <2>1 DEF Connected, TypeOK
<1>4. CASE LeaveServe
  BY <1>4 DEF LeaveServe, TypeOK, Places, Handshake, Serving
<1>5. CASE Dial
  BY <1>5 DEF Dial, TypeOK, Places, Handshake, Serving
<1>6. CASE HandshakeFails
  BY <1>6, FailedTyped DEF HandshakeFails, TypeOK
<1>7. CASE Emit
  <2>1. Head(queue).n \in 0..MaxUpdates
    BY <1>7, TailTyped DEF Emit, taking, Events
  <2>2. pc' \in Places
    BY <1>7 DEF Emit, Places, Handshake, Serving
  <2> QED BY <1>7, <2>1, <2>2, TailTyped DEF Emit, taking, TypeOK
<1>8. CASE EmitFails
  <2>1. pc' \in Places
    BY <1>8 DEF EmitFails, Places, Handshake, Serving
  <2> QED BY <1>8, <2>1, TailTyped DEF EmitFails, taking, after_failed_emit, TypeOK
<1>9. CASE Await \/ GetTimesOut
  BY <1>9 DEF Await, GetTimesOut, TypeOK, Places, Handshake, Serving
<1>13. CASE Disconnected
  BY <1>13, FailedTyped DEF Disconnected, TypeOK
<1>14. CASE TokenGranted
  BY <1>14 DEF TokenGranted, TypeOK, Places, Handshake, Serving
<1>12. CASE Heartbeat
  BY <1>12 DEF Heartbeat, TypeOK, States
<1>10. CASE CloudDrops
  BY <1>10 DEF CloudDrops, TypeOK
<1>11. CASE BackoffElapses
  BY <1>11 DEF BackoffElapses, TypeOK
<1> QED BY <1>1, <1>2, <1>3, <1>4, <1>5, <1>6, <1>7, <1>8, <1>9, <1>10, <1>11, <1>12,
           <1>13, <1>14
        DEF Worker, Network

LEMMA ForwardUpdateTyped ==
  ASSUME TypeOK, ForwardUpdate
  PROVE  TypeOK'
<1>1. published' \in 0..MaxUpdates
  BY BoundAssumption DEF ForwardUpdate, TypeOK
<1>2. queue' \in Seq(Events) /\ Len(queue') <= QueueSize
  BY <1>1, EventsTyped, ForwardTyped DEF ForwardUpdate
<1> QED BY <1>1, <1>2 DEF ForwardUpdate, TypeOK, account, worker

LEMMA TypeStep ==
  ASSUME TypeOK, [Next]_vars
  PROVE  TypeOK'
<1>1. CASE UNCHANGED vars
  BY <1>1 DEF vars, account, worker, outside, TypeOK
<1> QED BY <1>1, OperatorTyped, WorkerTyped, ForwardUpdateTyped DEF Next

\* The client keeps its types and its queue within its size (TypeOK).
THEOREM TypeCorrect == Spec => []TypeOK
<1>1. Init => TypeOK
  <2> SUFFICES ASSUME Init PROVE TypeOK
    OBVIOUS
  <2>1. state \in States /\ pc \in Places
    BY DEF Init, States, Places, Handshake
  <2>2. queue \in Seq(Events) /\ Len(queue) <= QueueSize
    BY BoundAssumption DEF Init
  <2>3. /\ attempt \in 0..MaxAttempt /\ flows \in 0..MaxFlows /\ device_flow \in 0..flows
        /\ published \in 0..MaxUpdates /\ delivered \in 0..MaxUpdates
    BY Resets DEF Init
  <2> QED BY <2>1, <2>2, <2>3 DEF Init, TypeOK
<1>2. TypeOK /\ [Next]_vars => TypeOK'
  BY TypeStep
<1> QED BY <1>1, <1>2, PTL DEF Spec

-----------------------------------------------------------------------------
(* The status display *)

StatusInv == ShownConnectedIsServed /\ BackoffCountsFailures

\* What the operator sees of the connection is true whatever is requested and
\* however the network fails.
LEMMA StatusTruthful == Spec => []StatusInv
<1> USE DEF StatusInv, ShownConnectedIsServed, BackoffCountsFailures, Serving
<1>1. Init => StatusInv
  BY DEF Init
<1>2. TypeOK /\ StatusInv /\ [Next]_vars => StatusInv'
  <2> SUFFICES ASSUME TypeOK, StatusInv, [Next]_vars
               PROVE  StatusInv'
    OBVIOUS
  <2> USE DEF account, worker, outside
  <2>1. CASE failed
    BY <2>1, BoundAssumption DEF failed, TypeOK
  <2>2. CASE force_reconnect
    BY <2>2 DEF force_reconnect, force_reconnect_state, started
  <2>3. CASE ForwardUpdate \/ EndMeet \/ CompleteLogin \/ BackoffElapses \/ CloudDrops \/ Emit
    BY <2>3 DEF ForwardUpdate, EndMeet, CompleteLogin, BackoffElapses, CloudDrops, Emit
  <2>4. CASE Logout \/ RequestLogin \/ CancelLogin
    BY <2>4 DEF Logout, RequestLogin, CancelLogin, cancelled_state
  <2>5. ASSUME NEW flow, NEW meet, LoginSucceeds(flow, meet) \/ LoginFails(flow)
        PROVE  StatusInv'
    BY <2>5 DEF LoginSucceeds, LoginFails
  <2>6. CASE Wake \/ TokenGranted \/ Dial \/ SendMeetOpen
    BY <2>6 DEF Wake, TokenGranted, Dial, SendMeetOpen
  <2>7. CASE Connected \/ Heartbeat \/ Await \/ GetTimesOut
    BY <2>7 DEF Connected, Heartbeat, Await, GetTimesOut
  <2>8. CASE LeaveServe \/ EmitFails
    BY <2>8 DEF LeaveServe, EmitFails, taking
  <2>9. CASE UNCHANGED vars
    BY <2>9 DEF vars
  <2> QED BY <2>1, <2>2, <2>3, <2>4, <2>5, <2>6, <2>7, <2>8, <2>9
          DEF Next, Operator, Worker, Network, ForceReconnect, SetMeetId,
              HandshakeFails, Disconnected
<1> QED BY <1>1, <1>2, TypeCorrect, PTL DEF Spec

\* Connected and degraded are shown only by a worker that serves a socket, or
\* closes the one it served (ShownConnectedIsServed).
THEOREM ConnectedIsServed == Spec => []ShownConnectedIsServed
<1>1. StatusInv => ShownConnectedIsServed
  BY DEF StatusInv
<1> QED BY <1>1, StatusTruthful, PTL

\* A backoff is shown only with a failure on the counter (BackoffCountsFailures).
THEOREM BackoffIsCounted == Spec => []BackoffCountsFailures
<1>1. StatusInv => BackoffCountsFailures
  BY DEF StatusInv
<1> QED BY <1>1, StatusTruthful, PTL

-----------------------------------------------------------------------------
(* The order of the updates *)

\* The updates in the queue are newer than the last one delivered, older ones
\* first.  Without this, DeliveredInOrder says nothing about the next step.
QueueInOrder ==
  /\ delivered <= published
  /\ \A i \in 1..Len(queue) :
       queue[i].name = "update_scoreboard" =>
         /\ delivered < queue[i].n /\ queue[i].n <= published
         /\ \A j \in 1..(i - 1) :
              queue[j].name = "update_scoreboard" => queue[j].n < queue[i].n

\* Any event but an update may be added.
LEMMA ForwardKeepsOrder ==
  ASSUME TypeOK, QueueInOrder, NEW event \in Events, forward_event(event),
         event.name # "update_scoreboard", UNCHANGED <<published, delivered>>
  PROVE  QueueInOrder'
<1>1. CASE Len(queue) < QueueSize
  <2>1. queue' = Append(queue, event)
    BY <1>1 DEF forward_event
  <2>2. /\ Len(queue') = Len(queue) + 1
        /\ \A i \in 1..Len(queue) : queue'[i] = queue[i]
        /\ queue'[Len(queue) + 1] = event
    BY <2>1 DEF TypeOK
  <2> QED BY <2>2 DEF QueueInOrder, TypeOK
<1>2. CASE ~(Len(queue) < QueueSize)
  BY <1>2 DEF forward_event, QueueInOrder
<1> QED BY <1>1, <1>2

\* The newest update may be added, or be lost to a full queue.
LEMMA UpdateKeepsOrder ==
  ASSUME TypeOK, QueueInOrder, ForwardUpdate
  PROVE  QueueInOrder'
<1>1. published' = published + 1 /\ published \in Nat /\ delivered \in Nat
      /\ delivered' = delivered
  BY CountersNat DEF ForwardUpdate
<1>2. \A i \in 1..Len(queue) : queue[i].n \in Nat
  BY CountersNat
<1>3. CASE Len(queue) < QueueSize
  <2>1. queue' = Append(queue, Update(published'))
    BY <1>3 DEF forward_event, ForwardUpdate
  <2>2. /\ Len(queue') = Len(queue) + 1
        /\ \A i \in 1..Len(queue) : queue'[i] = queue[i]
        /\ queue'[Len(queue) + 1].n = published + 1
    BY <1>1, <2>1 DEF TypeOK, Update
  <2>3. Len(queue) \in Nat /\ delivered' <= published'
    BY <1>1 DEF TypeOK, QueueInOrder
  <2>4. ASSUME NEW i \in 1..Len(queue'), queue'[i].name = "update_scoreboard"
        PROVE  /\ delivered' < queue'[i].n /\ queue'[i].n <= published'
               /\ \A j \in 1..(i - 1) :
                    queue'[j].name = "update_scoreboard" => queue'[j].n < queue'[i].n
    <3>1. CASE i \in 1..Len(queue)
      <4>1. queue'[i] = queue[i]
        BY <2>2, <3>1
      <4>2. /\ delivered < queue[i].n /\ queue[i].n <= published
            /\ \A j \in 1..(i - 1) :
                 queue[j].name = "update_scoreboard" => queue[j].n < queue[i].n
        BY <2>4, <3>1, <4>1 DEF QueueInOrder
      <4>3. queue[i].n <= published'
        BY <1>1, <1>2, <3>1, <4>2
      <4>4. \A j \in 1..(i - 1) : queue'[j] = queue[j]
        BY <2>2, <2>3, <3>1
      <4> QED BY <1>1, <4>1, <4>2, <4>3, <4>4
    <3>2. CASE i = Len(queue) + 1
      <4>1. \A j \in 1..(i - 1) : j \in 1..Len(queue) /\ queue'[j] = queue[j]
        BY <2>2, <2>3, <3>2
      <4>2. \A j \in 1..Len(queue) :
              queue[j].name = "update_scoreboard" => queue[j].n <= published
        BY DEF QueueInOrder
      <4> QED BY <1>1, <1>2, <2>2, <3>2, <4>1, <4>2 DEF QueueInOrder
    <3> QED BY <2>2, <2>3, <3>1, <3>2
  <2> QED BY <2>3, <2>4 DEF QueueInOrder
<1>4. CASE ~(Len(queue) < QueueSize)
  <2>1. queue' = queue
    BY <1>4 DEF forward_event, ForwardUpdate
  <2> QED BY <1>1, <1>2, <2>1 DEF QueueInOrder
<1> QED BY <1>3, <1>4

\* Taking the first event, delivered or lost, keeps the rest in order.
LEMMA TakeKeepsOrder ==
  ASSUME TypeOK, QueueInOrder, queue # <<>>, queue' = Tail(queue), published' = published,
         \/ delivered' = delivered
         \/ Head(queue).name = "update_scoreboard" /\ delivered' = Head(queue).n
  PROVE  QueueInOrder'
<1>1. /\ Len(queue) \in Nat \ {0} /\ Len(queue') = Len(queue) - 1
      /\ \A i \in 1..Len(queue') : queue'[i] = queue[i + 1]
      /\ Head(queue) = queue[1]
  BY DEF TypeOK
<1>2. /\ published \in Nat /\ delivered \in Nat
      /\ \A i \in 1..Len(queue) : queue[i].n \in Nat
  BY CountersNat
<1>3. delivered' <= published'
  BY <1>1, <1>2 DEF QueueInOrder
<1>4. ASSUME NEW i \in 1..Len(queue'), queue'[i].name = "update_scoreboard"
      PROVE  /\ delivered' < queue'[i].n /\ queue'[i].n <= published'
             /\ \A j \in 1..(i - 1) :
                  queue'[j].name = "update_scoreboard" => queue'[j].n < queue'[i].n
  <2>1. i + 1 \in 1..Len(queue) /\ queue'[i] = queue[i + 1]
    BY <1>1
  <2>2. /\ delivered < queue[i + 1].n /\ queue[i + 1].n <= published
        /\ \A j \in 1..i : queue[j].name = "update_scoreboard" => queue[j].n < queue[i + 1].n
    BY <1>4, <2>1 DEF QueueInOrder
  <2>3. delivered' < queue[i + 1].n
    BY <1>1, <2>2
  <2>4. \A j \in 1..(i - 1) : j + 1 \in 1..i /\ queue'[j] = queue[j + 1]
    BY <1>1
  <2> QED BY <2>1, <2>2, <2>3, <2>4
<1> QED BY <1>3, <1>4 DEF QueueInOrder

LEMMA OrderStep ==
  ASSUME TypeOK, QueueInOrder, [Next]_vars
  PROVE  QueueInOrder'
<1> USE DEF account, worker, outside
<1>1. CASE ForwardUpdate
  BY <1>1, UpdateKeepsOrder
<1>2. CASE ForceReconnect \/ (\E meet \in MeetIds : SetMeetId(meet))
  BY <1>2, EventsTyped, ForwardKeepsOrder
     DEF ForceReconnect, SetMeetId, force_reconnect, Noop
<1>3. CASE EndMeet \/ Logout
  BY <1>3, EventsTyped, ForwardKeepsOrder DEF EndMeet, Logout, Close, TypeOK
<1>4. CASE Emit
  BY <1>4, TakeKeepsOrder DEF Emit, taking
<1>5. CASE EmitFails
  BY <1>5, TakeKeepsOrder DEF EmitFails, taking, after_failed_emit
<1>6. ASSUME UNCHANGED <<queue, published, delivered>>
      PROVE  QueueInOrder'
  BY <1>6 DEF QueueInOrder
<1>7. CASE RequestLogin \/ CompleteLogin \/ CancelLogin
  BY <1>6, <1>7 DEF RequestLogin, CompleteLogin, CancelLogin
<1>8. ASSUME NEW flow, NEW meet, LoginSucceeds(flow, meet) \/ LoginFails(flow)
      PROVE  QueueInOrder'
  BY <1>6, <1>8 DEF LoginSucceeds, LoginFails
<1>9. CASE \/ Worker \/ BackoffElapses \/ TokenGranted \/ Dial \/ HandshakeFails
           \/ Heartbeat \/ CloudDrops
  BY <1>6, <1>9 DEF Worker, Wake, SendMeetOpen, Connected, Await, GetTimesOut, LeaveServe,
                    Disconnected, BackoffElapses, TokenGranted, Dial, HandshakeFails,
                    Heartbeat, CloudDrops
<1>10. CASE UNCHANGED vars
  BY <1>6, <1>10 DEF vars
<1> QED BY <1>1, <1>2, <1>3, <1>4, <1>5, <1>7, <1>8, <1>9, <1>10
        DEF Next, Operator, Network

\* The worker never emits an older update after a newer one, nor one twice
\* (DeliveredInOrder).
THEOREM InOrder == Spec => DeliveredInOrder
<1>1. Init => QueueInOrder
  BY DEF Init, QueueInOrder
<1>2. TypeOK /\ QueueInOrder /\ [Next]_vars => QueueInOrder'
  BY OrderStep
<1>3. TypeOK /\ QueueInOrder /\ [Next]_vars =>
        [delivered' # delivered => delivered' > delivered]_vars
  <2> SUFFICES ASSUME TypeOK, QueueInOrder, Next, delivered' # delivered
               PROVE  delivered' > delivered
    OBVIOUS
  <2>1. Emit
    BY DEF Next, Operator, Worker, Network, ForwardUpdate, ForceReconnect, SetMeetId,
           EndMeet, Logout, RequestLogin, CompleteLogin, CancelLogin, LoginSucceeds,
           LoginFails, Wake, SendMeetOpen, Connected, Await, GetTimesOut, LeaveServe,
           Disconnected, BackoffElapses, TokenGranted, Dial, HandshakeFails, EmitFails,
           Heartbeat, CloudDrops, account, worker, outside
  <2>2. Head(queue).name = "update_scoreboard" /\ delivered' = Head(queue).n
        /\ queue # <<>>
    BY <2>1 DEF Emit, taking
  <2>3. 1 \in 1..Len(queue) /\ Head(queue) = queue[1]
    BY <2>2 DEF TypeOK
  <2>4. queue[1].n \in Nat /\ delivered \in Nat
    BY <2>3, CountersNat
  <2> QED BY <2>2, <2>3, <2>4 DEF QueueInOrder
<1> QED BY <1>1, <1>2, <1>3, TypeCorrect, PTL DEF Spec, DeliveredInOrder

-----------------------------------------------------------------------------
(* A requested reconnect *)

\* While a reconnect is requested of a socket that is served, the request is
\* not forgotten, no wait for events begins, and the cloud gets nothing more
\* than the one event that a wait under way may bring.
ReconnectIsPrompt ==
  [][reconnect /\ pc \in Serving =>
       /\ pc' \in Serving => reconnect'
       /\ pc' = "get" => pc = "get"
       /\ <<cloud, delivered>>' # <<cloud, delivered>> => pc = "get" /\ pc' = "serve"]_vars

LEMMA ReconnectStep ==
  ASSUME Next, pc \in Serving, reconnect
  PROVE  /\ pc' \in Serving => reconnect'
         /\ pc' = "get" => pc = "get"
         /\ <<cloud, delivered>>' # <<cloud, delivered>> => pc = "get" /\ pc' = "serve"
<1> USE DEF account, worker, outside, Serving
<1>1. CASE ForwardUpdate \/ BackoffElapses
  BY <1>1 DEF ForwardUpdate, BackoffElapses
<1>2. CASE Operator
  <2>1. started(pc) = pc
    BY DEF started
  <2> QED BY <1>2, <2>1 DEF Operator, ForceReconnect, EndMeet, Logout, SetMeetId, force_reconnect,
                            RequestLogin, CompleteLogin, CancelLogin, LoginSucceeds, LoginFails
<1>3. CASE Worker
  BY <1>3 DEF Worker, Wake, SendMeetOpen, Connected, Await, GetTimesOut, LeaveServe,
              Disconnected, Handshake, failed
<1>4. CASE Emit
  BY <1>4 DEF Emit, taking
<1>5. CASE TokenGranted \/ Dial \/ HandshakeFails \/ EmitFails \/ Heartbeat \/ CloudDrops
  BY <1>5 DEF TokenGranted, Dial, HandshakeFails, EmitFails, Heartbeat, CloudDrops,
              Handshake, failed
<1> QED BY <1>1, <1>2, <1>3, <1>4, <1>5 DEF Next, Network

\* A requested reconnect is kept, and lets at most one more event through on
\* the old socket (ReconnectIsPrompt), the safety half of ReconnectLeaves.
THEOREM PromptReconnect == Spec => ReconnectIsPrompt
<1>1. [Next]_vars =>
        [reconnect /\ pc \in Serving =>
           /\ pc' \in Serving => reconnect'
           /\ pc' = "get" => pc = "get"
           /\ <<cloud, delivered>>' # <<cloud, delivered>> => pc = "get" /\ pc' = "serve"]_vars
  BY ReconnectStep
<1> QED BY <1>1, PTL DEF Spec, ReconnectIsPrompt
=============================================================================
