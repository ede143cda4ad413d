---------------------------- MODULE LiveFeed_proofs ----------------------------
(***************************************************************************)
(* Proofs about the coalescing buffer and its flushes, for every set of    *)
(* fields and viewers and any number of updates and lost sockets.          *)
(***************************************************************************)
EXTENDS LiveFeed, TLAPS

-----------------------------------------------------------------------------
(* Types *)

LEMMA NothingTyped == Nothing \in Payload
  BY BoundsAssumption DEF Nothing, Payload

\* A merge of payloads is a payload.
LEMMA MergedTyped ==
  ASSUME NEW old \in Payload, NEW new \in Payload
  PROVE  Merged(old, new) \in Payload
  BY DEF Payload, Merged

LEMMA StartedTyped ==
  ASSUME NEW payload \in Payload
  PROVE  Started(payload) \in Flush
  BY DEF Started, Flush

\* The update that arrives next, as OnUpdate writes it.
LEMMA ArrivalTyped ==
  ASSUME TypeOK, arrived < MaxUpdates, NEW fields
  PROVE  [f \in Fields |-> IF f \in fields THEN arrived + 1 ELSE 0] \in Payload
  BY BoundsAssumption DEF TypeOK, Payload

LEMMA UpdateTyped ==
  ASSUME TypeOK, NEW fields \in SUBSET Fields, OnUpdate(fields)
  PROVE  TypeOK'
<1> DEFINE payload == [f \in Fields |-> IF f \in fields THEN arrived + 1 ELSE 0]
<1>1. payload \in Payload
  BY ArrivalTyped DEF OnUpdate
<1> HIDE DEF payload
<1>2. pending' \in Payload /\ task' \in BOOLEAN /\ flushes' \subseteq Flush
  <2>1. CASE window
    BY <1>1, <2>1, MergedTyped DEF payload, OnUpdate, enqueue, TypeOK
  <2>2. CASE ~window
    BY <1>1, <2>2, StartedTyped DEF payload, OnUpdate, TypeOK
  <2> QED BY <2>1, <2>2
<1>3. arrived' \in 0..MaxUpdates /\ dropped' \in 0..arrived'
  BY BoundsAssumption DEF OnUpdate, TypeOK
<1> QED BY <1>2, <1>3 DEF OnUpdate, TypeOK

\* A flush that goes on, or ends, leaves flushes behind.
LEMMA ProgressTyped ==
  ASSUME flushes \subseteq Flush, NEW flush \in flushes, NEW done \in Flush, Progress(flush, done)
  PROVE  flushes' \subseteq Flush
  BY DEF Progress

LEMMA FlushTyped ==
  ASSUME TypeOK, NEW flush \in flushes, PutState(flush) \/ Emit(flush)
  PROVE  TypeOK'
<1>1. flush \in Flush /\ flush.payload \in Payload
  BY DEF TypeOK, Flush
<1>2. CASE PutState(flush)
  <2>1. [flush EXCEPT !.stored = TRUE] \in Flush
    BY <1>1 DEF Flush
  <2>2. flushes' \subseteq Flush
    BY <1>2, <2>1, ProgressTyped DEF PutState, TypeOK
  <2>3. state' \in Payload
    BY <1>1, <1>2, MergedTyped DEF PutState, TypeOK
  <2> QED BY <1>2, <2>2, <2>3 DEF PutState, TypeOK
<1>3. CASE Emit(flush)
  <2>1. [flush EXCEPT !.emitted = TRUE] \in Flush
    BY <1>1 DEF Flush
  <2>2. flushes' \subseteq Flush
    BY <1>3, <2>1, ProgressTyped DEF Emit, TypeOK
  <2>3. ASSUME NEW v \in Viewers
        PROVE  Merged(view[v], flush.payload) \in Payload /\ view[v] \in Payload
    BY <1>1, MergedTyped DEF TypeOK
  <2>4. view' \in [Viewers -> Payload]
    BY <1>3, <2>3 DEF Emit
  <2> QED BY <1>3, <2>2, <2>4 DEF Emit, TypeOK
<1> QED BY <1>2, <1>3

LEMMA ViewingTyped ==
  ASSUME TypeOK, NEW v \in Viewers, Viewing(v)
  PROVE  TypeOK'
<1>1. CASE Enter(v)
  BY <1>1 DEF Enter, TypeOK, Place
<1>2. CASE GetState(v)
  BY <1>2 DEF GetState, TypeOK, Place
<1>3. CASE Hydrate(v)
  <2>1. Merged(view[v], hydration[v]) \in Payload
    BY MergedTyped DEF TypeOK
  <2> QED BY <1>3, <2>1, NothingTyped DEF Hydrate, TypeOK, Place
<1>4. CASE Leave(v)
  BY <1>4, NothingTyped DEF Leave, TypeOK, Place
<1> QED BY <1>1, <1>2, <1>3, <1>4 DEF Viewing

\* Payloads stay payloads, and no disconnect is handled twice.
THEOREM TypeCorrect == Spec => []TypeOK
<1>1. Init => TypeOK
  <2> SUFFICES ASSUME Init PROVE TypeOK
    OBVIOUS
  <2>1. arrived \in 0..MaxUpdates /\ dropped \in 0..arrived /\ lost \in 0..losses /\ losses \in 0..MaxLost
    BY BoundsAssumption DEF Init
  <2>2. flushes \subseteq Flush /\ viewer \in [Viewers -> Place]
    BY DEF Init, Place
  <2>3. hydration \in [Viewers -> Payload] /\ view \in [Viewers -> Payload]
    BY NothingTyped DEF Init
  <2> QED BY <2>1, <2>2, <2>3, NothingTyped DEF Init, TypeOK
<1>2. TypeOK /\ [Next]_vars => TypeOK'
  <2> SUFFICES ASSUME TypeOK, [Next]_vars PROVE TypeOK'
    OBVIOUS
  <2>1. ASSUME NEW fields \in SUBSET Fields, OnUpdate(fields) PROVE TypeOK'
    BY <2>1, UpdateTyped
  <2>2. CASE Lose
    BY <2>2, BoundsAssumption DEF Lose, TypeOK
  <2>3. CASE OnDisconnect
    <3>1. arrived \in 0..MaxUpdates /\ losses \in 0..MaxLost /\ lost \in 0..losses /\ lost > 0
      BY <2>3 DEF OnDisconnect, TypeOK
    <3>2. arrived \in 0..arrived /\ lost - 1 \in 0..losses
      BY <3>1, BoundsAssumption
    <3>3. pending' \in Payload /\ task' \in BOOLEAN /\ dropped' \in 0..arrived' /\ lost' \in 0..losses'
      BY <2>3, <3>2, NothingTyped DEF OnDisconnect, drop_coalesced
    <3> QED BY <2>3, <3>3 DEF OnDisconnect, TypeOK
  <2>4. CASE WakeUp
    BY <2>4, NothingTyped, StartedTyped DEF WakeUp, TypeOK
  <2>5. ASSUME NEW flush \in flushes, PutState(flush) \/ Emit(flush) PROVE TypeOK'
    BY <2>5, FlushTyped
  <2>6. ASSUME NEW v \in Viewers, Viewing(v) PROVE TypeOK'
    BY <2>6, ViewingTyped
  <2>7. CASE UNCHANGED vars
    BY <2>7 DEF vars, TypeOK
  <2> QED BY <2>1, <2>2, <2>3, <2>4, <2>5, <2>6, <2>7 DEF Next
<1> QED BY <1>1, <1>2, PTL DEF Spec

-----------------------------------------------------------------------------
(* The buffer *)

\* A payload that carries a field is not empty, nor is a merge with it.
LEMMA MergedNotEmpty ==
  ASSUME TypeOK, NEW fields \in SUBSET Fields, fields # {},
         NEW payload, payload = [f \in Fields |-> IF f \in fields THEN arrived + 1 ELSE 0]
  PROVE  Merged(pending, payload) # Nothing
<1>1. PICK f \in Fields : f \in fields
  OBVIOUS
<1>2. payload[f] # 0 /\ Merged(pending, payload)[f] # 0
  BY <1>1 DEF Merged, TypeOK
<1>3. Nothing[f] = 0
  BY <1>1 DEF Nothing
<1> QED BY <1>2, <1>3

\* No update waits without a flush to come (PendingIsScheduled).
THEOREM EveryUpdateIsScheduled == Spec => []PendingIsScheduled
<1>1. Init => PendingIsScheduled
  BY DEF Init, PendingIsScheduled
<1>2. TypeOK /\ PendingIsScheduled /\ [Next]_vars => PendingIsScheduled'
  <2> SUFFICES ASSUME TypeOK, PendingIsScheduled, [Next]_vars PROVE PendingIsScheduled'
    OBVIOUS
  <2> USE DEF PendingIsScheduled
  <2>0. Nothing' = Nothing
    BY DEF Nothing
  <2>1. ASSUME NEW fields \in SUBSET Fields, OnUpdate(fields) PROVE PendingIsScheduled'
    <3> DEFINE payload == [f \in Fields |-> IF f \in fields THEN arrived + 1 ELSE 0]
    <3>1. CASE window
      <4>1. pending' = Merged(pending, payload) /\ task'
        BY <2>1, <3>1 DEF OnUpdate, enqueue
      <4>2. Merged(pending, payload) # Nothing
        BY <2>1, MergedNotEmpty DEF OnUpdate
      <4> QED BY <4>1, <4>2, <2>0
    <3>2. CASE ~window
      BY <2>1, <3>2, <2>0 DEF OnUpdate
    <3> QED BY <3>1, <3>2
  <2>2. CASE OnDisconnect
    BY <2>2, <2>0 DEF OnDisconnect, drop_coalesced
  <2>3. CASE WakeUp
    BY <2>3, <2>0 DEF WakeUp
  <2>4. ASSUME NEW flush \in flushes, PutState(flush) \/ Emit(flush) PROVE UNCHANGED <<pending, task>>
    BY <2>4 DEF PutState, Emit
  <2>5. ASSUME NEW v \in Viewers, Viewing(v) PROVE UNCHANGED <<pending, task>>
    BY <2>5 DEF Viewing, Enter, GetState, Hydrate, Leave
  <2>6. CASE Lose \/ UNCHANGED vars
    BY <2>6, <2>0 DEF Lose, vars
  <2> QED BY <2>0, <2>1, <2>2, <2>3, <2>4, <2>5, <2>6 DEF Next
<1> QED BY <1>1, <1>2, TypeCorrect, PTL DEF Spec

\* A disconnect takes every update that waits with it (DroppedStaysDropped).
THEOREM DiscardIsFinal == Spec => []DroppedStaysDropped
<1>1. Init => DroppedStaysDropped
  BY DEF Init, DroppedStaysDropped, Nothing
<1>2. TypeOK /\ DroppedStaysDropped /\ [Next]_vars => DroppedStaysDropped'
  <2> SUFFICES ASSUME TypeOK, DroppedStaysDropped, [Next]_vars,
                      NEW f \in Fields, pending'[f] # 0
               PROVE  pending'[f] > dropped'
    BY DEF DroppedStaysDropped
  <2>0. arrived \in Nat /\ dropped \in Nat /\ dropped <= arrived
    BY BoundsAssumption DEF TypeOK
  <2>1. ASSUME NEW fields \in SUBSET Fields, OnUpdate(fields) PROVE pending'[f] > dropped'
    <3>1. CASE window
      <4>1. pending'[f] = IF f \in fields THEN arrived + 1 ELSE pending[f]
        BY <2>0, <2>1, <3>1 DEF OnUpdate, enqueue, Merged
      <4>2. dropped' = dropped
        BY <2>1 DEF OnUpdate
      <4>3. CASE f \in fields
        BY <2>0, <4>1, <4>2, <4>3
      <4>4. CASE f \notin fields
        BY <4>1, <4>2, <4>4 DEF DroppedStaysDropped
      <4> QED BY <4>3, <4>4
    <3>2. CASE ~window
      BY <2>1, <3>2 DEF OnUpdate, DroppedStaysDropped
    <3> QED BY <3>1, <3>2
  <2>2. CASE OnDisconnect
    BY <2>2 DEF OnDisconnect, drop_coalesced, Nothing
  <2>3. CASE WakeUp
    BY <2>3 DEF WakeUp, Nothing
  <2>4. ASSUME NEW flush \in flushes, PutState(flush) \/ Emit(flush) PROVE UNCHANGED <<pending, dropped>>
    BY <2>4 DEF PutState, Emit
  <2>5. ASSUME NEW v \in Viewers, Viewing(v) PROVE UNCHANGED <<pending, dropped>>
    BY <2>5 DEF Viewing, Enter, GetState, Hydrate, Leave
  <2>6. CASE Lose \/ UNCHANGED vars
    BY <2>6 DEF Lose, vars, DroppedStaysDropped
  <2> QED BY <2>1, <2>2, <2>3, <2>4, <2>5, <2>6 DEF Next, DroppedStaysDropped
<1> QED BY <1>1, <1>2, TypeCorrect, PTL DEF Spec

-----------------------------------------------------------------------------
(* No update is lost *)

\* Update n of a field waits: in the buffer, or in a flush yet to be emitted.
Waiting(f, n) ==
  \/ pending[f] = n
  \/ \E flush \in flushes : ~flush.emitted /\ flush.payload[f] = n

\* What can become of a waiting update in a step: it still waits, a later one
\* of its field takes its place in the buffer, a disconnect discards the
\* buffer, or it is emitted and every page in the room shows it.
Kept(f, n) ==
  \/ Waiting(f, n)'
  \/ pending'[f] > n
  \/ dropped' >= n
  \/ \A v \in Viewers : InRoom(v) => view'[v][f] = n

NoUpdateIsLost == [][\A f \in Fields, n \in 1..MaxUpdates : Waiting(f, n) => Kept(f, n)]_vars

\* The buffer holds nothing that has not arrived.
PendingHasArrived == \A f \in Fields : pending[f] <= arrived

LEMMA PendingArrives == Spec => []PendingHasArrived
<1>1. Init => PendingHasArrived
  BY DEF Init, PendingHasArrived, Nothing
<1>2. TypeOK /\ PendingHasArrived /\ [Next]_vars => PendingHasArrived'
  <2> SUFFICES ASSUME TypeOK, PendingHasArrived, [Next]_vars, NEW f \in Fields
               PROVE  pending'[f] <= arrived'
    BY DEF PendingHasArrived
  <2>0. arrived \in Nat /\ pending[f] \in Nat /\ pending[f] <= arrived
    BY BoundsAssumption DEF TypeOK, Payload, PendingHasArrived
  <2>1. ASSUME NEW fields \in SUBSET Fields, OnUpdate(fields) PROVE pending'[f] <= arrived'
    <3>1. CASE window
      <4>1. pending'[f] \in {arrived + 1, pending[f]}
        BY <2>0, <2>1, <3>1 DEF OnUpdate, enqueue, Merged
      <4> QED BY <2>0, <2>1, <4>1 DEF OnUpdate
    <3>2. CASE ~window
      BY <2>0, <2>1, <3>2 DEF OnUpdate
    <3> QED BY <3>1, <3>2
  <2>2. CASE OnDisconnect
    BY <2>0, <2>2 DEF OnDisconnect, drop_coalesced, Nothing
  <2>3. CASE WakeUp
    BY <2>0, <2>3 DEF WakeUp, Nothing
  <2>4. ASSUME NEW flush \in flushes, PutState(flush) \/ Emit(flush) PROVE UNCHANGED <<pending, arrived>>
    BY <2>4 DEF PutState, Emit
  <2>5. ASSUME NEW v \in Viewers, Viewing(v) PROVE UNCHANGED <<pending, arrived>>
    BY <2>5 DEF Viewing, Enter, GetState, Hydrate, Leave
  <2>6. CASE Lose \/ UNCHANGED vars
    BY <2>0, <2>6 DEF Lose, vars
  <2> QED BY <2>0, <2>1, <2>2, <2>3, <2>4, <2>5, <2>6 DEF Next
<1> QED BY <1>1, <1>2, TypeCorrect, PTL DEF Spec

\* A half of a flush that is done leaves the updates waiting that waited in
\* other flushes, and its own unless it was the emit.
LEMMA FlushKeeps ==
  ASSUME TypeOK, NEW f \in Fields, NEW n \in 1..MaxUpdates, Waiting(f, n),
         NEW flush \in flushes, PutState(flush) \/ Emit(flush)
  PROVE  Kept(f, n)
<1>1. flush \in Flush /\ flush.payload \in Payload
  BY DEF TypeOK, Flush
<1>2. CASE pending[f] = n
  BY <1>2 DEF Kept, Waiting, PutState, Emit
<1>3. ASSUME NEW other \in flushes, ~other.emitted, other.payload[f] = n
      PROVE  Kept(f, n)
  <2>1. CASE other # flush
    <3>1. other \in flushes'
      BY <2>1 DEF PutState, Emit, Progress
    <3> QED BY <1>3, <3>1 DEF Kept, Waiting
  <2>2. CASE other = flush /\ PutState(flush)
    <3> DEFINE done == [flush EXCEPT !.stored = TRUE]
    <3>1. ~done.emitted /\ done.payload[f] = n
      BY <1>1, <1>3, <2>2 DEF Flush
    <3>2. done \in flushes'
      BY <2>2, <3>1 DEF PutState, Progress
    <3> QED BY <3>1, <3>2 DEF Kept, Waiting
  <2>3. CASE other = flush /\ Emit(flush)
    <3>1. ASSUME NEW v \in Viewers, InRoom(v) PROVE view'[v][f] = n
      <4>1. view'[v] = Merged(view[v], flush.payload)
        BY <2>3, <3>1 DEF Emit
      <4> QED BY <1>3, <2>3, <4>1 DEF Merged
    <3> QED BY <3>1 DEF Kept
  <2> QED BY <2>1, <2>2, <2>3
<1> QED BY <1>2, <1>3 DEF Waiting

\* No step loses an update: it waits until a later one of its field replaces
\* it, a disconnect discards it, or the room is shown it.
THEOREM NothingIsLost == Spec => NoUpdateIsLost
<1>1. TypeOK /\ PendingHasArrived /\ [Next]_vars
        => [\A f \in Fields, n \in 1..MaxUpdates : Waiting(f, n) => Kept(f, n)]_vars
  <2> SUFFICES ASSUME TypeOK, PendingHasArrived, Next,
                      NEW f \in Fields, NEW n \in 1..MaxUpdates, Waiting(f, n)
               PROVE  Kept(f, n)
    OBVIOUS
  <2>0. arrived \in Nat /\ n \in Nat /\ (pending[f] = n => n <= arrived)
    BY BoundsAssumption DEF TypeOK, PendingHasArrived
  <2>1. flushes \subseteq flushes' => Kept(f, n) \/ (pending[f] = n /\ pending'[f] # n)
    BY DEF Waiting, Kept
  <2>2. ASSUME NEW fields \in SUBSET Fields, OnUpdate(fields) PROVE Kept(f, n)
    <3>1. flushes \subseteq flushes'
      BY <2>2 DEF OnUpdate
    <3>2. pending'[f] \in {arrived + 1, pending[f]}
      BY <2>0, <2>2 DEF OnUpdate, enqueue, Merged
    <3>3. CASE pending[f] = n /\ pending'[f] = arrived + 1
      BY <2>0, <3>3 DEF Kept
    <3> QED BY <2>1, <3>1, <3>2, <3>3
  <2>3. CASE OnDisconnect
    <3>1. flushes \subseteq flushes' /\ dropped' = arrived
      BY <2>3 DEF OnDisconnect
    <3> QED BY <2>0, <2>1, <3>1 DEF Kept
  <2>4. CASE WakeUp
    <3>1. Started(pending) \in flushes' /\ flushes \subseteq flushes'
      BY <2>4 DEF WakeUp
    <3>2. ~Started(pending).emitted /\ Started(pending).payload = pending
      BY DEF Started
    <3> QED BY <2>1, <3>1, <3>2 DEF Kept, Waiting
  <2>5. ASSUME NEW flush \in flushes, PutState(flush) \/ Emit(flush) PROVE Kept(f, n)
    BY <2>5, FlushKeeps
  <2>6. ASSUME NEW v \in Viewers, Viewing(v) PROVE UNCHANGED <<pending, flushes>>
    BY <2>6 DEF Viewing, Enter, GetState, Hydrate, Leave
  <2>7. CASE Lose
    BY <2>1, <2>7 DEF Lose
  <2> QED BY <2>1, <2>2, <2>3, <2>4, <2>5, <2>6, <2>7 DEF Next
<1> QED BY <1>1, TypeCorrect, PendingArrives, PTL DEF Spec, NoUpdateIsLost
=============================================================================
