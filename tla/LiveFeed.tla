------------------------------- MODULE LiveFeed -------------------------------
(***************************************************************************)
(* The way of a scoreboard update through the cloud relay, for one meet:   *)
(* on_update_scoreboard with its coalescing buffer, the flush that writes  *)
(* the state hash and emits to the viewers' room, the disconnect that      *)
(* discards the buffer, and the hydration of a viewer that joins           *)
(* (azure/app/handlers.py), over put_state and get_state (state.py).       *)
(*                                                                         *)
(* Every handler is a task of its own and yields at each operation of the  *)
(* store and each emit.  These travel on connections of their own, so      *)
(* nothing orders those of one flush with those of another.  Updates are   *)
(* numbered in the order in which they arrive; a payload gives each field  *)
(* the number of the update it comes from.                                 *)
(*                                                                         *)
(* Each of the two worker processes has a buffer of its own; the sockets   *)
(* of the Pi are taken to be on the same one.  The end of a meet and the   *)
(* expiry of its state are left out.                                       *)
(***************************************************************************)
EXTENDS Naturals, FiniteSets

CONSTANTS
  Fields,      \* the fields of the scoreboard
  Viewers,     \* the browsers
  MaxUpdates,  \* bound: the updates that arrive
  MaxLost      \* bound: the sockets of the Pi that are lost

ASSUME BoundsAssumption == MaxUpdates \in Nat /\ MaxLost \in Nat

VARIABLES
  window,    \* whether coalesce_window_s > 0, an environment variable
  arrived,   \* the number of updates that have arrived
  pending,   \* _pending for this meet; Nothing when it has no entry
  task,      \* whether _pending_tasks has a flush task, in its sleep
  flushes,   \* the payloads being written and emitted
  state,     \* the hash meet:{id}:state
  lost,      \* lost sockets of the Pi whose disconnect is not yet handled
  losses,    \* history: the sockets lost so far
  dropped,   \* history: the updates that had arrived at the last disconnect
  viewer,    \* where each viewer's connect handler is
  hydration, \* what that handler read from the store
  view       \* what each viewer's page shows

vars == <<window, arrived, pending, task, flushes, state, lost, losses, dropped,
          viewer, hydration, view>>

\* A field that is 0 is not in the payload.
Payload == [Fields -> 0..MaxUpdates]
Nothing == [f \in Fields |-> 0]

\* pending.update, HSET and the page's own merge alike.
Merged(old, new) == [f \in Fields |-> IF new[f] # 0 THEN new[f] ELSE old[f]]

\* The steps of scoreboard_connect: before it, in the room, with the state
\* read, and after the emit.
Place == {"away", "entered", "read", "joined"}
InRoom(v) == viewer[v] # "away"

\* A payload on its way, with what is still to be done.
Flush == [payload: Payload, stored: BOOLEAN, emitted: BOOLEAN]
Started(payload) == [payload |-> payload, stored |-> FALSE, emitted |-> FALSE]

-----------------------------------------------------------------------------
(* The Pi's side *)

\* Mutant: the flush task is only created for an empty buffer.
enqueue_OnceOnly(payload) ==
  /\ pending' = Merged(pending, payload)
  /\ task' = (task \/ arrived = 0)

\* Merge into the buffer and make sure that a flush task is there.
enqueue(payload) ==
  /\ pending' = Merged(pending, payload)
  /\ task' = TRUE

\* on_update_scoreboard, by way of _enqueue_or_run.
OnUpdate(fields) ==
  LET payload == [f \in Fields |-> IF f \in fields THEN arrived + 1 ELSE 0]
  IN  /\ arrived < MaxUpdates /\ fields # {}
      /\ arrived' = arrived + 1
      /\ IF window
         THEN enqueue(payload) /\ UNCHANGED flushes
         ELSE flushes' = flushes \cup {Started(payload)} /\ UNCHANGED <<pending, task>>
      /\ UNCHANGED <<window, state, lost, losses, dropped, viewer, hydration, view>>

\* The socket is lost.  The Pi opens another one, whose updates reach the same
\* buffer, perhaps before this one's disconnect is handled.
Lose ==
  /\ losses < MaxLost
  /\ lost' = lost + 1 /\ losses' = losses + 1
  /\ UNCHANGED <<window, arrived, pending, task, flushes, state, dropped, viewer, hydration, view>>

\* Mutant: the task is cancelled but the buffer stays.
drop_coalesced_TaskOnly == task' = FALSE /\ UNCHANGED pending

\* _drop_coalesced_for_meet: the buffer is discarded, its task cancelled.
drop_coalesced == pending' = Nothing /\ task' = FALSE

\* Mutant: a disconnect handled twice.
OnDisconnect_Again ==
  /\ losses > 0
  /\ lost' = lost - 1
  /\ drop_coalesced
  /\ dropped' = arrived
  /\ UNCHANGED <<window, arrived, flushes, state, losses, viewer, hydration, view>>

OnDisconnect ==
  /\ lost > 0
  /\ lost' = lost - 1
  /\ drop_coalesced
  /\ dropped' = arrived
  /\ UNCHANGED <<window, arrived, flushes, state, losses, viewer, hydration, view>>

-----------------------------------------------------------------------------
(* The flush *)

\* _flush_coalesced after its sleep: the entry and the task are popped.
WakeUp ==
  /\ task
  /\ task' = FALSE
  /\ pending' = Nothing
  /\ flushes' = flushes \cup {Started(pending)}
  /\ UNCHANGED <<window, arrived, state, lost, losses, dropped, viewer, hydration, view>>

\* A flush ends when both of its halves, overlapped by gather, are done.
Progress(flush, done) ==
  flushes' = (flushes \ {flush}) \cup (IF done.stored /\ done.emitted THEN {} ELSE {done})

\* put_state: one HSET, or an error that leaves the emit to go on.
PutState(flush) ==
  /\ ~flush.stored
  /\ state' \in {Merged(state, flush.payload), state}
  /\ Progress(flush, [flush EXCEPT !.stored = TRUE])
  /\ UNCHANGED <<window, arrived, pending, task, lost, losses, dropped, viewer, hydration, view>>

\* The emit reaches whoever is in the room.
Emit(flush) ==
  /\ ~flush.emitted
  /\ view' = [v \in Viewers |-> IF InRoom(v) THEN Merged(view[v], flush.payload) ELSE view[v]]
  /\ Progress(flush, [flush EXCEPT !.emitted = TRUE])
  /\ UNCHANGED <<window, arrived, pending, task, state, lost, losses, dropped, viewer, hydration>>

-----------------------------------------------------------------------------
(* The viewers: scoreboard_connect and the disconnect *)

Enter(v) ==
  /\ viewer[v] = "away"
  /\ viewer' = [viewer EXCEPT ![v] = "entered"]
  /\ UNCHANGED <<window, arrived, pending, task, flushes, state, lost, losses, dropped, hydration, view>>

GetState(v) ==
  /\ viewer[v] = "entered"
  /\ viewer' = [viewer EXCEPT ![v] = "read"]
  /\ hydration' = [hydration EXCEPT ![v] = state]
  /\ UNCHANGED <<window, arrived, pending, task, flushes, state, lost, losses, dropped, view>>

Hydrate(v) ==
  /\ viewer[v] = "read"
  /\ viewer' = [viewer EXCEPT ![v] = "joined"]
  /\ view' = [view EXCEPT ![v] = Merged(@, hydration[v])]
  /\ hydration' = [hydration EXCEPT ![v] = Nothing]
  /\ UNCHANGED <<window, arrived, pending, task, flushes, state, lost, losses, dropped>>

\* The browser goes away; a page that is loaded again starts empty.
Leave(v) ==
  /\ viewer[v] = "joined"
  /\ viewer' = [viewer EXCEPT ![v] = "away"]
  /\ view' = [view EXCEPT ![v] = Nothing]
  /\ UNCHANGED <<window, arrived, pending, task, flushes, state, lost, losses, dropped, hydration>>

-----------------------------------------------------------------------------
Init ==
  /\ window \in BOOLEAN
  /\ arrived = 0 /\ lost = 0 /\ losses = 0 /\ dropped = 0
  /\ pending = Nothing /\ task = FALSE
  /\ flushes = {}
  /\ state = Nothing
  /\ viewer = [v \in Viewers |-> "away"]
  /\ hydration = [v \in Viewers |-> Nothing]
  /\ view = [v \in Viewers |-> Nothing]

Viewing(v) == Enter(v) \/ GetState(v) \/ Hydrate(v) \/ Leave(v)

Next ==
  \/ \E fields \in SUBSET Fields : OnUpdate(fields)
  \/ Lose \/ OnDisconnect \/ WakeUp
  \/ \E flush \in flushes : PutState(flush) \/ Emit(flush)
  \/ \E v \in Viewers : Viewing(v)

Spec == Init /\ [][Next]_vars

\* Sleeps end, and the operations of a flush are carried out.
FairSpec ==
  /\ Spec
  /\ WF_vars(WakeUp)
  /\ WF_vars(\E flush \in flushes : PutState(flush) \/ Emit(flush))

-----------------------------------------------------------------------------
(* Properties *)

\* The buffer, the flushes, the store and the pages hold payloads, and a
\* disconnect is handled once per lost socket.
TypeOK ==
  /\ window \in BOOLEAN /\ task \in BOOLEAN
  /\ arrived \in 0..MaxUpdates /\ dropped \in 0..arrived
  /\ lost \in 0..losses /\ losses \in 0..MaxLost
  /\ pending \in Payload /\ state \in Payload
  /\ flushes \subseteq Flush
  /\ viewer \in [Viewers -> Place]
  /\ hydration \in [Viewers -> Payload] /\ view \in [Viewers -> Payload]

\* The buffer and its task come and go together: no update waits for a flush
\* that is not scheduled, and no flush finds an empty buffer.
PendingIsScheduled == task <=> pending # Nothing

\* What had arrived when a disconnect was handled and had not begun to be
\* flushed never is: "so a subsequent Pi reconnect doesn't inherit stale fields".
DroppedStaysDropped == \A f \in Fields : pending[f] # 0 => pending[f] > dropped

\* A viewer that has been hydrated sees every update that waits, or is being
\* flushed and is not yet emitted to the room, or a later value of the field,
\* unless a disconnect discards it.  Nothing is said of an update that had been
\* emitted when the viewer joined and is stored after the viewer read the store:
\* that viewer misses it.
JoinedViewerCatchesUp ==
  \A v \in Viewers, f \in Fields, n \in 1..MaxUpdates :
    (viewer[v] = "joined" /\ (pending[f] = n \/ \E flush \in flushes :
                                ~flush.emitted /\ flush.payload[f] = n))
    ~> (viewer[v] # "joined" \/ view[v][f] >= n \/ dropped >= n)
=============================================================================
