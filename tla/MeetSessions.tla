------------------------------ MODULE MeetSessions ------------------------------
(***************************************************************************)
(* The cloud relay's record of its meets: handlers.py (the /pi namespace), *)
(* the Redis store of state.py and the heartbeat watchdog of watchdog.py.  *)
(*                                                                         *)
(* Every handler is a task of its own that yields at each call of the      *)
(* store, on any of several workers, so a handler is a sequence of store   *)
(* operations and the handlers interleave between them.  In particular     *)
(* mark_status and heartbeat read a meet's record in one operation and     *)
(* write the whole record back in another.                                 *)
(*                                                                         *)
(* The age of last_heartbeat is abstracted to the side of the watchdog's   *)
(* two thresholds it lies on.  Left out are the other data of a record     *)
(* (team, dates), its expiry after two weeks, the records without an owner *)
(* that an older version wrote, and the scoreboard state kept beside it.   *)
(***************************************************************************)
EXTENDS FiniteSets, Naturals

CONSTANTS
  Pis,       \* the account IDs of the Pis
  Meets,     \* the meet IDs they use
  NoMeet,    \* no meet bound to a Pi
  Sockets,   \* bound: the sockets of the /pi namespace there are at a time
  Events,    \* bound: the events the Pis send after meet_open
  MaxTasks,  \* bound: handlers in flight at a time
  MaxAge     \* bound: the thresholds that the age of a heartbeat passes

EventKinds == {"heartbeat", "meet_close"}

ASSUME NoMeetAssumption == NoMeet \notin Meets
ASSUME EventsAssumption == Events \subseteq EventKinds
ASSUME BoundAssumption == MaxTasks \in Nat /\ MaxAge \in 0..2

VARIABLES
  metadata,  \* meet:{id}:metadata of every meet ID
  pi_meet,   \* pi:{account_id}:meet_id, the meet bound to each Pi
  sockets,   \* the session of every socket
  handlers,  \* the handlers in flight
  claims     \* history: the Pis that passed the check of each meet ID

vars == <<metadata, pi_meet, sockets, handlers, claims>>

Status == {"live", "degraded", "closed", "expired_id_rotated"}

\* age is 0, 1 past degraded_after_s, or 2 past close_after_s.
Record == [status: Status, owner: Pis, age: 0..2]
NoRecord == [status |-> "none"]

\* A session's meet_open is the first event it receives.
Session == [pi: Pis, meet: Meets, opened: BOOLEAN]
NoSession == [opened |-> FALSE]

\* One handler of each kind per socket and one watchdog pass per meet may be in
\* flight.
SocketHandlers == Sockets \X {"meet_open", "heartbeat", "meet_close", "disconnect"}
Handlers == SocketHandlers \cup ({"watchdog"} \X Meets)

\* A handler's next store operation, the record it works on, what it is to be
\* marked, the copy it has read, and the session it was called in.
Steps == {"check", "bind", "publish", "read", "write"}
Marks == (Status \ {"live"}) \cup {"heartbeat"}
Task == [step: Steps, meet: Meets, mark: Marks, copy: Record \cup {NoRecord},
         session: Session \cup {NoSession}]
Idle == [step |-> "idle"]

Marking(meet, mark, session) ==
  [step |-> "read", meet |-> meet, mark |-> mark, copy |-> NoRecord, session |-> session]

\* Handler h goes on with task t.
Goes(h, t) == handlers' = [handlers EXCEPT ![h] = t]

Starts(h, t) ==
  /\ handlers[h] = Idle
  /\ Cardinality({g \in Handlers : handlers[g] # Idle}) < MaxTasks
  /\ Goes(h, t)

connected(meet) == \E s \in Sockets : sockets[s] # NoSession /\ sockets[s].meet = meet
served(meet) == \E s \in Sockets : sockets[s].opened /\ sockets[s].meet = meet

-----------------------------------------------------------------------------
(* The store operations of mark_status and heartbeat *)

\* Mutant: the heartbeat writes its own Pi into the record.
marked_Rebound(record, mark) ==
  IF mark = "heartbeat" THEN [record EXCEPT !.age = 0, !.owner = CHOOSE p \in Pis : TRUE]
  ELSE [record EXCEPT !.status = mark]

\* Mutant: a heartbeat does not bring a degraded meet back.
marked_Degraded(record, mark) ==
  IF mark = "heartbeat" THEN [record EXCEPT !.age = 0]
  ELSE [record EXCEPT !.status = mark]

\* What is written over a record that has been read.
marked(record, mark) ==
  IF mark = "heartbeat"
  THEN [status |-> IF record.status = "degraded" THEN "live" ELSE record.status,
        owner |-> record.owner, age |-> 0]
  ELSE [record EXCEPT !.status = mark]

\* What follows once the record is marked: a meet_open that expired the previous
\* ID opens the new one.
afterwards(t) ==
  IF t.mark = "expired_id_rotated"
  THEN [t EXCEPT !.step = "publish", !.meet = t.session.meet, !.copy = NoRecord]
  ELSE Idle

\* A record that is not there is not marked.
ReadRecord(h) ==
  /\ handlers[h].step = "read"
  /\ Goes(h, IF metadata[handlers[h].meet] = NoRecord
             THEN afterwards(handlers[h])
             ELSE [handlers[h] EXCEPT !.step = "write", !.copy = metadata[handlers[h].meet]])
  /\ UNCHANGED <<metadata, pi_meet, sockets, claims>>

WriteRecord(h) ==
  /\ handlers[h].step = "write"
  /\ metadata' = [metadata EXCEPT ![handlers[h].meet] = marked(handlers[h].copy, handlers[h].mark)]
  /\ Goes(h, afterwards(handlers[h]))
  /\ UNCHANGED <<pi_meet, sockets, claims>>

-----------------------------------------------------------------------------
(* The /pi namespace *)

\* pi_connect: the session is bound to the meet ID the Pi presents.
Connect(s, p, m) ==
  /\ sockets[s] = NoSession
  /\ \A h \in SocketHandlers : h[1] = s => handlers[h] = Idle
  /\ sockets' = [sockets EXCEPT ![s] = [pi |-> p, meet |-> m, opened |-> FALSE]]
  /\ UNCHANGED <<metadata, pi_meet, handlers, claims>>

\* pi_disconnect; handlers of the socket that are in flight go on.
Disconnect(s) ==
  /\ sockets[s] # NoSession
  /\ sockets' = [sockets EXCEPT ![s] = NoSession]
  /\ Starts(<<s, "disconnect">>, Marking(sockets[s].meet, "degraded", sockets[s]))
  /\ UNCHANGED <<metadata, pi_meet, claims>>

\* Mutant: the meet ID is bound to the Pi before its ownership is checked.
OnMeetOpen_BindsFirst(s) ==
  /\ sockets[s] # NoSession /\ ~sockets[s].opened
  /\ sockets' = [sockets EXCEPT ![s].opened = TRUE]
  /\ pi_meet' = [pi_meet EXCEPT ![sockets[s].pi] = sockets[s].meet]
  /\ Starts(<<s, "meet_open">>,
            [Marking(sockets[s].meet, "expired_id_rotated", sockets[s]) EXCEPT !.step = "check"])
  /\ UNCHANGED <<metadata, claims>>

\* meet_open for the ID of the session.
OnMeetOpen(s) ==
  /\ sockets[s] # NoSession /\ ~sockets[s].opened
  /\ sockets' = [sockets EXCEPT ![s].opened = TRUE]
  /\ Starts(<<s, "meet_open">>,
            [Marking(sockets[s].meet, "expired_id_rotated", sockets[s]) EXCEPT !.step = "check"])
  /\ UNCHANGED <<metadata, pi_meet, claims>>

\* meet_open for another ID, which the Pi has changed since it connected: refused,
\* and the Pi goes on without a callback to tell it.
RefuseMeetOpen(s) ==
  /\ sockets[s] # NoSession /\ ~sockets[s].opened
  /\ sockets' = [sockets EXCEPT ![s].opened = TRUE]
  /\ UNCHANGED <<metadata, pi_meet, handlers, claims>>

\* is_meet_id_taken answers "other".
taken(m, p) == metadata[m] # NoRecord /\ metadata[m].owner # p

CheckMeetId(s) ==
  LET h == <<s, "meet_open">>
      t == handlers[h]
      p == t.session.pi
  IN  /\ t.step = "check"
      /\ IF taken(t.meet, p)
         THEN Goes(h, Idle) /\ UNCHANGED claims
         ELSE /\ Goes(h, [t EXCEPT !.step = "bind"])
              /\ claims' = [claims EXCEPT ![t.meet] = @ \cup {p}]
      /\ UNCHANGED <<metadata, pi_meet, sockets>>

\* get_pi_meet_id: another ID that was bound to the Pi is to expire first.
ReadPiMeetId(s) ==
  LET h == <<s, "meet_open">>
      t == handlers[h]
      previous == pi_meet[t.session.pi]
  IN  /\ t.step = "bind"
      /\ Goes(h, IF previous \notin {NoMeet, t.meet}
                 THEN [t EXCEPT !.step = "read", !.meet = previous]
                 ELSE [t EXCEPT !.step = "publish"])
      /\ UNCHANGED <<metadata, pi_meet, sockets, claims>>

\* open_meet.
OpenMeet(s) ==
  LET h == <<s, "meet_open">>
      m == handlers[h].meet
      p == handlers[h].session.pi
  IN  /\ handlers[h].step = "publish"
      /\ metadata' = [metadata EXCEPT ![m] = [status |-> "live", owner |-> p, age |-> 0]]
      /\ pi_meet' = [pi_meet EXCEPT ![p] = m]
      /\ Goes(h, Idle)
      /\ UNCHANGED <<sockets, claims>>

\* An event of the given kind arrives on a socket that has sent meet_open.
Arrives(s, kind) == kind \in Events /\ sockets[s].opened

OnHeartbeat(s) ==
  /\ Arrives(s, "heartbeat")
  /\ Starts(<<s, "heartbeat">>, Marking(sockets[s].meet, "heartbeat", sockets[s]))
  /\ UNCHANGED <<metadata, pi_meet, sockets, claims>>

OnMeetClose(s) ==
  /\ Arrives(s, "meet_close")
  /\ Starts(<<s, "meet_close">>, Marking(sockets[s].meet, "closed", sockets[s]))
  /\ UNCHANGED <<metadata, pi_meet, sockets, claims>>

-----------------------------------------------------------------------------
(* Time and the watchdog *)

\* Mutant: a degraded meet is no longer looked at.
due_NotDegraded(record) ==
  CASE record.status \in {"none", "closed", "expired_id_rotated", "degraded"} -> "none"
    [] record.age = 2 -> "closed"
    [] record.age = 1 -> "degraded"
    [] OTHER -> "none"

\* Mutant: a status that no reader of the record knows.
due_Misspelt(record) ==
  CASE record.status \in {"none", "closed", "expired_id_rotated"} -> "none"
    [] record.age = 2 -> "closed"
    [] record.age = 1 /\ record.status # "degraded" -> "degrade"
    [] OTHER -> "none"

\* What a tick does about a record.
due(record) ==
  CASE record.status \in {"none", "closed", "expired_id_rotated"} -> "none"
    [] record.age = 2 -> "closed"
    [] record.age = 1 /\ record.status # "degraded" -> "degraded"
    [] OTHER -> "none"

\* One meet's turn in a tick.
WatchdogTick(m) ==
  /\ due(metadata[m]) # "none"
  /\ Starts(<<"watchdog", m>>, Marking(m, due(metadata[m]), NoSession))
  /\ UNCHANGED <<metadata, pi_meet, sockets, claims>>

\* No heartbeat for a minute, or for two hours.  A store operation takes
\* milliseconds: no such time passes while a handler works on the record.
HeartbeatAges(m) ==
  /\ metadata[m] # NoRecord /\ metadata[m].age < MaxAge
  /\ \A h \in Handlers : handlers[h] # Idle => handlers[h].meet # m
  /\ metadata' = [metadata EXCEPT ![m].age = @ + 1]
  /\ UNCHANGED <<pi_meet, sockets, handlers, claims>>

-----------------------------------------------------------------------------
Init ==
  /\ metadata = [m \in Meets |-> NoRecord]
  /\ pi_meet = [p \in Pis |-> NoMeet]
  /\ sockets = [s \in Sockets |-> NoSession]
  /\ handlers = [h \in Handlers |-> Idle]
  /\ claims = [m \in Meets |-> {}]

StoreStep ==
  \/ \E h \in Handlers : ReadRecord(h) \/ WriteRecord(h)
  \/ \E s \in Sockets : CheckMeetId(s) \/ ReadPiMeetId(s) \/ OpenMeet(s)

PiEvent ==
  \E s \in Sockets :
    \/ \E p \in Pis, m \in Meets : Connect(s, p, m)
    \/ Disconnect(s) \/ OnMeetOpen(s) \/ RefuseMeetOpen(s)
    \/ OnHeartbeat(s) \/ OnMeetClose(s)

Watchdog == \E m \in Meets : WatchdogTick(m) \/ HeartbeatAges(m)

Next == StoreStep \/ PiEvent \/ Watchdog

Spec == Init /\ [][Next]_vars

\* A handler in flight goes on, time passes for a meet no Pi is connected for, the
\* watchdog looks at every meet again and again, and a socket that is up sends
\* heartbeats; these are not kept waiting for ever by MaxTasks, hence SF.
Fairness ==
  /\ \A h \in Handlers : WF_vars(ReadRecord(h) \/ WriteRecord(h))
  /\ \A s \in Sockets : WF_vars(CheckMeetId(s) \/ ReadPiMeetId(s) \/ OpenMeet(s))
  /\ \A s \in Sockets : SF_vars(OnHeartbeat(s))
  /\ \A m \in Meets : SF_vars(WatchdogTick(m)) /\ WF_vars(~connected(m) /\ HeartbeatAges(m))

FairSpec == Spec /\ Fairness

-----------------------------------------------------------------------------
(* Properties *)

\* Types: every record has one of the four statuses and a Pi for an owner, and
\* every handler in flight is at one of its store operations.
TypeOK ==
  /\ metadata \in [Meets -> Record \cup {NoRecord}]
  /\ pi_meet \in [Pis -> Meets \cup {NoMeet}]
  /\ sockets \in [Sockets -> Session \cup {NoSession}]
  /\ handlers \in [Handlers -> Task \cup {Idle}]
  /\ claims \in [Meets -> SUBSET Pis]

\* A meet ID changes hands only between Pis whose claims of the free ID
\* overlapped: no heartbeat, disconnect, close or watchdog pass, however late it
\* writes back the record it read, gives a meet to another Pi.
OwnerIsStable ==
  [][\A m \in Meets :
       metadata[m] # NoRecord =>
         /\ metadata'[m] # NoRecord
         /\ metadata'[m].owner # metadata[m].owner =>
              {metadata[m].owner, metadata'[m].owner} \subseteq claims[m]]_vars

\* Once a meet ID has a record, no further Pi passes the check, whatever became
\* of the meet: a closed or rotated ID is kept for the Pis that had it.
ClaimedWhileFree ==
  [][\A m \in Meets : claims'[m] # claims[m] => metadata[m] = NoRecord]_vars

\* The meet bound to a Pi has a record, and the Pi was entitled to it.
BoundMeetIsClaimed ==
  \A p \in Pis : pi_meet[p] # NoMeet =>
    metadata[pi_meet[p]] # NoRecord /\ p \in claims[pi_meet[p]]

\* A meet whose Pi is gone is closed in the end unless a Pi connects again, even
\* if handlers write stale records over each other.
QuietMeetCloses ==
  \A m \in Meets :
    (metadata[m] # NoRecord /\ ~connected(m)) ~>
      (connected(m) \/ metadata[m].status \in {"closed", "expired_id_rotated"})

\* A served meet that was marked degraded, by the watchdog or by the late
\* disconnect of an older socket, does not stay so.
ServedMeetRecovers ==
  \A m \in Meets :
    (metadata[m].status = "degraded" /\ served(m)) ~>
      (metadata[m].status # "degraded" \/ ~served(m))
=============================================================================
