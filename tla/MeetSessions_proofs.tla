-------------------------- MODULE MeetSessions_proofs --------------------------
(***************************************************************************)
(* Proofs about MeetSessions, for any Pis, meet IDs, sockets and bounds:   *)
(* types, the binding of Pis to meets and who may become an owner.         *)
(*                                                                         *)
(* The argument: every owner, in a record or in a copy that a handler has  *)
(* read and will write back, has passed the check of that meet ID; claims  *)
(* only grow and records never disappear, so this survives the interleaving *)
(* of the handlers.                                                        *)
(***************************************************************************)
EXTENDS MeetSessions, TLAPS

\* What is known of a handler in flight by itself.
TaskOK(t) ==
  /\ t \in Task
  /\ t.step = "write" => t.copy \in Record
  /\ t.mark = "expired_id_rotated" => t.session \in Session
  /\ t.step \in {"check", "bind", "publish"} =>
       t.mark = "expired_id_rotated" /\ t.meet = t.session.meet

\* What is known of it given the records md and the claims cl: the copy it is to
\* write belongs to a claimant, and past the check its own Pi is a claimant.
TaskClaimed(t, md, cl) ==
  /\ t.step = "write" => md[t.meet] # NoRecord /\ t.copy.owner \in cl[t.meet]
  /\ t.mark = "expired_id_rotated" /\ t.step # "check" =>
       t.session.pi \in cl[t.session.meet]

HandlersOK ==
  \A h \in Handlers :
    handlers[h] # Idle => TaskOK(handlers[h]) /\ TaskClaimed(handlers[h], metadata, claims)

OwnersClaimed ==
  \A m \in Meets : metadata[m] # NoRecord => metadata[m].owner \in claims[m]

IInv == TypeOK /\ HandlersOK /\ OwnersClaimed /\ BoundMeetIsClaimed

\* Records do not disappear and claims are not withdrawn.
Grows ==
  \A m \in Meets :
    /\ claims[m] \subseteq claims'[m]
    /\ metadata[m] # NoRecord => metadata'[m] # NoRecord

\* The handler h goes on with a task that is in order.
GoesWell(h, t) ==
  /\ Goes(h, t)
  /\ t = Idle \/ (TaskOK(t) /\ TaskClaimed(t, metadata', claims'))

-----------------------------------------------------------------------------
\* A handler in flight has a task, never the idle one.
LEMMA InFlight ==
  ASSUME TypeOK, HandlersOK, NEW h \in Handlers, handlers[h].step \in Steps
  PROVE  handlers[h] # Idle /\ TaskOK(handlers[h])
         /\ TaskClaimed(handlers[h], metadata, claims)
  BY DEF HandlersOK, Idle, Steps

\* Marking a record keeps its owner.
LEMMA MarkedTyped ==
  ASSUME NEW r \in Record, NEW mark \in Marks
  PROVE  /\ marked(r, mark) \in Record
         /\ marked(r, mark).owner = r.owner
         /\ marked(r, mark) # NoRecord
<1>1. marked(r, mark) \in Record /\ marked(r, mark).owner = r.owner
  BY DEF marked, Record, Marks, Status
<1> QED BY <1>1 DEF Record, NoRecord, Status

\* What follows a marking is in order, once the meet_open's Pi has a claim.
LEMMA AfterwardsOK ==
  ASSUME NEW t, NEW md, NEW cl, TaskOK(t), TaskClaimed(t, md, cl),
         t.step \in {"read", "write"}
  PROVE  afterwards(t) = Idle
         \/ (TaskOK(afterwards(t)) /\ TaskClaimed(afterwards(t), md, cl))
<1>1. CASE t.mark # "expired_id_rotated"
  BY <1>1 DEF afterwards
<1>2. CASE t.mark = "expired_id_rotated"
  <2>1. afterwards(t) = [t EXCEPT !.step = "publish", !.meet = t.session.meet,
                                  !.copy = NoRecord]
    BY <1>2 DEF afterwards
  <2>2. t \in Task /\ t.session \in Session
    BY <1>2 DEF TaskOK
  <2>3. /\ afterwards(t) \in Task
        /\ afterwards(t).step = "publish" /\ afterwards(t).mark = t.mark
        /\ afterwards(t).meet = t.session.meet /\ afterwards(t).session = t.session
    BY <2>1, <2>2 DEF Task, Session, Steps
  <2>4. t.session.pi \in cl[t.session.meet]
    BY <1>2 DEF TaskClaimed
  <2> QED BY <1>2, <2>2, <2>3, <2>4 DEF TaskOK, TaskClaimed
<1> QED BY <1>1, <1>2

\* A task stays in order as records and claims are added.
LEMMA HandlersStep ==
  ASSUME TypeOK, HandlersOK, Grows, NEW h \in Handlers, NEW t, GoesWell(h, t)
  PROVE  handlers' \in [Handlers -> Task \cup {Idle}] /\ HandlersOK'
<1>1. handlers' = [handlers EXCEPT ![h] = t] /\ t \in Task \cup {Idle}
  BY DEF GoesWell, Goes, TaskOK
<1>2. handlers' \in [Handlers -> Task \cup {Idle}]
  BY <1>1 DEF TypeOK
<1>3. SUFFICES ASSUME NEW g \in Handlers, handlers'[g] # Idle
               PROVE  TaskOK(handlers'[g]) /\ TaskClaimed(handlers'[g], metadata', claims')
  BY <1>2 DEF HandlersOK
<1>4. CASE g = h
  BY <1>1, <1>3, <1>4 DEF GoesWell, TypeOK
<1>5. CASE g # h
  <2>1. handlers'[g] = handlers[g]
    BY <1>1, <1>5 DEF TypeOK
  <2>2. TaskOK(handlers[g]) /\ TaskClaimed(handlers[g], metadata, claims)
    BY <1>3, <2>1 DEF HandlersOK
  <2>3. /\ handlers[g].meet \in Meets
        /\ handlers[g].mark = "expired_id_rotated" => handlers[g].session.meet \in Meets
    BY <2>2 DEF TaskOK, Task, Session
  <2>4. TaskClaimed(handlers[g], metadata', claims')
    BY <2>2, <2>3 DEF TaskClaimed, Grows
  <2> QED BY <2>1, <2>2, <2>4
<1> QED BY <1>2, <1>4, <1>5

\* A handler that reads or marks a record for a mark it was called with.
LEMMA MarkingOK ==
  ASSUME NEW m \in Meets, NEW mark \in Marks \ {"expired_id_rotated"},
         NEW session \in Session \cup {NoSession}, NEW md, NEW cl
  PROVE  TaskOK(Marking(m, mark, session)) /\ TaskClaimed(Marking(m, mark, session), md, cl)
  BY DEF Marking, TaskOK, TaskClaimed, Task, Steps, Marks

\* Where the records and the claims are left alone, a handler that goes on well
\* keeps everything that does not speak of sockets and bindings.
LEMMA QuietStep ==
  ASSUME IInv, UNCHANGED <<metadata, claims>>, NEW h \in Handlers, NEW t,
         Goes(h, t), t = Idle \/ (TaskOK(t) /\ TaskClaimed(t, metadata, claims))
  PROVE  handlers' \in [Handlers -> Task \cup {Idle}] /\ HandlersOK' /\ OwnersClaimed'
<1>1. Grows /\ GoesWell(h, t)
  BY DEF Grows, GoesWell
<1>2. handlers' \in [Handlers -> Task \cup {Idle}] /\ HandlersOK'
  BY <1>1, HandlersStep DEF IInv
<1> QED BY <1>2 DEF IInv, OwnersClaimed

LEMMA InitInv == Init => IInv
  BY DEF Init, IInv, TypeOK, HandlersOK, OwnersClaimed, BoundMeetIsClaimed, Idle, Task, Steps

\* The inductive step, one action after the other.
LEMMA ReadStep ==
  ASSUME IInv, NEW h \in Handlers, ReadRecord(h)
  PROVE  IInv'
<1> DEFINE t == handlers[h]
           next == IF metadata[t.meet] = NoRecord THEN afterwards(t)
                   ELSE [t EXCEPT !.step = "write", !.copy = metadata[t.meet]]
<1>1. t.step = "read" /\ Goes(h, next) /\ UNCHANGED <<metadata, pi_meet, sockets, claims>>
  BY DEF ReadRecord
<1>2. TaskOK(t) /\ TaskClaimed(t, metadata, claims)
  BY <1>1, InFlight DEF IInv, Steps
<1>3. next = Idle \/ (TaskOK(next) /\ TaskClaimed(next, metadata, claims))
  <2>1. CASE metadata[t.meet] = NoRecord
    BY <1>1, <1>2, <2>1, AfterwardsOK
  <2>2. CASE metadata[t.meet] # NoRecord
    <3>1. t \in Task /\ t.meet \in Meets
      BY <1>2 DEF TaskOK, Task
    <3>2. metadata[t.meet] \in Record /\ metadata[t.meet].owner \in claims[t.meet]
      BY <2>2, <3>1 DEF IInv, TypeOK, OwnersClaimed
    <3>3. /\ next \in Task /\ next.step = "write" /\ next.copy = metadata[t.meet]
          /\ next.meet = t.meet /\ next.mark = t.mark /\ next.session = t.session
      BY <2>2, <3>1, <3>2 DEF Task, Steps
    <3>4. TaskOK(next)
      BY <1>2, <3>2, <3>3 DEF TaskOK
    <3>5. TaskClaimed(next, metadata, claims)
      BY <1>1, <1>2, <2>2, <3>2, <3>3 DEF TaskClaimed
    <3> QED BY <3>4, <3>5
  <2> QED BY <2>1, <2>2
<1>4. handlers' \in [Handlers -> Task \cup {Idle}] /\ HandlersOK' /\ OwnersClaimed'
  BY <1>1, <1>3, QuietStep
<1> QED BY <1>1, <1>4 DEF IInv, TypeOK, BoundMeetIsClaimed

LEMMA WriteStep ==
  ASSUME IInv, NEW h \in Handlers, WriteRecord(h)
  PROVE  IInv'
<1> DEFINE t == handlers[h]
           record == marked(t.copy, t.mark)
<1>1. /\ t.step = "write" /\ Goes(h, afterwards(t))
      /\ metadata' = [metadata EXCEPT ![t.meet] = record]
      /\ UNCHANGED <<pi_meet, sockets, claims>>
  BY DEF WriteRecord
<1>2. TaskOK(t) /\ TaskClaimed(t, metadata, claims)
  BY <1>1, InFlight DEF IInv, Steps
<1>3. t \in Task /\ t.meet \in Meets /\ t.copy \in Record /\ t.mark \in Marks
  BY <1>1, <1>2 DEF TaskOK, Task
<1>4. record \in Record /\ record # NoRecord /\ record.owner \in claims[t.meet]
  BY <1>1, <1>2, <1>3, MarkedTyped DEF TaskClaimed
<1>5. metadata' \in [Meets -> Record \cup {NoRecord}] /\ Grows
  BY <1>1, <1>3, <1>4 DEF IInv, TypeOK, Grows
<1>6. OwnersClaimed'
  BY <1>1, <1>3, <1>4 DEF IInv, TypeOK, OwnersClaimed
<1>7. BoundMeetIsClaimed'
  BY <1>1, <1>5 DEF IInv, TypeOK, BoundMeetIsClaimed, Grows
<1>8. GoesWell(h, afterwards(t))
  <2>1. TaskClaimed(t, metadata', claims')
    BY <1>1, <1>2, <1>5 DEF TaskClaimed, Grows, TaskOK, Task, Session
  <2> QED BY <1>1, <1>2, <2>1, AfterwardsOK DEF GoesWell
<1>9. handlers' \in [Handlers -> Task \cup {Idle}] /\ HandlersOK'
  BY <1>5, <1>8, HandlersStep DEF IInv
<1> QED BY <1>1, <1>5, <1>6, <1>7, <1>9 DEF IInv, TypeOK

LEMMA CheckStep ==
  ASSUME IInv, NEW s \in Sockets, CheckMeetId(s)
  PROVE  /\ IInv'
         /\ \A m \in Meets : claims'[m] # claims[m] => metadata[m] = NoRecord
<1> DEFINE h == <<s, "meet_open">>
           t == handlers[h]
<1>1. h \in Handlers
  BY DEF Handlers, SocketHandlers
<1>2. t.step = "check" /\ UNCHANGED <<metadata, pi_meet, sockets>>
  BY DEF CheckMeetId
<1>3. TaskOK(t) /\ TaskClaimed(t, metadata, claims)
  BY <1>1, <1>2, InFlight DEF IInv, Steps
<1>4. /\ t \in Task /\ t.session \in Session /\ t.mark = "expired_id_rotated"
      /\ t.meet = t.session.meet /\ t.meet \in Meets /\ t.session.pi \in Pis
  BY <1>2, <1>3 DEF TaskOK, Session
<1>5. CASE taken(t.meet, t.session.pi)
  <2>1. Goes(h, Idle) /\ UNCHANGED claims
    BY <1>5 DEF CheckMeetId
  <2>2. handlers' \in [Handlers -> Task \cup {Idle}] /\ HandlersOK' /\ OwnersClaimed'
    BY <1>1, <1>2, <2>1, QuietStep
  <2> QED BY <1>2, <2>1, <2>2 DEF IInv, TypeOK, BoundMeetIsClaimed
<1>6. CASE ~taken(t.meet, t.session.pi)
  <2> DEFINE next == [t EXCEPT !.step = "bind"]
  <2>1. /\ Goes(h, next)
        /\ claims' = [claims EXCEPT ![t.meet] = @ \cup {t.session.pi}]
    BY <1>6 DEF CheckMeetId
  <2>2. Grows /\ claims' \in [Meets -> SUBSET Pis] /\ t.session.pi \in claims'[t.meet]
    BY <1>2, <1>4, <2>1 DEF IInv, TypeOK, Grows
  <2>3. /\ next \in Task /\ next.step = "bind" /\ next.meet = t.meet
        /\ next.mark = t.mark /\ next.session = t.session
    BY <1>4 DEF Task, Steps
  <2>4. TaskOK(next) /\ TaskClaimed(next, metadata', claims')
    BY <1>4, <2>2, <2>3 DEF TaskOK, TaskClaimed
  <2>5. handlers' \in [Handlers -> Task \cup {Idle}] /\ HandlersOK'
    BY <1>1, <2>1, <2>2, <2>4, HandlersStep DEF IInv, GoesWell
  <2>6. OwnersClaimed' /\ BoundMeetIsClaimed'
    BY <1>2, <2>2 DEF IInv, TypeOK, OwnersClaimed, BoundMeetIsClaimed, Grows
  <2>7. \A m \in Meets : claims'[m] # claims[m] => metadata[m] = NoRecord
    <3>1. claims[t.meet] # claims'[t.meet] => t.session.pi \notin claims[t.meet]
      BY <1>4, <2>1 DEF IInv, TypeOK
    <3>2. metadata[t.meet] # NoRecord => metadata[t.meet].owner = t.session.pi
      BY <1>6 DEF taken
    <3> QED BY <1>4, <2>1, <3>1, <3>2 DEF IInv, TypeOK, OwnersClaimed
  <2> QED BY <1>2, <2>2, <2>5, <2>6, <2>7 DEF IInv, TypeOK
<1> QED BY <1>5, <1>6

LEMMA BindStep ==
  ASSUME IInv, NEW s \in Sockets, ReadPiMeetId(s)
  PROVE  IInv'
<1> DEFINE h == <<s, "meet_open">>
           t == handlers[h]
           previous == pi_meet[t.session.pi]
           next == IF previous \notin {NoMeet, t.meet}
                   THEN [t EXCEPT !.step = "read", !.meet = previous]
                   ELSE [t EXCEPT !.step = "publish"]
<1>1. h \in Handlers
  BY DEF Handlers, SocketHandlers
<1>2. t.step = "bind" /\ Goes(h, next) /\ UNCHANGED <<metadata, pi_meet, sockets, claims>>
  BY DEF ReadPiMeetId
<1>3. TaskOK(t) /\ TaskClaimed(t, metadata, claims)
  BY <1>1, <1>2, InFlight DEF IInv, Steps
<1>4. /\ t \in Task /\ t.session \in Session /\ t.mark = "expired_id_rotated"
      /\ t.meet = t.session.meet /\ t.session.pi \in Pis
      /\ t.session.pi \in claims[t.session.meet]
  BY <1>2, <1>3 DEF TaskOK, TaskClaimed, Session
<1>5. previous \in Meets \cup {NoMeet}
  BY <1>4 DEF IInv, TypeOK
<1>6. TaskOK(next) /\ TaskClaimed(next, metadata, claims)
  <2>1. CASE previous \notin {NoMeet, t.meet}
    <3>1. /\ next \in Task /\ next.step = "read"
          /\ next.mark = t.mark /\ next.session = t.session
      BY <1>4, <1>5, <2>1 DEF Task, Steps
    <3> QED BY <1>4, <3>1 DEF TaskOK, TaskClaimed
  <2>2. CASE previous \in {NoMeet, t.meet}
    <3>1. /\ next \in Task /\ next.step = "publish" /\ next.meet = t.meet
          /\ next.mark = t.mark /\ next.session = t.session
      BY <1>4, <2>2 DEF Task, Steps
    <3> QED BY <1>4, <3>1 DEF TaskOK, TaskClaimed
  <2> QED BY <2>1, <2>2
<1>7. handlers' \in [Handlers -> Task \cup {Idle}] /\ HandlersOK' /\ OwnersClaimed'
  BY <1>1, <1>2, <1>6, QuietStep
<1> QED BY <1>2, <1>7 DEF IInv, TypeOK, BoundMeetIsClaimed

LEMMA OpenStep ==
  ASSUME IInv, NEW s \in Sockets, OpenMeet(s)
  PROVE  IInv'
<1> DEFINE h == <<s, "meet_open">>
           t == handlers[h]
           record == [status |-> "live", owner |-> t.session.pi, age |-> 0]
<1>1. h \in Handlers
  BY DEF Handlers, SocketHandlers
<1>2. /\ t.step = "publish" /\ Goes(h, Idle) /\ UNCHANGED <<sockets, claims>>
      /\ metadata' = [metadata EXCEPT ![t.meet] = record]
      /\ pi_meet' = [pi_meet EXCEPT ![t.session.pi] = t.meet]
  BY DEF OpenMeet
<1>3. TaskOK(t) /\ TaskClaimed(t, metadata, claims)
  BY <1>1, <1>2, InFlight DEF IInv, Steps
<1>4. t.session.pi \in Pis /\ t.meet \in Meets /\ t.session.pi \in claims[t.meet]
  BY <1>2, <1>3 DEF TaskOK, TaskClaimed, Session
<1>5. record \in Record /\ record # NoRecord
  BY <1>4 DEF Record, NoRecord, Status
<1>6. /\ metadata' \in [Meets -> Record \cup {NoRecord}] /\ Grows
      /\ pi_meet' \in [Pis -> Meets \cup {NoMeet}]
  BY <1>2, <1>4, <1>5 DEF IInv, TypeOK, Grows
<1>7. OwnersClaimed'
  BY <1>2, <1>4, <1>5 DEF IInv, TypeOK, OwnersClaimed
<1>8. BoundMeetIsClaimed'
  BY <1>2, <1>4, <1>5, <1>6 DEF IInv, TypeOK, BoundMeetIsClaimed, Grows
<1>9. handlers' \in [Handlers -> Task \cup {Idle}] /\ HandlersOK'
  BY <1>1, <1>2, <1>6, HandlersStep DEF IInv, GoesWell
<1> QED BY <1>2, <1>6, <1>7, <1>8, <1>9 DEF IInv, TypeOK

\* The events that only start a handler or touch a socket.
LEMMA EventStep ==
  ASSUME IInv, PiEvent
  PROVE  IInv' /\ UNCHANGED <<metadata, claims>>
<1>1. ASSUME NEW s \in Sockets, NEW p \in Pis, NEW m \in Meets, Connect(s, p, m)
      PROVE  IInv' /\ UNCHANGED <<metadata, claims>>
  <2>1. /\ sockets' \in [Sockets -> Session \cup {NoSession}]
        /\ UNCHANGED <<metadata, pi_meet, handlers, claims>>
    BY <1>1 DEF Connect, IInv, TypeOK, Session
  <2> QED BY <2>1 DEF IInv, TypeOK, HandlersOK, OwnersClaimed, BoundMeetIsClaimed
<1>2. ASSUME NEW s \in Sockets, sockets[s] # NoSession
      PROVE  sockets[s] \in Session /\ sockets[s].meet \in Meets
  BY <1>2 DEF IInv, TypeOK, Session
<1>3. ASSUME NEW s \in Sockets, sockets[s].opened
      PROVE  sockets[s] # NoSession
  BY <1>3 DEF NoSession
<1>4. ASSUME NEW h \in Handlers, NEW t, Starts(h, t), TaskOK(t),
             TaskClaimed(t, metadata, claims), UNCHANGED <<metadata, pi_meet, claims>>,
             sockets' \in [Sockets -> Session \cup {NoSession}]
      PROVE  IInv' /\ UNCHANGED <<metadata, claims>>
  <2>1. handlers' \in [Handlers -> Task \cup {Idle}] /\ HandlersOK' /\ OwnersClaimed'
    BY <1>4, QuietStep DEF Starts
  <2> QED BY <1>4, <2>1 DEF IInv, TypeOK, BoundMeetIsClaimed
<1>5. ASSUME NEW s \in Sockets, Disconnect(s)
      PROVE  IInv' /\ UNCHANGED <<metadata, claims>>
  <2> DEFINE t == Marking(sockets[s].meet, "degraded", sockets[s])
  <2>1. /\ Starts(<<s, "disconnect">>, t) /\ UNCHANGED <<metadata, pi_meet, claims>>
        /\ <<s, "disconnect">> \in Handlers
        /\ sockets' \in [Sockets -> Session \cup {NoSession}]
    BY <1>5 DEF Disconnect, IInv, TypeOK, Handlers, SocketHandlers
  <2>2. TaskOK(t) /\ TaskClaimed(t, metadata, claims)
    BY <1>2, <1>5, MarkingOK DEF Disconnect, Marks, Status
  <2> QED BY <1>4, <2>1, <2>2
<1>6. ASSUME NEW s \in Sockets, OnMeetOpen(s)
      PROVE  IInv' /\ UNCHANGED <<metadata, claims>>
  <2> DEFINE t == [Marking(sockets[s].meet, "expired_id_rotated", sockets[s])
                     EXCEPT !.step = "check"]
  <2>1. sockets[s] \in Session /\ sockets[s].meet \in Meets
    BY <1>2, <1>6 DEF OnMeetOpen
  <2>2. /\ Starts(<<s, "meet_open">>, t) /\ UNCHANGED <<metadata, pi_meet, claims>>
        /\ <<s, "meet_open">> \in Handlers
        /\ sockets' = [sockets EXCEPT ![s].opened = TRUE]
    BY <1>6 DEF OnMeetOpen, Handlers, SocketHandlers
  <2>3. sockets' \in [Sockets -> Session \cup {NoSession}]
    BY <2>1, <2>2 DEF IInv, TypeOK, Session
  <2>4. t = [step |-> "check", meet |-> sockets[s].meet, mark |-> "expired_id_rotated",
             copy |-> NoRecord, session |-> sockets[s]]
    BY DEF Marking
  <2>5. TaskOK(t) /\ TaskClaimed(t, metadata, claims)
    BY <2>1, <2>4 DEF TaskOK, TaskClaimed, Task, Steps, Marks, Status
  <2> QED BY <1>4, <2>2, <2>3, <2>5
<1>7. ASSUME NEW s \in Sockets, NEW mark \in {"heartbeat", "closed"},
             NEW kind \in {"heartbeat", "meet_close"}, sockets[s].opened,
             Starts(<<s, kind>>, Marking(sockets[s].meet, mark, sockets[s])),
             UNCHANGED <<metadata, pi_meet, sockets, claims>>
      PROVE  IInv' /\ UNCHANGED <<metadata, claims>>
  <2> DEFINE t == Marking(sockets[s].meet, mark, sockets[s])
  <2>1. <<s, kind>> \in Handlers /\ sockets' \in [Sockets -> Session \cup {NoSession}]
    BY <1>7 DEF IInv, TypeOK, Handlers, SocketHandlers
  <2>2. TaskOK(t) /\ TaskClaimed(t, metadata, claims)
    BY <1>2, <1>3, <1>7, MarkingOK DEF Marks, Status
  <2> QED BY <1>4, <1>7, <2>1, <2>2
<1>8. ASSUME NEW s \in Sockets, OnHeartbeat(s) \/ OnMeetClose(s)
      PROVE  IInv' /\ UNCHANGED <<metadata, claims>>
  BY <1>7, <1>8 DEF OnHeartbeat, OnMeetClose, Arrives
<1>9. ASSUME NEW s \in Sockets, RefuseMeetOpen(s)
      PROVE  IInv' /\ UNCHANGED <<metadata, claims>>
  <2>1. sockets' \in [Sockets -> Session \cup {NoSession}]
    BY <1>2, <1>9 DEF RefuseMeetOpen, IInv, TypeOK, Session
  <2> QED BY <1>9, <2>1
          DEF RefuseMeetOpen, IInv, TypeOK, HandlersOK, OwnersClaimed, BoundMeetIsClaimed
<1> QED BY <1>1, <1>5, <1>6, <1>8, <1>9 DEF PiEvent

LEMMA WatchdogStep ==
  ASSUME IInv, NEW m \in Meets, WatchdogTick(m)
  PROVE  IInv' /\ UNCHANGED <<metadata, claims>>
<1> DEFINE t == Marking(m, due(metadata[m]), NoSession)
<1>1. /\ Starts(<<"watchdog", m>>, t) /\ UNCHANGED <<metadata, pi_meet, sockets, claims>>
      /\ <<"watchdog", m>> \in Handlers /\ due(metadata[m]) # "none"
  BY DEF WatchdogTick, Handlers
<1>2. due(metadata[m]) \in {"degraded", "closed"}
  BY <1>1 DEF due
<1>3. TaskOK(t) /\ TaskClaimed(t, metadata, claims)
  BY <1>2, MarkingOK DEF Marks, Status
<1>4. handlers' \in [Handlers -> Task \cup {Idle}] /\ HandlersOK' /\ OwnersClaimed'
  BY <1>1, <1>3, QuietStep DEF Starts
<1> QED BY <1>1, <1>4 DEF IInv, TypeOK, BoundMeetIsClaimed

LEMMA AgeStep ==
  ASSUME IInv, NEW m \in Meets, HeartbeatAges(m)
  PROVE  IInv' /\ metadata'[m].owner = metadata[m].owner
<1> DEFINE record == [metadata[m] EXCEPT !.age = @ + 1]
<1>1. /\ metadata[m] # NoRecord /\ metadata[m].age < MaxAge
      /\ metadata' = [metadata EXCEPT ![m] = record]
      /\ UNCHANGED <<pi_meet, sockets, handlers, claims>>
  BY DEF HeartbeatAges
<1>2. metadata[m] \in Record
  BY <1>1 DEF IInv, TypeOK
<1>3. record \in Record /\ record.owner = metadata[m].owner
  BY <1>1, <1>2, BoundAssumption DEF Record
<1>4. record # NoRecord
  BY <1>3 DEF Record, NoRecord, Status
<1>5. metadata' \in [Meets -> Record \cup {NoRecord}] /\ Grows
  BY <1>1, <1>3, <1>4 DEF IInv, TypeOK, Grows
<1>6. OwnersClaimed' /\ BoundMeetIsClaimed'
  BY <1>1, <1>3, <1>4, <1>5 DEF IInv, TypeOK, OwnersClaimed, BoundMeetIsClaimed, Grows
<1>7. HandlersOK'
  <2>1. SUFFICES ASSUME NEW h \in Handlers, handlers[h] # Idle
                 PROVE  TaskOK(handlers[h]) /\ TaskClaimed(handlers[h], metadata', claims')
    BY <1>1 DEF HandlersOK
  <2>2. TaskOK(handlers[h]) /\ TaskClaimed(handlers[h], metadata, claims)
    BY <2>1 DEF IInv, HandlersOK
  <2> QED BY <1>1, <1>5, <2>2 DEF TaskOK, TaskClaimed, Task, Grows
<1> QED BY <1>1, <1>3, <1>5, <1>6, <1>7 DEF IInv, TypeOK

\* A late write gives a meet only to a claimant.
LEMMA WriteOwner ==
  ASSUME IInv, NEW h \in Handlers, WriteRecord(h), NEW m \in Meets
  PROVE  metadata'[m].owner = metadata[m].owner \/ metadata'[m].owner \in claims[m]
<1> DEFINE t == handlers[h]
<1>1. t.step = "write" /\ metadata' = [metadata EXCEPT ![t.meet] = marked(t.copy, t.mark)]
  BY DEF WriteRecord
<1>2. TaskOK(t) /\ TaskClaimed(t, metadata, claims)
  BY <1>1, InFlight DEF IInv, Steps
<1>3. t.copy \in Record /\ t.mark \in Marks
  BY <1>1, <1>2 DEF TaskOK, Task
<1>4. marked(t.copy, t.mark).owner \in claims[t.meet]
  BY <1>1, <1>2, <1>3, MarkedTyped DEF TaskClaimed
<1> QED BY <1>1, <1>4 DEF IInv, TypeOK

LEMMA NextInv ==
  ASSUME IInv, [Next]_vars
  PROVE  IInv'
<1>1. CASE StoreStep
  BY <1>1, ReadStep, WriteStep, CheckStep, BindStep, OpenStep DEF StoreStep
<1>2. CASE PiEvent
  BY <1>2, EventStep
<1>3. CASE Watchdog
  BY <1>3, WatchdogStep, AgeStep DEF Watchdog
<1>4. CASE UNCHANGED vars
  BY <1>4 DEF vars, IInv, TypeOK, HandlersOK, OwnersClaimed, BoundMeetIsClaimed
<1> QED BY <1>1, <1>2, <1>3, <1>4 DEF Next

\* Who owns a meet and who has claimed it, after any step.
LEMMA OwnerStep ==
  ASSUME IInv, [Next]_vars, NEW m \in Meets
  PROVE  /\ metadata[m] # NoRecord =>
              /\ metadata'[m] # NoRecord
              /\ metadata'[m].owner # metadata[m].owner =>
                   {metadata[m].owner, metadata'[m].owner} \subseteq claims[m]
         /\ claims'[m] # claims[m] => metadata[m] = NoRecord
<1> DEFINE Stable == /\ metadata[m] # NoRecord =>
                          /\ metadata'[m] # NoRecord
                          /\ metadata'[m].owner # metadata[m].owner =>
                               {metadata[m].owner, metadata'[m].owner} \subseteq claims[m]
                     /\ claims'[m] # claims[m] => metadata[m] = NoRecord
<1>1. metadata[m] # NoRecord => metadata[m].owner \in claims[m]
  BY DEF IInv, OwnersClaimed
<1>2. CASE UNCHANGED <<metadata, claims>>
  BY <1>2
<1>3. ASSUME NEW h \in Handlers, ReadRecord(h) \/ WriteRecord(h)
      PROVE  Stable
  <2>1. CASE ReadRecord(h)
    BY <1>2, <2>1 DEF ReadRecord
  <2>2. CASE WriteRecord(h)
    <3> DEFINE t == handlers[h]
    <3>1. t.step = "write" /\ UNCHANGED claims
          /\ metadata' = [metadata EXCEPT ![t.meet] = marked(t.copy, t.mark)]
      BY <2>2 DEF WriteRecord
    <3>2. t.copy \in Record /\ t.mark \in Marks
      BY <3>1, InFlight DEF IInv, Steps, TaskOK, Task
    <3>3. marked(t.copy, t.mark) # NoRecord
      BY <3>2, MarkedTyped
    <3>4. metadata[m] # NoRecord => metadata'[m] # NoRecord
      BY <3>1, <3>3 DEF IInv, TypeOK
    <3> QED BY <1>1, <2>2, <3>1, <3>4, WriteOwner
  <2> QED BY <1>3, <2>1, <2>2
<1>4. ASSUME NEW s \in Sockets, CheckMeetId(s) \/ ReadPiMeetId(s) \/ OpenMeet(s)
      PROVE  Stable
  <2>1. CASE CheckMeetId(s)
    <3>1. UNCHANGED metadata
      BY <2>1 DEF CheckMeetId
    <3> QED BY <2>1, <3>1, CheckStep
  <2>2. CASE ReadPiMeetId(s)
    BY <1>2, <2>2 DEF ReadPiMeetId
  <2>3. CASE OpenMeet(s)
    <3> DEFINE t == handlers[<<s, "meet_open">>]
               record == [status |-> "live", owner |-> t.session.pi, age |-> 0]
    <3>1. /\ t.step = "publish" /\ UNCHANGED claims
          /\ metadata' = [metadata EXCEPT ![t.meet] = record]
          /\ <<s, "meet_open">> \in Handlers
      BY <2>3 DEF OpenMeet, Handlers, SocketHandlers
    <3>2. TaskOK(t) /\ TaskClaimed(t, metadata, claims)
      BY <3>1, InFlight DEF IInv, Steps
    <3>3. record.owner \in claims[t.meet]
      BY <3>1, <3>2 DEF TaskOK, TaskClaimed
    <3>4. record # NoRecord
      BY DEF NoRecord
    <3> QED BY <1>1, <3>1, <3>3, <3>4 DEF IInv, TypeOK
  <2> QED BY <1>4, <2>1, <2>2, <2>3
<1>5. CASE PiEvent
  BY <1>2, <1>5, EventStep
<1>6. ASSUME NEW n \in Meets, WatchdogTick(n) \/ HeartbeatAges(n)
      PROVE  Stable
  <2>1. CASE WatchdogTick(n)
    BY <1>2, <2>1, WatchdogStep
  <2>2. CASE HeartbeatAges(n)
    <3>1. /\ UNCHANGED claims /\ metadata[n] \in Record
          /\ metadata' = [metadata EXCEPT ![n].age = @ + 1]
      BY <2>2 DEF HeartbeatAges, IInv, TypeOK
    <3>2. /\ metadata'[n].owner = metadata[n].owner
          /\ metadata'[n].status = metadata[n].status
      BY <3>1 DEF IInv, TypeOK, Record
    <3>3. metadata'[n] # NoRecord
      BY <3>1, <3>2 DEF Record, NoRecord, Status
    <3>4. n # m => metadata'[m] = metadata[m]
      BY <3>1 DEF IInv, TypeOK
    <3> QED BY <3>1, <3>2, <3>3, <3>4
  <2> QED BY <1>6, <2>1, <2>2
<1>7. CASE UNCHANGED vars
  BY <1>2, <1>7 DEF vars
<1> QED BY <1>3, <1>4, <1>5, <1>6, <1>7 DEF Next, StoreStep, Watchdog

-----------------------------------------------------------------------------
THEOREM Invariant == Spec => []IInv
<1>1. Init => IInv
  BY InitInv
<1>2. IInv /\ [Next]_vars => IInv'
  BY NextInv
<1> QED BY <1>1, <1>2, PTL DEF Spec

\* The records, sessions and handlers have their types.
THEOREM TypeCorrect == Spec => []TypeOK
<1>1. IInv => TypeOK
  BY DEF IInv
<1> QED BY <1>1, Invariant, PTL

\* The meet bound to a Pi has a record and was claimed by that Pi, whatever
\* other Pis, the watchdog and late handlers do (on_meet_open, open_meet).
THEOREM Bindings == Spec => []BoundMeetIsClaimed
<1>1. IInv => BoundMeetIsClaimed
  BY DEF IInv
<1> QED BY <1>1, Invariant, PTL

\* A record is never lost, and only overlapping claims of a free meet ID can
\* change its owner (heartbeat, mark_status, open_meet).
THEOREM StableOwner == Spec => OwnerIsStable
<1> DEFINE Stable == \A m \in Meets :
                       metadata[m] # NoRecord =>
                         /\ metadata'[m] # NoRecord
                         /\ metadata'[m].owner # metadata[m].owner =>
                              {metadata[m].owner, metadata'[m].owner} \subseteq claims[m]
<1>1. IInv /\ [Next]_vars => [Stable]_vars
  BY OwnerStep
<1> QED BY <1>1, Invariant, PTL DEF Spec, OwnerIsStable

\* No Pi passes the check of a meet ID that has a record it has no part in
\* (is_meet_id_taken).
THEOREM FreeClaims == Spec => ClaimedWhileFree
<1> DEFINE Free == \A m \in Meets : claims'[m] # claims[m] => metadata[m] = NoRecord
<1>1. IInv /\ [Next]_vars => [Free]_vars
  BY OwnerStep
<1> QED BY <1>1, Invariant, PTL DEF Spec, ClaimedWhileFree
=============================================================================
