--------------------------- MODULE Scoreboard_proofs ---------------------------
(***************************************************************************)
(* Proofs about the scoreboard process for every set of channels, heats    *)
(* and every schedule: its types, the replay snapshot, and that it drives  *)
(* the race state machine only as RaceStateMachine allows, so that what is *)
(* proved of the machine alone holds of the process.  The same for the     *)
(* process under the simulator, and that "finish" ends the race.           *)
(***************************************************************************)
EXTENDS Simulator, TLAPS

Proved == INSTANCE RaceStateMachine_proofs

\* Race and Proved instantiate the same module: their definitions agree.
LEMMA SameTypes ==
  /\ Race!RaceState = Proved!RaceState
  /\ Race!Board = Proved!Board
  /\ Race!vars = Proved!vars
  /\ Race!Init <=> Proved!Init
  /\ Race!TypeOK <=> Proved!TypeOK
  BY DEF Race!RaceState, Proved!RaceState, Race!Board, Proved!Board,
         Race!vars, Proved!vars, Race!Init, Proved!Init, Race!TypeOK, Proved!TypeOK

LEMMA SameEvaluation ==
  ASSUME NEW b
  PROVE  Race!EvaluateUpdate(b) <=> Proved!EvaluateUpdate(b)
  BY DEF Race!start_running, Proved!start_running, Race!finish, Proved!finish,
     Race!clear_lanes, Proved!clear_lanes, Race!show_lanes, Proved!show_lanes,
     Race!change_event, Proved!change_event, Race!go_blank, Proved!go_blank,
     Race!go_total_blank, Proved!go_total_blank, Race!has_event_heat,
     Proved!has_event_heat, Race!other_lanes_blank, Proved!other_lanes_blank,
     Race!lane3_has_data, Proved!lane3_has_data, Race!BlankStates,
     Proved!BlankStates, Race!ClearedStates, Proved!ClearedStates,
     Race!clear_edge, Proved!clear_edge, Race!blank_transition,
     Proved!blank_transition, Race!evaluate_blank_state,
     Proved!evaluate_blank_state, Race!heat_changed, Proved!heat_changed,
     Race!had_running, Proved!had_running, Race!after_edges,
     Proved!after_edges, Race!EvaluateUpdate, Proved!EvaluateUpdate

LEMMA SameRequests ==
  /\ Race!NotifyEventChange <=> Proved!NotifyEventChange
  /\ Race!SimLoadEvent <=> Proved!SimLoadEvent
  BY DEF Race!NotifyEventChange, Proved!NotifyEventChange, Race!SimLoadEvent,
     Proved!SimLoadEvent, Race!change_event, Proved!change_event,
     Race!show_lanes, Proved!show_lanes

LEMMA SameNext == Race!Next <=> Proved!Next
  BY SameTypes, SameEvaluation, SameRequests DEF Race!Next, Proved!Next

-----------------------------------------------------------------------------
(* Types *)

\* Merge keeps the shape of the snapshot, whatever it held.
LEMMA MergeTyped ==
  ASSUME NEW snap \in Message \cup {EmptySnapshot}, NEW msg \in Message
  PROVE  Merge(snap, msg) \in Message
<1> DEFINE m == Merge(snap, msg)
<1>1. /\ snap.key \in Key \cup {NoKey}
      /\ snap.lane_time \in [Channels -> LaneKey]
  BY DEF Message, EmptySnapshot, NoLaneKeys, LaneKey
<1>2. /\ msg.key \in Key \cup {NoKey}
      /\ msg.lane_time \in [Channels -> LaneKey]
      /\ msg.race_state \in Race!RaceState
  BY DEF Message
<1>3. m.lane_time \in [Channels -> LaneKey]
  BY <1>1, <1>2 DEF Merge, LaneKey
<1>4. /\ m.key \in Key \cup {NoKey}
      /\ m.race_state \in Race!RaceState
      /\ m = [key |-> m.key, lane_time |-> m.lane_time, race_state |-> m.race_state]
  BY <1>1, <1>2 DEF Merge
<1> QED BY <1>3, <1>4 DEF Message

\* The messages of send_event_info, send_scores_info and the finally block.
LEMMA MessagesTyped ==
  ASSUME NEW s \in Race!RaceState
  PROVE  /\ \A heat \in RealHeats : EventInfo(heat, s) \in Message
         /\ ScoresInfo(s) \in Message
  BY DEF EventInfo, ScoresInfo, Message, Key, NoLaneKeys, LaneKey

LEMMA GatheredTyped ==
  ASSUME state' \in Race!RaceState, NEW key \in Key \cup {NoKey},
         NEW lanes \in [Channels -> LaneKey]
  PROVE  Gathered(key, lanes) \in Message
  BY DEF Gathered, Message

\* A frame that is evaluated drives the machine with a board it expects.
LEMMA BoardTyped ==
  ASSUME event_heat_info' \in EventHeats, channel_running' \in SUBSET Channels,
         lane_times' \in SUBSET Channels, team_scores' \in BOOLEAN
  PROVE  BoardSnapshot \in Race!Board
  BY LanesAssumption DEF BoardSnapshot, Race!Board

\* One evaluation, and one request of a browser, keep the machine's types.
LEMMA EvaluationKeepsTypes ==
  ASSUME Race!TypeOK, NEW b \in Race!Board, Race!EvaluateUpdate(b)
  PROVE  Race!TypeOK'
<1>1. Proved!TypeOK /\ Proved!Next
  BY SameTypes, SameEvaluation DEF Proved!Next
<1>2. Proved!TypeOK'
  BY <1>1, Proved!TypeStep, HeatsAssumption, LanesAssumption
<1> QED BY <1>2 DEF Race!TypeOK, Proved!TypeOK, Race!RaceState, Proved!RaceState

LEMMA RequestKeepsTypes ==
  ASSUME Race!TypeOK, Race!NotifyEventChange
  PROVE  Race!TypeOK'
<1>1. Proved!TypeOK /\ Proved!Next
  BY SameTypes, SameRequests DEF Proved!Next
<1>2. Proved!TypeOK'
  BY <1>1, Proved!TypeStep, HeatsAssumption, LanesAssumption
<1> QED BY <1>2 DEF Race!TypeOK, Proved!TypeOK, Race!RaceState, Proved!RaceState

\* next_heat chooses a heat of the schedule.
LEMMA ScheduleTyped ==
  ASSUME Schedule # <<>>
  PROVE  NextInSchedule(last_event_sent) \in RealHeats
<1> DEFINE later == {i \in 1..Len(Schedule) : i > 1 /\ Schedule[i - 1] = last_event_sent}
<1>1. Len(Schedule) \in Nat /\ Len(Schedule) > 0
  BY ScheduleAssumption
<1>2. CASE later = {}
  BY <1>1, <1>2, ScheduleAssumption DEF NextInSchedule
<1>3. CASE later # {}
  <2>1. (CHOOSE i \in later : TRUE) \in 1..Len(Schedule)
    BY <1>3
  <2> QED BY <1>3, <2>1, ScheduleAssumption DEF NextInSchedule
<1> QED BY <1>2, <1>3

\* What every evaluated frame does to the machine and to the update.
LEMMA EvaluatedFrame ==
  ASSUME TypeOK, Race!EvaluateUpdate(BoardSnapshot), update' = NoLaneKeys,
         event_heat_info' \in EventHeats, channel_running' \in SUBSET Channels,
         lane_times' \in SUBSET Channels, team_scores' \in BOOLEAN
  PROVE  /\ Race!TypeOK'
         /\ state' \in Race!RaceState
         /\ update' \in [Channels -> LaneKey]
<1>1. Race!TypeOK'
  BY BoardTyped, EvaluationKeepsTypes DEF TypeOK
<1>2. update' \in [Channels -> LaneKey]
  BY DEF NoLaneKeys, LaneKey
<1> QED BY <1>1, <1>2 DEF Race!TypeOK

\* One step keeps the types.
LEMMA TypeStep ==
  ASSUME TypeOK, [Next]_vars
  PROVE  TypeOK'
<1> USE DEF TypeOK
<1>1. state \in Race!RaceState
  BY DEF Race!TypeOK
<1>2. ASSUME NEW c \in Channels, NEW running \in BOOLEAN, NEW shows \in BOOLEAN,
             LaneFrame(c, running, shows)
      PROVE  TypeOK'
  <2>1. /\ channel_running' \in SUBSET Channels /\ lane_times' \in SUBSET Channels
        /\ running_time' \in BOOLEAN
        /\ UNCHANGED <<event_heat_info, team_scores, last_event_sent, started>>
    BY <1>2 DEF LaneFrame, race_start
  <2>2. lane_update(c, running, shows) \in [Channels -> LaneKey]
    BY DEF lane_update, LaneKey
  <2>3. CASE race_start(running)
    <3>1. EvaluateAndBroadcast(NoKey, lane_update(c, running, shows))
      BY <1>2, <2>3 DEF LaneFrame
    <3>2. Race!TypeOK' /\ state' \in Race!RaceState /\ update' \in [Channels -> LaneKey]
      BY <2>1, <3>1, EvaluatedFrame DEF EvaluateAndBroadcast
    <3>3. snapshot' \in Message
      BY <2>2, <3>1, <3>2, GatheredTyped, MergeTyped DEF EvaluateAndBroadcast, Broadcast
    <3> QED BY <2>1, <3>2, <3>3
  <2>4. CASE ~race_start(running)
    <3>1. UNCHANGED <<fsm, snapshot>> /\ update' = lane_update(c, running, shows)
      BY <1>2, <2>4 DEF LaneFrame
    <3> QED BY <2>1, <2>2, <3>1 DEF fsm, Race!TypeOK
  <2> QED BY <2>3, <2>4
<1>3. ASSUME NEW shows \in BOOLEAN, ClockFrame(shows)
      PROVE  TypeOK'
  <2>1. /\ running_time' \in BOOLEAN
        /\ UNCHANGED <<event_heat_info, channel_running, lane_times, team_scores,
                       last_event_sent, started>>
        /\ EvaluateAndBroadcast(NoKey, update)
    BY <1>3 DEF ClockFrame
  <2>2. Race!TypeOK' /\ state' \in Race!RaceState /\ update' \in [Channels -> LaneKey]
    BY <2>1, EvaluatedFrame DEF EvaluateAndBroadcast
  <2>3. snapshot' \in Message
    BY <2>1, <2>2, GatheredTyped, MergeTyped DEF EvaluateAndBroadcast, Broadcast
  <2> QED BY <2>1, <2>2, <2>3
<1>4. ASSUME NEW eh \in EventHeats, EventHeatFrame(eh)
      PROVE  TypeOK'
  <2>1. /\ event_heat_info' \in EventHeats
        /\ UNCHANGED <<channel_running, lane_times, running_time, team_scores, started>>
        /\ Race!EvaluateUpdate(BoardSnapshot) /\ update' = NoLaneKeys
    BY <1>4 DEF EventHeatFrame, EvaluateAndBroadcast
  <2>2. Race!TypeOK' /\ state' \in Race!RaceState /\ update' \in [Channels -> LaneKey]
    BY <2>1, EvaluatedFrame
  <2>3. Gathered(<<"wire", eh>>, update) \in Message
    BY <2>2, GatheredTyped DEF Key
  <2>4. CASE is_new_heat(eh)
    <3>1. last_event_sent' \in RealHeats
      BY <1>1, <1>4, <2>4 DEF EventHeatFrame, is_new_heat
    <3>2. EventInfo(eh, state) \in Message
      BY <1>1, <2>4, MessagesTyped DEF is_new_heat
    <3>3. snapshot' = Merge(Merge(snapshot, EventInfo(eh, state)),
                            Gathered(<<"wire", eh>>, update))
      BY <1>4, <2>4 DEF EventHeatFrame, BroadcastBoth
    <3>4. snapshot' \in Message
      BY <2>3, <3>2, <3>3, MergeTyped
    <3> QED BY <2>1, <2>2, <3>1, <3>4
  <2>5. CASE ~is_new_heat(eh)
    <3>1. last_event_sent' = last_event_sent
      BY <1>4, <2>5 DEF EventHeatFrame
    <3>2. snapshot' = Merge(snapshot, Gathered(<<"wire", eh>>, update))
      BY <1>4, <2>5 DEF EventHeatFrame, EvaluateAndBroadcast, Broadcast
    <3> QED BY <2>1, <2>2, <2>3, <3>1, <3>2, MergeTyped
  <2> QED BY <2>4, <2>5
<1>5. ASSUME NEW present \in Scores, ScoreFrame(present)
      PROVE  TypeOK'
  <2>1. Merge(snapshot, ScoresInfo(state)) \in Message
    BY <1>1, MessagesTyped, MergeTyped
  <2> QED BY <1>5, <2>1, ScoresAssumption
          DEF ScoreFrame, Broadcast, fsm, Race!TypeOK
<1>6. CASE Connect
  <2>1. Merge(snapshot, EventInfo(last_event_sent, state)) \in Message
    BY <1>1, MessagesTyped, MergeTyped
  <2>2. snapshot' \in Message
    BY <1>1, <1>6, <2>1, MessagesTyped, MergeTyped DEF Connect, BroadcastBoth
  <2> QED BY <1>6, <2>2 DEF Connect, fsm, board, Race!TypeOK
<1>7. ASSUME NEW heat \in RealHeats, AnnounceHeat(heat)
      PROVE  TypeOK'
  <2>1. Race!TypeOK' /\ state' \in Race!RaceState
    <3>1. Race!TypeOK'
      BY <1>7, RequestKeepsTypes DEF AnnounceHeat
    <3> QED BY <3>1 DEF Race!TypeOK
  <2>2. snapshot' \in Message
    BY <1>7, <2>1, MessagesTyped, MergeTyped DEF AnnounceHeat, Broadcast
  <2> QED BY <1>7, <2>1, <2>2 DEF AnnounceHeat, board
<1>8. CASE UNCHANGED vars
  BY <1>8 DEF vars, fsm, board, Race!TypeOK
<1> QED BY <1>2, <1>3, <1>4, <1>5, <1>6, <1>7, <1>8, ScheduleTyped
        DEF Next, Console, Browser, NextHeat, SetEventHeat

LEMMA InitTyped == Init => TypeOK
  BY HeatsAssumption, ScheduleAssumption
     DEF Init, TypeOK, Race!Init, Race!TypeOK, Race!RaceState, NoLaneKeys, LaneKey

\* The process keeps its types (TypeOK).
THEOREM TypeCorrect == Spec => []TypeOK
<1>1. Init => TypeOK
  BY InitTyped
<1>2. TypeOK /\ [Next]_vars => TypeOK'
  BY TypeStep
<1> QED BY <1>1, <1>2, PTL DEF Spec

-----------------------------------------------------------------------------
(* The process drives the machine as RaceStateMachine allows *)

\* Every step of the process is one evaluation of a possible board, one request
\* of a browser, or no step of the machine at all.
LEMMA MachineStep ==
  ASSUME TypeOK, [Next]_vars
  PROVE  [Race!Next]_(Race!vars)
<1>1. TypeOK'
  BY TypeStep
<1>2. ASSUME Race!EvaluateUpdate(BoardSnapshot)
      PROVE  Race!Next
  <2>1. BoardSnapshot \in Race!Board
    BY <1>1, BoardTyped DEF TypeOK
  <2> QED BY <1>2, <2>1 DEF Race!Next
<1>3. ASSUME NEW c \in Channels, NEW running, NEW shows, LaneFrame(c, running, shows)
      PROVE  [Race!Next]_(Race!vars)
  BY <1>2, <1>3 DEF LaneFrame, EvaluateAndBroadcast, fsm, Race!vars
<1>4. ASSUME NEW shows, ClockFrame(shows)
      PROVE  Race!Next
  BY <1>2, <1>4 DEF ClockFrame, EvaluateAndBroadcast
<1>5. ASSUME NEW eh \in EventHeats, EventHeatFrame(eh)
      PROVE  Race!Next
  BY <1>2, <1>5 DEF EventHeatFrame, EvaluateAndBroadcast
<1>6. ASSUME NEW heat, AnnounceHeat(heat)
      PROVE  Race!Next
  BY <1>6 DEF AnnounceHeat, Race!Next
<1>7. CASE (\E present \in Scores : ScoreFrame(present)) \/ Connect \/ UNCHANGED vars
  BY <1>7 DEF ScoreFrame, Connect, vars, fsm, Race!vars
<1> QED BY <1>3, <1>4, <1>5, <1>6, <1>7
        DEF Next, Console, Browser, NextHeat, SetEventHeat

\* The process implements the machine (DrivesRaceStateMachine).
THEOREM Refinement == Spec => DrivesRaceStateMachine
<1>1. Init => Race!Init
  BY DEF Init
<1>2. TypeOK /\ [Next]_vars => [Race!Next]_(Race!vars)
  BY MachineStep
<1> QED BY <1>1, <1>2, TypeCorrect, PTL DEF Spec, DrivesRaceStateMachine, Race!Spec

\* The display invariants are the same in both instances of the machine.
LEMMA SamePromises ==
  /\ Proved!BlankShowsNoHeat <=> Race!BlankShowsNoHeat
  /\ Proved!HiddenLanesWereBlank <=> Race!HiddenLanesWereBlank
  BY DEF Race!BlankShowsNoHeat, Proved!BlankShowsNoHeat, Race!HiddenLanesWereBlank,
         Proved!HiddenLanesWereBlank, Race!BlankStates, Proved!BlankStates,
         Race!ClearedStates, Proved!ClearedStates, Race!has_event_heat,
         Proved!has_event_heat

\* Whatever drives the machine by its own steps shows a race from its start to
\* the stop of its lanes, and hides no heat and no result by mistake.
LEMMA MachinePromises ==
  /\ Race!Spec => [](Race!BlankShowsNoHeat /\ Race!HiddenLanesWereBlank)
  /\ Race!Spec => Race!RunningEndsByFinish /\ Race!StartEdgeRuns /\ Race!StoppedLanesEnd
<1>1. Race!Init => Proved!Init
  BY SameTypes
<1>2. [Race!Next]_(Race!vars) => [Proved!Next]_(Proved!vars)
  BY SameNext DEF Race!vars, Proved!vars
<1>3. Race!Spec => Proved!Spec
  BY <1>1, <1>2, PTL DEF Race!Spec, Proved!Spec
<1>4. Proved!Spec => [](Proved!BlankShowsNoHeat) /\ [](Proved!HiddenLanesWereBlank)
  BY Proved!BlankDisplay, Proved!HiddenLanes, HeatsAssumption, LanesAssumption
<1>5. Proved!Spec => Proved!RunningEndsByFinish /\ Proved!StartEdgeRuns /\ Proved!StoppedLanesEnd
  BY Proved!RunningEnds, Proved!StartEdge, Proved!StoppedLanes, HeatsAssumption, LanesAssumption
<1>6. /\ Proved!RunningEndsByFinish => Race!RunningEndsByFinish
      /\ Proved!StartEdgeRuns => Race!StartEdgeRuns
      /\ Proved!StoppedLanesEnd => Race!StoppedLanesEnd
  BY DEF Race!RunningEndsByFinish, Proved!RunningEndsByFinish, Race!StartEdgeRuns,
         Proved!StartEdgeRuns, Race!StoppedLanesEnd, Proved!StoppedLanesEnd, Race!vars, Proved!vars
<1> QED BY <1>3, <1>4, <1>5, <1>6, SamePromises, PTL

\* So what is proved of the machine holds of the running process: no result is
\* hidden by mistake and no blank display covers a heat.
THEOREM DisplayInherited == Spec => [](Race!BlankShowsNoHeat /\ Race!HiddenLanesWereBlank)
BY MachinePromises, Refinement, PTL DEF DrivesRaceStateMachine

\* A race on the display lasts from the start of its lanes to their stop
\* under the same heat.
THEOREM RaceInherited ==
  Spec => Race!RunningEndsByFinish /\ Race!StartEdgeRuns /\ Race!StoppedLanesEnd
BY MachinePromises, Refinement, PTL DEF DrivesRaceStateMachine

-----------------------------------------------------------------------------
(* The replay snapshot *)

\* A merge takes over the state of the message, and its heat if it names one.
LEMMA MergeFields ==
  ASSUME NEW snap, NEW msg
  PROVE  /\ Merge(snap, msg).race_state = msg.race_state
         /\ Merge(snap, msg).key = IF msg.key = NoKey THEN snap.key ELSE msg.key
  BY DEF Merge

\* No handler moves the machine after its last broadcast (SnapshotIsCurrent).
THEOREM SnapshotCurrent == Spec => []SnapshotIsCurrent
<1>1. Init => SnapshotIsCurrent
  BY DEF Init, SnapshotIsCurrent
<1>2. SnapshotIsCurrent /\ [Next]_vars => SnapshotIsCurrent'
  <2> SUFFICES ASSUME SnapshotIsCurrent, [Next]_vars
               PROVE  SnapshotIsCurrent'
    OBVIOUS
  <2> USE DEF SnapshotIsCurrent, EmptySnapshot
  <2>1. ASSUME NEW c, NEW running, NEW shows, LaneFrame(c, running, shows)
        PROVE  SnapshotIsCurrent'
    BY <2>1, MergeFields
       DEF LaneFrame, EvaluateAndBroadcast, Broadcast, Gathered, fsm
  <2>2. ASSUME NEW shows, ClockFrame(shows)
        PROVE  SnapshotIsCurrent'
    BY <2>2, MergeFields DEF ClockFrame, EvaluateAndBroadcast, Broadcast, Gathered
  <2>3. ASSUME NEW eh, EventHeatFrame(eh)
        PROVE  SnapshotIsCurrent'
    BY <2>3, MergeFields
       DEF EventHeatFrame, EvaluateAndBroadcast, Broadcast, BroadcastBoth, Gathered
  <2>4. ASSUME NEW present, ScoreFrame(present)
        PROVE  SnapshotIsCurrent'
    BY <2>4, MergeFields DEF ScoreFrame, Broadcast, ScoresInfo, fsm
  <2>5. CASE Connect
    BY <2>5, MergeFields DEF Connect, BroadcastBoth, ScoresInfo, fsm
  <2>6. ASSUME NEW heat, AnnounceHeat(heat)
        PROVE  SnapshotIsCurrent'
    BY <2>6, MergeFields DEF AnnounceHeat, Broadcast, EventInfo
  <2>7. CASE UNCHANGED vars
    BY <2>7 DEF vars, fsm
  <2> QED BY <2>1, <2>2, <2>3, <2>4, <2>5, <2>6, <2>7
          DEF Next, Console, Browser, NextHeat, SetEventHeat
<1> QED BY <1>1, <1>2, PTL DEF Spec

\* A newcomer is never told another heat than the last one announced
\* (ReplayNamesTheHeat).
THEOREM ReplayHeat == Spec => []ReplayNamesTheHeat
<1>1. Init => ReplayNamesTheHeat
  BY DEF Init, ReplayNamesTheHeat, EmptySnapshot
<1>2. ReplayNamesTheHeat /\ [Next]_vars => ReplayNamesTheHeat'
  <2> SUFFICES ASSUME ReplayNamesTheHeat, [Next]_vars
               PROVE  ReplayNamesTheHeat'
    OBVIOUS
  <2> USE DEF ReplayNamesTheHeat
  <2>1. ASSUME NEW c, NEW running, NEW shows, LaneFrame(c, running, shows)
        PROVE  ReplayNamesTheHeat'
    BY <2>1, MergeFields
       DEF LaneFrame, EvaluateAndBroadcast, Broadcast, Gathered
  <2>2. ASSUME NEW shows, ClockFrame(shows)
        PROVE  ReplayNamesTheHeat'
    BY <2>2, MergeFields DEF ClockFrame, EvaluateAndBroadcast, Broadcast, Gathered
  <2>3. ASSUME NEW eh \in EventHeats, EventHeatFrame(eh)
        PROVE  ReplayNamesTheHeat'
    <3>1. snapshot'.key = <<"wire", eh>>
      BY <2>3, MergeFields
         DEF EventHeatFrame, EvaluateAndBroadcast, Broadcast, BroadcastBoth,
             Gathered, NoKey
    <3>2. last_event_sent' = eh \/ eh \in BlankHeats
      BY <2>3 DEF EventHeatFrame, is_new_heat, RealHeats
    <3> QED BY <3>1, <3>2
  <2>4. ASSUME NEW present, ScoreFrame(present)
        PROVE  ReplayNamesTheHeat'
    BY <2>4, MergeFields DEF ScoreFrame, Broadcast, ScoresInfo
  <2>5. CASE Connect
    BY <2>5, MergeFields DEF Connect, BroadcastBoth, ScoresInfo, EventInfo, NoKey
  <2>6. ASSUME NEW heat, AnnounceHeat(heat)
        PROVE  ReplayNamesTheHeat'
    BY <2>6, MergeFields DEF AnnounceHeat, Broadcast, EventInfo, NoKey
  <2>7. CASE UNCHANGED vars
    BY <2>7 DEF vars
  <2> QED BY <2>1, <2>2, <2>3, <2>4, <2>5, <2>6, <2>7
          DEF Next, Console, Browser, NextHeat, SetEventHeat
<1> QED BY <1>1, <1>2, PTL DEF Spec

-----------------------------------------------------------------------------
(* The lane times of the snapshot *)

\* What waits in the update for a lane that is not running is what the console
\* sent for it last; when nothing waits, the snapshot has that, or nothing.
LanesAreTracked ==
  \A c \in Channels \ channel_running :
    IF update[c] = "absent"
    THEN snapshot.lane_time[c] = "absent" \/ (snapshot.lane_time[c] = "time" <=> c \in lane_times)
    ELSE update[c] = "time" <=> c \in lane_times

\* A merge takes over the lanes that the message has; the others stay or go.
LEMMA MergeLanes ==
  ASSUME NEW snap, NEW msg, NEW c \in Channels
  PROVE  Merge(snap, msg).lane_time[c] =
           IF msg.lane_time[c] # "absent" THEN msg.lane_time[c]
           ELSE IF msg.key # NoKey /\ msg.key # snap.key THEN "absent"
           ELSE snap.lane_time[c]
  BY DEF Merge

\* send_event_info and send_scores_info have no lanes.
LEMMA InfoLanes ==
  ASSUME NEW snap, NEW heat, NEW s, NEW c \in Channels
  PROVE  /\ Merge(snap, EventInfo(heat, s)).lane_time[c] \in {"absent", snap.lane_time[c]}
         /\ Merge(snap, ScoresInfo(s)).lane_time[c] = snap.lane_time[c]
<1>1. EventInfo(heat, s).lane_time[c] = "absent" /\ ScoresInfo(s).lane_time[c] = "absent"
  BY DEF EventInfo, ScoresInfo, NoLaneKeys
<1>2. ScoresInfo(s).key = NoKey
  BY DEF ScoresInfo
<1> QED BY <1>1, <1>2, MergeLanes

LEMMA GatheredLanes ==
  ASSUME NEW snap, NEW key, NEW lanes, NEW c \in Channels
  PROVE  /\ lanes[c] # "absent" => Merge(snap, Gathered(key, lanes)).lane_time[c] = lanes[c]
         /\ lanes[c] = "absent" =>
              Merge(snap, Gathered(key, lanes)).lane_time[c] \in {"absent", snap.lane_time[c]}
<1>1. Gathered(key, lanes).lane_time = lanes
  BY DEF Gathered
<1> QED BY <1>1, MergeLanes

\* One step keeps track of the lanes.
LEMMA LanesStep ==
  ASSUME TypeOK, LanesAreTracked, [Next]_vars
  PROVE  LanesAreTracked'
<1> USE DEF LanesAreTracked
<1>1. ASSUME NEW c \in Channels, NEW running \in BOOLEAN, NEW shows \in BOOLEAN,
             LaneFrame(c, running, shows)
      PROVE  LanesAreTracked'
  <2> DEFINE lanes == lane_update(c, running, shows)
  <2>1. \A d \in Channels \ channel_running' :
          /\ d # c => d \notin channel_running /\ lanes[d] = update[d]
                      /\ (d \in lane_times' <=> d \in lane_times)
          /\ d = c => ~running /\ lanes[c] = (IF shows THEN "time" ELSE "blank")
                      /\ (c \in lane_times' <=> shows)
    BY <1>1 DEF LaneFrame, lane_update, TypeOK
  <2>2. CASE race_start(running)
    <3>1. snapshot' = Merge(snapshot, Gathered(NoKey, lanes)) /\ update' = NoLaneKeys
      BY <1>1, <2>2 DEF LaneFrame, EvaluateAndBroadcast, Broadcast
    <3> HIDE DEF lanes
    <3>2. SUFFICES ASSUME NEW d \in Channels \ channel_running'
                   PROVE  \/ snapshot'.lane_time[d] = "absent"
                          \/ snapshot'.lane_time[d] = "time" <=> d \in lane_times'
      BY <3>1 DEF NoLaneKeys
    <3>3. d # c
      BY <2>1, <2>2 DEF race_start
    <3> QED BY <2>1, <3>1, <3>3, GatheredLanes
  <2>3. CASE ~race_start(running)
    <3>1. update' = lanes /\ snapshot' = snapshot
      BY <1>1, <2>3 DEF LaneFrame
    <3> HIDE DEF lanes
    <3> QED BY <2>1, <3>1
  <2> QED BY <2>2, <2>3
<1>2. ASSUME NEW key, update' = NoLaneKeys, UNCHANGED <<channel_running, lane_times>>,
             \/ snapshot' = Merge(snapshot, Gathered(key, update))
             \/ \E heat, s :
                  snapshot' = Merge(Merge(snapshot, EventInfo(heat, s)), Gathered(key, update))
      PROVE  LanesAreTracked'
  <2>1. SUFFICES ASSUME NEW c \in Channels \ channel_running
                 PROVE  \/ snapshot'.lane_time[c] = "absent"
                        \/ snapshot'.lane_time[c] = "time" <=> c \in lane_times
    BY <1>2 DEF NoLaneKeys
  <2>2. CASE update[c] # "absent"
    BY <1>2, <2>2, GatheredLanes
  <2>3. CASE update[c] = "absent"
    <3>1. snapshot'.lane_time[c] \in {"absent", snapshot.lane_time[c]}
      BY <1>2, <2>3, GatheredLanes, InfoLanes
    <3> QED BY <2>3, <3>1
  <2> QED BY <2>2, <2>3
<1>3. ASSUME NEW shows, ClockFrame(shows)
      PROVE  LanesAreTracked'
  BY <1>2, <1>3 DEF ClockFrame, EvaluateAndBroadcast, Broadcast
<1>4. ASSUME NEW eh, EventHeatFrame(eh)
      PROVE  LanesAreTracked'
  BY <1>2, <1>4 DEF EventHeatFrame, EvaluateAndBroadcast, Broadcast, BroadcastBoth
<1>5. ASSUME UNCHANGED <<update, channel_running, lane_times>>,
             \A c \in Channels : snapshot'.lane_time[c] \in {"absent", snapshot.lane_time[c]}
      PROVE  LanesAreTracked'
  BY <1>5
<1>6. ASSUME NEW present, ScoreFrame(present)
      PROVE  LanesAreTracked'
  BY <1>5, <1>6, InfoLanes DEF ScoreFrame, Broadcast
<1>7. CASE Connect
  <2>1. \A c \in Channels : snapshot'.lane_time[c] \in {"absent", snapshot.lane_time[c]}
    <3> DEFINE info == Merge(snapshot, EventInfo(last_event_sent, state))
    <3>1. snapshot' = Merge(info, ScoresInfo(state))
      BY <1>7 DEF Connect, BroadcastBoth
    <3>2. \A c \in Channels : info.lane_time[c] \in {"absent", snapshot.lane_time[c]}
      BY InfoLanes
    <3> HIDE DEF info
    <3>3. \A c \in Channels : snapshot'.lane_time[c] = info.lane_time[c]
      BY <3>1, InfoLanes
    <3> QED BY <3>2, <3>3
  <2> QED BY <1>5, <1>7, <2>1 DEF Connect, board
<1>8. ASSUME NEW heat, AnnounceHeat(heat)
      PROVE  LanesAreTracked'
  BY <1>5, <1>8, InfoLanes DEF AnnounceHeat, Broadcast, board
<1>9. CASE UNCHANGED vars
  BY <1>9 DEF vars, board
<1> QED BY <1>1, <1>3, <1>4, <1>6, <1>7, <1>8, <1>9
        DEF Next, Console, Browser, NextHeat, SetEventHeat

\* A lane at rest with nothing to broadcast is replayed as the console last
\* sent it, or not at all (SnapshotTracksLanes).
THEOREM LanesTracked == Spec => []SnapshotTracksLanes
<1>1. Init => LanesAreTracked
  <2>1. \A c \in Channels : NoLaneKeys[c] = "absent"
    BY DEF NoLaneKeys
  <2>2. Init => update = NoLaneKeys /\ snapshot.lane_time = NoLaneKeys
    BY DEF Init, EmptySnapshot
  <2> QED BY <2>1, <2>2 DEF LanesAreTracked
<1>2. LanesAreTracked => SnapshotTracksLanes
  BY DEF LanesAreTracked, SnapshotTracksLanes
<1>3. TypeOK /\ LanesAreTracked /\ [Next]_vars => LanesAreTracked'
  BY LanesStep
<1> QED BY <1>1, <1>2, <1>3, TypeCorrect, PTL DEF Spec

-----------------------------------------------------------------------------
(* The start of a race *)

\* The first frame of the first lane shows the race (StartIsShownAtOnce).
THEOREM StartShown == Spec => StartIsShownAtOnce
<1>1. ASSUME TypeOK, [Next]_vars, channel_running = {}, channel_running' # {},
             prev_running_lanes = {}
      PROVE  state' = "Running" \/ (state = "Finished" /\ event_heat_info' = prev_event_heat)
  <2>1. TypeOK'
    BY <1>1, TypeStep
  <2>2. PICK c \in Channels, running \in BOOLEAN, shows \in BOOLEAN :
          LaneFrame(c, running, shows)
    BY <1>1 DEF Next, Console, Browser, vars, board, ClockFrame, EventHeatFrame,
                ScoreFrame, Connect, NextHeat, SetEventHeat, AnnounceHeat
  <2>3. race_start(running)
    BY <1>1, <2>2 DEF LaneFrame, race_start
  <2> DEFINE b == BoardSnapshot
  <2>4. b \in Proved!Board /\ Proved!EvaluateUpdate(b)
    <3>1. b \in Race!Board
      BY <2>1, BoardTyped DEF TypeOK
    <3>2. Race!EvaluateUpdate(b)
      BY <2>2, <2>3 DEF LaneFrame, EvaluateAndBroadcast
    <3> QED BY <3>1, <3>2, SameTypes, SameEvaluation
  <2>5. b.running_lanes # {} /\ b.event_heat = event_heat_info'
    BY <1>1 DEF BoardSnapshot
  <2>6. Proved!TypeOK
    BY <1>1, SameTypes DEF TypeOK
  <2>7. \/ Proved!after_edges(b) = "Running"
        \/ state = "Finished" /\ ~Proved!heat_changed(b)
    BY <1>1, <2>4, <2>5, <2>6, Proved!Edges, HeatsAssumption, LanesAssumption
  <2> QED BY <2>4, <2>5, <2>7 DEF Proved!EvaluateUpdate, Proved!heat_changed
<1> QED BY <1>1, TypeCorrect, PTL DEF Spec, StartIsShownAtOnce

-----------------------------------------------------------------------------
(* The simulator: types *)

\* The snapshot of a simulated race is never the empty one: "start" broadcasts.
SimTyped == SimTypeOK /\ (sim_running => snapshot \in Message)

\* The messages of the buttons.
LEMMA UpdateTyped ==
  ASSUME state' \in Race!RaceState, NEW key \in Key \cup {NoKey}, NEW lanes
  PROVE  Update(key, lanes) \in Message
<1>1. LaneKeys(lanes, lane_times') \in [Channels -> LaneKey]
  BY DEF LaneKeys, LaneKey
<1> QED BY <1>1 DEF Update, Message

LEMMA SentHeatTyped == last_event_sent' \in RealHeats => SentHeat \in Key
  BY DEF SentHeat, Key

\* One to three broadcasts leave a message in the snapshot.
LEMMA SimBroadcasts ==
  ASSUME TypeOK, state' \in Race!RaceState, last_event_sent' \in RealHeats,
         NEW msg \in Message,
         \/ Broadcast(msg) \/ ThenScores(msg) \/ ThenEventInfo(msg)
         \/ BroadcastBoth(msg, ScoresInfo(state'))
  PROVE  snapshot' \in Message
<1>1. snapshot \in Message \cup {EmptySnapshot}
  BY DEF TypeOK
<1>2. ScoresInfo(state') \in Message /\ EventInfo(last_event_sent', state') \in Message
  BY MessagesTyped
<1>3. Merge(snapshot, msg) \in Message
  BY <1>1, MergeTyped
<1>4. Merge(Merge(snapshot, msg), ScoresInfo(state')) \in Message
  BY <1>2, <1>3, MergeTyped
<1>5. Merge(Merge(Merge(snapshot, msg), EventInfo(last_event_sent', state')), ScoresInfo(state'))
        \in Message
  <2>1. Merge(Merge(snapshot, msg), EventInfo(last_event_sent', state')) \in Message
    BY <1>2, <1>3, MergeTyped
  <2> QED BY <1>2, <2>1, MergeTyped
<1> QED BY <1>3, <1>4, <1>5 DEF Broadcast, BroadcastBoth, ThenScores, ThenEventInfo

\* A clock reading is merged into the snapshot of the running race.
LEMMA TickTyped ==
  ASSUME TypeOK, snapshot \in Message,
         Broadcast([key |-> NoKey, race_state |-> snapshot.race_state,
                    lane_time |-> LaneKeys(Lanes \cap channel_running, Lanes)])
  PROVE  snapshot' \in Message
<1>1. LaneKeys(Lanes \cap channel_running, Lanes) \in [Channels -> LaneKey]
  BY DEF LaneKeys, LaneKey
<1>2. [key |-> NoKey, race_state |-> snapshot.race_state,
       lane_time |-> LaneKeys(Lanes \cap channel_running, Lanes)] \in Message
  BY <1>1 DEF Message
<1> QED BY <1>2, MergeTyped DEF Broadcast

\* The board that "blank" and "total_blank" show the machine.
LEMMA BlankBoardTyped ==
  ASSUME event_heat_info' \in EventHeats, channel_running' \in SUBSET Channels,
         lane_times' \in SUBSET Channels, team_scores' \in BOOLEAN
  PROVE  [BoardSnapshot EXCEPT !.scores = FALSE] \in Race!Board
  BY BoardTyped DEF BoardSnapshot, Race!Board

LEMMA SpacesTyped == Spaces \in BlankHeats /\ Spaces \in EventHeats
  BY BlankAssumption, HeatsAssumption DEF Spaces

\* What the simulator's steps leave on the board, in the schedule's heat and in
\* the simulator's own variables.
LEMMA SimBoardTyped ==
  ASSUME SimTyped, [SimNext]_simvars
  PROVE  /\ event_heat_info' \in EventHeats /\ channel_running' \in SUBSET Channels
         /\ lane_times' \in SUBSET Channels
         /\ running_time' \in BOOLEAN /\ team_scores' \in BOOLEAN
         /\ last_event_sent' \in RealHeats
         /\ update' \in [Channels -> LaneKey] /\ started' \in BOOLEAN
         /\ sim_running' \in BOOLEAN /\ tickers' \subseteq Tickers
         /\ finishing' \in Seq(Lanes)
<1> USE LanesAssumption, OrderAssumption DEF SimTyped, SimTypeOK, TypeOK, NoConsole, sim, board
<1>1. CASE LoadEvent
  BY <1>1, ScheduleAssumption DEF LoadEvent
<1>2. CASE Start
  BY <1>2 DEF Start, StartsTicker
<1>3. CASE Finish
  BY <1>3 DEF Finish
<1>4. CASE FinishLane
  <2>1. Head(finishing) \in Channels /\ Tail(finishing) \in Seq(Lanes)
    BY <1>4 DEF FinishLane, Idle
  <2> QED BY <1>4, <2>1 DEF FinishLane
<1>5. CASE Reset
  BY <1>5 DEF Reset
<1>6. ASSUME NEW lanes \in SUBSET Channels, ShowLanes(lanes)
      PROVE  lane_times' \in SUBSET Channels /\ UNCHANGED <<event_heat_info,
               channel_running, running_time, team_scores, last_event_sent, update, started, sim>>
  BY <1>6 DEF ShowLanes
<1>7. CASE Clear \/ LanesOn
  BY <1>6, <1>7, SimAssumption DEF Clear, LanesOn
<1>8. CASE StepHeat
  BY <1>8, OtherHeatAssumption DEF StepHeat
<1>9. ASSUME NEW lanes \in SUBSET Channels, BlankDisplay(lanes)
      PROVE  /\ lane_times' \in SUBSET Channels /\ channel_running' \in SUBSET Channels
             /\ event_heat_info' \in EventHeats /\ sim_running' \in BOOLEAN
             /\ UNCHANGED <<running_time, team_scores, last_event_sent, update, started, tickers, finishing>>
  BY <1>9, SpacesTyped DEF BlankDisplay
<1>10. CASE Blank \/ TotalBlank
  BY <1>9, <1>10 DEF Blank, TotalBlank
<1>11. CASE Idle /\ Browser /\ UNCHANGED sim
  BY <1>11, ScheduleTyped DEF Browser, Connect, NextHeat, SetEventHeat, AnnounceHeat
<1>12. CASE Tick \/ \E i \in Tickers : TickerEnds(i)
  BY <1>12 DEF Tick, TickerEnds, vars
<1>13. CASE UNCHANGED simvars
  BY <1>13 DEF simvars, vars
<1> QED BY <1>1, <1>2, <1>3, <1>4, <1>5, <1>7, <1>8, <1>10, <1>11, <1>12, <1>13 DEF SimNext, Buttons

\* What they do to the machine: an evaluation of the lanes and the heat on the
\* board, a request, or nothing.
Evaluates(b) ==
  /\ b \in Race!Board
  /\ b.event_heat = event_heat_info' /\ b.running_lanes = channel_running'
  /\ Race!EvaluateUpdate(b)

LEMMA SimMachine ==
  ASSUME SimTyped, [SimNext]_simvars
  PROVE  \/ \E b : Evaluates(b)
         \/ Race!NotifyEventChange /\ UNCHANGED event_heat_info /\ channel_running' \subseteq channel_running
         \/ Race!SimLoadEvent /\ UNCHANGED <<event_heat_info, channel_running>>
         \/ UNCHANGED <<fsm, event_heat_info, channel_running>>
<1>1. /\ BoardSnapshot \in Race!Board
      /\ [BoardSnapshot EXCEPT !.scores = FALSE] \in Race!Board
  BY SimBoardTyped, BoardTyped, BlankBoardTyped
<1>2. ASSUME Race!EvaluateUpdate(BoardSnapshot)
      PROVE  Evaluates(BoardSnapshot)
  BY <1>1, <1>2 DEF Evaluates, BoardSnapshot
<1>3. ASSUME Race!EvaluateUpdate([BoardSnapshot EXCEPT !.scores = FALSE])
      PROVE  Evaluates([BoardSnapshot EXCEPT !.scores = FALSE])
  BY <1>1, <1>3 DEF Evaluates, BoardSnapshot
<1>4. CASE Start \/ Finish \/ FinishLane \/ Clear \/ LanesOn
  BY <1>2, <1>4 DEF Start, Finish, FinishLane, Clear, LanesOn, ShowLanes
<1>5. CASE Blank \/ TotalBlank
  BY <1>3, <1>5 DEF Blank, TotalBlank, BlankDisplay
<1>6. CASE LoadEvent \/ Reset \/ StepHeat
  BY <1>6 DEF LoadEvent, Reset, StepHeat, board
<1>7. CASE Idle /\ Browser /\ UNCHANGED sim
  BY <1>7 DEF Browser, Connect, NextHeat, SetEventHeat, AnnounceHeat, board
<1>8. CASE Tick \/ (\E i \in Tickers : TickerEnds(i)) \/ UNCHANGED simvars
  BY <1>8 DEF Tick, TickerEnds, simvars, vars, board
<1> QED BY <1>4, <1>5, <1>6, <1>7, <1>8 DEF SimNext, Buttons

\* So the machine keeps its types.
LEMMA SimMachineTyped ==
  ASSUME SimTyped, [SimNext]_simvars
  PROVE  Race!TypeOK'
<1>1. Race!TypeOK
  BY DEF SimTyped, SimTypeOK, TypeOK
<1>2. CASE \E b : Evaluates(b)
  BY <1>1, <1>2, EvaluationKeepsTypes DEF Evaluates
<1>3. CASE Race!NotifyEventChange
  BY <1>1, <1>3, RequestKeepsTypes
<1>4. CASE Race!SimLoadEvent
  <2>1. Proved!TypeOK /\ Proved!Next
    BY <1>1, <1>4, SameTypes, SameRequests DEF Proved!Next
  <2>2. Proved!TypeOK'
    BY <2>1, Proved!TypeStep, HeatsAssumption, LanesAssumption
  <2> QED BY <2>2 DEF Race!TypeOK, Proved!TypeOK, Race!RaceState, Proved!RaceState
<1>5. CASE UNCHANGED fsm
  BY <1>1, <1>5 DEF fsm, Race!TypeOK
<1> QED BY <1>2, <1>3, <1>4, <1>5, SimMachine

\* A button's broadcasts, a newcomer's, and the clock's leave a message.
LEMMA SimSnapshotTyped ==
  ASSUME SimTyped, [SimNext]_simvars
  PROVE  /\ snapshot' \in Message \cup {EmptySnapshot}
         /\ sim_running' => snapshot' \in Message
<1>1. /\ TypeOK /\ state' \in Race!RaceState /\ last_event_sent' \in RealHeats
      /\ state \in Race!RaceState /\ last_event_sent \in RealHeats
      /\ snapshot \in Message \cup {EmptySnapshot}
      /\ sim_running => snapshot \in Message
  BY SimBoardTyped, SimMachineTyped DEF SimTyped, SimTypeOK, TypeOK, Race!TypeOK
<1>2. /\ NoKey \in Key \cup {NoKey} /\ SentHeat \in Key \cup {NoKey}
      /\ <<"wire", Spaces>> \in Key \cup {NoKey}
  BY <1>1, SentHeatTyped, SpacesTyped DEF Key
<1>3. \A key \in Key \cup {NoKey} : \A lanes : Update(key, lanes) \in Message
  BY <1>1, UpdateTyped
<1>4. CASE LoadEvent
  <2>1. EventInfo(FirstHeat, state') \in Message
    BY <1>1, MessagesTyped, ScheduleAssumption
  <2> QED BY <1>1, <1>4, <2>1, SimBroadcasts DEF LoadEvent
<1>5. CASE Start \/ Finish \/ Reset \/ Clear \/ LanesOn \/ StepHeat \/ Blank \/ TotalBlank
  <2>1. PICK key, lanes :
          /\ key \in Key \cup {NoKey}
          /\ \/ Broadcast(Update(key, lanes)) \/ ThenScores(Update(key, lanes))
             \/ ThenEventInfo(Update(key, lanes))
    BY <1>2, <1>5 DEF Start, Finish, Reset, Clear, LanesOn, ShowLanes, StepHeat,
                      Blank, TotalBlank, BlankDisplay
  <2> QED BY <1>1, <1>3, <2>1, SimBroadcasts
<1>6. CASE FinishLane
  <2>1. PICK lanes : Broadcast(Update(NoKey, lanes)) \/ ThenScores(Update(NoKey, lanes))
    BY <1>6 DEF FinishLane
  <2> QED BY <1>1, <1>2, <1>3, <2>1, SimBroadcasts
<1>7. CASE Connect
  <2>1. EventInfo(last_event_sent, state) \in Message /\ ScoresInfo(state) \in Message
    BY <1>1, MessagesTyped
  <2>2. Merge(snapshot, EventInfo(last_event_sent, state)) \in Message
    BY <1>1, <2>1, MergeTyped
  <2> QED BY <1>7, <2>1, <2>2, MergeTyped DEF Connect, BroadcastBoth
<1>8. ASSUME NEW heat, AnnounceHeat(heat)
      PROVE  snapshot' \in Message
  <2>1. EventInfo(heat, state') \in Message
    BY <1>1, <1>8, MessagesTyped DEF AnnounceHeat
  <2> QED BY <1>1, <1>8, <2>1, MergeTyped DEF AnnounceHeat, Broadcast
<1>9. CASE Tick
  BY <1>1, <1>9, TickTyped DEF Tick
<1>10. CASE (\E i \in Tickers : TickerEnds(i)) \/ UNCHANGED simvars
  BY <1>1, <1>10 DEF TickerEnds, simvars, vars, sim
<1> QED BY <1>4, <1>5, <1>6, <1>7, <1>8, <1>9, <1>10
        DEF SimNext, Buttons, Browser, NextHeat, SetEventHeat

\* One step keeps the types.
LEMMA SimTypeStep ==
  ASSUME SimTyped, [SimNext]_simvars
  PROVE  SimTyped'
BY SimBoardTyped, SimMachineTyped, SimSnapshotTyped DEF SimTyped, SimTypeOK, TypeOK

LEMMA SimTypes == SimSpec => []SimTyped
<1>1. SimInit => SimTyped
  <2>1. SimInit => sim_running \in BOOLEAN /\ ~sim_running
    BY Zenon DEF SimInit
  <2>2. SimInit => tickers \subseteq Tickers /\ finishing \in Seq(Lanes)
    BY DEF SimInit
  <2>3. SimInit => TypeOK
    BY InitTyped DEF SimInit
  <2> QED BY <2>1, <2>2, <2>3, Zenon DEF SimTyped, SimTypeOK
<1>2. SimTyped /\ [SimNext]_simvars => SimTyped'
  BY SimTypeStep
<1> QED BY <1>1, <1>2, PTL DEF SimSpec

\* The process keeps its types under the simulator as well (SimTypeOK).
THEOREM SimTypeCorrect == SimSpec => []SimTypeOK
BY SimTypes, PTL DEF SimTyped

-----------------------------------------------------------------------------
(* The simulator drives the machine as RaceStateMachine allows *)

LEMMA SimMachineStep ==
  ASSUME SimTyped, [SimNext]_simvars
  PROVE  [Race!Next]_(Race!vars)
BY SimMachine DEF Evaluates, Race!Next, Race!vars, fsm

\* Under the buttons, the browsers and the clock too, every step is one of the
\* machine's or none (SimDrivesRaceStateMachine).
THEOREM SimRefinement == SimSpec => SimDrivesRaceStateMachine
<1>1. SimInit => Race!Init
  BY DEF SimInit, Init
<1>2. SimTyped /\ [SimNext]_simvars => [Race!Next]_(Race!vars)
  BY SimMachineStep
<1> QED BY <1>1, <1>2, SimTypes, PTL DEF SimSpec, SimDrivesRaceStateMachine, Race!Spec

\* The same promises hold under the simulator.
THEOREM SimInherited ==
  SimSpec =>
    /\ [](Race!BlankShowsNoHeat /\ Race!HiddenLanesWereBlank)
    /\ Race!RunningEndsByFinish /\ Race!StartEdgeRuns /\ Race!StoppedLanesEnd
BY MachinePromises, SimRefinement, PTL DEF SimDrivesRaceStateMachine

-----------------------------------------------------------------------------
(* "finish" ends the race *)

\* The display runs only while the machine knows a running lane; only lanes of
\* the pool run, and while "finish" is handled only those it has yet to stop.
\* For the edge to be seen, the board's heat may not change under running lanes.
RaceCanEnd ==
  /\ event_heat_info = Spaces
  /\ prev_event_heat = Spaces \/ prev_running_lanes = {}
  /\ state = "Running" => prev_running_lanes # {}
  /\ channel_running \subseteq IF Idle THEN Lanes ELSE Elements(finishing)

\* An evaluation that sees no lane run, and whose heat is the one before if
\* lanes ran then, leaves the display out of Running.
LEMMA RunningNeedsLanes ==
  ASSUME Race!TypeOK, NEW b, Evaluates(b),
         prev_event_heat = b.event_heat \/ prev_running_lanes = {},
         state = "Running" => prev_running_lanes # {},
         b.running_lanes = {}
  PROVE  state' # "Running"
<1>1. Proved!TypeOK /\ b \in Proved!Board /\ Proved!EvaluateUpdate(b)
  BY SameTypes, SameEvaluation DEF Evaluates
<1> DEFINE s == Proved!after_edges(b)
<1>2. s # "Running"
  BY <1>1 DEF Proved!after_edges, Proved!had_running, Proved!heat_changed, Proved!TypeOK,
              Proved!RaceState, Proved!change_event, Proved!finish
<1>3. s \in Proved!RaceState /\ state' = Proved!evaluate_blank_state(s, b)
  BY <1>1, <1>2, Proved!EvaluationTyped, HeatsAssumption, LanesAssumption DEF Proved!EvaluateUpdate
<1> QED BY <1>1, <1>2, <1>3, Proved!BlankEvaluation, HeatsAssumption, LanesAssumption

\* What a step of the simulator leaves of the board's heat and running lanes.
LEMMA LanesAndHeat ==
  ASSUME SimTyped, RaceCanEnd, [SimNext]_simvars
  PROVE  /\ event_heat_info' = Spaces
         /\ channel_running' \subseteq IF finishing' = <<>> THEN Lanes ELSE Elements(finishing')
         /\ ~Idle /\ finishing' = <<>> => channel_running' = {} /\ \E b : Evaluates(b)
<1> USE DEF RaceCanEnd
<1>1. CASE FinishLane
  <2> DEFINE n == Len(finishing)
  <2>1. /\ finishing \in Seq(Lanes) /\ finishing # <<>> /\ finishing' = Tail(finishing)
        /\ channel_running' = channel_running \ {Head(finishing)}
        /\ event_heat_info' = event_heat_info
        /\ channel_running \subseteq Elements(finishing)
        /\ Race!EvaluateUpdate(BoardSnapshot)
    BY <1>1 DEF FinishLane, Idle, SimTyped, SimTypeOK
  <2>2. Elements(finishing) \subseteq {Head(finishing)} \cup Elements(Tail(finishing))
    <3>1. n \in Nat /\ n > 0 /\ Len(Tail(finishing)) = n - 1
      BY <2>1
    <3>2. \A i \in 1..n : i = 1 \/ (i - 1 \in 1..(n - 1) /\ finishing[i] = Tail(finishing)[i - 1])
      BY <2>1, <3>1
    <3>3. Head(finishing) = finishing[1]
      BY <2>1
    <3> QED BY <3>1, <3>2, <3>3 DEF Elements
  <2>3. Elements(<<>>) = {}
    BY DEF Elements
  <2>4. Elements(finishing') \subseteq Lanes
    BY <2>1 DEF Elements
  <2>5. \E b : Evaluates(b)
    <3>1. BoardSnapshot \in Race!Board
      BY SimBoardTyped, BoardTyped
    <3> QED BY <2>1, <3>1 DEF Evaluates, BoardSnapshot
  <2> QED BY <2>1, <2>2, <2>3, <2>4, <2>5
<1>2. CASE Finish
  BY <1>2, OrderAssumption DEF Finish, board, Idle
<1>3. CASE Start \/ LoadEvent \/ Reset \/ StepHeat \/ Clear \/ LanesOn \/ Blank \/ TotalBlank
  <2>1. UNCHANGED finishing /\ Idle /\ channel_running' \subseteq Lanes /\ event_heat_info' = Spaces
    BY <1>3 DEF Start, LoadEvent, Reset, StepHeat, Clear, LanesOn, ShowLanes, Blank, TotalBlank,
                BlankDisplay, sim, board
  <2> QED BY <2>1 DEF Idle
<1>4. CASE Idle /\ Browser /\ UNCHANGED sim
  BY <1>4 DEF Browser, Connect, NextHeat, SetEventHeat, AnnounceHeat, board, sim, Idle
<1>5. CASE Tick \/ (\E i \in Tickers : TickerEnds(i)) \/ UNCHANGED simvars
  BY <1>5 DEF Tick, TickerEnds, simvars, vars, board, sim, Idle
<1> QED BY <1>1, <1>2, <1>3, <1>4, <1>5 DEF SimNext, Buttons

\* One step keeps the race able to end.
LEMMA RaceCanEndStep ==
  ASSUME SimTyped, RaceCanEnd, [SimNext]_simvars
  PROVE  RaceCanEnd'
<1>1. Race!TypeOK
  BY DEF SimTyped, SimTypeOK, TypeOK
<1>2. /\ event_heat_info' = Spaces
      /\ channel_running' \subseteq IF finishing' = <<>> THEN Lanes ELSE Elements(finishing')
  BY LanesAndHeat
<1>3. (prev_event_heat' = Spaces \/ prev_running_lanes' = {})
      /\ (state' = "Running" => prev_running_lanes' # {})
  <2>1. CASE \E b : Evaluates(b)
    <3>1. PICK b : Evaluates(b)
      BY <2>1
    <3>2. b.event_heat = Spaces /\ prev_event_heat' = Spaces /\ prev_running_lanes' = b.running_lanes
      BY <1>2, <3>1 DEF Evaluates, Race!EvaluateUpdate
    <3>3. b.running_lanes = {} => state' # "Running"
      BY <1>1, <3>1, <3>2, RunningNeedsLanes DEF RaceCanEnd
    <3> QED BY <3>2, <3>3
  <2>2. CASE Race!NotifyEventChange \/ Race!SimLoadEvent
    BY <1>1, <2>2 DEF RaceCanEnd, Race!NotifyEventChange, Race!SimLoadEvent, Race!TypeOK,
                      Race!RaceState, Race!change_event, Race!show_lanes
  <2>3. CASE UNCHANGED fsm
    BY <2>3 DEF RaceCanEnd, fsm
  <2> QED BY <2>1, <2>2, <2>3, SimMachine
<1> QED BY <1>2, <1>3 DEF RaceCanEnd, Idle

LEMMA RacesCanEnd == SimSpec => []RaceCanEnd
<1>1. SimInit => RaceCanEnd
  BY DEF SimInit, Init, RaceCanEnd, Race!Init
<1>2. SimTyped /\ RaceCanEnd /\ [SimNext]_simvars => RaceCanEnd'
  BY RaceCanEndStep
<1> QED BY <1>1, <1>2, SimTypes, PTL DEF SimSpec

\* The handler of "finish" leaves no lane running and the display out of
\* Running (FinishEndsRace).
THEOREM FinishEnds == SimSpec => FinishEndsRace
<1>1. ASSUME SimTyped, RaceCanEnd, [SimNext]_simvars, ~Idle, finishing' = <<>>
      PROVE  channel_running' \cap Lanes = {} /\ state' # "Running"
  <2>1. PICK b : Evaluates(b) /\ channel_running' = {} /\ event_heat_info' = Spaces
    BY <1>1, LanesAndHeat
  <2>2. b.running_lanes = {} /\ b.event_heat = Spaces
    BY <2>1 DEF Evaluates
  <2>3. state' # "Running"
    BY <1>1, <2>1, <2>2, RunningNeedsLanes DEF SimTyped, SimTypeOK, TypeOK, RaceCanEnd
  <2> QED BY <2>1, <2>3
<1>2. SimTyped /\ RaceCanEnd /\ [SimNext]_simvars =>
        (~Idle /\ finishing' = <<>> => channel_running' \cap Lanes = {} /\ state' # "Running")
  BY <1>1
<1> QED BY <1>2, SimTypes, RacesCanEnd, PTL DEF SimSpec, FinishEndsRace

-----------------------------------------------------------------------------
(* The replay snapshot under the simulator *)

\* One broadcast, or several, of a button: the state, the heat and the lanes
\* that end up in the snapshot.
LEMMA SimSnapshot ==
  ASSUME NEW key, NEW lanes,
         \/ Broadcast(Update(key, lanes)) \/ ThenScores(Update(key, lanes))
         \/ ThenEventInfo(Update(key, lanes))
  PROVE  /\ snapshot'.race_state = state'
         /\ snapshot'.key \in {IF key = NoKey THEN snapshot.key ELSE key, <<"int", last_event_sent'>>}
         /\ \A c \in Channels :
              snapshot'.lane_time[c] \in
                IF c \in lanes THEN {"absent", IF c \in lane_times' THEN "time" ELSE "blank"}
                ELSE {"absent", snapshot.lane_time[c]}
<1> DEFINE msg == Update(key, lanes)
           first == Merge(snapshot, msg)
           info == Merge(first, EventInfo(last_event_sent', state'))
<1>1. /\ msg.race_state = state' /\ msg.key = key
      /\ \A c \in Channels : msg.lane_time[c] =
           IF c \notin lanes THEN "absent" ELSE IF c \in lane_times' THEN "time" ELSE "blank"
  BY DEF Update, LaneKeys
<1>2. /\ first.race_state = state'
      /\ first.key = IF key = NoKey THEN snapshot.key ELSE key
      /\ \A c \in Channels : first.lane_time[c] \in
           IF c \in lanes THEN {IF c \in lane_times' THEN "time" ELSE "blank"}
           ELSE {"absent", snapshot.lane_time[c]}
  <2> HIDE DEF msg
  <2> QED BY <1>1, MergeFields, MergeLanes
<1>3. /\ EventInfo(last_event_sent', state').key = <<"int", last_event_sent'>>
      /\ EventInfo(last_event_sent', state').race_state = state'
      /\ ScoresInfo(state').key = NoKey /\ ScoresInfo(state').race_state = state'
  BY DEF EventInfo, ScoresInfo
<1>4. snapshot' \in {first, Merge(first, ScoresInfo(state')), Merge(info, ScoresInfo(state'))}
  BY DEF Broadcast, ThenScores, BroadcastBoth, ThenEventInfo
<1> HIDE DEF msg, first
<1>5. /\ info.race_state = state'
      /\ info.key = <<"int", last_event_sent'>>
      /\ \A c \in Channels : info.lane_time[c] \in {"absent", first.lane_time[c]}
  BY <1>3, MergeFields, InfoLanes DEF NoKey
<1> HIDE DEF info
<1>6. /\ snapshot'.race_state = state'
      /\ snapshot'.key \in {first.key, info.key}
      /\ \A c \in Channels : snapshot'.lane_time[c] \in {first.lane_time[c], info.lane_time[c]}
  <2>1. CASE snapshot' = first
    BY <1>2, <2>1
  <2>2. CASE snapshot' = Merge(first, ScoresInfo(state'))
    BY <1>3, <2>2, MergeFields, InfoLanes
  <2>3. CASE snapshot' = Merge(info, ScoresInfo(state'))
    BY <1>3, <2>3, MergeFields, InfoLanes
  <2> QED BY <1>4, <2>1, <2>2, <2>3
<1> QED BY <1>2, <1>5, <1>6

\* Every button's message: the heat it names, and the lanes it leaves out,
\* which have neither stopped nor changed.
LEMMA ButtonMessages ==
  ASSUME SimTyped,
         Start \/ Finish \/ FinishLane \/ Reset \/ Clear \/ LanesOn \/ StepHeat \/ Blank \/ TotalBlank
  PROVE  /\ update' = update
         /\ \E key, lanes :
              /\ \/ Broadcast(Update(key, lanes)) \/ ThenScores(Update(key, lanes))
                 \/ ThenEventInfo(Update(key, lanes))
              /\ key \in {NoKey, SentHeat, <<"wire", Spaces>>}
              /\ key = NoKey => last_event_sent' = last_event_sent
              /\ \A c \in (Channels \ channel_running') \ lanes :
                   c \notin channel_running /\ (c \in lane_times' <=> c \in lane_times)
<1>1. CASE Start
  BY <1>1 DEF Start, NoConsole
<1>2. CASE Finish
  BY <1>2 DEF Finish, NoConsole, board
<1>3. CASE FinishLane
  BY <1>3 DEF FinishLane, NoConsole
<1>4. CASE Reset
  BY <1>4 DEF Reset, NoConsole
<1>5. CASE Clear \/ LanesOn
  BY <1>5, SimAssumption DEF Clear, LanesOn, ShowLanes, NoConsole
<1>6. CASE StepHeat
  BY <1>6 DEF StepHeat, NoConsole, board, SentHeat, NoKey
<1>7. CASE Blank \/ TotalBlank
  BY <1>7 DEF Blank, TotalBlank, BlankDisplay, NoConsole
<1> QED BY <1>1, <1>2, <1>3, <1>4, <1>5, <1>6, <1>7

\* The promises of the snapshot, together; nothing is gathered without a console.
SimReplay ==
  /\ SnapshotIsCurrent
  /\ ReplayNamesTheHeat
  /\ update = NoLaneKeys /\ LanesAreTracked

LEMMA SimReplayStep ==
  ASSUME SimTyped, SimReplay, [SimNext]_simvars
  PROVE  SimReplay'
<1> USE DEF SimReplay, SnapshotIsCurrent, ReplayNamesTheHeat, LanesAreTracked
<1>0. \A c \in Channels : NoLaneKeys[c] = "absent"
  BY DEF NoLaneKeys
<1>1. CASE Start \/ Finish \/ FinishLane \/ Reset \/ Clear \/ LanesOn \/ StepHeat \/ Blank \/ TotalBlank
  <2>1. PICK key, lanes :
          /\ \/ Broadcast(Update(key, lanes)) \/ ThenScores(Update(key, lanes))
             \/ ThenEventInfo(Update(key, lanes))
          /\ key \in {NoKey, SentHeat, <<"wire", Spaces>>}
          /\ key = NoKey => last_event_sent' = last_event_sent
          /\ \A c \in (Channels \ channel_running') \ lanes :
               c \notin channel_running /\ (c \in lane_times' <=> c \in lane_times)
    BY <1>1, ButtonMessages
  <2>2. /\ snapshot'.race_state = state'
        /\ snapshot'.key \in {IF key = NoKey THEN snapshot.key ELSE key, <<"int", last_event_sent'>>}
        /\ \A c \in Channels :
             snapshot'.lane_time[c] \in
               IF c \in lanes THEN {"absent", IF c \in lane_times' THEN "time" ELSE "blank"}
               ELSE {"absent", snapshot.lane_time[c]}
    BY <2>1, SimSnapshot
  <2>3. SnapshotIsCurrent'
    BY <2>2
  <2>4. ReplayNamesTheHeat'
    BY <2>1, <2>2, SpacesTyped DEF SentHeat
  <2>5. update' = NoLaneKeys
    BY <1>1, ButtonMessages
  <2>6. LanesAreTracked'
    <3> SUFFICES ASSUME NEW c \in Channels \ channel_running'
                 PROVE  \/ snapshot'.lane_time[c] = "absent"
                        \/ snapshot'.lane_time[c] = "time" <=> c \in lane_times'
      BY <1>0, <2>5
    <3>1. CASE c \in lanes
      BY <2>2, <3>1
    <3>2. CASE c \notin lanes
      BY <1>0, <2>1, <2>2, <3>2
    <3> QED BY <3>1, <3>2
  <2> QED BY <2>3, <2>4, <2>5, <2>6
<1>2. ASSUME NEW heat, NEW s, UNCHANGED <<update, channel_running, lane_times>>,
             heat = last_event_sent', s = state',
             snapshot' \in {Merge(Merge(snapshot, EventInfo(heat, s)), ScoresInfo(s)),
                            Merge(snapshot, EventInfo(heat, s))}
      PROVE  SimReplay'
  <2> DEFINE info == Merge(snapshot, EventInfo(heat, s))
  <2>1. /\ info.race_state = s /\ info.key = <<"int", heat>>
        /\ \A c \in Channels : info.lane_time[c] \in {"absent", snapshot.lane_time[c]}
    <3>1. EventInfo(heat, s).key = <<"int", heat>> /\ EventInfo(heat, s).race_state = s
      BY DEF EventInfo
    <3> QED BY <3>1, MergeFields, InfoLanes DEF NoKey
  <2> HIDE DEF info
  <2>2. /\ snapshot'.race_state = s /\ snapshot'.key = <<"int", heat>>
        /\ \A c \in Channels : snapshot'.lane_time[c] \in {"absent", snapshot.lane_time[c]}
    <3>1. CASE snapshot' = info
      BY <2>1, <3>1
    <3>2. CASE snapshot' = Merge(info, ScoresInfo(s))
      <4>1. ScoresInfo(s).key = NoKey /\ ScoresInfo(s).race_state = s
        BY DEF ScoresInfo
      <4>2. snapshot'.race_state = s /\ snapshot'.key = info.key
        BY <3>2, <4>1, MergeFields
      <4>3. \A c \in Channels : snapshot'.lane_time[c] = info.lane_time[c]
        BY <3>2, InfoLanes
      <4> QED BY <2>1, <4>2, <4>3
    <3>3. snapshot' \in {Merge(info, ScoresInfo(s)), info}
      BY <1>2 DEF info
    <3> QED BY <3>1, <3>2, <3>3
  <2> QED BY <1>0, <1>2, <2>2
<1>3. CASE LoadEvent
  BY <1>2, <1>3 DEF LoadEvent, BroadcastBoth, NoConsole
<1>4. CASE Connect
  BY <1>2, <1>4 DEF Connect, BroadcastBoth, board, fsm
<1>5. ASSUME NEW heat, AnnounceHeat(heat)
      PROVE  SimReplay'
  BY <1>2, <1>5 DEF AnnounceHeat, Broadcast, board
<1>6. CASE Tick
  <2> DEFINE msg == [key |-> NoKey, race_state |-> snapshot.race_state,
                     lane_time |-> LaneKeys(Lanes \cap channel_running, Lanes)]
  <2>1. /\ msg.key = NoKey /\ msg.race_state = snapshot.race_state
        /\ \A c \in Channels \ channel_running : msg.lane_time[c] = "absent"
    BY DEF LaneKeys
  <2>2. snapshot' = Merge(snapshot, msg)
    BY <1>6 DEF Tick, Broadcast
  <2> HIDE DEF msg
  <2>3. /\ snapshot'.key = snapshot.key /\ snapshot'.race_state = snapshot.race_state
        /\ \A c \in Channels \ channel_running : snapshot'.lane_time[c] = snapshot.lane_time[c]
    BY <2>1, <2>2, MergeFields, MergeLanes
  <2>4. /\ snapshot # EmptySnapshot
        /\ UNCHANGED <<state, update, channel_running, lane_times, last_event_sent>>
    BY <1>6 DEF Tick, fsm, SimTyped, EmptySnapshot, Message, Race!RaceState
  <2> QED BY <1>0, <2>3, <2>4
<1>7. CASE (\E i \in Tickers : TickerEnds(i)) \/ UNCHANGED simvars
  BY <1>7 DEF TickerEnds, simvars, vars, fsm, board
<1> QED BY <1>1, <1>3, <1>4, <1>5, <1>6, <1>7
        DEF SimNext, Buttons, Browser, NextHeat, SetEventHeat

\* Under the simulator the replay snapshot tells the state of the machine, names
\* the announced heat and shows a resting lane as the buttons left it
\* (SnapshotIsCurrent, ReplayNamesTheHeat, StoppedLanesKeepResults).
THEOREM SimReplayIsTrue ==
  SimSpec => [](SnapshotIsCurrent /\ ReplayNamesTheHeat /\ StoppedLanesKeepResults)
<1>1. SimInit => SimReplay
  <2>1. \A c \in Channels : NoLaneKeys[c] = "absent"
    BY DEF NoLaneKeys
  <2> QED BY <2>1 DEF SimInit, Init, SimReplay, SnapshotIsCurrent, ReplayNamesTheHeat,
                      LanesAreTracked, EmptySnapshot
<1>2. SimTyped /\ SimReplay /\ [SimNext]_simvars => SimReplay'
  BY SimReplayStep
<1>3. SimReplay => SnapshotIsCurrent /\ ReplayNamesTheHeat /\ StoppedLanesKeepResults
  BY DEF SimReplay, LanesAreTracked, SnapshotTracksLanes, StoppedLanesKeepResults
<1> QED BY <1>1, <1>2, <1>3, SimTypes, PTL DEF SimSpec
=============================================================================
