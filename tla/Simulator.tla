------------------------------ MODULE Simulator ------------------------------
(***************************************************************************)
(* The demo mode of sim.py, on a scoreboard without a console: the buttons *)
(* of the test page drive the globals, the race state machine and the      *)
(* broadcasts of the scoreboard process, and a background task advances    *)
(* the clock of a simulated race.                                          *)
(*                                                                         *)
(* A button is handled without yielding.  "finish" evaluates the board     *)
(* once per lane; those evaluations are steps of their own, and nothing    *)
(* else happens before the last one.                                       *)
(***************************************************************************)
EXTENDS Scoreboard

CONSTANTS
  LaneOrder,   \* the lanes 1..num_lanes, in order
  SimLanes,    \* those with a swimmer in SIM_LANES
  OtherHeat,   \* heat 2 of an event for its heat 1, heat 1 for any other
  Tickers      \* bound: the clock tasks there are at a time

Elements(seq) == {seq[i] : i \in 1..Len(seq)}

ASSUME OrderAssumption == LaneOrder \in Seq(Lanes) /\ Elements(LaneOrder) = Lanes
ASSUME SimAssumption == SimLanes \subseteq Lanes /\ LaneOrder # <<>>
ASSUME OtherHeatAssumption == OtherHeat \in [RealHeats -> RealHeats]
ASSUME BlankAssumption == BlankHeats # {}

VARIABLES
  sim_running,   \* _sim_running
  tickers,       \* the clock tasks that have not ended
  finishing      \* the lanes that the handler of "finish" has yet to stop

sim == <<sim_running, tickers, finishing>>
simvars == <<vars, sim>>

\* The event and heat strings of eight spaces.
Spaces == CHOOSE eh \in BlankHeats : TRUE

-----------------------------------------------------------------------------
(* What a button broadcasts *)

\* The lane_time keys of a message that gives each of these lanes a value.
LaneKeys(lanes, shown) ==
  [c \in Channels |-> IF c \notin lanes THEN "absent"
                      ELSE IF c \in shown THEN "time" ELSE "blank"]

Update(key, lanes) == [key |-> key, lane_time |-> LaneKeys(lanes, lane_times'), race_state |-> state']

\* The heat in the spelling of send_event_info.
SentHeat == <<"int", last_event_sent'>>

\* An update followed by the scores, or by the heat and the scores.
ThenScores(msg) == BroadcastBoth(msg, ScoresInfo(state'))
ThenEventInfo(msg) ==
  snapshot' = Merge(Merge(Merge(snapshot, msg), EventInfo(last_event_sent', state')), ScoresInfo(state'))

\* The console's variables are only touched by the console.
NoConsole == UNCHANGED <<update, started>>

Idle == finishing = <<>>

-----------------------------------------------------------------------------
(* The buttons *)

\* sim_load_event: the scores and the heat of the demo meet; the machine is
\* told of a new heat and shown lanes.
LoadEvent ==
  /\ Idle
  /\ team_scores' = TRUE
  /\ last_event_sent' = FirstHeat
  /\ Race!SimLoadEvent
  /\ BroadcastBoth(EventInfo(FirstHeat, state'), ScoresInfo(state'))
  /\ NoConsole
  /\ UNCHANGED <<event_heat_info, channel_running, lane_times, running_time, sim>>

\* A new clock task starts from zero, whether or not one is there.
StartsTicker == \E i \in Tickers \ tickers : tickers' = tickers \cup {i}

\* "start": every lane runs.
Start ==
  /\ Idle
  /\ sim_running' = TRUE
  /\ running_time' = TRUE
  /\ channel_running' = channel_running \cup Lanes
  /\ lane_times' = lane_times \cup Lanes
  /\ UNCHANGED <<event_heat_info, team_scores, last_event_sent, finishing>>
  /\ Race!EvaluateUpdate(BoardSnapshot)
  /\ ThenScores(Update(SentHeat, Lanes))
  /\ StartsTicker
  /\ NoConsole

\* "finish": the heat first, then a message per lane.
Finish ==
  /\ Idle
  /\ sim_running' = FALSE
  /\ finishing' = LaneOrder
  /\ UNCHANGED <<board, last_event_sent, tickers>>
  /\ Race!EvaluateUpdate(BoardSnapshot)
  /\ Broadcast(Update(SentHeat, {}))
  /\ NoConsole

\* Mutant: the machine is evaluated once, with the head message only.
FinishLane_HeadOnly ==
  /\ ~Idle
  /\ LET c == Head(finishing)
     IN  /\ channel_running' = channel_running \ {c}
         /\ lane_times' = IF c \in SimLanes THEN lane_times \cup {c} ELSE lane_times \ {c}
         /\ UNCHANGED <<fsm, event_heat_info, running_time, team_scores, last_event_sent>>
         /\ IF Len(finishing) = 1 THEN ThenScores(Update(NoKey, {c})) ELSE Broadcast(Update(NoKey, {c}))
  /\ finishing' = Tail(finishing)
  /\ UNCHANGED <<sim_running, tickers>>
  /\ NoConsole

\* Mutant: nothing is sent of an empty lane.
FinishLane_SkipsEmpty ==
  /\ ~Idle
  /\ LET c == Head(finishing)
         sent == {c} \cap SimLanes
     IN  /\ channel_running' = channel_running \ {c}
         /\ lane_times' = IF c \in SimLanes THEN lane_times \cup {c} ELSE lane_times \ {c}
         /\ UNCHANGED <<event_heat_info, running_time, team_scores, last_event_sent>>
         /\ Race!EvaluateUpdate(BoardSnapshot)
         /\ IF Len(finishing) = 1 THEN ThenScores(Update(NoKey, sent)) ELSE Broadcast(Update(NoKey, sent))
  /\ finishing' = Tail(finishing)
  /\ UNCHANGED <<sim_running, tickers>>
  /\ NoConsole

\* The next lane stops: the swimmer's time, or blanks for an empty lane.  The
\* scores follow the last one.
FinishLane ==
  /\ ~Idle
  /\ LET c == Head(finishing)
     IN  /\ channel_running' = channel_running \ {c}
         /\ lane_times' = IF c \in SimLanes THEN lane_times \cup {c} ELSE lane_times \ {c}
         /\ UNCHANGED <<event_heat_info, running_time, team_scores, last_event_sent>>
         /\ Race!EvaluateUpdate(BoardSnapshot)
         /\ IF Len(finishing) = 1 THEN ThenScores(Update(NoKey, {c})) ELSE Broadcast(Update(NoKey, {c}))
  /\ finishing' = Tail(finishing)
  /\ UNCHANGED <<sim_running, tickers>>
  /\ NoConsole

\* "reset": the lanes stop and the last times are sent again; the machine is
\* told of a heat change but evaluates no board.
Reset ==
  /\ Idle
  /\ sim_running' = FALSE
  /\ channel_running' = channel_running \ Lanes
  /\ UNCHANGED <<event_heat_info, lane_times, running_time, team_scores, last_event_sent>>
  /\ Race!NotifyEventChange
  /\ ThenEventInfo(Update(SentHeat, Lanes))
  /\ UNCHANGED <<tickers, finishing>>
  /\ NoConsole

\* "clear" and "lanes_on": the lanes are blanked, or show the results again.
ShowLanes(lanes) ==
  /\ Idle
  /\ lane_times' = (lane_times \ Lanes) \cup lanes
  /\ UNCHANGED <<event_heat_info, channel_running, running_time, team_scores, last_event_sent, sim>>
  /\ Race!EvaluateUpdate(BoardSnapshot)
  /\ ThenEventInfo(Update(SentHeat, Lanes))
  /\ NoConsole

Clear == ShowLanes({})
LanesOn == ShowLanes(SimLanes)

\* Mutant: the machine is shown the new heat as the console's.
StepHeat_Evaluated ==
  /\ Idle
  /\ last_event_sent' = OtherHeat[last_event_sent]
  /\ UNCHANGED <<board, sim>>
  /\ state' = Race!change_event(state) /\ prev_event_heat' = last_event_sent'
  /\ UNCHANGED <<prev_running_lanes, prev_other_lanes_blank>>
  /\ ThenEventInfo(Update(SentHeat, Lanes))
  /\ NoConsole

\* "next_heat": heat 1 and heat 2 of the event alternate.
StepHeat ==
  /\ Idle
  /\ last_event_sent' = OtherHeat[last_event_sent]
  /\ UNCHANGED <<board, sim>>
  /\ Race!NotifyEventChange
  /\ ThenEventInfo(Update(SentHeat, Lanes))
  /\ NoConsole

\* "blank" and "total_blank": the console's heat and the lanes go blank, but
\* for the clock on lane 3; the scores are blanked for the machine only.
BlankDisplay(lanes) ==
  /\ Idle
  /\ sim_running' = FALSE
  /\ event_heat_info' = Spaces
  /\ channel_running' = channel_running \ Lanes
  /\ lane_times' = (lane_times \ Lanes) \cup lanes
  /\ UNCHANGED <<running_time, team_scores, last_event_sent, tickers, finishing>>
  /\ Race!EvaluateUpdate([BoardSnapshot EXCEPT !.scores = FALSE])
  /\ Broadcast(Update(<<"wire", Spaces>>, Lanes))
  /\ NoConsole

Blank == BlankDisplay(Lanes \cap {ClockLane})
TotalBlank == BlankDisplay({})

-----------------------------------------------------------------------------
(* The clock task, _sim_clock_tick *)

\* A clock task wakes up and finds the race over.
TickerEnds(i) ==
  /\ Idle /\ i \in tickers /\ ~sim_running
  /\ tickers' = tickers \ {i}
  /\ UNCHANGED <<vars, sim_running, finishing>>

\* One of the clock tasks wakes up and shows its reading, on the running lanes too.
Tick ==
  /\ Idle /\ tickers # {} /\ sim_running
  /\ running_time' = TRUE
  /\ Broadcast([key |-> NoKey, race_state |-> snapshot.race_state,
                lane_time |-> LaneKeys(Lanes \cap channel_running, Lanes)])
  /\ UNCHANGED <<fsm, event_heat_info, channel_running, lane_times, team_scores,
                 last_event_sent, update, started, sim>>

-----------------------------------------------------------------------------
\* No console has sent a heat: event_heat_info is all spaces, as the buttons
\* "blank" and "total_blank" leave it.
SimInit ==
  /\ Init
  /\ event_heat_info = Spaces
  /\ sim_running = FALSE
  /\ tickers = {}
  /\ finishing = <<>>

Buttons ==
  \/ LoadEvent \/ Start \/ Finish \/ FinishLane \/ Reset
  \/ Clear \/ LanesOn \/ StepHeat \/ Blank \/ TotalBlank

SimNext ==
  \/ Buttons
  \/ Idle /\ Browser /\ UNCHANGED sim
  \/ Tick
  \/ \E i \in Tickers : TickerEnds(i)

SimSpec == SimInit /\ [][SimNext]_simvars

-----------------------------------------------------------------------------
(* Properties *)

\* "next_heat" stays within the heats of the event, and the clock tasks and the
\* lanes that "finish" has left are counted right.
SimTypeOK ==
  /\ TypeOK
  /\ sim_running \in BOOLEAN
  /\ tickers \subseteq Tickers
  /\ finishing \in Seq(Lanes)

\* When the handler of "finish" returns, the race is over for the machine as
\* well as on the lanes, whatever was pressed before: one evaluation per lane
\* finds the edge, even with empty lanes and lanes stopped by a reset.
FinishEndsRace ==
  [][~Idle /\ finishing' = <<>> => channel_running' \cap Lanes = {} /\ state' # "Running"]_simvars

\* A newcomer is told of a stopped lane what the buttons left there: its result,
\* or nothing on a lane without a swimmer, never a reading that a clock task,
\* be it one that a quick restart has left over, showed there before or since.
StoppedLanesKeepResults == SnapshotTracksLanes

\* The buttons, the browsers and the clock drive the machine only as
\* RaceStateMachine allows.
SimDrivesRaceStateMachine == Race!Spec
=============================================================================
