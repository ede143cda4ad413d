------------------------------ MODULE Scoreboard ------------------------------
(***************************************************************************)
(* The scoreboard process of CTS_Scoreboard.py: the decoder of the serial  *)
(* stream (parse_line), the race state machine it drives, the browser      *)
(* requests that reach the same machine, and the broadcasts that keep the  *)
(* browsers and the replay snapshot up to date.                            *)
(*                                                                         *)
(* Every handler runs in one greenlet without yielding, so each is one     *)
(* action.  A time string is abstracted to whether it is blank; a pair of  *)
(* event and heat strings to a member of EventHeats.                       *)
(***************************************************************************)
EXTENDS Naturals, Sequences

CONSTANTS
  Channels, ClockLane, EventHeats, BlankHeats, Unset,   \* of RaceStateMachine
  Lanes,       \* the lanes 1..num_lanes of the pool
  FirstHeat,   \* last_event_sent when the process starts
  Schedule,    \* the sorted (event, heat) pairs of the loaded meet
  Scores       \* bound: whether the score frames of the console carry a score

RealHeats == EventHeats \ BlankHeats

ASSUME HeatsAssumption == BlankHeats \subseteq EventHeats /\ Unset \notin EventHeats
ASSUME LanesAssumption == Lanes \subseteq Channels /\ ClockLane \in Channels
ASSUME ScheduleAssumption == Schedule \in Seq(RealHeats) /\ FirstHeat \in RealHeats
ASSUME ScoresAssumption == Scores \subseteq BOOLEAN

VARIABLES
  state, prev_event_heat, prev_running_lanes, prev_other_lanes_blank,  \* race_fsm
  event_heat_info,   \* the event/heat digits received from the console
  channel_running,   \* channels whose last frame had the running bit
  lane_times,        \* channels whose decoded time is not blank
  running_time,      \* whether the running clock string is not blank
  team_scores,       \* whether some score is neither empty nor zero
  last_event_sent,   \* the heat last announced to the browsers
  update,            \* lane keys gathered since the last broadcast
  snapshot,          \* _last_scoreboard_state, replayed to new browsers
  started            \* whether the serial worker runs (main_thread)

fsm == <<state, prev_event_heat, prev_running_lanes, prev_other_lanes_blank>>
board == <<event_heat_info, channel_running, lane_times, running_time, team_scores>>
vars == <<fsm, board, last_event_sent, update, snapshot, started>>

Race == INSTANCE RaceStateMachine

-----------------------------------------------------------------------------
(* Broadcasts and the replay snapshot *)

\* The value of a lane_time key in a message: not in it, a blank time, a time.
LaneKey == {"absent", "blank", "time"}
NoLaneKeys == [c \in Channels |-> "absent"]

\* The console's three-character strings and str(int) of the same heat differ.
Key == ({"wire"} \X EventHeats) \cup ({"int"} \X RealHeats)
NoKey == <<"none", Unset>>

\* A message carries the heat key (or none), lane keys and the race state.
Message == [key: Key \cup {NoKey}, lane_time: [Channels -> LaneKey],
            race_state: Race!RaceState]
EmptySnapshot == [key |-> NoKey, lane_time |-> NoLaneKeys, race_state |-> "none"]

\* _update_scoreboard_snapshot: a different heat key drops the per-race keys.
Merge(snap, msg) ==
  LET drop_stale == msg.key # NoKey /\ msg.key # snap.key
  IN  [key |-> IF msg.key = NoKey THEN snap.key ELSE msg.key,
       lane_time |-> [c \in Channels |->
                        IF msg.lane_time[c] # "absent" THEN msg.lane_time[c]
                        ELSE IF drop_stale THEN "absent" ELSE snap.lane_time[c]],
       race_state |-> msg.race_state]

\* send_event_info and send_scores_info.
EventInfo(heat, s) == [key |-> <<"int", heat>>, lane_time |-> NoLaneKeys, race_state |-> s]
ScoresInfo(s) == [key |-> NoKey, lane_time |-> NoLaneKeys, race_state |-> s]

\* The one or two broadcasts of a handler, in order.
Broadcast(msg) == snapshot' = Merge(snapshot, msg)
BroadcastBoth(first, second) == snapshot' = Merge(Merge(snapshot, first), second)

-----------------------------------------------------------------------------
(* parse_line: one action per kind of frame *)

\* Mutant: the running lanes are added to those the machine saw last.
BoardSnapshot_Cached ==
  [event_heat |-> event_heat_info', running_lanes |-> prev_running_lanes \cup channel_running',
   lane_times |-> lane_times', lanes |-> Lanes, scores |-> team_scores']

\* build_board_snapshot, read after the frame has been decoded.
BoardSnapshot ==
  [event_heat |-> event_heat_info', running_lanes |-> channel_running',
   lane_times |-> lane_times', lanes |-> Lanes, scores |-> team_scores']

\* The message of the finally block of a frame that put running_time or
\* current_event in the update: everything gathered, with the state just
\* evaluated.
Gathered(key, lanes) == [key |-> key, lane_time |-> lanes, race_state |-> state']

\* That block: evaluate, broadcast, and clear the update.
EvaluateAndBroadcast(key, lanes) ==
  /\ Race!EvaluateUpdate(BoardSnapshot)
  /\ Broadcast(Gathered(key, lanes))
  /\ update' = NoLaneKeys

\* Mutant: the clock string is only reset if there is one.
race_start_Clocked(running) == running /\ channel_running = {} /\ running_time

\* The first lane to run resets the clock string and so causes an evaluation.
race_start(running) == running /\ channel_running = {}

\* Mutant: a time that went blank is not broadcast.
lane_update_NoBlank(c, running, shows) ==
  IF running \/ ~shows THEN update ELSE [update EXCEPT ![c] = "time"]

\* Only a lane that is not running puts its time in the update.
lane_update(c, running, shows) ==
  IF running THEN update ELSE [update EXCEPT ![c] = IF shows THEN "time" ELSE "blank"]

\* A lane frame (channels 1-10).  A running lane's time is the clock string.
LaneFrame(c, running, shows) ==
  /\ started
  /\ running_time' = (race_start(running) \/ running_time)
  /\ channel_running' = IF running THEN channel_running \cup {c} ELSE channel_running \ {c}
  /\ lane_times' = IF (IF running THEN running_time' ELSE shows)
                   THEN lane_times \cup {c} ELSE lane_times \ {c}
  /\ UNCHANGED <<event_heat_info, team_scores, last_event_sent, started>>
  /\ IF race_start(running)
     THEN EvaluateAndBroadcast(NoKey, lane_update(c, running, shows))
     ELSE /\ update' = lane_update(c, running, shows)
          /\ UNCHANGED <<fsm, snapshot>>

\* A running-time frame (channel 0).
ClockFrame(shows) ==
  /\ started
  /\ running_time' = shows
  /\ UNCHANGED <<event_heat_info, channel_running, lane_times, team_scores,
                 last_event_sent, started>>
  /\ EvaluateAndBroadcast(NoKey, update)

\* Mutant: the heat is compared with the console's previous one.
is_new_heat_Console(eh) == eh \in RealHeats /\ eh # event_heat_info

\* Mutant: a heat that is not a number is announced.
is_new_heat_Blank(eh) == eh # last_event_sent

\* A heat the browsers have not been told of.
is_new_heat(eh) == eh \in RealHeats /\ eh # last_event_sent

\* An event/heat frame (channel 12).  A new heat is announced before the
\* machine sees it; a blank one is not a number and returns before that, though
\* the finally block still runs.
EventHeatFrame(eh) ==
  /\ started
  /\ event_heat_info' = eh
  /\ UNCHANGED <<channel_running, lane_times, running_time, team_scores, started>>
  /\ IF is_new_heat(eh)
     THEN /\ last_event_sent' = eh
          /\ Race!EvaluateUpdate(BoardSnapshot)
          /\ BroadcastBoth(EventInfo(eh, state), Gathered(<<"wire", eh>>, update))
          /\ update' = NoLaneKeys
     ELSE /\ UNCHANGED last_event_sent
          /\ EvaluateAndBroadcast(<<"wire", eh>>, update)

\* A team score frame (channels 0x14 and 0x15) that changes a score.
ScoreFrame(present) ==
  /\ started
  /\ team_scores' = present
  /\ Broadcast(ScoresInfo(state))
  /\ UNCHANGED <<fsm, event_heat_info, channel_running, lane_times, running_time,
                 last_event_sent, update, started>>

-----------------------------------------------------------------------------
(* The browsers' requests *)

\* A browser connects: the worker starts with the first one, the heat and the
\* scores are broadcast again, and the snapshot is replayed to the newcomer.
Connect ==
  /\ started' = TRUE
  /\ BroadcastBoth(EventInfo(last_event_sent, state), ScoresInfo(state))
  /\ UNCHANGED <<fsm, board, last_event_sent, update>>

\* The heat after last_event_sent in the schedule, or the first one.
NextInSchedule(heat) ==
  LET later == {i \in 1..Len(Schedule) : i > 1 /\ Schedule[i - 1] = heat}
  IN  IF later = {} THEN Schedule[1] ELSE Schedule[CHOOSE i \in later : TRUE]

\* Mutant: the machine is told after the broadcast.
AnnounceHeat_Late(heat) ==
  /\ last_event_sent' = heat
  /\ Race!NotifyEventChange
  /\ Broadcast(EventInfo(heat, state))
  /\ UNCHANGED <<board, update, started>>

\* A browser's choice of a heat: the machine is told only that it changed.
AnnounceHeat(heat) ==
  /\ last_event_sent' = heat
  /\ Race!NotifyEventChange
  /\ Broadcast(EventInfo(heat, state'))
  /\ UNCHANGED <<board, update, started>>

NextHeat == Schedule # <<>> /\ AnnounceHeat(NextInSchedule(last_event_sent))

SetEventHeat(heat) == AnnounceHeat(heat)

-----------------------------------------------------------------------------
Init ==
  /\ Race!Init
  /\ event_heat_info \in BlankHeats
  /\ channel_running = {} /\ lane_times = {}
  /\ running_time = FALSE /\ team_scores = FALSE
  /\ last_event_sent = FirstHeat
  /\ update = NoLaneKeys
  /\ snapshot = EmptySnapshot
  /\ started = FALSE

\* What the console puts on the wire.
Console ==
  \/ \E c \in Channels, running, shows \in BOOLEAN : LaneFrame(c, running, shows)
  \/ \E shows \in BOOLEAN : ClockFrame(shows)
  \/ \E eh \in EventHeats : EventHeatFrame(eh)
  \/ \E present \in Scores : ScoreFrame(present)

Browser ==
  \/ Connect
  \/ NextHeat
  \/ \E heat \in RealHeats : SetEventHeat(heat)

Next == Console \/ Browser

Spec == Init /\ [][Next]_vars

\* The console repeats the running-time frame for as long as it is on.
Fairness == WF_vars(\E shows \in BOOLEAN : ClockFrame(shows))

FairSpec == Spec /\ Fairness

-----------------------------------------------------------------------------
(* Properties *)

\* Types: the heat announced last is never a blank one, and the snapshot is a
\* message of one of the two senders.
TypeOK ==
  /\ Race!TypeOK
  /\ event_heat_info \in EventHeats
  /\ channel_running \in SUBSET Channels /\ lane_times \in SUBSET Channels
  /\ running_time \in BOOLEAN /\ team_scores \in BOOLEAN
  /\ last_event_sent \in RealHeats
  /\ update \in [Channels -> LaneKey]
  /\ snapshot \in Message \cup {EmptySnapshot}
  /\ started \in BOOLEAN

\* The replay snapshot always tells the state the machine is in: no handler
\* moves the machine after its last broadcast.
SnapshotIsCurrent == snapshot # EmptySnapshot => snapshot.race_state = state

\* A lane that is not running and has nothing waiting to be broadcast is
\* replayed as the console last sent it, or not at all.
SnapshotTracksLanes ==
  \A c \in Channels \ channel_running :
    update[c] = "absent" =>
      \/ snapshot.lane_time[c] = "absent"
      \/ snapshot.lane_time[c] = "time" <=> c \in lane_times

\* A newcomer is never told another heat than the one announced last: the
\* snapshot names that heat, in either spelling, or the console's blank one.
ReplayNamesTheHeat ==
  snapshot.key # NoKey =>
    snapshot.key[2] = last_event_sent \/ snapshot.key \in {"wire"} \X BlankHeats

\* A race that starts after the end of the last one was noticed is shown with
\* the first frame of its first lane, from any display but Finished.
StartIsShownAtOnce ==
  [][channel_running = {} /\ channel_running' # {} /\ prev_running_lanes = {} =>
       state' = "Running" \/ (state = "Finished" /\ event_heat_info' = prev_event_heat)]_vars

\* The end of a race is noticed: once every lane has stopped, the display leaves
\* Running, unless a lane starts again or the console changes the heat first.
EndIsNoticed ==
  /\ (state = "Running" /\ channel_running = {} /\ prev_running_lanes # {})
       ~> (state # "Running" \/ channel_running # {} \/ prev_running_lanes = {})
  /\ Race!StoppedLanesEnd

\* The console and the browsers together drive the machine only as
\* RaceStateMachine allows, so everything proved of it holds here.
DrivesRaceStateMachine == Race!Spec

\* "Running -> Finished when all active running lanes stop"
\* (race_state_machine.py:28): a race whose lanes have stopped is not shown as
\* running for ever.
RunningEndsWhenLanesStop ==
  (state = "Running" /\ channel_running = {}) ~> (state # "Running" \/ channel_running # {})
=============================================================================
