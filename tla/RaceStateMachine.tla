--------------------------- MODULE RaceStateMachine ---------------------------
(***************************************************************************)
(* The race lifecycle machine of race_state_machine.py: ten display        *)
(* states, seven triggers, and evaluate_update, which compares a snapshot  *)
(* of the console's board with the previous one and fires the triggers.    *)
(* The environment is the most general one: any board may be evaluated at  *)
(* any time.  Scoreboard.tla restricts it to the boards the console can    *)
(* produce.                                                                *)
(*                                                                         *)
(* A lane's time is abstracted to whether its string is blank, and so are  *)
(* the four scores together; an event/heat pair is a member of EventHeats. *)
(***************************************************************************)
EXTENDS FiniteSets

CONSTANTS
  Channels,    \* the lane channels of the console
  ClockLane,   \* lane 3, on which the console shows the clock when idle
  EventHeats,  \* the event/heat string pairs the console can display
  BlankHeats,  \* those of them with a blank event or a blank heat
  Unset        \* _prev_event_heat before the first evaluation (None)

ASSUME ChannelsAssumption == ClockLane \in Channels
ASSUME HeatsAssumption == BlankHeats \subseteq EventHeats /\ Unset \notin EventHeats

RaceState == {"PreRace", "PreRaceClear", "Running", "Finished", "Clear",
              "ClearPreRace", "Blank", "BlankPreRace", "TotalBlank",
              "TotalBlankPreRace"}

\* The board snapshot handed to evaluate_update.  lane_times holds the lanes
\* whose time is not blank, lanes the lanes 1..num_lanes of the pool, scores
\* whether some score is neither empty nor zero.
Board == [event_heat: EventHeats, running_lanes: SUBSET Channels,
          lane_times: SUBSET Channels, lanes: SUBSET Channels, scores: BOOLEAN]

VARIABLES
  state,                   \* the machine's RaceState
  prev_event_heat,         \* event/heat of the last evaluated board
  prev_running_lanes,      \* running lanes of the last evaluated board
  prev_other_lanes_blank   \* whether its result lanes were blank

vars == <<state, prev_event_heat, prev_running_lanes, prev_other_lanes_blank>>

\* Types: no trigger leads out of the ten states.
TypeOK ==
  /\ state \in RaceState
  /\ prev_event_heat \in EventHeats \cup {Unset}
  /\ prev_running_lanes \in SUBSET Channels
  /\ prev_other_lanes_blank \in BOOLEAN

-----------------------------------------------------------------------------
(* The rows of TRANSITIONS, one operator per trigger.  A trigger with no   *)
(* row for the current state is ignored (ignore_invalid_triggers).         *)

start_running(s) == IF s \in {"Running", "Finished"} THEN s ELSE "Running"

finish(s) == IF s = "Running" THEN "Finished" ELSE s

clear_lanes(s) ==
  CASE s \in {"Finished", "Blank", "TotalBlank"}       -> "Clear"
    [] s = "PreRace"                                   -> "PreRaceClear"
    [] s \in {"BlankPreRace", "TotalBlankPreRace"}     -> "ClearPreRace"
    [] OTHER                                           -> s

show_lanes(s) ==
  CASE s = "Clear"                                     -> "Finished"
    [] s \in {"PreRace", "Running", "Finished"}        -> s
    [] OTHER                                           -> "PreRace"

\* Mutant: a row names a state the machine does not have.
change_event_Misspelt(s) ==
  CASE s = "Finished" -> "PreRace"
    [] s = "Clear"    -> "ClearPrerace"
    [] OTHER          -> s

change_event(s) ==
  CASE s = "Finished"                                  -> "PreRace"
    [] s = "Clear"                                     -> "ClearPreRace"
    [] s = "Blank"                                     -> "BlankPreRace"
    [] s = "TotalBlank"                                -> "TotalBlankPreRace"
    [] OTHER                                           -> s

go_blank(s) == IF s \in {"Running", "Finished"} THEN s ELSE "Blank"

go_total_blank(s) == IF s \in {"Running", "Finished"} THEN s ELSE "TotalBlank"

-----------------------------------------------------------------------------
(* evaluate_update *)

has_event_heat(eh) == eh \in EventHeats \ BlankHeats

other_lanes_blank(board) == (board.lane_times \cap board.lanes) \ {ClockLane} = {}

lane3_has_data(board) == ClockLane \in board.lane_times \cap board.lanes

BlankStates == {"Blank", "BlankPreRace", "TotalBlank", "TotalBlankPreRace"}
ClearedStates == {"Clear", "PreRaceClear", "ClearPreRace"}

\* The console blanked result lanes that had data: Clear Lanes was pressed.
clear_edge(s, board) ==
  /\ s = "PreRace"
  /\ other_lanes_blank(board)
  /\ ~prev_other_lanes_blank
  /\ has_event_heat(board.event_heat)

\* The if/elif chain of _evaluate_blank_state on the (possibly just cleared)
\* state.
blank_transition(s, board) ==
  LET blank == other_lanes_blank(board)
      heat  == has_event_heat(board.event_heat)
      clock == lane3_has_data(board)
  IN  IF s = "Finished" /\ blank /\ heat THEN clear_lanes(s)
      ELSE IF s \in ClearedStates \cup {"PreRace"} /\ blank /\ ~heat /\ ~board.scores
           THEN IF clock THEN go_blank(s) ELSE go_total_blank(s)
      ELSE IF s \in BlankStates /\ blank /\ heat THEN clear_lanes(s)
      ELSE IF s \in {"Blank", "BlankPreRace"} /\ ~clock /\ ~board.scores
           THEN go_total_blank(s)
      ELSE IF s \in {"TotalBlank", "TotalBlankPreRace"} /\ clock /\ blank
           THEN go_blank(s)
      ELSE s

\* Mutant: Lanes On is forgotten for ClearPreRace.
evaluate_blank_state_NoLanesOn(s, board) ==
  LET current == IF clear_edge(s, board) THEN clear_lanes(s) ELSE s
      next    == blank_transition(current, board)
  IN  IF ~other_lanes_blank(board) /\ current \in BlankStates \cup {"Clear", "PreRaceClear"}
      THEN show_lanes(next)
      ELSE next

\* _evaluate_blank_state.  The final test looks at the state the chain began
\* with, the trigger it fires acts on the state the chain left.
evaluate_blank_state(s, board) ==
  LET current == IF clear_edge(s, board) THEN clear_lanes(s) ELSE s
      next    == blank_transition(current, board)
  IN  IF ~other_lanes_blank(board) /\ current \in BlankStates \cup ClearedStates
      THEN show_lanes(next)
      ELSE next

heat_changed(board) == board.event_heat # prev_event_heat

\* Mutant: the running lanes of the previous heat are kept.
had_running_Kept(board) == prev_running_lanes # {}

\* A new event/heat forgets the lanes that were running.
had_running(board) == prev_running_lanes # {} /\ ~heat_changed(board)

\* The state after the event/heat test and the running-lane edge.
after_edges(board) ==
  LET s   == IF heat_changed(board) THEN change_event(state) ELSE state
      has == board.running_lanes # {}
  IN  IF has /\ ~had_running(board) THEN start_running(s)
      ELSE IF ~has /\ had_running(board) THEN finish(s)
      ELSE s

EvaluateUpdate(board) ==
  /\ prev_event_heat' = board.event_heat
  /\ prev_running_lanes' = board.running_lanes
  /\ IF after_edges(board) = "Running"
     THEN /\ state' = "Running"
          /\ UNCHANGED prev_other_lanes_blank
     ELSE /\ state' = evaluate_blank_state(after_edges(board), board)
          /\ prev_other_lanes_blank' = other_lanes_blank(board)

\* notify_event_change: the event/heat was chosen in a browser, not by the
\* console.
NotifyEventChange ==
  /\ state' = change_event(state)
  /\ UNCHANGED <<prev_event_heat, prev_running_lanes, prev_other_lanes_blank>>

\* The simulator's load of an event: notify_event_change, then show_lanes.
SimLoadEvent ==
  /\ state' = show_lanes(change_event(state))
  /\ UNCHANGED <<prev_event_heat, prev_running_lanes, prev_other_lanes_blank>>

Init ==
  /\ state = "TotalBlank"
  /\ prev_event_heat = Unset
  /\ prev_running_lanes = {}
  /\ prev_other_lanes_blank = TRUE

Next ==
  \/ \E board \in Board : EvaluateUpdate(board)
  \/ NotifyEventChange
  \/ SimLoadEvent

Spec == Init /\ [][Next]_vars

-----------------------------------------------------------------------------
(* Properties *)

\* A blank display state is never held while the console shows an event and a
\* heat: every evaluation that sees them leaves the blank states, and no
\* browser request re-enters them.
BlankShowsNoHeat ==
  state \in BlankStates => ~has_event_heat(prev_event_heat)

\* While the display hides the lanes (cleared or blank), the last evaluated
\* board really had no result on its lanes: no result is hidden by mistake.
HiddenLanesWereBlank ==
  state \in BlankStates \cup ClearedStates => prev_other_lanes_blank

\* Finished with nothing on the result lanes is left at once for Clear, unless
\* the console shows no heat.
FinishedShowsResults ==
  state = "Finished" /\ prev_other_lanes_blank => ~has_event_heat(prev_event_heat)

\* What the display shows agrees with the board it was evaluated on, after any
\* sequence of boards and browser requests: no heat is kept behind a blank
\* display, no result behind hidden lanes, and no empty board is Finished.
DisplayMatchesBoard == BlankShowsNoHeat /\ HiddenLanesWereBlank /\ FinishedShowsResults

\* A race ends only through the running-lane edge, under an unchanged heat:
\* neither a heat change nor a browser request nor a blank board pulls the
\* display out of Running.
RunningEndsByFinish ==
  [][state = "Running" /\ state' # "Running" =>
       /\ prev_running_lanes # {} /\ prev_running_lanes' = {}
       /\ prev_event_heat' = prev_event_heat
       /\ state' \in {"Finished", "Clear"}]_vars

\* A race whose lanes have all stopped stays in Running only where the same
\* evaluation brings a new heat, which forgets that they ran.
StoppedLanesEnd ==
  [][state = "Running" /\ state' = "Running" /\ prev_running_lanes # {} /\ prev_running_lanes' = {}
       => prev_event_heat' # prev_event_heat]_vars

\* Lanes that start running put the display in Running, except from Finished
\* under the same heat, where the start is ignored until the lanes are
\* cleared.
StartEdgeRuns ==
  [][prev_running_lanes = {} /\ prev_running_lanes' # {} =>
       \/ state' = "Running"
       \/ state = "Finished" /\ prev_event_heat' = prev_event_heat]_vars

\* What the machine promises of one race (RaceLifecycle): results follow a race
\* and belong to the heat under which it ended.
phase ==
  CASE state = "Running"               -> "running"
    [] state \in {"Finished", "Clear"} -> "results"
    [] OTHER                           -> "idle"

Lifecycle == INSTANCE RaceLifecycle WITH heat <- prev_event_heat

ImplementsLifecycle == Lifecycle!Spec
=============================================================================
