------------------------ MODULE RaceStateMachine_proofs ------------------------
(***************************************************************************)
(* Proofs that the race state machine keeps its type and its display       *)
(* invariants for every set of channels and heats, and whatever boards it  *)
(* is given.                                                               *)
(***************************************************************************)
EXTENDS RaceStateMachine, TLAPS

\* Every trigger of TRANSITIONS leads from a race state to a race state.
LEMMA TriggersTyped ==
  ASSUME NEW s \in RaceState
  PROVE  /\ start_running(s) \in RaceState
         /\ finish(s) \in RaceState
         /\ clear_lanes(s) \in RaceState
         /\ show_lanes(s) \in RaceState
         /\ change_event(s) \in RaceState
         /\ go_blank(s) \in RaceState
         /\ go_total_blank(s) \in RaceState
  BY DEF RaceState, start_running, finish, clear_lanes, show_lanes,
         change_event, go_blank, go_total_blank

\* The two halves of evaluate_update stay within the race states.
LEMMA EvaluationTyped ==
  ASSUME TypeOK, NEW board \in Board
  PROVE  /\ after_edges(board) \in RaceState
         /\ evaluate_blank_state(after_edges(board), board) \in RaceState
<1>1. after_edges(board) \in RaceState
  BY TriggersTyped DEF after_edges, TypeOK
<1>2. ASSUME NEW s \in RaceState
      PROVE  blank_transition(s, board) \in RaceState
  BY <1>2, TriggersTyped DEF blank_transition
<1>3. ASSUME NEW s \in RaceState
      PROVE  evaluate_blank_state(s, board) \in RaceState
  <2> DEFINE current == IF clear_edge(s, board) THEN clear_lanes(s) ELSE s
  <2>1. current \in RaceState
    BY <1>3, TriggersTyped
  <2>2. blank_transition(current, board) \in RaceState
    BY <2>1, <1>2
  <2>3. show_lanes(blank_transition(current, board)) \in RaceState
    BY <2>2, TriggersTyped
  <2> QED BY <2>2, <2>3 DEF evaluate_blank_state
<1> QED BY <1>1, <1>3

\* One step keeps the types.
LEMMA TypeStep ==
  ASSUME TypeOK, [Next]_vars
  PROVE  TypeOK'
<1>1. ASSUME NEW board \in Board, EvaluateUpdate(board)
      PROVE  TypeOK'
  <2>1. state' \in RaceState
    BY <1>1, EvaluationTyped DEF EvaluateUpdate, RaceState
  <2>2. prev_other_lanes_blank' \in BOOLEAN
    BY <1>1 DEF EvaluateUpdate, TypeOK, other_lanes_blank
  <2>3. /\ prev_event_heat' \in EventHeats \cup {Unset}
        /\ prev_running_lanes' \in SUBSET Channels
    BY <1>1 DEF EvaluateUpdate, Board
  <2> QED BY <2>1, <2>2, <2>3 DEF TypeOK
<1>2. CASE NotifyEventChange
  BY <1>2, TriggersTyped DEF NotifyEventChange, TypeOK
<1>3. CASE SimLoadEvent
  BY <1>3, TriggersTyped DEF SimLoadEvent, TypeOK
<1>4. CASE UNCHANGED vars
  BY <1>4 DEF vars, TypeOK
<1> QED BY <1>1, <1>2, <1>3, <1>4 DEF Next

\* The machine's variables keep their types (TypeOK), for any board.
THEOREM TypeCorrect == Spec => []TypeOK
<1>1. Init => TypeOK
  BY DEF Init, TypeOK, RaceState
<1>2. TypeOK /\ [Next]_vars => TypeOK'
  BY TypeStep
<1> QED BY <1>1, <1>2, PTL DEF Spec

-----------------------------------------------------------------------------
(* The display invariants *)

\* What _evaluate_blank_state can leave, by what it found on the board.
LEMMA BlankEvaluation ==
  ASSUME TypeOK, NEW board \in Board, NEW s \in RaceState, s # "Running",
         NEW r, r = evaluate_blank_state(s, board)
  PROVE  /\ r # "Running"
         /\ r \in BlankStates => ~has_event_heat(board.event_heat)
         /\ r \in BlankStates \cup ClearedStates => other_lanes_blank(board)
         /\ r = "Finished" /\ other_lanes_blank(board) => ~has_event_heat(board.event_heat)
         /\ r \in {"Finished", "Clear"} =>
              \/ s \in {"Finished", "Clear"}
              \/ s \in {"Blank", "TotalBlank"} /\ has_event_heat(board.event_heat)
         /\ s = "Finished" => r \in {"Finished", "Clear"}
<1>1. CASE other_lanes_blank(board)
  BY <1>1 DEF evaluate_blank_state, blank_transition, clear_edge, RaceState,
       BlankStates, ClearedStates, clear_lanes, show_lanes, go_blank, go_total_blank
<1>2. CASE ~other_lanes_blank(board)
  BY <1>2 DEF evaluate_blank_state, blank_transition, clear_edge, RaceState,
       BlankStates, ClearedStates, clear_lanes, show_lanes, go_blank, go_total_blank
<1> QED BY <1>1, <1>2

\* The states a board's heat change and running edge lead to.
LEMMA Edges ==
  ASSUME TypeOK, NEW board \in Board, NEW s, s = after_edges(board)
  PROVE  /\ heat_changed(board) =>
              s \in {change_event(state), "Running"}
         /\ heat_changed(board) => s \notin {"Finished", "Clear", "Blank", "TotalBlank"}
         /\ ~heat_changed(board) => s \in {state, "Running", "Finished"}
         /\ s = "Finished" => state \in {"Running", "Finished"}
         /\ state = "Running" /\ s # "Running" =>
              /\ ~heat_changed(board) /\ prev_running_lanes # {}
              /\ board.running_lanes = {} /\ s = "Finished"
         /\ board.running_lanes # {} /\ (prev_running_lanes = {} \/ heat_changed(board)) =>
              s = "Running" \/ (state = "Finished" /\ ~heat_changed(board))
         /\ state = "Running" /\ prev_running_lanes # {} /\ board.running_lanes = {} =>
              s = "Finished" \/ heat_changed(board)
  BY DEF after_edges, had_running, TypeOK, RaceState, change_event, start_running, finish

\* Nothing but evaluate_update moves the display invariants.
THEOREM DisplayInvariant == Spec => []DisplayMatchesBoard
<1> USE DEF DisplayMatchesBoard, BlankShowsNoHeat, HiddenLanesWereBlank, FinishedShowsResults
<1>1. Init => DisplayMatchesBoard
  BY HeatsAssumption DEF Init, BlankStates, ClearedStates, has_event_heat
<1>2. TypeOK /\ DisplayMatchesBoard /\ [Next]_vars => DisplayMatchesBoard'
  <2> SUFFICES ASSUME TypeOK, DisplayMatchesBoard, [Next]_vars
               PROVE  DisplayMatchesBoard'
    OBVIOUS
  <2>1. ASSUME NEW board \in Board, EvaluateUpdate(board)
        PROVE  DisplayMatchesBoard'
    <3> DEFINE s == after_edges(board)
    <3>1. CASE s = "Running"
      BY <2>1, <3>1 DEF EvaluateUpdate, BlankStates, ClearedStates
    <3>2. CASE s # "Running"
      <4>1. s \in RaceState
        BY EvaluationTyped
      <4>2. /\ state' = evaluate_blank_state(s, board)
            /\ prev_event_heat' = board.event_heat
            /\ prev_other_lanes_blank' = other_lanes_blank(board)
        BY <2>1, <3>2 DEF EvaluateUpdate
      <4>3. /\ state' \in BlankStates => ~has_event_heat(board.event_heat)
            /\ state' \in BlankStates \cup ClearedStates => other_lanes_blank(board)
            /\ state' = "Finished" /\ other_lanes_blank(board)
                 => ~has_event_heat(board.event_heat)
        BY <3>2, <4>1, <4>2, BlankEvaluation
      <4> QED BY <4>2, <4>3 DEF BlankStates, ClearedStates, has_event_heat
    <3> QED BY <3>1, <3>2
  <2>2. CASE NotifyEventChange
    BY <2>2 DEF NotifyEventChange, TypeOK, RaceState, change_event, BlankStates,
                ClearedStates, has_event_heat
  <2>3. CASE SimLoadEvent
    BY <2>3 DEF SimLoadEvent, TypeOK, RaceState, change_event, show_lanes,
                BlankStates, ClearedStates, has_event_heat
  <2>4. CASE UNCHANGED vars
    BY <2>4 DEF vars, BlankStates, ClearedStates, has_event_heat
  <2> QED BY <2>1, <2>2, <2>3, <2>4 DEF Next
<1> QED BY <1>1, <1>2, TypeCorrect, PTL DEF Spec

\* No blank display while the console shows a heat (BlankShowsNoHeat).
THEOREM BlankDisplay == Spec => []BlankShowsNoHeat
BY DisplayInvariant, PTL DEF DisplayMatchesBoard

\* Hidden lanes were blank on the console (HiddenLanesWereBlank).
THEOREM HiddenLanes == Spec => []HiddenLanesWereBlank
BY DisplayInvariant, PTL DEF DisplayMatchesBoard

\* Finished over blank lanes only without a heat (FinishedShowsResults).
THEOREM FinishedDisplay == Spec => []FinishedShowsResults
BY DisplayInvariant, PTL DEF DisplayMatchesBoard

-----------------------------------------------------------------------------
(* The action properties *)

\* What an evaluation does to the state: the cases behind the action properties.
LEMMA EvaluationStep ==
  ASSUME TypeOK, BlankShowsNoHeat, NEW board \in Board, EvaluateUpdate(board)
  PROVE  /\ state = "Running" /\ state' # "Running" =>
              /\ prev_running_lanes # {} /\ board.running_lanes = {}
              /\ ~heat_changed(board)
              /\ state' \in {"Finished", "Clear"}
         /\ state' \in {"Finished", "Clear"} =>
              /\ state \in {"Running", "Finished", "Clear"}
              /\ ~heat_changed(board)
         /\ prev_running_lanes = {} /\ board.running_lanes # {} =>
              state' = "Running" \/ (state = "Finished" /\ ~heat_changed(board))
         /\ state = "Running" /\ prev_running_lanes # {} /\ board.running_lanes = {} =>
              state' # "Running" \/ heat_changed(board)
<1> DEFINE s == after_edges(board)
<1>1. s \in RaceState
  BY EvaluationTyped
<1>2. /\ heat_changed(board) => s \in {change_event(state), "Running"}
      /\ heat_changed(board) => s \notin {"Finished", "Clear", "Blank", "TotalBlank"}
      /\ ~heat_changed(board) => s \in {state, "Running", "Finished"}
      /\ s = "Finished" => state \in {"Running", "Finished"}
      /\ state = "Running" /\ s # "Running" =>
           /\ ~heat_changed(board) /\ prev_running_lanes # {}
           /\ board.running_lanes = {} /\ s = "Finished"
      /\ board.running_lanes # {} /\ (prev_running_lanes = {} \/ heat_changed(board)) =>
           s = "Running" \/ (state = "Finished" /\ ~heat_changed(board))
      /\ state = "Running" /\ prev_running_lanes # {} /\ board.running_lanes = {} =>
           s = "Finished" \/ heat_changed(board)
  BY Edges
<1>3. CASE s = "Running"
  BY <1>2, <1>3 DEF EvaluateUpdate
<1>4. CASE s # "Running"
  <2>1. state' = evaluate_blank_state(s, board)
    BY <1>4 DEF EvaluateUpdate
  <2>2. /\ state' # "Running"
        /\ state' \in {"Finished", "Clear"} =>
             \/ s \in {"Finished", "Clear"}
             \/ s \in {"Blank", "TotalBlank"} /\ has_event_heat(board.event_heat)
        /\ s = "Finished" => state' \in {"Finished", "Clear"}
    BY <1>1, <1>4, <2>1, BlankEvaluation
  <2>3. s \in {"Blank", "TotalBlank"} => ~has_event_heat(board.event_heat)
    BY <1>2 DEF BlankShowsNoHeat, BlankStates, heat_changed
  <2> QED BY <1>2, <1>4, <2>2, <2>3
<1> QED BY <1>3, <1>4

\* An evaluation stores the heat and the running lanes of its board.
LEMMA EvaluationStores ==
  ASSUME NEW board \in Board, EvaluateUpdate(board)
  PROVE  /\ prev_running_lanes' = board.running_lanes
         /\ heat_changed(board) <=> prev_event_heat' # prev_event_heat
  BY DEF EvaluateUpdate, heat_changed

\* A browser request changes the state alone: never out of Running, and never
\* to Finished or Clear but from themselves.
LEMMA RequestStep ==
  ASSUME TypeOK, NotifyEventChange \/ SimLoadEvent
  PROVE  /\ state = "Running" => state' = "Running"
         /\ state' \notin {"Finished", "Clear"}
         /\ UNCHANGED <<prev_event_heat, prev_running_lanes>>
  BY DEF NotifyEventChange, SimLoadEvent, TypeOK, RaceState, change_event, show_lanes

\* A race leaves Running only by its running lanes stopping under an unchanged
\* heat (RunningEndsByFinish).
THEOREM RunningEnds == Spec => RunningEndsByFinish
<1>1. TypeOK /\ BlankShowsNoHeat /\ [Next]_vars =>
        [state = "Running" /\ state' # "Running" =>
           /\ prev_running_lanes # {} /\ prev_running_lanes' = {}
           /\ prev_event_heat' = prev_event_heat
           /\ state' \in {"Finished", "Clear"}]_vars
  BY EvaluationStep, EvaluationStores, RequestStep DEF Next
<1> QED BY <1>1, TypeCorrect, BlankDisplay, PTL DEF Spec, RunningEndsByFinish

\* Lanes that start running are shown as a race, except from Finished
\* (StartEdgeRuns).
THEOREM StartEdge == Spec => StartEdgeRuns
<1>1. TypeOK /\ BlankShowsNoHeat /\ [Next]_vars =>
        [prev_running_lanes = {} /\ prev_running_lanes' # {} =>
           \/ state' = "Running"
           \/ state = "Finished" /\ prev_event_heat' = prev_event_heat]_vars
  BY EvaluationStep, EvaluationStores, RequestStep DEF Next
<1> QED BY <1>1, TypeCorrect, BlankDisplay, PTL DEF Spec, StartEdgeRuns

\* Stopped lanes end the race unless a new heat comes with their stop
\* (StoppedLanesEnd), the safety half of EndIsNoticed.
THEOREM StoppedLanes == Spec => StoppedLanesEnd
<1>1. TypeOK /\ BlankShowsNoHeat /\ [Next]_vars =>
        [state = "Running" /\ state' = "Running" /\ prev_running_lanes # {} /\ prev_running_lanes' = {}
           => prev_event_heat' # prev_event_heat]_vars
  BY EvaluationStep, EvaluationStores, RequestStep DEF Next
<1> QED BY <1>1, TypeCorrect, BlankDisplay, PTL DEF Spec, StoppedLanesEnd

-----------------------------------------------------------------------------
(* The refinement *)

\* Every step of the machine is a step of the race lifecycle or leaves it
\* alone.  It rests on BlankShowsNoHeat, without which Clear Lanes would lead a
\* blank display to Clear, and so to results of no race.
LEMMA LifecycleStep ==
  ASSUME TypeOK, BlankShowsNoHeat, [Next]_vars
  PROVE  [Lifecycle!Next]_(Lifecycle!lifecycle)
<1> USE DEF phase, Lifecycle!lifecycle
<1>1. ASSUME NEW board \in Board, EvaluateUpdate(board)
      PROVE  [Lifecycle!Next]_(Lifecycle!lifecycle)
  <2>1. prev_event_heat' \in EventHeats
    BY <1>1 DEF EvaluateUpdate, Board
  <2>2. CASE phase' = "running"
    BY <2>1, <2>2 DEF Lifecycle!Next, Lifecycle!Run
  <2>3. CASE phase' = "results"
    <3>1. state' \in {"Finished", "Clear"}
      BY <2>3
    <3>2. /\ state \in {"Running", "Finished", "Clear"}
          /\ prev_event_heat' = prev_event_heat
      BY <1>1, <3>1, EvaluationStep, EvaluationStores
    <3>3. CASE state = "Running"
      BY <2>3, <3>2, <3>3 DEF Lifecycle!Next, Lifecycle!End
    <3>4. CASE state \in {"Finished", "Clear"}
      BY <2>3, <3>2, <3>4
    <3> QED BY <3>2, <3>3, <3>4
  <2>4. CASE phase' = "idle"
    <3>1. state # "Running"
      BY <1>1, <2>4, EvaluationStep
    <3> QED BY <2>1, <2>4, <3>1 DEF Lifecycle!Next, Lifecycle!Wait
  <2> QED BY <2>2, <2>3, <2>4
<1>2. CASE NotifyEventChange \/ SimLoadEvent
  <2>1. /\ state = "Running" => state' = "Running"
        /\ state' \notin {"Finished", "Clear"}
        /\ UNCHANGED prev_event_heat
    BY <1>2, RequestStep
  <2>2. CASE state = "Running"
    BY <2>1, <2>2
  <2>3. CASE state # "Running"
    <3>1. state' # "Running"
      BY <1>2, <2>3 DEF NotifyEventChange, SimLoadEvent, TypeOK, RaceState,
                        change_event, show_lanes
    <3>2. phase # "running" /\ phase' = "idle"
      BY <2>1, <2>3, <3>1
    <3> QED BY <2>1, <3>2 DEF Lifecycle!Next, Lifecycle!Wait
  <2> QED BY <2>2, <2>3
<1>3. CASE UNCHANGED vars
  BY <1>3 DEF vars
<1> QED BY <1>1, <1>2, <1>3 DEF Next

\* The race state machine implements the race lifecycle (ImplementsLifecycle).
THEOREM Refinement == Spec => ImplementsLifecycle
<1>1. Init => Lifecycle!Init
  BY DEF Init, Lifecycle!Init, phase
<1>2. TypeOK /\ BlankShowsNoHeat /\ [Next]_vars =>
        [Lifecycle!Next]_(Lifecycle!lifecycle)
  BY LifecycleStep
<1> QED BY <1>1, <1>2, TypeCorrect, BlankDisplay, PTL
        DEF Spec, ImplementsLifecycle, Lifecycle!Spec
=============================================================================
