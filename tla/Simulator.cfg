SPECIFICATION SimSpec
CONSTANTS
  l1 = l1
  l3 = l3
  l7 = l7
  h1 = h1
  h2 = h2
  Channels = {l1, l3, l7}
  ClockLane = l3
  Lanes = {l1, l3, l7}
  LaneOrder <- MCLaneOrder
  SimLanes = {l1, l3}
  OtherHeat <- MCOtherHeat
  EventHeats = {h1, h2, none}
  BlankHeats = {none}
  Unset = Unset
  FirstHeat = h1
  Schedule <- MCSchedule
  Scores = {FALSE}
  Tickers = {1, 2}

  
PROPERTIES
  FinishEndsRace
  SimDrivesRaceStateMachine
