SPECIFICATION FairSpec
CONSTANTS
  Channels = {l1, l3}
  ClockLane = l3
  Lanes = {l1, l3}
  h1 = h1
  h2 = h2
  EventHeats = {h1, h2, none}
  BlankHeats = {none}
  Unset = Unset
  FirstHeat = h1
  Schedule <- MCSchedule
  Scores = {TRUE}
INVARIANTS
  TypeOK
  SnapshotIsCurrent
  SnapshotTracksLanes
  ReplayNamesTheHeat
PROPERTIES
  StartIsShownAtOnce
  EndIsNoticed
