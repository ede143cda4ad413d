SPECIFICATION Spec
CONSTANTS
  Channels = {l1, l2, l3}
  ClockLane = l3
  EventHeats = {h1, h2, none}
  BlankHeats = {none}
  Unset = Unset
INVARIANTS
  TypeOK
  DisplayMatchesBoard
PROPERTY
  ImplementsLifecycle
