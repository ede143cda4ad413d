SPECIFICATION FairSpec
CONSTANTS
  MeetIds = {m1}
  NoMeet = NoMeet
  Requests <- MCAllRequests
  QueueSize = 2
  MaxUpdates = 2
  MaxFlows = 1
  MaxAttempt = 1
INVARIANTS
  TypeOK
  ShownConnectedIsServed
PROPERTIES
  DeliveredInOrder
  ComesBack
  ReconnectLeaves
  QueueDrains
