SPECIFICATION FairSpec
CONSTANTS
  Fields = {f1, f2}
  Viewers = {v1}
  MaxUpdates = 2
  MaxLost = 2
INVARIANTS
  TypeOK
  PendingIsScheduled
PROPERTY
  JoinedViewerCatchesUp
