SPECIFICATION FairSpec
CONSTANTS
  Workers = {w1, w2}
  Bundles = {b1, b2}
  NoBundle = NoBundle
  Viewers = {v1}
  MaxBlobs = 1
  MaxTasks = 2
  Lapsing = {b1}
INVARIANTS
  TypeOK
  NamedBundlesAreStored
PROPERTIES
  PublishedPageIsShown
  CachesConverge
