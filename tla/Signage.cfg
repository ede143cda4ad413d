SPECIFICATION FairSpec
CONSTANTS
  PageForms <- MCPageForms
  AdLists <- MCAdLists
  a1 = a1
  a2 = a2
  a3 = a3
  Ads = {a1, a2, a3}
  NoAd = NoAd
  Unset = Unset
  MaxPages = 3
  MaxEdits = 3
INVARIANTS
  TypeOK
  RotationsAreAlive
  ScreensShowTheActivePage
PROPERTIES
  RotatesBoth
  EveryItemComesUp
