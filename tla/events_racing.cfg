SPECIFICATION FairStreamSpec
CONSTANTS
  m1 = m1
  m2 = m2
  b1 = b1
  Emitters <- TwoEmitting
  Clients <- OneBrowser
  MaxEvents = 3
  MayCancel = TRUE
  MayCrash = TRUE
INVARIANT SeenInOrder
PROPERTY KeepsFeed
PROPERTY EventArrives
CHECK_DEADLOCK FALSE
