SPECIFICATION Spec
CONSTANTS
  i1 = i1
  i2 = i2
  c1 = c1
  c2 = c2
  t1 = t1
  t2 = t2
  h1 = h1
  h2 = h2
  e1 = e1
  e2 = e2
  NoIntent = NoIntent
  NoEvent = NoEvent
  Clerks <- OneClerk
  Intents <- OneIntent
  Tasks <- TwoTasks
  Deliveries <- TwoDeliveries
  Events <- TwoEvents
  CallOf <- AllAboutFirst
  MaxApprovals = 1
  MaxCalls = 1
  MayLapse = FALSE
  MayCrash = TRUE
  WebhookMode = TRUE
  WritesMayFail = TRUE
SYMMETRY RoundSwaps
INVARIANT TypeOK
INVARIANT ClaimsWrittenOnce
INVARIANT ProcessedMeansStored
PROPERTY KeepsLedger
CHECK_DEADLOCK FALSE
