SPECIFICATION Spec
CONSTANTS
  i1 = i1
  i2 = i2
  c1 = c1
  c2 = c2
  t1 = t1
  t2 = t2
  h1 = h1
  h2 = h2
  e1 = e1
  e2 = e2
  NoIntent = NoIntent
  NoEvent = NoEvent
  Clerks <- OneClerk
  Intents <- TwoIntents
  Tasks <- TwoTasks
  Deliveries <- OneDelivery
  Events <- NoEvents
  CallOf <- AllAboutFirst
  MaxApprovals = 2
  MaxCalls = 1
  MayLapse = FALSE
  MayCrash = TRUE
  WebhookMode = TRUE
  WritesMayFail = FALSE
SYMMETRY IntentSwaps
INVARIANT OverdraftBounded
CHECK_DEADLOCK FALSE
