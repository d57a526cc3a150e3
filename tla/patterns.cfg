SPECIFICATION FairPatternSpec
CONSTANTS
  MaxRecipients = 2
  Contacts = 1
  Due = 1
  MaxTime = 1
  MaxRounds = 3
  MaxApprovals = 1
INVARIANT PatternTypeOK
INVARIANT CascadeInOrder
INVARIANT DialsWereApproved
INVARIANT StoredGoalWasDialed
 
PROPERTY PatternEnds
CHECK_DEADLOCK FALSE
