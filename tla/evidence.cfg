SPECIFICATION EvidenceSpec
CONSTANTS
  w1 = w1
  w2 = w2
  Writers = {w1, w2}
  Groups <- SomeGroups
  Prose <- SomeProse
  Sources <- SomeSources
  SourceType <- TypeOfSource
  Values = {1, 2}
  Batches <- SomeBatches
  MaxClaims = 4
  MaxTime = 2
  MaxUses = 5
INVARIANT EvidenceTypeOK
INVARIANT AgreementHasSources
INVARIANT ConflictHasOpponent
PROPERTY LoneWriterSettles
CHECK_DEADLOCK FALSE
