SPECIFICATION SteppedSpec
CONSTANTS
  None = None
  tid = tid
  sub = sub
  q = q
  r1 = r1
  r2 = r2
  rbad = rbad
  s1 = s1
  s2 = s2
  t0 = t0
  t1 = t1
  EmptyText = t0
  TypeId <- MCTypeId
  Qualifier <- MCQualifier
  Resource <- MCResource
  Unquotable <- MCUnquotable
  ShelfName <- MCShelfName
  Text <- MCText
  derivedRecursive <- MCDerived
  Submissions <- FailureSubmissions
  PurgeInputs <- OnlyAny
  CompressInputs <- OnlyNoCriteria
  Configs <- FailureConfigs
  Inventories <- OpenInventory
  ApplyMayFail = TRUE
  MaxTime = 3
  MaxClockSteps = 1
  MaxPending = 1
INVARIANTS
  EditMirrorsCache
  HistoryTellsState
PROPERTIES
  NotifiedIsPublished
  PublicationCatchesUp
