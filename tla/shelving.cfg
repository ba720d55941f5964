SPECIFICATION FairSpec
CONSTANTS
  None = None
  tid = tid
  sub = sub
  q = q
  r1 = r1
  r2 = r2
  rbad = rbad
  s1 = s1
  s2 = s2
  t0 = t0
  t1 = t1
  EmptyText = t0
  TypeId <- MCTypeId
  Qualifier <- MCQualifier
  Resource <- MCResource
  Unquotable <- MCUnquotable
  ShelfName <- MCShelfName
  Text <- MCText
  derivedRecursive <- MCDerived
  Submissions <- ShelvingSubmissions
  PurgeInputs <- OnlyAny
  CompressInputs <- OnlyNoCriteria
  Configs <- ShelvingConfigs
  Inventories <- OpenInventory
  ApplyMayFail = FALSE
  MaxTime = 4
  MaxPending = 2
INVARIANTS
  TypeOK
  ShelfMatchesRules
  ShelvingPublished
  EditMirrorsCache
  StatisticsMatchRows
  SettledIsInEffect
  PublishedTimesTell
PROPERTIES
  EditsTakeEffect
  StampsCoverChanges
  PublishedListSpec
