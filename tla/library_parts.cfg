SPECIFICATION PartsSpec
CONSTANTS
  MaxSeq = 2
  MaxStops = 2
  MaxReaders = 1
  MaxFile = 8
  MaxErrors = 1
  StopWhileCreating = FALSE
  \* Records of no byte, of part of a block, and of more than one; trailers of 1 byte.
  BlockSize = 6
  HeaderSize = 2
  Sizes = {0, 3, 8}
  MaxRecords = 3
  MaxFaults = 1
  Threads = {t1, t2, t3}
  CacheKeys = {1, 2}
  MaxSlot = 5
  Charges = {1, 2}
  Capacity = 2
  Null = Null
  r1 = r1
  MaxKey = 3
  MaxHeight = 3
  Readers = {r1}
  TopKey = 2
  Children = 2
  Writes = 3
  MaxInserts = 1
  None = None
  Managers = {m1, m2}
  Launcher = m0
  MaxTries = 3
  Guest = {g1, g2}
  SignUp = {s1}
  Email = {e1}
  Facebook = {f1}
  Google = {o1}
  Failed = Failed
  MaxInFlight = 3
  MaxAttempts = 3
  MaxAuths = 2
  Txs = {x1, x2}
  App = App
  MaxRetries = 2
  MaxWork = 4
  MaxListens = 1
INVARIANTS
  RestartFindsAll
  SyncedSurvive
  ReadsComplete
  FilesPresent
  NumbersFresh
  OpenSucceeds
  ReaderIsTrue
  CacheIsSound
  SearchesMissNothing
  IteratorShowsSnapshot
  TableWalksAreTrue
  LookupsAgree
  OwnAnswer
  ButtonNeverDead
  SessionIsDurable
  SignedOutIsForgotten
  LatestReportIsCurrent
  HandlerCalledOnce
  NeverStranded
  WritesEndOnce
  TransactionsApplyOnce
  AcksAreFinal
PROPERTIES
  KeepsPromise
  KeepsLink
CHECK_DEADLOCK FALSE
