CONSTANTS
  Parts = {"pipe", "sync", "entity", "page", "files", "index", "matches", "worker"}
  r1 = r1
  u1 = u1  u2 = u2  p1 = p1  p2 = p2  p3 = p3
  Records = {r1}
  MaxRev = 2
  StageRetries = 1
  PipeConfigs <- MCStages
  MaxPosts = 3
  PageSize = 1
  Cycles = {1, 2}
  Tasks = {1, 2}
  SyncRetries = 1
  SyncConfigs <- MCProviders
  MaxEntities = 3
  SweepLimit = 1
  Registries <- MCRegistries
  Agents = {"a1", "a2"}
  Pages <- MCPages
  BuildLimit = 2
  ReleaseFaults <- MCMishaps
  FileCommands = {1, 2, 3}
  Mixes <- MCMixes
  HistoryKeep = 1
  FileFaults <- MCFileFaults
  Readables = {1, 2}
  Writers = {w1, w2}
  Indexers = {x1, x2}
  SweepBatch = 1
  IndexPlans <- MCCorpora
  Patrons = {u1, u2}
  Captures = {p1, p2, p3}
  Trending = 2
  SourceCases <- MCSources
  heart = heart  prune = prune  j1 = j1  j2 = j2
  Loops = {heart, prune}
  Heartbeat = heart
  Jobs = {j1, j2}
  WorkerCases <- MCWorkers
SPECIFICATION ServicesSpec
INVARIANTS
  ServicesTypeOK
  PassedIsStored
  ReleasesAreWhole
  IndexKeepsUp
  MatchesHold
PROPERTIES
  StagesInOrder
  DecisionsHold
  FilesKeepWork
CHECK_DEADLOCK FALSE
