CONSTANTS
  Parts = {"shard", "tree", "auth", "links", "docs", "pages", "lists", "queries"}
  i1 = i1  x1 = x1  x2 = x2  x3 = x3
  Shapes = {1, 2}
  Without = 0
  NoContract = 9
  Requests = {q1, q2}
  Attempts = {t1, t2}
  NamedIds = {i1}
  RandomIds = {x1, x2, x3}
  NoId = NoId
  ShardConfigs <- MCShards
  Folders = {"f1", "f2"}
  Leaves = {"n1", "n2", "n3"}
  Top = "top"
  Planted <- MCPlanted
  TreeRequests = {1, 2, 3}
  MayAsk <- MCAsk
  TreeCrashes = 1
  s1 = s1  p1 = p1
  People = {p1, p2}
  SessionTokens = {s1, s2}
  FrameTokens = {f1}
  ToolTokens = {g1}
  Calls = {1, 2, 3}
  CallPlans <- MCRoutes
  SignedIn <- MCSignedIn
  NoToken = NoToken
  Nobody = Nobody
  Linked = {l1, l2}
  ConnectionRows = {1, 2}
  LinkCalls = {1, 2, 3, 4}
  LinkPlans <- MCLinkPlans
  LinkFaults = 1
  NoLink = NoLink
  Archives <- MCLibraries
  Sweepers = {w1, w2}
  ClaimLimit = 2
  Target = 2
  PageBudget = 3
  MaxReadPages = 2
  MaxOutline = 2
  a1 = a1  a2 = a2  sh = sh  en = en  gh = gh
  Agents = {a1, a2}
  Scenes <- MCScenes
  Written <- MCWritten
  Shelf = {sh}
  Registered = {en}
  Unknown = gh
  t1 = t1
  ListAsks = {1, 2, 3}
  ListScenes <- MCListScenes
  Tickers = {t1}
  NoTicker = NoTicker
  Pointers = {"name", "meta", "score", "extra"}
  Document = "/"
  Above <- MCAbove
  AtOrBelow <- MCAtOrBelow
  SchemaNodes = 9
  QueryScenes <- MCQueryScenes
  Readers = {1, 2}
  OwnedOps = {"snapshot", "query", "insert", "update", "delete"}
  PageDefault = 2
  PageMost = 3
  LeafMost = 3
  CursorQuota = 1
SPECIFICATION WorkspaceSpec
INVARIANTS
  WorkspaceTypeOK
  StoredMatchesActive
  
  RequestsAreWhole
  DocumentsAreWhole
PROPERTIES
  TreeChangesAreWhole
  CredentialsStayScoped
  
  
  ListsHold
  QueriesHold
CHECK_DEADLOCK FALSE
