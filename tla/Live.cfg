CONSTANTS
  Parts = {"feed", "hub", "stream", "copilot", "alerts", "market", "prices"}
  u1 = u1  u2 = u2  a = a  b = b
  g1 = g1  g2 = g2
  NoUser = NoUser
  Users <- MCUsers
  Nodes <- MCNodes
  Tree <- MCNodes
  Owner <- MCOwner
  Fields = {}
  AppKinds = {"artifact", "shard"}
  MaxXid = 3
  BatchLimit = 9
  PruneBudget = 1  ErrorBudget = 0  RestartBudget = 1
  Topics <- MCTopics
  KeySets <- MCKeySets
  RingLimit = 2
  ChanLimit = 1
  MaxEvents = 3
  Disturb <- MCDisturb
  StreamConfigs <- MCStreams
  MaxVersion = 3
  StreamLimit = 2
  SocketLimit = 1
  Turns = {t1, t2}
  CopilotFaults <- MCTurnFaults
  Alerts = {a1}
  Rising = {a1}
  TickBuffer = 1
  AlertFaults <- MCAlertFaults
  Watchers = {w1, w2}
  HubCases <- MCHubs
  Charts = {g1, g2}
  PriceCases <- MCPrices
SPECIFICATION LiveSpec
INVARIANTS
  LiveTypeOK
  XidOrderIsSeqOrder
  DrainCovers
  DeliveryIsExact
  TurnsAreTrue
  HubServesItsWatchers
  PricesHold
PROPERTIES
  GapFree
  
  
CHECK_DEADLOCK FALSE
