CONSTANTS
  Parts = {"feed", "hub", "stream", "copilot", "alerts", "market"}
  u1 = u1  u2 = u2  a = a  b = b
  g1 = g1  g2 = g2
  NoUser = NoUser
  Users <- MCUsers
  Nodes <- MCNodes
  Tree = {}
  Owner <- MCOwner
  Fields = {}
  AppKinds = {"artifact"}
  MaxXid = 2
  BatchLimit = 1
  PruneBudget = 0  ErrorBudget = 1  RestartBudget = 1
  Topics <- MCTopics
  KeySets <- MCKeySets
  RingLimit = 2
  ChanLimit = 1
  MaxEvents = 3
  Disturb <- MCCut
  StreamConfigs <- MCStreams
  MaxVersion = 2
  StreamLimit = 2
  SocketLimit = 1
  Turns = {t1}
  CopilotFaults <- MCTurnFaults
  Alerts = {a1}
  Rising = {a1}
  TickBuffer = 1
  AlertFaults <- NoAlertFaults
  Watchers = {w1, w2}
  HubCases <- MCLateLeavers
  Charts = {g1, g2}
  PriceCases <- MCPrices
SPECIFICATION LiveFairSpec
PROPERTIES
  ChangesArrive
  TurnsReturn
  StandingCrossFires
  DemandIsServed
CHECK_DEADLOCK FALSE
