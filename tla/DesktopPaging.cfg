CONSTANTS
  u1 = u1  a = a  key = key  heartbeat = heartbeat  socket = socket
  NoUser = NoUser
  Users <- MCUsers
  Nodes <- MCNodes
  Tree <- NoTree
  Owner <- MCOwner
  Fields = {}
  AppKinds = {"artifact"}
  MaxXid = 3
  Pullers <- MCPullers
  Socket = socket
  BatchLimit = 1
  Budget <- MCBudget  Mixed = 5
  Prunes = 0  SignOuts = 0  Restores = 0  Failures = 1  Disconnects = 0
SPECIFICATION FairSpec
PROPERTY EventuallyDelivered
CHECK_DEADLOCK FALSE
