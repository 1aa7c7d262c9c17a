CONSTANTS
  u1 = u1  a = a  key = key  heartbeat = heartbeat  socket = socket
  NoUser = NoUser
  Users <- MCUsers
  Nodes <- MCNodes
  Tree <- MCTree
  Owner <- MCOwner
  Fields = {"title"}
  AppKinds = {"artifact"}
  MaxXid = 3
  Pullers <- MCPullers
  Socket = socket
  BatchLimit = 9
  Budget <- MCBudget  Mixed = 5
  Prunes = 0  SignOuts = 0  Restores = 0  Failures = 1  Disconnects = 1
SPECIFICATION EstablishedSpec
INVARIANT CursorCovers
PROPERTY ImplementsContract
CHECK_DEADLOCK FALSE
