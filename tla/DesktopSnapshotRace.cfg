CONSTANTS
  u1 = u1  a = a  key = key  heartbeat = heartbeat  socket = socket
  NoUser = NoUser
  Users <- MCUsers
  Nodes <- MCNodes
  Tree <- MCTree
  Owner <- MCOwner
  Fields = {}
  AppKinds = {"artifact"}
  MaxXid = 2
  Pullers <- MCPullers
  Socket = socket
  BatchLimit = 9
  Budget <- MCBudget  Mixed = 5
  Prunes = 0  SignOuts = 0  Restores = 0  Failures = 0  Disconnects = 0
SPECIFICATION Spec
INVARIANT CursorCovers
CHECK_DEADLOCK FALSE
