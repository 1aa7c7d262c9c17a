CONSTANTS
  u1 = u1  a = a  key = key  heartbeat = heartbeat  socket = socket
  NoUser = NoUser
  Users <- MCUsers
  Nodes <- MCNodes
  Tree <- MCTree
  Owner <- MCOwner
  Fields = {}
  AppKinds = {"artifact"}
  MaxXid = 2
  Pullers <- MCPullers
  Socket = socket
  BatchLimit = 9
  Budget <- MCBudget  Mixed = 2
  Prunes = 1  SignOuts = 1  Restores = 1  Failures = 0  Disconnects = 0
SPECIFICATION Spec
INVARIANTS DesktopTypeOK CursorBehindInFlight
PROPERTY NoResurrection
CHECK_DEADLOCK FALSE
