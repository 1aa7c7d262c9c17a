CONSTANTS
  u1 = u1  u2 = u2  a = a  b = b
  NoUser = NoUser
  Users <- MCUsers
  Nodes <- MCNodes
  Tree <- MCNodes
  Owner <- MCOwner
  Fields = {}
  AppKinds = {"shard"}
  MaxXid = 2
  BatchLimit = 9
  PruneBudget = 0  ErrorBudget = 0  RestartBudget = 0
SPECIFICATION FairSpec
PROPERTY PoisonDoesNotWedge
CHECK_DEADLOCK FALSE
