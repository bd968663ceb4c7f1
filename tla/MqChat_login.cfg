SPECIFICATION FairSpec
CONSTANTS
  a = a
  b = b
  Clients <- TwoClients
  LoginMax = 2
  UserMax = 1
  MaxTyped = 0
INVARIANTS TypeOK OneOwner ServedToTheEnd ListAgrees NoLoginLost
PROPERTY ByeHeard
CHECK_DEADLOCK FALSE
