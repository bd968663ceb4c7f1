SPECIFICATION FairSpec
CONSTANTS
  a = a
  b = b
  Clients <- OneClient
  LoginMax = 1
  UserMax = 2
  MaxTyped = 3
 
PROPERTIES  ByeForAll
CHECK_DEADLOCK FALSE
