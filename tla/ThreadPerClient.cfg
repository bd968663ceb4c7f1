SPECIFICATION FairSpec
CONSTANTS
  NClients = 3
  ROUNDS = 2
  Sockets <- ThreeSockets
INVARIANTS TypeOK StaysHome NoOrphan
 
CHECK_DEADLOCK FALSE
