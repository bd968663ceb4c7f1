SPECIFICATION FairSpec
CONSTANTS
  InThisRun = {"exchange", "pipes", "datagrams", "tcp"}
  Runs = 2
  Visitors = {v, w}
  BACKLOG = 0
INVARIANTS TypeOK 
 
CHECK_DEADLOCK FALSE
