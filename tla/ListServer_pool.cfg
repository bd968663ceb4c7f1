SPECIFICATION Spec
CONSTANTS
  c1 = c1
  c2 = c2
  c3 = c3
  c4 = c4
  t1 = t1
  t2 = t2
  Clients <- FourClients
  Threads <- TwoThreads
  QUEUE_SIZE = 3
  ROUNDS = 2
  Sockets <- FourSockets
SYMMETRY Symmetry
INVARIANTS TypeOK NoLostWakeup OnlyTheStruckSuffer
PROPERTY RingIsFifo
CHECK_DEADLOCK FALSE
