SPECIFICATION Spec
CONSTANTS
  c1 = c1
  c2 = c2
  c3 = c3
  Clients <- ThreeClients
  NTHREAD = 2
  ROUNDS = 2
  sockMain = 0
  MaxSocket = 6
SYMMETRY Symmetry
INVARIANTS TypeOK PoolAddsUp OnlyTheStruckSuffer
CHECK_DEADLOCK FALSE
