SPECIFICATION Spec
CONSTANTS
  a = a
  b = b
  Clients <- TwoClients
  LoginMax = 1
  UserMax = 2
  MaxTyped = 1
SYMMETRY Symmetry
INVARIANTS NamedBeforeHeard NoSilentLoss DeafOnlyByRace
CHECK_DEADLOCK FALSE
