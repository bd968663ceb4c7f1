SPECIFICATION FairSpec
CONSTANTS
  NClients = 2
  SLOTS = 2
  MaxActs = 3
  MaxRooms = 1
INVARIANTS TypeOK SlotKept
PROPERTIES RoomIsLog EveryoneSees
CHECK_DEADLOCK FALSE
