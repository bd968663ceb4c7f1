SPECIFICATION Spec
CONSTANTS
  InThisRun = {"shell", "tree", "shops", "broadcast", "directory", "browser", "exercises"}
  MaxCommands = 3
  MaxLines = 2
  PipeSize = 1
  NUM_SHOPS = 2
  NUM_CUSTOMERS = 2
  Requests = {2, 3}
  Goods = {1, 2}
  Clients = {a, b, c}
  Names = {"ann", "bob"}
  Numbers = {1, 2}
  DIRECTORY_LENGTH = 4
  MAX_FILES = 4
  FileNames = {1, 3, 4, 5}
  PARENT = 2
  Heights = {3, 4, 5}
  MaxSize = 5
  Symbols = {0, 1}
  Width = 6
INVARIANTS TypeOK InFamilyOrder GoodsAddUp OneForAll CursorInView ShownRight
PROPERTY BookIsBag
CHECK_DEADLOCK FALSE
