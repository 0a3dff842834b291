CONSTANTS
  NUM_COLUMNS = 3
  NUM_ROWS = 2
  FirstRow = 1
  Newline = 10
  ClockColumns = {2}
  Thread = {1, 2}
  BUFFER_SIZE = 2
  PAGE_SIZE = 4
  USER_FIRST_PAGE = 1
  NUM_PAG_CODE = 1
  NUM_PAG_DATA = 1
  AddressSpace = 32
  OtherCalls = {"sem_wait"}
  Addresses <- MCAddresses
  Strings <- MCStrings
  Keys = {120}
  Faces <- MCFaces
  MaxTyped = 4
SPECIFICATION OutputSpec
INVARIANTS ScreenShowsPaper StopsOnlySo PerrorTellsOwn
CHECK_DEADLOCK FALSE
