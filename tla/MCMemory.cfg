CONSTANTS
  NR_TASKS = 3
  QUANTUM = 1
  freequeue = freequeue
  readyqueue = readyqueue
  WaitQueues = {keyboardqueue}
  keyboardqueue = keyboardqueue
  NUM_PAG_KERNEL = 1
  TOTAL_PAGES = 23
  NUM_PAG_CODE = 1
  NUM_PAG_DATA = 2
  MaxPid = 15
  PAGE_SIZE = 3
  Increments <- SomeIncrements
  MinBreak = 12
  Values = {1}
SPECIFICATION MemSafety
INVARIANTS PagesOutlastFrames
PROPERTIES MemoryPrivate ChildInheritsData OnlyForkUncovers
CHECK_DEADLOCK FALSE
