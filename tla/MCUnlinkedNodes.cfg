CONSTANTS
  NR_TASKS = 4
  QUANTUM = 1
  freequeue = freequeue
  readyqueue = readyqueue
  WaitQueues = {0, 1}
  NUM_PAG_KERNEL = 1
  TOTAL_PAGES = 10
  PAGE_SIZE = 4
  NUM_PAG_CODE = 0
  NUM_PAG_DATA = 1
  MaxPid = 15
  NR_SEMAPHORES = 2
  InitValues <- SomeInitValues
  MaxCounter = 1
SPECIFICATION SemSafety
INVARIANTS UnlinkedNodesUnused
CHECK_DEADLOCK FALSE
