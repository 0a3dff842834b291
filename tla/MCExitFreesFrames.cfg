CONSTANTS
  NR_TASKS = 4
  QUANTUM = 1
  freequeue = freequeue
  readyqueue = readyqueue
  WaitQueues = {keyboardqueue}
  keyboardqueue = keyboardqueue
  NUM_PAG_KERNEL = 1
  TOTAL_PAGES = 26
  PAGE_SIZE = 4
  NUM_PAG_CODE = 1
  NUM_PAG_DATA = 2
  MaxPid = 17
SPECIFICATION ProcSafety
PROPERTIES ExitFreesFrames
