CONSTANTS
  NR_TASKS = 6
  QUANTUM = 2
  freequeue = freequeue
  readyqueue = readyqueue
  WaitQueues = {keyboardqueue}
  keyboardqueue = keyboardqueue
  NUM_PAG_KERNEL = 20
  TOTAL_PAGES = 32
  PAGE_SIZE = 8
  NUM_PAG_CODE = 1
  NUM_PAG_DATA = 2
  MaxPid = 13
  SysSizes <- AllSysSizes
  UsrSizes <- AllUsrSizes
  PARAGRAPH = 2
  SECTOR = 4
  SEC_PISTA = 3
  SEGMENT = 32
  INITSEG = 3
  Words = 96
SPECIFICATION BootSpec
INVARIANTS BiosReadsLegal HandsOver
PROPERTIES ReachesUser
CHECK_DEADLOCK FALSE
