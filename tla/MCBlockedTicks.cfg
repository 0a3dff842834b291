CONSTANTS
  NR_TASKS = 3
  QUANTUM = 1
  freequeue = freequeue
  readyqueue = readyqueue
  WaitQueues = {keyboardqueue}
  keyboardqueue = keyboardqueue
  Delays = {0, 1}
  MaxTicks = 3
SPECIFICATION StatsSpec
INVARIANTS BlockedTicksCounted
