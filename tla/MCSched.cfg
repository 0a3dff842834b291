CONSTANTS
  NR_TASKS = 5
  QUANTUM = 2
  freequeue = freequeue
  readyqueue = readyqueue
  WaitQueues = {keyboardqueue, semqueue}
  keyboardqueue = keyboardqueue
  semqueue = semqueue
SPECIFICATION SchedSpec
INVARIANTS TypeOK OnePlace StateMatchesPlace TicksMatchTask
PROPERTIES LostForGood NoOvertaking ReadyRuns
