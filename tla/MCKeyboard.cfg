CONSTANTS
  NR_TASKS = 4
  QUANTUM = 1
  freequeue = freequeue
  readyqueue = readyqueue
  WaitQueues = {keyboardqueue}
  keyboardqueue = keyboardqueue
  Capacity = 2
  Counts = {1, 2, 3}
  Serials = 3
SPECIFICATION KbSpec
PROPERTIES ReadReturnsCount KeysConsecutive SoleReaderServed
