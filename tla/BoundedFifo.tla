----------------------------- MODULE BoundedFifo -----------------------------
(* What the kernel expects of the key buffer: a first-in first-out queue of *)
(* bounded capacity.  `done' is the call last completed: its argument or    *)
(* the item it delivered, and what it returned.                             *)
EXTENDS Integers, Sequences

CONSTANTS Item, Capacity

VARIABLES fifo, done

fifoVars == <<fifo, done>>

NoCall == <<"none">>

FifoInit == fifo = << >> /\ done = NoCall

Put(item) ==
  IF Len(fifo) < Capacity
  THEN fifo' = Append(fifo, item) /\ done' = <<"put", item, 0>>
  ELSE fifo' = fifo /\ done' = <<"put", item, -1>>

Read ==
  IF fifo # << >>
  THEN fifo' = Tail(fifo) /\ done' = <<"read", Head(fifo), 0>>
  ELSE fifo' = fifo /\ done' = <<"read", -1>>

FifoNext == (\E item \in Item : Put(item)) \/ Read
FifoSpec == FifoInit /\ [][FifoNext]_fifoVars
==============================================================================
