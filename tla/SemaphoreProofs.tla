--------------------------- MODULE SemaphoreProofs ---------------------------
(***************************************************************************)
(* Proofs that a semaphore never has credit and waiters, that only its     *)
(* owner releases them, and that nobody is told of a success that was not  *)
(* one, for any number of slots and semaphores.                            *)
(*                                                                         *)
(* SInv adds to PInv where a task inside a sem_wait may be, and what the   *)
(* owner field says to one that is on its way out: -1, unless the number   *)
(* was taken for a new semaphore meanwhile (RenewedOrFree).  NULL, once it *)
(* is in readyqueue, stands among the tasks or behind the last of them: a  *)
(* dispatch that the kernel survives takes one task from before it.        *)
(***************************************************************************)
EXTENDS Semaphores, ProcessProofs

RenewedOrFree ==
  \A t \in Tasks, n \in Sems :
    inWait[t] = n /\ (On(t, readyqueue) \/ t = current)
      => owner[n] = -1 \/ t \in renewed

(* SemTypeOK, in two parts. *)
CoreTypes ==
  /\ counter \in [Sems -> Int] /\ \A n \in Sems : counter[n] <= MaxCounter
  /\ owner \in [Sems -> {-1, 1} \cup 14 .. MaxPid]
  /\ linked \in [Sems -> BOOLEAN]
  /\ inWait \in [Tasks -> Sems \cup {NoSem}]
  /\ fault \in {NONE, "sem_wait", "sem_signal", "torn", "sem_destroy",
               "clock_interrupt", "clone", "exit"}
  /\ renewed \subseteq Tasks

NullTypes ==
  /\ nullAt \in NotLinked .. Len(queue[readyqueue])
  /\ zeroed \in BOOLEAN
  /\ stale \subseteq {"next", "prev"}

SInv ==
  /\ PInv /\ CoreTypes /\ NullTypes /\ CreditXorWaiters
  /\ WaitersConsistent /\ RenewedOrFree
  /\ inWait[IdleTask] = NoSem

(* What a step may and may not do to the waiters. *)
ReleaseStep ==
  \A t \in Tasks, n \in Sems :
    On(t, n) /\ On(t, readyqueue)' =>
      /\ PID[current] = owner[n] /\ owner'[n] = -1
      /\ Mapped

LostStep ==
  \A t \in Lost' \ Lost :
    /\ inWait[t] # NoSem
    /\ \/ owner[inWait[t]] = -1 /\ owner'[inWait[t]] # -1
       \/ Mapped /\ zeroed /\ nullAt' # NotLinked /\ owner' = owner

SuccessStep ==
  \A t \in Tasks :
    inWait[t] # NoSem /\ inWait'[t] = NoSem /\ WaitResult(inWait[t]) = 0
      => t \in renewed

Keeps == SInv' /\ ReleaseStep /\ SuccessStep /\ LostStep

-----------------------------------------------------------------------------
LEMMA SemConstants ==
  /\ WaitQueues = Sems /\ NoSem \notin Sems
  /\ Sems \subseteq Queues /\ readyqueue \notin Sems /\ freequeue \notin Sems
  /\ \A n \in Sems : n \in Int
BY SemAssumption, SchedAssumption DEF Sems, NoSem, Queues

LEMMA MembersOn == \A t, l : On(t, l) <=> t \in Members(l)
BY DEF On, Members

(* A running task, a ready one and the slots that are free wait for        *)
(* nothing they are not linked to.                                         *)
LEMMA Apart ==
  ASSUME SInv
  PROVE  /\ \A t \in Tasks, n \in Sems :
              On(t, n) => t # current /\ ~On(t, readyqueue) /\ ~On(t, freequeue)
         /\ \A t \in Tasks, n, m \in Sems : On(t, n) /\ On(t, m) => n = m
         /\ \A t \in Tasks : On(t, freequeue) => inWait[t] = NoSem
         /\ current \in Tasks
<1> USE Constants, SemConstants
<1>1. IInv /\ WaitersConsistent /\ inWait \in [Tasks -> Sems \cup {NoSem}]
  BY DEF SInv, PInv, CoreTypes
<1>2. /\ Consistent(queue, state, quantum)
      /\ Running(queue, state, current, remaining_ticks)
  BY <1>1, IInvShape
<1>3. /\ \A t \in Tasks, n \in Sems :
           On(t, n) => t # current /\ ~On(t, readyqueue) /\ ~On(t, freequeue)
      /\ \A t \in Tasks, n, m \in Sems : On(t, n) /\ On(t, m) => n = m
  BY <1>2 DEF Consistent, Running, Placed, On
<1>4. ASSUME NEW t \in Tasks, On(t, freequeue) PROVE inWait[t] = NoSem
  <2>1. ~On(t, readyqueue) /\ t # current /\ \A n \in Sems : ~On(t, n)
    BY <1>2, <1>4 DEF Consistent, Running, Placed, On
  <2>2. t \notin Lost
    BY <1>2, <1>4, DistinctStates DEF Lost, Consistent, Agrees, On
  <2> QED BY <1>1, <2>1, <2>2 DEF WaitersConsistent
<1>5. current \in Tasks
  BY <1>2 DEF Running
<1> QED BY <1>3, <1>4, <1>5

(* Only a dispatch takes a task from readyqueue, and only one.             *)
LEMMA ReadyLength ==
  ASSUME IInv, SchedNext
  PROVE  /\ Len(queue[readyqueue]) \in Nat /\ Len(queue'[readyqueue]) \in Nat
         /\ Len(queue'[readyqueue]) >= Len(queue[readyqueue]) - 1
         /\ current' = current => Len(queue'[readyqueue]) >= Len(queue[readyqueue])
<1> USE Constants
<1>1. InOrder /\ IInv'
  BY StepInOrder, StepKeeps
<1>2. /\ queue[readyqueue] \in Seq(Tasks) /\ queue'[readyqueue] \in Seq(Tasks)
      /\ current \notin Range(queue[readyqueue])
  BY <1>1, IInvShape, IInvShapeNext DEF Consistent, Running
<1>3. CASE On(current', readyqueue)
  <2>1. queue[readyqueue] # << >>
    BY <1>3 DEF On, Range
  <2>2. Len(Tail(queue[readyqueue])) = Len(queue[readyqueue]) - 1
    BY <1>2, <2>1
  <2>3. current' # current
    BY <1>2, <1>3 DEF On
  <2> QED BY <1>1, <1>2, <1>3, <2>2, <2>3 DEF InOrder
<1>4. CASE ~On(current', readyqueue)
  BY <1>1, <1>2, <1>4 DEF InOrder
<1> QED BY <1>3, <1>4

LEMMA NullMovesUp ==
  ASSUME NullTypes, IInv, SchedNext, ~DispatchFaults, nullAt' = MovedUp,
         zeroed' \in BOOLEAN, stale' \subseteq {"next", "prev"}
  PROVE  NullTypes'
BY ReadyLength DEF NullTypes, DispatchFaults, MovedUp, NotLinked

LEMMA NullStays ==
  ASSUME NullTypes, IInv, SchedNext, current' = current, nullAt' = nullAt,
         zeroed' \in BOOLEAN, stale' \subseteq {"next", "prev"}
  PROVE  NullTypes'
BY ReadyLength DEF NullTypes, NotLinked

LEMMA NullSame ==
  ASSUME NullTypes, UNCHANGED <<vars, nullVars>> PROVE NullTypes'
BY DEF NullTypes, nullVars, vars, schedVars

(* Steps that leave the semaphores alone.                                  *)
(* Calls that touch no list, and change a counter that nobody waits for or *)
(* that stays where it is.                                                 *)
LEMMA CountingKeeps ==
  ASSUME SInv, UNCHANGED <<vars, owner, linked, inWait, renewed, nullVars>>,
         CoreTypes', CreditXorWaiters'
  PROVE  Keeps
<1>1. UNCHANGED vars /\ PInv
  BY DEF SInv
<1>2. PInv'
  BY <1>1, NothingMoves
<1>3. UNCHANGED <<queue, state, current, owner, linked, inWait, renewed>>
  BY DEF vars, schedVars
<1>4. WaitersConsistent' /\ RenewedOrFree' /\ inWait'[IdleTask] = NoSem /\ NullTypes'
  BY <1>3, NullSame DEF SInv, WaitersConsistent, RenewedOrFree, On, Lost
<1>5. ReleaseStep /\ SuccessStep
  BY <1>3, Apart DEF ReleaseStep, SuccessStep, On
<1>6. LostStep
  BY <1>3 DEF LostStep, Lost, On
<1> QED BY <1>2, <1>4, <1>5, <1>6 DEF SInv, Keeps

LEMMA FaultKeeps ==
  ASSUME SInv, NEW call \in {"sem_wait", "sem_signal", "torn", "sem_destroy",
                            "clock_interrupt", "clone", "exit"},
         Fault(call)
  PROVE  Keeps
<1>1. fault' = call /\ UNCHANGED <<vars, counter, owner, linked, inWait, renewed, nullVars>>
      /\ queue' = queue
  BY DEF Fault, vars, schedVars
<1>2. CoreTypes /\ CreditXorWaiters
  BY DEF SInv
<1>3. CoreTypes' /\ CreditXorWaiters'
  BY <1>1, <1>2 DEF CoreTypes, CreditXorWaiters
<1> QED BY <1>1, <1>3, CountingKeeps

LEMMA SemaphoresAlone ==
  ASSUME SInv, PInv', NullTypes', UNCHANGED semVars, inWait[current] = NoSem,
         \A m \in Sems : queue'[m] = queue[m],
         \A u \in Tasks :
           /\ On(u, readyqueue)' => On(u, readyqueue) \/ u = current \/ On(u, freequeue)
           /\ On(u, readyqueue) => On(u, readyqueue)' \/ u = current',
         current' = current \/ current' = IdleTask \/ On(current', readyqueue),
         current' \in Tasks,
         Lost' = Lost
  PROVE  Keeps
<1> USE Constants, SemConstants
<1>1. UNCHANGED <<counter, owner, linked, inWait, fault, renewed>>
  BY DEF semVars
<1>2. /\ CoreTypes /\ CreditXorWaiters /\ WaitersConsistent /\ RenewedOrFree
      /\ inWait[IdleTask] = NoSem
  BY DEF SInv
<1>3. \A u \in Tasks, m \in Sems : On(u, m)' <=> On(u, m)
  BY DEF On
<1>4. CoreTypes' /\ CreditXorWaiters' /\ inWait'[IdleTask] = NoSem
  BY <1>1, <1>2 DEF CoreTypes, CreditXorWaiters
<1>5. WaitersConsistent'
  BY <1>1, <1>2, <1>3 DEF WaitersConsistent
<1>6. RenewedOrFree'
  BY <1>1, <1>2, Apart DEF RenewedOrFree
<1>7. ReleaseStep
  BY Apart DEF ReleaseStep
<1>8. SuccessStep /\ LostStep
  BY <1>1 DEF SuccessStep, LostStep
<1> QED BY <1>4, <1>5, <1>6, <1>7, <1>8 DEF SInv, Keeps

LEMMA TickKeepsNull ==
  ASSUME SInv, Tick,
         IF Preempts
         THEN ~DispatchFaults /\ nullAt' = MovedUp /\ stale' = (stale \ MendedByJoin) \ MendedByDispatch
         ELSE UNCHANGED <<nullAt, stale>>,
         UNCHANGED zeroed
  PROVE  NullTypes'
<1>1. NullTypes /\ IInv /\ SchedNext /\ ClockInterrupt
  BY DEF SInv, PInv, Tick, SchedNext
<1>2. zeroed' \in BOOLEAN /\ stale' \subseteq {"next", "prev"}
  BY <1>1 DEF NullTypes
<1>3. CASE Preempts
  BY <1>1, <1>2, <1>3, NullMovesUp
<1>4. CASE ~Preempts
  <2>1. current' = current
    BY <1>1, <1>4 DEF ClockInterrupt, NeedsSchedRR, Preempts
  <2> QED BY <1>1, <1>2, <1>4, <2>1, NullStays
<1> QED BY <1>3, <1>4

LEMMA InterruptedKeeps == ASSUME SInv, Interrupted PROVE Keeps
<1>1. CASE Fault("clock_interrupt")
  BY <1>1, FaultKeeps
<1>2. CASE ~Fault("clock_interrupt")
  <2>1. /\ IInv /\ PInv /\ ClockInterrupt /\ Tick /\ UNCHANGED semVars
        /\ inWait[current] = NoSem
    BY <1>2 DEF SInv, PInv, Interrupted, UserMode, Tick
  <2>2. PInv' /\ Lost' = Lost
    BY <2>1, TickProc, ClockKeeps
  <2>3. /\ current' \in Tasks
        /\ current' \in {current, IdleTask} \cup Members(readyqueue)
        /\ \A m \in Queues \ {readyqueue} : queue'[m] = queue[m]
        /\ \A u \in Tasks : u \in Members(readyqueue)'
             <=> u \in Members(readyqueue) \cup {current} /\ u # current'
    BY ONLY <2>1, ClockPlaces
  <2>4. \A m \in Sems : queue'[m] = queue[m]
    BY <2>3, SemConstants
  <2>5. NullTypes'
    BY <1>2, <2>1, TickKeepsNull DEF Interrupted
  <2> QED BY <2>1, <2>2, <2>3, <2>4, <2>5, SemaphoresAlone DEF On, Members
<1> QED BY <1>1, <1>2

LEMMA SpawnKeepsWaiters ==
  ASSUME SInv, PInv', Spawn, UNCHANGED <<semVars, zeroed, nullAt>>, inWait[current] = NoSem,
         stale' = stale \ MendedByJoin
  PROVE  Keeps
<1>1. IInv /\ Spawn /\ NullTypes
  BY DEF SInv, PInv
<1>2. Lost' = Lost
  BY <1>1, SpawnKeeps
<1>3. /\ current' = current /\ Child \in Members(freequeue)
      /\ \A m \in WaitQueues : queue'[m] = queue[m]
      /\ \A u \in Tasks : u \in Members(readyqueue)' <=> u \in Members(readyqueue) \cup {Child}
  BY ONLY <1>1, SpawnPlaces
<1>4. \A m \in Sems : queue'[m] = queue[m]
  BY <1>3, SemConstants
<1>5. current \in Tasks
  BY Apart
<1>6. NullTypes'
  BY <1>1, <1>3, NullStays DEF NullTypes, SchedNext
<1> QED BY <1>2, <1>3, <1>4, <1>5, <1>6, SemaphoresAlone DEF On, Members

LEMMA StutterKeeps == ASSUME SInv, UNCHANGED allVars PROVE Keeps
<1>1. UNCHANGED vars /\ UNCHANGED semVars /\ UNCHANGED nullVars /\ CoreTypes /\ CreditXorWaiters
  BY DEF allVars, SInv
<1>2. UNCHANGED <<queue, counter, owner, linked, inWait, fault, renewed>>
  BY <1>1 DEF vars, schedVars, semVars
<1>3. CoreTypes' /\ CreditXorWaiters'
  BY <1>1, <1>2 DEF CoreTypes, CreditXorWaiters
<1> QED BY <1>1, <1>2, <1>3, CountingKeeps

LEMMA OtherCallKeeps ==
  ASSUME SInv, OtherCall PROVE Keeps
<1>1. PInv /\ IInv /\ inWait[current] = NoSem /\ UNCHANGED <<semVars, zeroed>>
  BY DEF SInv, PInv, OtherCall, Calls, UserMode
<1>2. CASE (Fork \/ Clone) /\ stale' = stale \ MendedByJoin /\ UNCHANGED nullAt
  <2>1. PInv'
    BY <1>1, <1>2, ProcStepKeeps DEF ProcNext, ProcessCall
  <2> QED BY <1>1, <1>2, <2>1, SpawnKeepsWaiters DEF Fork, Clone
<1>3. CASE ForkNoFrames /\ UNCHANGED <<nullAt, stale>>
  BY <1>1, <1>3, ForkNoFramesNothing, StutterKeeps DEF allVars, nullVars
<1>4. CASE NoSlot /\ UNCHANGED <<nullAt, stale>>
  BY <1>1, <1>4, StutterKeeps DEF NoSlot, allVars, nullVars
<1>5. CASE /\ ~DispatchFaults /\ SysExit
           /\ nullAt' = MovedUp /\ stale' = stale \ MendedByDispatch
  <2>1. IInv /\ Exit
    BY <1>1, <1>5 DEF SysExit
  <2>2. Lost' = Lost
    BY <2>1, ExitKeeps
  <2>3. /\ current' \in Tasks
        /\ current' \in {IdleTask} \cup Members(readyqueue)
        /\ \A m \in WaitQueues : queue'[m] = queue[m]
        /\ \A u \in Tasks : u \in Members(readyqueue)' <=> u \in Members(readyqueue) /\ u # current'
    BY ONLY <2>1, ExitPlaces
  <2>4. \A m \in Sems : queue'[m] = queue[m]
    BY <2>3, SemConstants
  <2>5. PInv'
    BY <1>1, <1>5, ProcStepKeeps DEF ProcNext, ProcessCall
  <2>6. NullTypes'
    BY <1>1, <1>5, <2>1, NullMovesUp DEF SInv, NullTypes, SchedNext
  <2> QED BY <1>1, <2>2, <2>3, <2>4, <2>5, <2>6, SemaphoresAlone DEF On, Members
<1> QED BY <1>2, <1>3, <1>4, <1>5 DEF OtherCall

LEMMA WaitPassesKeeps ==
  ASSUME SInv, NEW n \in Sems, SemWaitPasses(n) PROVE Keeps
<1>1. /\ counter' = [counter EXCEPT ![n] = @ - 1]
      /\ counter[n] > 0
      /\ UNCHANGED <<vars, owner, linked, inWait, fault, renewed, nullVars>>
      /\ queue' = queue
  BY DEF SemWaitPasses, vars, schedVars
<1>2. CoreTypes /\ CreditXorWaiters /\ MaxCounter \in Int
  BY SemAssumption DEF SInv
<1>3. CoreTypes'
  BY <1>1, <1>2 DEF CoreTypes
<1>4. CreditXorWaiters'
  BY <1>1, <1>2 DEF CoreTypes, CreditXorWaiters
<1> QED BY <1>1, <1>3, <1>4, CountingKeeps

LEMMA SignalCountsKeeps ==
  ASSUME SInv, NEW n \in Sems, SemSignalCounts(n) PROVE Keeps
<1>1. /\ counter' = [counter EXCEPT ![n] = @ + 1]
      /\ counter[n] < MaxCounter /\ queue[n] = << >>
      /\ UNCHANGED <<vars, owner, linked, inWait, fault, renewed, nullVars>>
      /\ queue' = queue
  BY DEF SemSignalCounts, vars, schedVars
<1>2. CoreTypes /\ CreditXorWaiters /\ MaxCounter \in Int
  BY SemAssumption DEF SInv
<1>3. CoreTypes'
  BY <1>1, <1>2 DEF CoreTypes
<1>4. CreditXorWaiters'
  BY <1>1, <1>2 DEF CoreTypes, CreditXorWaiters
<1> QED BY <1>1, <1>3, <1>4, CountingKeeps

-----------------------------------------------------------------------------
(* sem_init: whoever is still linked is lost, and whoever was released and *)
(* has not run yet will be told that all is well.                          *)
LEMMA SemInitKeeps ==
  ASSUME SInv, NEW n \in Sems, NEW value \in InitValues, SemInit(n, value)
  PROVE  Keeps
<1> USE Constants, SemConstants
<1>1. /\ Calls /\ ResetQueue(n) /\ UNCHANGED <<procVars, inWait, fault, nullVars>>
      /\ owner[n] = -1
      /\ owner' = [owner EXCEPT ![n] = PID[current]]
      /\ counter' = [counter EXCEPT ![n] = value]
      /\ linked' = [linked EXCEPT ![n] = TRUE]
      /\ renewed' = renewed \cup {t \in Tasks : inWait[t] = n /\ On(t, readyqueue)}
  BY DEF SemInit, Renew
<1>2. /\ IInv /\ PInv /\ CoreTypes /\ CreditXorWaiters /\ WaitersConsistent
      /\ RenewedOrFree /\ inWait[IdleTask] = NoSem
      /\ inWait[current] = NoSem /\ current # IdleTask
  BY <1>1 DEF SInv, PInv, Calls, UserMode
<1>3. PInv' /\ Lost \subseteq Lost'
  BY <1>1, <1>2, ResetProc, ResetKeeps
<1>4. /\ current' = current /\ state' = state
      /\ \A m \in Queues \ {n} : queue'[m] = queue[m]
      /\ queue'[n] = << >> /\ Members(n)' = {}
  BY <1>1, <1>2, ResetPlaces
<1>5. \A t \in Tasks, m \in Queues : On(t, m)' <=> On(t, m) /\ m # n
  BY <1>4 DEF On, Members
<1>6. PID[current] \in {1} \cup 14 .. MaxPid /\ PID[current] # -1
  <2>1. current \in Live \ {IdleTask}
    BY <1>2, LiveTasks
  <2>2. nextPid \in 13 .. MaxPid
    BY <1>2 DEF PInv, ProcTypeOK
  <2> QED BY <1>2, <2>1, <2>2, ProcAssumption DEF PInv, PidsDistinct
<1>7. CoreTypes'
  <2>1. value \in Int /\ value <= MaxCounter /\ MaxCounter \in Int
    BY SemAssumption
  <2>2. counter' \in [Sems -> Int] /\ \A m \in Sems : counter'[m] <= MaxCounter
    BY <1>1, <1>2, <2>1 DEF CoreTypes
  <2>3. owner' \in [Sems -> {-1, 1} \cup 14 .. MaxPid]
    <3> DEFINE Owners == {-1, 1} \cup 14 .. MaxPid
    <3>1. PID[current] \in Owners
      BY <1>6
    <3> HIDE DEF Owners
    <3>2. owner \in [Sems -> Owners]
      BY <1>2 DEF CoreTypes, Owners
    <3>3. owner' \in [Sems -> Owners]
      BY <1>1, <3>1, <3>2
    <3> QED BY <3>3 DEF Owners
  <2> QED BY <1>1, <1>2, <2>2, <2>3 DEF CoreTypes
<1>8. CreditXorWaiters'
  BY <1>1, <1>2, <1>4 DEF CoreTypes, CreditXorWaiters
<1>9. \A t \in Tasks : On(t, n) => t \in Lost'
  <2>1. ASSUME NEW t \in Tasks, On(t, n) PROVE t \in Lost'
    <3>1. state[t] = ST_BLOCKED
      BY <1>2, <2>1, IInvShape DEF Consistent, Agrees, On
    <3>2. \A m \in Queues \ {n} : ~On(t, m)
      BY <1>2, <2>1, IInvShape DEF Consistent, Placed, On
    <3> QED BY <1>4, <1>5, <3>1, <3>2 DEF Lost
  <2> QED BY <2>1
<1>10. WaitersConsistent'
  BY <1>1, <1>2, <1>3, <1>4, <1>5, <1>9 DEF WaitersConsistent
<1>11. RenewedOrFree'
  <2>1. \A m \in Sems \ {n} : owner'[m] = owner[m]
    BY <1>1, <1>2 DEF CoreTypes
  <2> QED BY <1>1, <1>2, <1>4, <1>5, <2>1 DEF RenewedOrFree
<1>12. ReleaseStep
  BY <1>5, Apart DEF ReleaseStep
<1>13. SuccessStep
  BY <1>1 DEF SuccessStep
<1>14. NullTypes'
  BY <1>1, <1>2, <1>4, Constants DEF NullTypes, nullVars, SInv
<1>15. LostStep
  <2>1. SUFFICES ASSUME NEW t \in Tasks, t \in Lost' \ Lost
                 PROVE  inWait[t] # NoSem /\ owner[inWait[t]] = -1 /\ owner'[inWait[t]] # -1
    BY DEF LostStep, Lost
  <2>2. On(t, n)
    BY <1>1, <1>2, <2>1, ResetKeeps
  <2>3. inWait[t] = n
    BY <1>2, <2>2 DEF WaitersConsistent
  <2>4. owner'[n] = PID[current]
    BY <1>1, <1>2 DEF CoreTypes
  <2> QED BY <1>1, <1>6, <2>3, <2>4
<1> QED BY <1>1, <1>2, <1>3, <1>7, <1>8, <1>10, <1>11, <1>12, <1>13, <1>14, <1>15 DEF SInv, Keeps

LEMMA WaitBlocksKeeps ==
  ASSUME SInv, NEW n \in Sems, SemWaitBlocks(n) PROVE Keeps
<1> USE Constants, SemConstants
<1>1. /\ Calls /\ counter[n] <= 0 /\ Block(n) /\ OnlyScheduling
      /\ ~DispatchFaults /\ nullAt' = MovedUp
      /\ inWait' = [inWait EXCEPT ![current] = n]
      /\ UNCHANGED <<counter, owner, linked, fault, renewed, zeroed>>
  BY DEF SemWaitBlocks
<1>2. /\ IInv /\ PInv /\ CoreTypes /\ CreditXorWaiters /\ WaitersConsistent
      /\ RenewedOrFree /\ inWait[IdleTask] = NoSem
      /\ inWait[current] = NoSem /\ current # IdleTask
  BY <1>1 DEF SInv, PInv, Calls, UserMode
<1>3. PInv' /\ Lost' = Lost
  BY <1>1, <1>2, BlockProc, BlockKeeps
<1>4. /\ current' # current /\ current' \in Tasks
      /\ current' \in {IdleTask} \cup Members(readyqueue)
      /\ \A m \in Queues \ {n, readyqueue} : queue'[m] = queue[m]
      /\ \A u \in Tasks : /\ u \in Members(n)' <=> u \in Members(n) \cup {current}
                          /\ u \in Members(readyqueue)' <=> u \in Members(readyqueue) /\ u # current'
  BY <1>1, <1>2, BlockPlaces
<1>5. \A u \in Tasks : /\ \A m \in Sems : On(u, m)' <=> On(u, m) \/ (m = n /\ u = current)
                       /\ On(u, readyqueue)' <=> On(u, readyqueue) /\ u # current'
  BY <1>4 DEF On, Members
<1>6. /\ inWait' \in [Tasks -> Sems \cup {NoSem}] /\ inWait'[current] = n
      /\ \A u \in Tasks \ {current} : inWait'[u] = inWait[u]
  BY <1>1, <1>2, Apart DEF CoreTypes
<1>7. CoreTypes' /\ inWait'[IdleTask] = NoSem
  BY <1>1, <1>2, <1>6 DEF CoreTypes
<1>8. CreditXorWaiters'
  BY <1>1, <1>2, <1>4 DEF CoreTypes, CreditXorWaiters
<1>9. WaitersConsistent'
  BY <1>2, <1>3, <1>4, <1>5, <1>6, Apart DEF WaitersConsistent
<1>10. RenewedOrFree'
  <2>1. SUFFICES ASSUME NEW t \in Tasks, NEW m \in Sems,
                        inWait'[t] = m, On(t, readyqueue)' \/ t = current'
                 PROVE  owner'[m] = -1 \/ t \in renewed'
    BY DEF RenewedOrFree
  <2>2. t # current
    <3>1. ~On(current, readyqueue)
      BY <1>2, IInvShape DEF Running, On
    <3> QED BY <1>4, <1>5, <2>1, <3>1
  <2>3. On(t, readyqueue)
    BY <1>2, <1>4, <1>5, <1>6, <2>1, <2>2, MembersOn
  <2> QED BY <1>1, <1>2, <1>6, <2>1, <2>2, <2>3 DEF RenewedOrFree
<1>11. ReleaseStep
  BY <1>5, Apart DEF ReleaseStep
<1>12. SuccessStep
  BY <1>2, <1>6 DEF SuccessStep
<1>13. NullTypes'
  <2>1. zeroed' \in BOOLEAN /\ stale' \subseteq {"next", "prev"} /\ NullTypes
    BY <1>1 DEF SInv, NullTypes, SemWaitBlocks
  <2>2. SchedNext
    BY <1>1 DEF SchedNext
  <2> QED BY <1>1, <1>2, <2>1, <2>2, NullMovesUp
<1>14. LostStep
  BY <1>3 DEF LostStep
<1> QED BY <1>3, <1>7, <1>8, <1>9, <1>10, <1>11, <1>12, <1>13, <1>14 DEF SInv, Keeps

LEMMA WaitReturnsKeeps ==
  ASSUME SInv, SemWaitReturns PROVE Keeps
<1> USE Constants, SemConstants
<1>1. /\ inWait[current] # NoSem
      /\ inWait' = [inWait EXCEPT ![current] = NoSem]
      /\ renewed' = renewed \ {current}
      /\ UNCHANGED <<vars, counter, owner, linked, fault, nullVars>>
  BY DEF SemWaitReturns
<1>2. /\ IInv /\ PInv /\ CoreTypes /\ CreditXorWaiters /\ WaitersConsistent
      /\ RenewedOrFree /\ inWait[IdleTask] = NoSem
  BY DEF SInv, PInv
<1>3. PInv'
  BY <1>1, <1>2, NothingMoves
<1>4. UNCHANGED <<queue, state, current>> /\ current \in Tasks
  BY <1>1, Apart DEF vars, schedVars
<1>5. /\ inWait' \in [Tasks -> Sems \cup {NoSem}] /\ inWait'[current] = NoSem
      /\ \A u \in Tasks \ {current} : inWait'[u] = inWait[u]
  BY <1>1, <1>2, <1>4 DEF CoreTypes
<1>6. CoreTypes' /\ CreditXorWaiters' /\ inWait'[IdleTask] = NoSem
  BY <1>1, <1>2, <1>4, <1>5 DEF CoreTypes, CreditXorWaiters
<1>7. /\ Lost' = Lost
      /\ \A u \in Tasks, l \in Queues : On(u, l)' <=> On(u, l)
  BY <1>4 DEF Lost, On
<1>8. \A m \in Sems : ~On(current, m)
  BY <1>4, Apart
<1>9. WaitersConsistent'
  BY <1>2, <1>4, <1>5, <1>7, <1>8 DEF WaitersConsistent
<1>10. RenewedOrFree'
  BY <1>1, <1>2, <1>4, <1>5, <1>7 DEF RenewedOrFree
<1>11. ReleaseStep
  BY <1>7, Apart DEF ReleaseStep
<1>12. SuccessStep
  <2>1. SUFFICES ASSUME NEW t \in Tasks, inWait[t] # NoSem, inWait'[t] = NoSem,
                        WaitResult(inWait[t]) = 0
                 PROVE  t \in renewed
    BY DEF SuccessStep
  <2>2. t = current /\ inWait[t] \in Sems
    BY <1>2, <1>5, <2>1 DEF CoreTypes
  <2>3. owner[inWait[t]] # -1
    BY <2>1 DEF WaitResult, ENAVAIL
  <2> QED BY <1>2, <1>4, <2>2, <2>3 DEF RenewedOrFree
<1>13. NullTypes' /\ LostStep
  BY <1>1, <1>7, NullSame DEF SInv, LostStep
<1> QED BY <1>3, <1>6, <1>9, <1>10, <1>11, <1>12, <1>13 DEF SInv, Keeps

LEMMA DestroyKeeps ==
  ASSUME SInv, NEW n \in Sems, SemDestroy(n) PROVE Keeps
<1> USE Constants, SemConstants
<1>1. /\ Calls /\ PID[current] = owner[n]
      /\ queue[n] # << >> => Mapped
      /\ WakeAll(n) /\ OnlyScheduling
      /\ owner' = [owner EXCEPT ![n] = -1]
      /\ zeroed' = (zeroed \/ queue[n] # << >>) /\ stale' = StaleByDestroy(n)
      /\ UNCHANGED <<counter, linked, inWait, fault, renewed, nullAt>>
  BY DEF SemDestroy
<1>2. /\ IInv /\ PInv /\ CoreTypes /\ CreditXorWaiters /\ WaitersConsistent
      /\ RenewedOrFree /\ inWait[IdleTask] = NoSem
  BY DEF SInv, PInv
<1>3. PInv' /\ Lost' = Lost
  BY <1>1, <1>2, WakeAllProc, WakeAllKeeps
<1>4. /\ current' = current
      /\ \A m \in Queues \ {n, readyqueue} : queue'[m] = queue[m]
      /\ queue'[n] = << >> /\ Members(n)' = {}
      /\ Members(readyqueue)' = Members(readyqueue) \cup Members(n)
  BY <1>1, <1>2, WakeAllPlaces
<1>5. \A u \in Tasks : /\ \A m \in Sems : On(u, m)' <=> On(u, m) /\ m # n
                       /\ On(u, readyqueue)' <=> On(u, readyqueue) \/ On(u, n)
  BY <1>4 DEF On, Members
<1>6. /\ owner' \in [Sems -> {-1, 1} \cup 14 .. MaxPid] /\ owner'[n] = -1
      /\ \A m \in Sems \ {n} : owner'[m] = owner[m]
  <2> DEFINE Owners == {-1, 1} \cup 14 .. MaxPid
  <2>1. -1 \in Owners
    OBVIOUS
  <2> HIDE DEF Owners
  <2>2. owner \in [Sems -> Owners]
    BY <1>2 DEF CoreTypes, Owners
  <2>3. /\ owner' \in [Sems -> Owners] /\ owner'[n] = -1
        /\ \A m \in Sems \ {n} : owner'[m] = owner[m]
    BY <1>1, <2>1, <2>2
  <2> QED BY <2>3 DEF Owners
<1>7. CoreTypes' /\ inWait'[IdleTask] = NoSem
  BY <1>1, <1>2, <1>6 DEF CoreTypes
<1>8. CreditXorWaiters'
  BY <1>1, <1>2, <1>4 DEF CreditXorWaiters
<1>9. WaitersConsistent'
  BY <1>1, <1>2, <1>3, <1>4, <1>5 DEF WaitersConsistent
<1>10. RenewedOrFree'
  <2>1. SUFFICES ASSUME NEW t \in Tasks, NEW m \in Sems, m # n,
                        inWait[t] = m, On(t, readyqueue)' \/ t = current
                 PROVE  owner[m] = -1 \/ t \in renewed
    BY <1>1, <1>4, <1>6 DEF RenewedOrFree
  <2>2. ~On(t, n)
    BY <1>2, <2>1 DEF WaitersConsistent
  <2> QED BY <1>2, <1>5, <2>1, <2>2 DEF RenewedOrFree
<1>11. ReleaseStep
  <2>1. SUFFICES ASSUME NEW t \in Tasks, NEW m \in Sems, On(t, m), On(t, readyqueue)'
                 PROVE  m = n /\ queue[n] # << >>
    BY <1>1, <1>6 DEF ReleaseStep
  <2>2. On(t, n)
    BY <1>5, <2>1, Apart
  <2>3. m = n
    BY <2>1, <2>2, Apart
  <2>4. Range(<< >>) = {}
    BY DEF Range
  <2> QED BY <2>2, <2>3, <2>4 DEF On
<1>12. SuccessStep
  BY <1>1 DEF SuccessStep
<1>13. NullTypes'
  <2>1. zeroed' \in BOOLEAN /\ stale' \subseteq {"next", "prev"} /\ NullTypes
    BY <1>1 DEF SInv, NullTypes, StaleByDestroy
  <2>2. SchedNext
    BY <1>1 DEF SchedNext
  <2> QED BY <1>1, <1>2, <1>4, <2>1, <2>2, NullStays
<1>14. LostStep
  BY <1>3 DEF LostStep
<1> QED BY <1>3, <1>7, <1>8, <1>9, <1>10, <1>11, <1>12, <1>13, <1>14 DEF SInv, Keeps

(* sem_signal with NULL in reach: the first waiter, if the list was        *)
(* initialised, is lost, and nothing else moves but NULL.                  *)
LEMMA SignalLosesKeeps ==
  ASSUME SInv, NEW n \in Sems, SemSignalLoses(n) PROVE Keeps
<1> USE Constants, SemConstants
<1>1. /\ Calls /\ Mapped /\ zeroed /\ nullAt' = Len(queue[readyqueue])
      /\ UNCHANGED <<procVars, semVars, zeroed, stale>>
      /\ IF linked[n] THEN Strand(n) ELSE UNCHANGED schedVars
  BY DEF SemSignalLoses
<1>2. /\ IInv /\ PInv /\ CoreTypes /\ NullTypes /\ CreditXorWaiters /\ WaitersConsistent
      /\ RenewedOrFree /\ inWait[IdleTask] = NoSem
  BY DEF SInv, PInv
<1>3. UNCHANGED <<counter, owner, linked, inWait, fault, renewed>>
  BY <1>1 DEF semVars
<1>4. CASE UNCHANGED schedVars
  <2>1. UNCHANGED <<queue, state, current>> /\ UNCHANGED vars
    BY <1>1, <1>4 DEF schedVars, vars
  <2>2. PInv' /\ CoreTypes' /\ CreditXorWaiters' /\ inWait'[IdleTask] = NoSem
    BY <1>2, <1>3, <2>1, NothingMoves DEF CoreTypes, CreditXorWaiters
  <2>3. WaitersConsistent' /\ RenewedOrFree' /\ LostStep
    BY <1>2, <1>3, <2>1 DEF WaitersConsistent, RenewedOrFree, LostStep, Lost, On
  <2>4. ReleaseStep /\ SuccessStep
    BY <1>3, <2>1, Apart DEF ReleaseStep, SuccessStep, On
  <2>5. NullTypes'
    <3>1. queue[readyqueue] \in Seq(Tasks)
      BY <1>2, IInvShape DEF Consistent
    <3> QED BY <1>1, <1>2, <2>1, <3>1 DEF NullTypes, NotLinked
  <2> QED BY <2>2, <2>3, <2>4, <2>5 DEF SInv, Keeps
<1>5. CASE Strand(n)
  <2> DEFINE w == Head(queue[n])
  <2>1. /\ IInv' /\ Lost' = Lost \cup {w} /\ w \in Tasks /\ On(w, n)
        /\ queue'[n] = Tail(queue[n]) /\ queue[n] # << >>
    BY <1>2, <1>5, StrandKeeps DEF Strand
  <2>2. /\ current' = current /\ state' = state
        /\ \A m \in Queues \ {n} : queue'[m] = queue[m]
        /\ \A u \in Tasks : u \in Members(n)' <=> u \in Members(n) /\ u # w
    BY <1>2, <1>5, StrandPlaces
  <2> HIDE DEF w
  <2>3. PInv'
    <3>1. OnlyScheduling
      BY <1>1, <2>2 DEF procVars, OnlyScheduling, SwitchSpace
    <3>2. current' \in {current, IdleTask} \cup Members(readyqueue)
      BY <2>2
    <3> QED BY <1>2, <2>1, <2>2, <3>1, PlacesMove
  <2>4. \A m \in Queues, u \in Tasks : On(u, m)' <=> On(u, m) /\ ~(m = n /\ u = w)
    BY <2>2 DEF On, Members
  <2>5. CoreTypes' /\ inWait'[IdleTask] = NoSem
    BY <1>2, <1>3 DEF CoreTypes
  <2>6. CreditXorWaiters'
    BY <1>2, <1>3, <2>1, <2>2 DEF CreditXorWaiters
  <2>7. WaitersConsistent'
    BY <1>2, <1>3, <2>1, <2>2, <2>4 DEF WaitersConsistent
  <2>8. RenewedOrFree'
    BY <1>2, <1>3, <2>2, <2>4 DEF RenewedOrFree
  <2>9. ReleaseStep /\ SuccessStep
    BY <1>3, <2>4, Apart DEF ReleaseStep, SuccessStep
  <2>10. queue[readyqueue] \in Seq(Tasks) /\ queue'[readyqueue] = queue[readyqueue]
    BY <1>2, <2>2, IInvShape DEF Consistent
  <2>11. NullTypes'
    BY <1>1, <1>2, <2>10 DEF NullTypes, NotLinked
  <2>12. LostStep
    <3>1. inWait[w] = n
      BY <1>2, <2>1 DEF WaitersConsistent
    <3>2. nullAt' # NotLinked
      BY <1>1, <2>10 DEF NotLinked
    <3> QED BY <1>1, <1>3, <2>1, <3>1, <3>2 DEF LostStep
  <2> QED BY <2>3, <2>5, <2>6, <2>7, <2>8, <2>9, <2>11, <2>12 DEF SInv, Keeps
<1> QED BY <1>1, <1>4, <1>5

-----------------------------------------------------------------------------
LEMMA SemInitHolds == SemBoot => SInv
<1> SUFFICES ASSUME SemBoot PROVE SInv
  OBVIOUS
<1> USE Constants, SemConstants
<1>1. PInv /\ IInv
  BY ProcInitHolds DEF SemBoot, PInv
<1>2. /\ counter = [n \in Sems |-> 0] /\ owner = [n \in Sems |-> -1]
      /\ linked = [n \in Sems |-> FALSE] /\ inWait = [t \in Tasks |-> NoSem]
      /\ fault = NONE /\ renewed = {}
      /\ nullAt = NotLinked /\ zeroed = FALSE /\ stale = {}
  BY DEF SemBoot
<1>3. CoreTypes /\ CreditXorWaiters /\ inWait[IdleTask] = NoSem
  BY <1>2, SemAssumption DEF CoreTypes, CreditXorWaiters
<1>4. \A l \in Queues \ {freequeue} : queue[l] = << >>
  BY DEF SemBoot, ProcInit, SchedInit
<1>5. Range(<< >>) = {}
  BY DEF Range
<1>6. \A t \in Tasks, n \in Sems : ~On(t, n) /\ inWait[t] # n
  BY <1>2, <1>4, <1>5 DEF On
<1>7. WaitersConsistent /\ RenewedOrFree
  BY <1>6 DEF WaitersConsistent, RenewedOrFree
<1>8. NullTypes
  <2>1. queue[readyqueue] \in Seq(Tasks)
    BY <1>1, IInvShape DEF Consistent
  <2>2. Len(queue[readyqueue]) \in Nat
    BY ONLY <2>1
  <2>3. nullAt \in NotLinked .. Len(queue[readyqueue])
    BY ONLY <1>2, <2>2 DEF NotLinked
  <2>4. zeroed \in BOOLEAN /\ stale \subseteq {"next", "prev"}
    BY ONLY <1>2
  <2> QED BY <2>3, <2>4 DEF NullTypes
<1> QED BY <1>1, <1>3, <1>7, <1>8 DEF SInv

LEMMA SemStepKeeps == SInv /\ [SemNext]_allVars => Keeps
<1> SUFFICES ASSUME SInv, [SemNext]_allVars PROVE Keeps
  OBVIOUS
<1>1. ASSUME NEW n \in Sems, SemaphoreCall(n) PROVE Keeps
  <2>1. ASSUME NEW value \in InitValues, SemInit(n, value) PROVE Keeps
    BY <2>1, SemInitKeeps
  <2>2. CASE SemInitTaken(n) \/ SemDestroyNotOwner(n)
    BY <2>2, StutterKeeps DEF SemInitTaken, SemDestroyNotOwner, NothingDone
  <2>3. CASE SemWaitPasses(n)
    BY <2>3, WaitPassesKeeps
  <2>4. CASE SemWaitBlocks(n)
    BY <2>4, WaitBlocksKeeps
  <2>5. CASE SemWaitFaults(n)
    BY <2>5, FaultKeeps DEF SemWaitFaults
  <2>6. CASE SemSignalCounts(n)
    BY <2>6, SignalCountsKeeps
  <2>7. CASE SemSignalFaults(n)
    BY <2>7, FaultKeeps DEF SemSignalFaults
  <2>8. CASE SemDestroy(n)
    BY <2>8, DestroyKeeps
  <2>9. CASE SemDestroyFaults(n)
    BY <2>9, FaultKeeps DEF SemDestroyFaults
  <2>10. CASE SemSignalLoses(n)
    BY <2>10, SignalLosesKeeps
  <2> QED BY <1>1, <2>1, <2>2, <2>3, <2>4, <2>5, <2>6, <2>7, <2>8, <2>9, <2>10 DEF SemaphoreCall
<1>2. CASE SemWaitReturns
  BY <1>2, WaitReturnsKeeps
<1>3. CASE Interrupted
  BY <1>3, InterruptedKeeps
<1>4. CASE OtherCall
  BY <1>4, OtherCallKeeps
<1>6. CASE OtherCallFaults
  BY <1>6, FaultKeeps DEF OtherCallFaults
<1>5. CASE UNCHANGED allVars
  BY <1>5, StutterKeeps
<1> QED BY <1>1, <1>2, <1>3, <1>4, <1>5, <1>6 DEF SemNext

(* The inductive invariant holds in every reachable state.                 *)
THEOREM SemInvariant == SemSafety => []SInv
<1>1. SInv /\ [SemNext]_allVars => SInv'
  BY SemStepKeeps DEF Keeps
<1> QED BY <1>1, SemInitHolds, PTL DEF SemSafety

(* Every variable of the semaphores keeps its type; the owner is always a  *)
(* PID that was given out, or -1.                                          *)
THEOREM SemTypeCorrect == SemSafety => []SemTypeOK
<1>1. SInv => SemTypeOK
  BY DEF SInv, CoreTypes, NullTypes, SemTypeOK
<1> QED BY <1>1, SemInvariant, PTL

(* Nobody waits for a semaphore that has credit.                           *)
THEOREM NoCreditWhileWaiting == SemSafety => []CreditXorWaiters
<1>1. SInv => CreditXorWaiters
  BY DEF SInv
<1> QED BY <1>1, SemInvariant, PTL

(* A task inside a sem_wait is linked there, on its way out, or lost;      *)
(* whoever is linked is inside.                                            *)
THEOREM WaitersAccountedFor == SemSafety => []WaitersConsistent
<1>1. SInv => WaitersConsistent
  BY DEF SInv
<1> QED BY <1>1, SemInvariant, PTL

(* Only the owner's sem_destroy releases a waiter, and only if the owner   *)
(* descends from a fork.                                                   *)
THEOREM OnlyOwnerReleases == SemSafety => ReleaseOnlyByForkedOwner
<1>1. SInv /\ [SemNext]_allVars => [ReleaseStep]_allVars
  BY SemStepKeeps DEF Keeps
<1> QED BY <1>1, SemInvariant, PTL DEF SemSafety, ReleaseOnlyByForkedOwner, ReleaseStep

(* A waiter is lost to the sem_init that takes a semaphore without owner,  *)
(* or to a sem_signal by a descendant of a fork once a sem_destroy has     *)
(* released waiters: never to task 1, nor to any tick, fork or exit.       *)
THEOREM WaitersLostOnlySo == SemSafety => LostOnlySo
<1>1. SInv /\ [SemNext]_allVars => [LostStep]_allVars
  BY SemStepKeeps DEF Keeps
<1> QED BY <1>1, SemInvariant, PTL DEF SemSafety, LostOnlySo, LostStep

(* A blocked sem_wait returns 0 only to a task whose semaphore number was  *)
(* taken for a new semaphore before it ran again.                          *)
THEOREM SuccessMeansRenewed == SemSafety => SuccessOnlyIfRenewed
<1>1. SInv /\ [SemNext]_allVars => [SuccessStep]_allVars
  BY SemStepKeeps DEF Keeps
<1> QED BY <1>1, SemInvariant, PTL DEF SemSafety, SuccessOnlyIfRenewed, SuccessStep

=============================================================================
