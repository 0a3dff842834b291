----------------------------- MODULE Semaphores -----------------------------
(***************************************************************************)
(* The semaphore calls (sys.c) on top of processes and the scheduler.      *)
(* WaitQueues are the semaphores, so queue[n] is semaphores[n].queue.      *)
(*                                                                         *)
(* list_del() leaves a node with NULL links (list.c).  sys_sem_signal and  *)
(* sys_sem_destroy use the node again, and so does any call on a list that *)
(* was never initialised; what then happens depends on whether page 0 is   *)
(* mapped in the running address space:                                    *)
(*  - it is not, in task 1, its threads and idle: page fault.  The handler *)
(*    prints a line and loops with interrupts disabled;                    *)
(*  - it is, in the descendants of a fork: NULL is a node like any other,  *)
(*    whose links are the words at 0 and 4.  They hold interrupt vectors   *)
(*    of the BIOS, which lead to a page fault, until a sem_destroy deletes *)
(*    a node twice and so overwrites them with NULL.  From then on         *)
(*    sem_signal returns: it unlinks a waiter, and makes ready what it     *)
(*    finds behind the waiter's NULL link, which is NULL.  The waiter is   *)
(*    lost, and NULL moves up in readyqueue until it is dispatched: the    *)
(*    PCB around it has its directory at an address that is never mapped.  *)
(***************************************************************************)
EXTENDS Processes

CONSTANTS
  NR_SEMAPHORES,
  InitValues,     \* bound: the values sem_init is called with, as stored
  MaxCounter      \* bound: sem_signal stops counting here

Sems  == 0 .. NR_SEMAPHORES - 1
NoSem == -1
NONE  == "none"
ENAVAIL == 119

ASSUME SemAssumption ==
  /\ NR_SEMAPHORES \in Nat /\ WaitQueues = Sems
  /\ InitValues \subseteq Int /\ MaxCounter \in Nat
  /\ \A v \in InitValues : v <= MaxCounter

VARIABLES
  counter,   \* semaphore -> counter
  owner,     \* semaphore -> PID of its owner, -1 when free
  linked,    \* semaphore -> its list head has been initialised
  inWait,    \* slot -> the semaphore whose sem_wait it is blocked in
  fault,     \* the call that stopped the kernel; NONE while it runs
  renewed,   \* the slots whose semaphore was destroyed and initialised again
             \* since they blocked, and have not run since (history)
  nullAt,    \* how many tasks stand before NULL in readyqueue
  zeroed,    \* the words at 0 and 4 have been overwritten with NULL
  stale      \* the links of NULL that no longer lead to its neighbours

semVars  == <<counter, owner, linked, inWait, fault, renewed>>
nullVars == <<nullAt, zeroed, stale>>
allVars  == <<vars, semVars, nullVars>>

NotLinked == -1   \* nullAt, while NULL is not in readyqueue

SemBoot ==
  /\ ProcInit
  /\ counter = [n \in Sems |-> 0]
  /\ owner = [n \in Sems |-> -1]
  /\ linked = [n \in Sems |-> FALSE]
  /\ inWait = [t \in Tasks |-> NoSem]
  /\ fault = NONE
  /\ renewed = {}
  /\ nullAt = NotLinked
  /\ zeroed = FALSE
  /\ stale = {}

(* The running task is in user mode, where it makes calls and is           *)
(* interrupted, and not on its way out of a sem_wait.                      *)
UserMode == fault = NONE /\ inWait[current] = NoSem
Calls    == UserMode /\ current # IdleTask

Mapped == nullMapped[dir[current]]

Fault(call) ==
  /\ fault' = call
  /\ UNCHANGED <<vars, counter, owner, linked, inWait, renewed, nullVars>>

NothingDone == UNCHANGED allVars

-----------------------------------------------------------------------------
(* readyqueue with NULL in it.                                             *)
(*                                                                         *)
(* list_add_tail writes to the last node, list_del of the first one to its *)
(* successor: either may be NULL.  The first one may be NULL itself.       *)
NullLast       == nullAt = Len(queue[readyqueue])
JoinFaults     == NullLast /\ ~Mapped
DispatchFaults == nullAt = 0 \/ (nullAt = 1 /\ ~Mapped)

(* What is written to NULL's links when a task joins readyqueue, and when  *)
(* the first one leaves, is what belongs there.                            *)
MendedByJoin     == IF NullLast THEN {"next"} ELSE {}
MendedByDispatch == IF nullAt = 1 THEN {"prev"} ELSE {}

MovedUp == IF nullAt = NotLinked THEN NotLinked ELSE nullAt - 1

(* The second list_del of each waiter of n zeroes NULL's links; the first  *)
(* waiter then joins behind NULL, if that is last.                         *)
StaleByDestroy(n) ==
  IF nullAt = NotLinked \/ queue[n] = << >> THEN stale
  ELSE IF NullLast /\ Len(queue[n]) = 1 THEN {"prev"} ELSE {"prev", "next"}

(* list_add_tail to the zeroes of a head that was never initialised stores *)
(* the new node at NULL, as NULL's next.                                   *)
StoresAtNull(n) == ~linked[n] /\ queue[n] = << >>

-----------------------------------------------------------------------------
(* The waiters sem_destroy released belong to a semaphore that is no more. *)
Renew(n) == renewed' = renewed \cup {t \in Tasks : inWait[t] = n /\ On(t, readyqueue)}

(* Mutant: the owner is the slot and not the PID. *)
SemInit_SlotOwner(n, value) ==
  /\ Calls
  /\ owner[n] = -1
  /\ owner' = [owner EXCEPT ![n] = current]
  /\ counter' = [counter EXCEPT ![n] = value]
  /\ ResetQueue(n)
  /\ linked' = [linked EXCEPT ![n] = TRUE]
  /\ Renew(n)
  /\ UNCHANGED <<procVars, inWait, fault, nullVars>>

(* Mutant: the owner is not looked at. *)
SemInit_AnyOwner(n, value) ==
  /\ Calls
  /\ owner' = [owner EXCEPT ![n] = PID[current]]
  /\ counter' = [counter EXCEPT ![n] = value]
  /\ ResetQueue(n)
  /\ linked' = [linked EXCEPT ![n] = TRUE]
  /\ Renew(n)
  /\ UNCHANGED <<procVars, inWait, fault, nullVars>>

(* sys_sem_init *)
SemInit(n, value) ==
  /\ Calls
  /\ owner[n] = -1
  /\ owner' = [owner EXCEPT ![n] = PID[current]]
  /\ counter' = [counter EXCEPT ![n] = value]
  /\ ResetQueue(n)
  /\ linked' = [linked EXCEPT ![n] = TRUE]
  /\ Renew(n)
  /\ UNCHANGED <<procVars, inWait, fault, nullVars>>

SemInitTaken(n) == Calls /\ owner[n] # -1 /\ NothingDone

(* sys_sem_wait.  The owner is not looked at before blocking. *)
SemWaitPasses(n) ==
  /\ Calls
  /\ counter[n] > 0
  /\ counter' = [counter EXCEPT ![n] = @ - 1]
  /\ UNCHANGED <<vars, owner, linked, inWait, fault, renewed, nullVars>>

(* Mutant: the wrong semaphore's list. *)
SemWaitBlocks_WrongList(n) ==
  /\ Calls
  /\ counter[n] <= 0
  /\ StoresAtNull(n) => Mapped
  /\ ~DispatchFaults
  /\ Block(0) /\ OnlyScheduling
  /\ inWait' = [inWait EXCEPT ![current] = n]
  /\ nullAt' = MovedUp
  /\ stale' = (IF StoresAtNull(n) /\ nullAt # NotLinked THEN stale \cup {"next"} ELSE stale)
                 \ MendedByDispatch
  /\ UNCHANGED <<counter, owner, linked, fault, renewed, zeroed>>

SemWaitBlocks(n) ==
  /\ Calls
  /\ counter[n] <= 0
  /\ StoresAtNull(n) => Mapped
  /\ ~DispatchFaults
  /\ Block(n) /\ OnlyScheduling
  /\ inWait' = [inWait EXCEPT ![current] = n]
  /\ nullAt' = MovedUp
  /\ stale' = (IF StoresAtNull(n) /\ nullAt # NotLinked THEN stale \cup {"next"} ELSE stale)
                 \ MendedByDispatch
  /\ UNCHANGED <<counter, owner, linked, fault, renewed, zeroed>>

SemWaitFaults(n) ==
  /\ Calls
  /\ counter[n] <= 0
  /\ (StoresAtNull(n) /\ ~Mapped) \/ DispatchFaults
  /\ Fault("sem_wait")

(* Mutant: the owner is looked at the wrong way round. *)
WaitResult_Swapped(n) == IF owner[n] = -1 THEN 0 ELSE -ENAVAIL

(* What a sem_wait that had to block returns. *)
WaitResult(n) == IF owner[n] # -1 THEN 0 ELSE -ENAVAIL

(* The rest of sys_sem_wait, once dispatched again.  Nothing interrupts    *)
(* it.                                                                     *)
SemWaitReturns ==
  /\ fault = NONE
  /\ inWait[current] # NoSem
  /\ inWait' = [inWait EXCEPT ![current] = NoSem]
  /\ renewed' = renewed \ {current}
  /\ UNCHANGED <<vars, counter, owner, linked, fault, nullVars>>

(* Mutant: waiters are not looked for. *)
SemSignalCounts_Always(n) ==
  /\ Calls
  /\ linked[n]
  /\ counter[n] < MaxCounter
  /\ counter' = [counter EXCEPT ![n] = @ + 1]
  /\ UNCHANGED <<vars, owner, linked, inWait, fault, renewed, nullVars>>

(* sys_sem_signal *)
SemSignalCounts(n) ==
  /\ Calls
  /\ linked[n] /\ queue[n] = << >>
  /\ counter[n] < MaxCounter
  /\ counter' = [counter EXCEPT ![n] = @ + 1]
  /\ UNCHANGED <<vars, owner, linked, inWait, fault, renewed, nullVars>>

(* The first waiter is unlinked, and the waiter to wake looked for behind  *)
(* its NULL links; or the head itself is NULL.                             *)
SignalsNull(n) == ~linked[n] \/ queue[n] # << >>

(* NULL's PCB is not ST_RUN, so NULL is unlinked first, wherever it is.    *)
SemSignalLoses(n) ==
  /\ Calls
  /\ SignalsNull(n)
  /\ Mapped /\ zeroed /\ stale = {}
  /\ IF linked[n] THEN Strand(n) ELSE UNCHANGED schedVars
  /\ nullAt' = Len(queue[readyqueue])
  /\ UNCHANGED <<procVars, semVars, zeroed, stale>>

(* Unlinking NULL along links that do not lead to its neighbours tears     *)
(* readyqueue: nothing is said of what the kernel does after that.         *)
SemSignalFaults(n) ==
  /\ Calls
  /\ SignalsNull(n)
  /\ \/ ~(Mapped /\ zeroed) /\ Fault("sem_signal")
     \/ Mapped /\ zeroed /\ stale # {} /\ Fault("torn")

(* Mutant: anybody may destroy. *)
SemDestroy_Anybody(n) ==
  /\ Calls
  /\ owner[n] # -1
  /\ queue[n] # << >> => Mapped
  /\ owner' = [owner EXCEPT ![n] = -1]
  /\ WakeAll(n) /\ OnlyScheduling
  /\ zeroed' = (zeroed \/ queue[n] # << >>)
  /\ stale' = StaleByDestroy(n)
  /\ UNCHANGED <<counter, linked, inWait, fault, renewed, nullAt>>

(* sys_sem_destroy *)
SemDestroy(n) ==
  /\ Calls
  /\ PID[current] = owner[n]
  /\ queue[n] # << >> => Mapped
  /\ owner' = [owner EXCEPT ![n] = -1]
  /\ WakeAll(n) /\ OnlyScheduling
  /\ zeroed' = (zeroed \/ queue[n] # << >>)
  /\ stale' = StaleByDestroy(n)
  /\ UNCHANGED <<counter, linked, inWait, fault, renewed, nullAt>>

(* update_process_state_rr unlinks the waiter a second time. *)
SemDestroyFaults(n) ==
  /\ Calls
  /\ PID[current] = owner[n]
  /\ queue[n] # << >> /\ ~Mapped
  /\ Fault("sem_destroy")

SemDestroyNotOwner(n) == Calls /\ PID[current] # owner[n] /\ NothingDone

SemaphoreCall(n) ==
  \/ \E value \in InitValues : SemInit(n, value)
  \/ SemInitTaken(n)
  \/ SemWaitPasses(n) \/ SemWaitBlocks(n) \/ SemWaitFaults(n)
  \/ SemSignalCounts(n) \/ SemSignalLoses(n) \/ SemSignalFaults(n)
  \/ SemDestroy(n) \/ SemDestroyFaults(n) \/ SemDestroyNotOwner(n)

(* The tick sees that readyqueue is not empty, whatever is in it. *)
Preempts ==
  /\ Decremented(remaining_ticks) <= 0
  /\ queue[readyqueue] # << >> \/ nullAt # NotLinked

Interrupted ==
  /\ UserMode
  /\ IF Preempts /\ (JoinFaults \/ DispatchFaults)
     THEN Fault("clock_interrupt")
     ELSE /\ Tick
          /\ IF Preempts
             THEN /\ nullAt' = MovedUp
                  /\ stale' = (stale \ MendedByJoin) \ MendedByDispatch
             ELSE UNCHANGED <<nullAt, stale>>
          /\ UNCHANGED <<semVars, zeroed>>

(* fork and clone let the child join readyqueue, exit dispatches.          *)
OtherCall ==
  /\ Calls
  /\ \/ /\ ~JoinFaults
        /\ Fork \/ Clone
        /\ stale' = stale \ MendedByJoin
        /\ UNCHANGED nullAt
     \/ /\ ForkNoFrames \/ NoSlot
        /\ UNCHANGED <<nullAt, stale>>
     \/ /\ ~DispatchFaults
        /\ SysExit
        /\ nullAt' = MovedUp
        /\ stale' = stale \ MendedByDispatch
  /\ UNCHANGED <<semVars, zeroed>>

OtherCallFaults ==
  /\ Calls
  /\ \/ queue[freequeue] # << >> /\ JoinFaults /\ Fault("clone")
     \/ DispatchFaults /\ Fault("exit")

SemNext ==
  \/ \E n \in Sems : SemaphoreCall(n)
  \/ SemWaitReturns
  \/ Interrupted
  \/ OtherCall \/ OtherCallFaults

SemSafety == SemBoot /\ [][SemNext]_allVars

(* The timer keeps interrupting user code, and kernel code runs on.        *)
SemSpec == SemSafety /\ WF_allVars(Interrupted) /\ WF_allVars(SemWaitReturns)

-----------------------------------------------------------------------------
(* Type invariant. *)
SemTypeOK ==
  /\ counter \in [Sems -> Int] /\ \A n \in Sems : counter[n] <= MaxCounter
  /\ owner \in [Sems -> {-1, 1} \cup 14 .. MaxPid]
  /\ linked \in [Sems -> BOOLEAN]
  /\ inWait \in [Tasks -> Sems \cup {NoSem}]
  /\ fault \in {NONE, "sem_wait", "sem_signal", "torn", "sem_destroy",
               "clock_interrupt", "clone", "exit"}
  /\ renewed \subseteq Tasks
  /\ nullAt \in NotLinked .. Len(queue[readyqueue])
  /\ zeroed \in BOOLEAN
  /\ stale \subseteq {"next", "prev"}

(* Nobody waits for a semaphore that has credit, not even across destroy   *)
(* and re-initialisation by another process.                               *)
CreditXorWaiters == \A n \in Sems : counter[n] > 0 => queue[n] = << >>

(* A task linked into a semaphore's list is inside that semaphore's        *)
(* sem_wait; one that is inside is linked there, or on its way out, or     *)
(* lost.                                                                   *)
WaitersConsistent ==
  \A t \in Tasks, n \in Sems :
    /\ On(t, n) => inWait[t] = n
    /\ inWait[t] = n => On(t, n) \/ On(t, readyqueue) \/ t = current \/ t \in Lost

(* Whose waiters can be lost: those of a semaphore without owner, when     *)
(* sem_init takes it; and of any semaphore when a descendant of a fork     *)
(* signals, but only after a sem_destroy that released waiters.  Task 1    *)
(* and its threads lose nobody who waits for a semaphore with an owner.    *)
LostOnlySo ==
  [][\A t \in Lost' \ Lost :
       /\ inWait[t] # NoSem
       /\ \/ owner[inWait[t]] = -1 /\ owner'[inWait[t]] # -1
          \/ Mapped /\ zeroed /\ nullAt' # NotLinked /\ owner' = owner]_allVars

(* The only release from a blocked sem_wait is a sem_destroy by the owner, *)
(* and only when the owner descends from a fork.                           *)
ReleaseOnlyByForkedOwner ==
  [][\A t \in Tasks, n \in Sems :
       On(t, n) /\ On(t, readyqueue)' =>
         /\ PID[current] = owner[n] /\ owner'[n] = -1
         /\ Mapped]_allVars

(* A blocked sem_wait reports success to a task only when, before the task *)
(* ran again, the number was taken for a new semaphore: whoever is told 0   *)
(* was let through by no signal, and one that is told -ENAVAIL waited for   *)
(* a semaphore that is gone.                                               *)
SuccessOnlyIfRenewed ==
  [][\A t \in Tasks :
       inWait[t] # NoSem /\ inWait'[t] = NoSem /\ WaitResult(inWait[t]) = 0
         => t \in renewed]_allVars

(* Unless the kernel stops, every ready task runs. *)
ReadyRunsOrFault ==
  \A t \in Tasks : On(t, readyqueue) ~> current = t \/ fault # NONE

(* list.c, list_del: afterwards "the entry is in an undefined state", so   *)
(* the kernel must not follow its links: it stops only on a semaphore that *)
(* was never initialised.                                                  *)
UnlinkedNodesUnused == fault # NONE => \E n \in Sems : ~linked[n]
=============================================================================
