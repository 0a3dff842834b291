-------------------------------- MODULE Sched --------------------------------
(***************************************************************************)
(* The round-robin scheduler of ZeOS (sched.c) and the way every other     *)
(* part of the kernel uses it.                                             *)
(*                                                                         *)
(* A task is a slot of the array `task'.  Its PCB is linked into at most   *)
(* one list: freequeue, readyqueue, or a list on which tasks block (the    *)
(* keyboard's, a semaphore's).  Each action below is one call pattern      *)
(* found in the kernel; interrupts are disabled from the entry of a        *)
(* handler to the task switch or the return to user mode, so a pattern is  *)
(* one step.  Processes, Semaphores and Keyboard add the state of their    *)
(* own system calls to these actions.                                      *)
(***************************************************************************)
EXTENDS Integers, Sequences, Functions

CONSTANTS
  NR_TASKS,     \* number of task slots
  QUANTUM,      \* clock ticks a process runs before it is preempted
  freequeue,    \* the list of unused slots
  readyqueue,   \* the list of tasks waiting for the processor
  WaitQueues    \* the lists on which tasks block

ASSUME SchedAssumption ==
  /\ NR_TASKS \in Nat /\ NR_TASKS >= 2
  /\ QUANTUM \in Nat \ {0}
  /\ freequeue # readyqueue
  /\ freequeue \notin WaitQueues /\ readyqueue \notin WaitQueues

Tasks  == 0 .. NR_TASKS - 1
Queues == {freequeue, readyqueue} \cup WaitQueues

(* init_sched pushes every slot at the front of freequeue, so init_idle and *)
(* init_task1 take the two highest ones.                                    *)
IdleTask == NR_TASKS - 1
Task1    == NR_TASKS - 2

ST_RUN     == "ST_RUN"
ST_READY   == "ST_READY"
ST_BLOCKED == "ST_BLOCKED"
States     == {ST_RUN, ST_READY, ST_BLOCKED}

VARIABLES
  queue,            \* list name -> the slots linked into it, first to last
  state,            \* slot -> the state field of its PCB
  quantum,          \* slot -> the quantum field of its PCB
  current,          \* the slot whose kernel stack the processor is on
  remaining_ticks   \* ticks left to the running task

schedVars == <<queue, state, quantum, current, remaining_ticks>>

(* Slot t is linked into the list l. *)
On(t, l) == t \in Range(queue[l])

-----------------------------------------------------------------------------
(* The state the boot sequence hands over to user mode.  PCBs are zeroed   *)
(* memory, and zero is ST_RUN; only task 1 is given a quantum.  The tick   *)
(* that was pending when the interrupts were enabled may be gone already.  *)
SchedInit ==
  /\ queue = [l \in Queues |->
                IF l = freequeue
                THEN [i \in 1 .. NR_TASKS - 2 |-> NR_TASKS - 2 - i]
                ELSE << >>]
  /\ state = [t \in Tasks |-> ST_RUN]
  /\ quantum = [t \in Tasks |-> IF t = Task1 THEN QUANTUM ELSE 0]
  /\ current = Task1
  /\ remaining_ticks \in {QUANTUM - 1, QUANTUM} \ {0}

-----------------------------------------------------------------------------
(* list_del(t): the kernel only ever unlinks the first node of a list. *)
ListDel(q, t) ==
  [l \in Queues |-> IF q[l] # << >> /\ Head(q[l]) = t THEN Tail(q[l]) ELSE q[l]]

(* Mutant: list_add where list_add_tail is meant. *)
ListAddTail_Front(q, l, t) == [q EXCEPT ![l] = <<t>> \o @]

(* list_add_tail(t, l) *)
ListAddTail(q, l, t) == [q EXCEPT ![l] = Append(@, t)]

(* Mutant: the task is unlinked and linked nowhere. *)
Relinked_Drops(t, dest) ==
  IF state[t] # ST_RUN THEN ListDel(queue, t) ELSE queue

(* update_process_state_rr(t, dest): the lists and the states it leaves. A *)
(* task that is not ST_RUN is unlinked from the list it is on first.       *)
Relinked(t, dest) ==
  ListAddTail(IF state[t] # ST_RUN THEN ListDel(queue, t) ELSE queue, dest, t)

Restated(t, dest) ==
  [state EXCEPT ![t] = IF dest = readyqueue THEN ST_READY ELSE ST_BLOCKED]

(* sched_next_rr() takes the first ready task, or the idle task when there *)
(* is none.                                                                *)
NextTask(q) == IF q[readyqueue] = << >> THEN IdleTask ELSE Head(q[readyqueue])
Popped(q) ==
  IF q[readyqueue] = << >> THEN q ELSE [q EXCEPT ![readyqueue] = Tail(@)]

(* Mutants: the dispatched task stays in readyqueue; its state is not set; *)
(* its quantum is added to what the previous task left.                    *)
SchedNextRR_KeepsHead(q, s) ==
  /\ queue' = q
  /\ state' = [s EXCEPT ![NextTask(q)] = ST_RUN]
  /\ remaining_ticks' = quantum[NextTask(q)]
  /\ current' = NextTask(q)
  /\ UNCHANGED quantum

SchedNextRR_KeepsState(q, s) ==
  /\ queue' = Popped(q)
  /\ state' = s
  /\ remaining_ticks' = quantum[NextTask(q)]
  /\ current' = NextTask(q)
  /\ UNCHANGED quantum

SchedNextRR_AddsQuantum(q, s) ==
  /\ queue' = Popped(q)
  /\ state' = [s EXCEPT ![NextTask(q)] = ST_RUN]
  /\ remaining_ticks' = remaining_ticks + quantum[NextTask(q)]
  /\ current' = NextTask(q)
  /\ UNCHANGED quantum

(* sched_next_rr() with the lists q and the states s the caller has made.  *)
SchedNextRR(q, s) ==
  /\ queue' = Popped(q)
  /\ state' = [s EXCEPT ![NextTask(q)] = ST_RUN]
  /\ remaining_ticks' = quantum[NextTask(q)]
  /\ current' = NextTask(q)
  /\ UNCHANGED quantum

(* remaining_ticks-- ; every negative value acts alike, so -1 stands for   *)
(* them all.  Only the idle task, whose quantum is 0, gets there.          *)
Decremented(r) == IF r > -1 THEN r - 1 ELSE -1

(* Mutant: < for <=, so the quantum is reloaded first. *)
NeedsSchedRR_Strict(r) == r < 0 /\ queue[readyqueue] # << >>

(* needs_sched_rr() after the decrement *)
NeedsSchedRR(r) == r <= 0 /\ queue[readyqueue] # << >>

-----------------------------------------------------------------------------
(* clock_interrupt: update_sched_data_rr() charges the running task a tick *)
(* and preempts it when its quantum is over and another task is ready.     *)
ClockInterrupt ==
  LET r == Decremented(remaining_ticks)
  IN  \/ /\ NeedsSchedRR(r)
         /\ SchedNextRR(Relinked(current, readyqueue), Restated(current, readyqueue))
      \/ /\ ~NeedsSchedRR(r)
         /\ remaining_ticks' = IF r = 0 THEN quantum[current] ELSE r
         /\ UNCHANGED <<queue, state, quantum, current>>

(* The running process blocks on the list l and gives the processor up.    *)
(* The idle task makes no system call.                                     *)
Block(l) ==
  /\ current # IdleTask
  /\ SchedNextRR(Relinked(current, l), Restated(current, l))

(* The first task blocked on l becomes ready. *)
Wake(l) ==
  /\ queue[l] # << >>
  /\ queue' = Relinked(Head(queue[l]), readyqueue)
  /\ state' = Restated(Head(queue[l]), readyqueue)
  /\ UNCHANGED <<quantum, current, remaining_ticks>>

(* Every task blocked on l becomes ready, first to last. *)
WakeAll(l) ==
  /\ queue' = [queue EXCEPT ![l] = << >>, ![readyqueue] = @ \o queue[l]]
  /\ state' = [t \in Tasks |-> IF On(t, l) THEN ST_READY ELSE state[t]]
  /\ UNCHANGED <<quantum, current, remaining_ticks>>

(* fork and clone: the first free slot becomes a ready copy of the running *)
(* process.  The PCB is copied whole, its state field included.            *)
Child == Head(queue[freequeue])

(* Mutant: the quantum is not copied. *)
Spawn_NoQuantum ==
  /\ current # IdleTask
  /\ queue[freequeue] # << >>
  /\ queue' = [queue EXCEPT ![freequeue] = Tail(@), ![readyqueue] = Append(@, Child)]
  /\ state' = [state EXCEPT ![Child] = state[current]]
  /\ UNCHANGED <<quantum, current, remaining_ticks>>

Spawn ==
  /\ current # IdleTask
  /\ queue[freequeue] # << >>
  /\ queue' = [queue EXCEPT ![freequeue] = Tail(@), ![readyqueue] = Append(@, Child)]
  /\ state' = [state EXCEPT ![Child] = state[current]]
  /\ quantum' = [quantum EXCEPT ![Child] = quantum[current]]
  /\ UNCHANGED <<current, remaining_ticks>>

(* exit: the slot of the running process goes back to freequeue. *)
Exit ==
  /\ current # IdleTask
  /\ SchedNextRR(ListAddTail(queue, freequeue, current), state)

(* sem_init: INIT_LIST_HEAD empties l whoever is still linked into it. *)
ResetQueue(l) ==
  /\ queue' = [queue EXCEPT ![l] = << >>]
  /\ UNCHANGED <<state, quantum, current, remaining_ticks>>

(* sem_signal where page 0 is mapped: the first task blocked on l is       *)
(* unlinked, and what becomes ready is not a task.                         *)
Strand(l) ==
  /\ queue[l] # << >>
  /\ queue' = ListDel(queue, Head(queue[l]))
  /\ UNCHANGED <<state, quantum, current, remaining_ticks>>

SchedNext ==
  \/ ClockInterrupt
  \/ \E l \in WaitQueues : Block(l) \/ Wake(l) \/ WakeAll(l) \/ ResetQueue(l) \/ Strand(l)
  \/ Spawn
  \/ Exit

SchedSafety == SchedInit /\ [][SchedNext]_schedVars

(* The timer keeps interrupting: user code runs with interrupts enabled    *)
(* and cannot disable them.  Nothing obliges a process to make any call.   *)
SchedSpec == SchedSafety /\ WF_schedVars(ClockInterrupt)

-----------------------------------------------------------------------------
(* Type invariant. *)
TypeOK ==
  /\ queue \in [Queues -> Seq(Tasks)]
  /\ state \in [Tasks -> States]
  /\ quantum \in [Tasks -> {0, QUANTUM}]
  /\ current \in Tasks
  /\ remaining_ticks \in -1 .. QUANTUM

(* A slot is in one place at a time: it occurs at most once in all the     *)
(* lists together, and the running task is in none of them.  A PCB has a   *)
(* single pair of links, so a second insertion would tie two lists         *)
(* together.                                                               *)
OnePlace ==
  /\ \A l \in Queues : IsInjective(queue[l])
  /\ \A l, m \in Queues, t \in Tasks : On(t, l) /\ On(t, m) => l = m
  /\ \A l \in Queues : ~On(current, l)

(* The state field agrees with the place: update_process_state_rr decides  *)
(* on it whether a task must be unlinked.  A child that never ran is ready *)
(* with the ST_RUN it copied, and the idle task never blocks or exits.     *)
StateMatchesPlace ==
  /\ state[current] = ST_RUN
  /\ \A t \in Tasks :
       /\ \A l \in WaitQueues : On(t, l) => state[t] = ST_BLOCKED
       /\ On(t, freequeue) => state[t] = ST_RUN
       /\ On(t, readyqueue) => state[t] # ST_BLOCKED
       /\ state[t] = ST_READY => On(t, readyqueue)
  /\ \A l \in WaitQueues \cup {freequeue} : ~On(IdleTask, l)
  /\ state[IdleTask] # ST_BLOCKED

(* The running process has a tick left at least, and every process the     *)
(* same quantum; the idle task has none and is always due to be preempted. *)
TicksMatchTask ==
  /\ \A t \in Tasks \ {IdleTask} :
       ~On(t, freequeue) => quantum[t] = QUANTUM
  /\ quantum[IdleTask] = 0
  /\ IF current = IdleTask THEN remaining_ticks <= 0 ELSE remaining_ticks >= 1

(* The slots no list and no processor holds: blocked, and out of reach of  *)
(* every wake-up.                                                          *)
Lost == {t \in Tasks : state[t] = ST_BLOCKED /\ \A l \in Queues : ~On(t, l)}

(* A blocked task t leaves the lists for good in two ways only: its list   *)
(* is re-initialised under it, or it is the first and is unlinked alone.   *)
LeavesUnready(t) ==
  \E l \in WaitQueues :
    /\ On(t, l)
    /\ queue'[l] = << >> \/ (t = Head(queue[l]) /\ queue'[l] = Tail(queue[l]))

(* No tick, wake-up, fork or exit drops a blocked task out of reach of its *)
(* wake-ups, whatever the order: only sem_init and a sem_signal do, the    *)
(* latter one task at a time.  Who is out of reach never comes back.       *)
LostForGood ==
  [][Lost \subseteq Lost' /\ \A t \in Lost' \ Lost : LeavesUnready(t)]_schedVars

(* Round robin: the ready tasks keep their order, whoever becomes ready    *)
(* goes behind them, and none leaves but the first, to the processor.      *)
NoOvertaking ==
  [][LET stay == IF On(current', readyqueue) THEN Tail(queue[readyqueue])
                                             ELSE queue[readyqueue]
     IN  /\ Len(stay) <= Len(queue'[readyqueue])
         /\ SubSeq(queue'[readyqueue], 1, Len(stay)) = stay
         /\ On(current', readyqueue) => current' = Head(queue[readyqueue])]_schedVars

(* Every ready task gets the processor, as long as there are only tasks in *)
(* readyqueue.                                                             *)
ReadyRuns == \A t \in Tasks : On(t, readyqueue) ~> current = t
==============================================================================
