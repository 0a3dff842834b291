-------------------------------- MODULE Stats --------------------------------
(***************************************************************************)
(* Where a process's time is booked: update_stats() and its callers        *)
(* (sched.c, sys.c, entry.S).                                              *)
(*                                                                         *)
(* Every handler books the time since the last booking when it is entered  *)
(* and when it returns, whoever it returns to; sched_next_rr() books for   *)
(* the task that leaves and update_process_state_rr() for one that becomes *)
(* ready.  Time passes in user mode and in the body of a handler; the      *)
(* bookings a handler ends with are a few instructions and happen at once. *)
(* Ticks are unbounded here, unsigned long in the code.                    *)
(***************************************************************************)
EXTENDS Sched

CONSTANTS
  Delays,     \* bound: ticks that pass in user mode or in a handler
  MaxTicks    \* bound: get_ticks() does not go beyond

ASSUME StatsAssumption == Delays \subseteq Nat /\ MaxTicks \in Nat

VARIABLES
  ticks,        \* what get_ticks() returns
  task_stats,   \* slot -> the task_stats field of its PCB
  idleStarted,  \* the idle task has been dispatched
  spent         \* slot -> the ticks it really spent, and how (history)

statsVars == <<schedVars, ticks, task_stats, idleStarted, spent>>

(* init_task_stats(); remaining_ticks is the time of creation for ever. *)
InitTaskStats(now) ==
  [user_ticks |-> 0, system_ticks |-> 0, blocked_ticks |-> 0, ready_ticks |-> 0,
   total_trans |-> 0, elapsed_total_ticks |-> now, remaining_ticks |-> now]

NothingSpent == [running |-> 0, inKernel |-> 0, waiting |-> 0, blocked |-> 0]

(* The time between init_task1() and user mode will be booked to task 1. *)
StatsInit ==
  /\ SchedInit
  /\ ticks \in Delays
  /\ task_stats = [t \in Tasks |-> InitTaskStats(0)]
  /\ idleStarted = FALSE
  /\ spent = [t \in Tasks |-> [NothingSpent EXCEPT !.running =
                                 IF t = Task1 THEN ticks ELSE 0]]

-----------------------------------------------------------------------------
(* update_stats(&t->field, &t->elapsed_total_ticks) on the statistics s *)
UpdateStats(s, t, field, now) ==
  [s EXCEPT ![t][field] = @ + now - s[t].elapsed_total_ticks,
            ![t].elapsed_total_ticks = now]

(* switch_user_to_system() *)
Entered(now) == UpdateStats(task_stats, current, "user_ticks", now)

(* switch_system_to_user() on the way back to task t.  The idle task is    *)
(* started by hand and does not return from a handler the first time.      *)
Left(s, t, now) ==
  IF t = IdleTask /\ ~idleStarted THEN s ELSE UpdateStats(s, t, "system_ticks", now)

(* Mutant: nothing is booked for a task that becomes ready. *)
Readied_Not(s, ts, now) == s

(* update_process_state_rr(t, &readyqueue) of each t in ts.  It passes the *)
(* address of task_stats, which is that of its first field, user_ticks.    *)
Readied(s, ts, now) ==
  [t \in Tasks |-> IF t \in ts THEN UpdateStats(s, t, "user_ticks", now)[t] ELSE s[t]]

(* sched_next_rr() for the task that leaves *)
Dispatched(s, now) ==
  UpdateStats(UpdateStats(s, current, "system_ticks", now), current, "ready_ticks", now)

(* Which of its times a task is spending; `own' is the running task's. *)
Spending(t, own) ==
  CASE t = current -> own
    [] t # current /\ On(t, readyqueue) -> "waiting"
    [] t # current /\ state[t] = ST_BLOCKED -> "blocked"
    [] OTHER -> "none"

(* u ticks pass in user mode and then k in the handler. *)
Passed(t, u, k) ==
  [how \in DOMAIN NothingSpent |->
     spent[t][how] + (IF Spending(t, "running") = how THEN u ELSE 0)
                   + (IF Spending(t, "inKernel") = how THEN k ELSE 0)]

-----------------------------------------------------------------------------
(* The handlers, entered at time e and with their body done at time b. *)
Tick(e, b) ==
  /\ ClockInterrupt
  /\ task_stats' =
       IF current' = current
       THEN Left(Entered(e), current, b)
       ELSE Left(Dispatched(Readied(Entered(e), {current}, b), b), current', b)

BlockCall(e, b) ==
  /\ (\E l \in WaitQueues : Block(l)) \/ Exit
  /\ task_stats' = Left(Dispatched(Entered(e), b), current', b)

WakeCall(l, e, b) ==
  \/ /\ Wake(l)
     /\ task_stats' = Left(Readied(Entered(e), {Head(queue[l])}, b), current, b)
  \/ /\ WakeAll(l)
     /\ task_stats' = Left(Readied(Entered(e), Range(queue[l]), b), current, b)

SpawnCall(e, b) ==
  /\ Spawn
  /\ task_stats' = Left([Entered(e) EXCEPT ![Child] = InitTaskStats(b)], current, b)

(* Any other call, sem_init included, and the sem_signal that loses a      *)
(* waiter: what it books is at the address of a task that is none.         *)
PlainCall(e, b) ==
  /\ current # IdleTask
  /\ UNCHANGED schedVars \/ \E l \in WaitQueues : ResetQueue(l) \/ Strand(l)
  /\ task_stats' = Left(Entered(e), current, b)

Handler(e, b) ==
  \/ Tick(e, b) \/ BlockCall(e, b) \/ SpawnCall(e, b) \/ PlainCall(e, b)
  \/ \E l \in WaitQueues : WakeCall(l, e, b)

StatsNext ==
  \E u, k \in Delays :
    /\ ticks + u + k <= MaxTicks
    /\ ticks' = ticks + u + k
    /\ Handler(ticks + u, ticks + u + k)
    /\ spent' = [t \in Tasks |-> IF On(t, freequeue) THEN NothingSpent ELSE Passed(t, u, k)]
    /\ idleStarted' = (idleStarted \/ current' = IdleTask)

StatsSpec == StatsInit /\ [][StatsNext]_statsVars

-----------------------------------------------------------------------------
Booked(t) == task_stats[t].user_ticks + task_stats[t].system_ticks + task_stats[t].ready_ticks

(* What the sums of the running process mean: the ticks it was blocked are *)
(* in user_ticks with those it ran, and the ticks it waited for the        *)
(* processor are in system_ticks; ready_ticks gets none of them.  What     *)
(* remains are the ticks of handlers.  Only what task 1 starts with is not *)
(* booked at once.                                                         *)
TimeBookedAs ==
  LET booked   == task_stats[current]
      unbooked == ticks - booked.elapsed_total_ticks
      time     == spent[current]
  IN  current # IdleTask =>
        /\ booked.user_ticks + unbooked >= time.running + time.blocked
        /\ booked.system_ticks >= time.waiting
        /\ booked.ready_ticks = 0
        /\ Booked(current) + unbooked
             = time.running + time.blocked + time.waiting + time.inKernel
        /\ unbooked > 0 => current = Task1 /\ Booked(Task1) = 0

(* README_E2.txt:23, "GET_STATS INCREASING TICKS FOR BLOCKED PROCESSES":   *)
(* the ticks a process spends blocked are counted in the field stats.h has *)
(* for them.                                                               *)
BlockedTicksCounted ==
  current # IdleTask => task_stats[current].blocked_ticks >= spent[current].blocked
==============================================================================
