---------------------------- MODULE SchedProofs ----------------------------
(***************************************************************************)
(* Proofs that the scheduler keeps its invariants, for any number of       *)
(* slots, any quantum and any set of lists to block on.                    *)
(*                                                                         *)
(* Every handler first rearranges the lists and the states (a task is      *)
(* queued, woken, freed) and then may dispatch.  Consistent(q, s) is what  *)
(* holds of the lists q and the states s at both points, also while the    *)
(* processor belongs to nobody; each action is proved to lead from one     *)
(* consistent pair to another, and Dispatch covers sched_next_rr() once.   *)
(***************************************************************************)
EXTENDS Sched, TLAPS

(* No slot is linked twice. *)
Placed(q) ==
  /\ \A l \in Queues : IsInjective(q[l])
  /\ \A l, m \in Queues, t \in Tasks : t \in Range(q[l]) /\ t \in Range(q[m]) => l = m

Agrees(q, s, t) ==
  /\ \A l \in WaitQueues : t \in Range(q[l]) => s[t] = ST_BLOCKED
  /\ t \in Range(q[freequeue]) => s[t] = ST_RUN
  /\ t \in Range(q[readyqueue]) => s[t] # ST_BLOCKED
  /\ s[t] = ST_READY => t \in Range(q[readyqueue])

IdleApart(q) == \A l \in WaitQueues \cup {freequeue} : IdleTask \notin Range(q[l])

FullQuanta(q, u) ==
  /\ \A t \in Tasks \ {IdleTask} : t \notin Range(q[freequeue]) => u[t] = QUANTUM
  /\ u[IdleTask] = 0

Consistent(q, s, u) ==
  /\ q \in [Queues -> Seq(Tasks)]
  /\ s \in [Tasks -> States]
  /\ u \in [Tasks -> {0, QUANTUM}]
  /\ Placed(q)
  /\ \A t \in Tasks : Agrees(q, s, t)
  /\ IdleApart(q) /\ s[IdleTask] # ST_BLOCKED
  /\ FullQuanta(q, u)

(* The running task, the lists, the states and the ticks left. *)
Running(q, s, c, r) ==
  /\ c \in Tasks
  /\ s[c] = ST_RUN
  /\ \A l \in Queues : c \notin Range(q[l])
  /\ r \in -1 .. QUANTUM
  /\ IF c = IdleTask THEN r <= 0 ELSE r >= 1

LostIn(q, s) == {t \in Tasks : s[t] = ST_BLOCKED /\ \A l \in Queues : t \notin Range(q[l])}

IInv == TypeOK /\ OnePlace /\ StateMatchesPlace /\ TicksMatchTask

-----------------------------------------------------------------------------
LEMMA Constants ==
  /\ IdleTask \in Tasks /\ Task1 \in Tasks /\ IdleTask # Task1
  /\ freequeue \in Queues /\ readyqueue \in Queues
  /\ WaitQueues \subseteq Queues
  /\ \A l \in WaitQueues : l # freequeue /\ l # readyqueue
  /\ freequeue # readyqueue
  /\ QUANTUM \in Nat /\ QUANTUM >= 1
BY SchedAssumption DEF IdleTask, Task1, Tasks, Queues

LEMMA DistinctStates ==
  /\ ST_RUN \in States /\ ST_READY \in States /\ ST_BLOCKED \in States
  /\ ST_RUN # ST_READY /\ ST_RUN # ST_BLOCKED /\ ST_READY # ST_BLOCKED
BY DEF ST_RUN, ST_READY, ST_BLOCKED, States

(* The inductive invariant in the shape the lemmas below use. *)
LEMMA IInvShape ==
  IInv <=> /\ Consistent(queue, state, quantum)
           /\ Running(queue, state, current, remaining_ticks)
BY Constants DEF IInv, TypeOK, OnePlace, StateMatchesPlace, TicksMatchTask, On,
   Consistent, Running, Placed, Agrees, IdleApart, FullQuanta

LEMMA IInvShapeNext ==
  IInv' <=> /\ Consistent(queue', state', quantum')
            /\ Running(queue', state', current', remaining_ticks')
BY Constants DEF IInv, TypeOK, OnePlace, StateMatchesPlace, TicksMatchTask, On,
   Consistent, Running, Placed, Agrees, IdleApart, FullQuanta

LEMMA LostShape == Lost = LostIn(queue, state) /\ Lost' = LostIn(queue', state')
BY DEF Lost, LostIn, On

-----------------------------------------------------------------------------
(* What the list operations do to the members of a list. *)
LEMMA AppendMembers ==
  ASSUME NEW S, NEW s \in Seq(S), NEW e \in S
  PROVE  /\ Append(s, e) \in Seq(S)
         /\ Range(Append(s, e)) = Range(s) \cup {e}
         /\ IsInjective(s) /\ e \notin Range(s) => IsInjective(Append(s, e))
<1>1. Append(s, e) \in Seq(S) /\ Len(Append(s, e)) = Len(s) + 1 /\ Len(s) \in Nat
  OBVIOUS
<1>2. DOMAIN Append(s, e) = 1 .. Len(s) + 1 /\ DOMAIN s = 1 .. Len(s)
  BY <1>1
<1>3. \A i \in 1 .. Len(s) + 1 : Append(s, e)[i] = IF i = Len(s) + 1 THEN e ELSE s[i]
  OBVIOUS
<1>4. Range(Append(s, e)) = Range(s) \cup {e}
  BY <1>1, <1>2, <1>3 DEF Range
<1>5. IsInjective(s) /\ e \notin Range(s) => IsInjective(Append(s, e))
  BY <1>1, <1>2, <1>3 DEF Range, IsInjective
<1> QED BY <1>1, <1>4, <1>5

LEMMA TailMembers ==
  ASSUME NEW S, NEW s \in Seq(S), s # << >>, IsInjective(s)
  PROVE  /\ Head(s) \in S /\ Head(s) \in Range(s)
         /\ Tail(s) \in Seq(S)
         /\ Range(Tail(s)) = Range(s) \ {Head(s)}
         /\ IsInjective(Tail(s))
<1>1. /\ Tail(s) \in Seq(S) /\ Len(s) \in Nat /\ Len(s) >= 1
      /\ Len(Tail(s)) = Len(s) - 1 /\ Head(s) = s[1] /\ Head(s) \in S
  OBVIOUS
<1>2. DOMAIN Tail(s) = 1 .. Len(s) - 1 /\ DOMAIN s = 1 .. Len(s)
  BY <1>1
<1>3. \A i \in 1 .. Len(s) - 1 : Tail(s)[i] = s[i + 1]
  BY <1>1
<1>4. Range(Tail(s)) \subseteq Range(s) \ {Head(s)}
  BY <1>1, <1>2, <1>3 DEF Range, IsInjective
<1>5. ASSUME NEW x \in Range(s) \ {Head(s)} PROVE x \in Range(Tail(s))
  <2>1. PICK i \in 1 .. Len(s) : x = s[i]
    BY <1>2 DEF Range
  <2>2. i - 1 \in 1 .. Len(s) - 1 /\ Tail(s)[i - 1] = x
    BY <2>1, <1>1, <1>3
  <2> QED BY <2>2, <1>2 DEF Range
<1>6. IsInjective(Tail(s))
  BY <1>1, <1>2, <1>3 DEF IsInjective
<1>7. Head(s) \in Range(s)
  BY <1>1, <1>2 DEF Range
<1>8. Range(Tail(s)) = Range(s) \ {Head(s)}
  BY <1>4, <1>5
<1> QED BY <1>1, <1>6, <1>7, <1>8

LEMMA ConcatMembers ==
  ASSUME NEW S, NEW s \in Seq(S), NEW r \in Seq(S)
  PROVE  /\ s \o r \in Seq(S)
         /\ Range(s \o r) = Range(s) \cup Range(r)
         /\ /\ IsInjective(s) /\ IsInjective(r)
            /\ \A x \in S : ~(x \in Range(s) /\ x \in Range(r))
            => IsInjective(s \o r)
<1>1. /\ s \o r \in Seq(S) /\ Len(s) \in Nat /\ Len(r) \in Nat
      /\ DOMAIN (s \o r) = 1 .. Len(s) + Len(r)
      /\ DOMAIN s = 1 .. Len(s) /\ DOMAIN r = 1 .. Len(r)
  OBVIOUS
<1>2. \A i \in 1 .. Len(s) + Len(r) :
        (s \o r)[i] = IF i <= Len(s) THEN s[i] ELSE r[i - Len(s)]
  OBVIOUS
<1>3. Range(s \o r) \subseteq Range(s) \cup Range(r)
  BY <1>1, <1>2 DEF Range
<1>4. Range(s) \subseteq Range(s \o r)
  BY <1>1, <1>2 DEF Range
<1>5. ASSUME NEW x \in Range(r) PROVE x \in Range(s \o r)
  <2>1. PICK i \in 1 .. Len(r) : x = r[i]
    BY <1>1 DEF Range
  <2>2. i + Len(s) \in 1 .. Len(s) + Len(r) /\ (s \o r)[i + Len(s)] = x
    BY <2>1, <1>1, <1>2
  <2> QED BY <2>2, <1>1 DEF Range
<1>6. ASSUME IsInjective(s), IsInjective(r),
             \A x \in S : ~(x \in Range(s) /\ x \in Range(r))
      PROVE  IsInjective(s \o r)
  <2> SUFFICES ASSUME NEW i \in 1 .. Len(s) + Len(r), NEW j \in 1 .. Len(s) + Len(r),
                      (s \o r)[i] = (s \o r)[j]
               PROVE  i = j
    BY <1>1 DEF IsInjective
  <2>1. \A a \in 1 .. Len(s), b \in 1 .. Len(r) : s[a] # r[b]
    BY <1>1, <1>6 DEF Range
  <2>2. CASE i <= Len(s) /\ j <= Len(s)
    BY <2>2, <1>1, <1>2, <1>6 DEF IsInjective
  <2>3. CASE i > Len(s) /\ j > Len(s)
    <3>1. i - Len(s) \in DOMAIN r /\ j - Len(s) \in DOMAIN r
      BY <2>3, <1>1
    <3>2. r[i - Len(s)] = r[j - Len(s)]
      BY <2>3, <1>1, <1>2
    <3>3. i - Len(s) = j - Len(s)
      BY <3>1, <3>2, <1>6 DEF IsInjective
    <3> QED BY <3>3, <1>1
  <2>4. CASE i <= Len(s) /\ j > Len(s)
    <3>1. i \in 1 .. Len(s) /\ j - Len(s) \in 1 .. Len(r)
      BY <2>4, <1>1
    <3> QED BY <3>1, <2>4, <2>1, <1>1, <1>2
  <2>5. CASE i > Len(s) /\ j <= Len(s)
    <3>1. j \in 1 .. Len(s) /\ i - Len(s) \in 1 .. Len(r)
      BY <2>5, <1>1
    <3> QED BY <3>1, <2>5, <2>1, <1>1, <1>2
  <2> QED BY <2>2, <2>3, <2>4, <2>5, <1>1
<1> QED BY <1>1, <1>3, <1>4, <1>5, <1>6

-----------------------------------------------------------------------------
(* list_add_tail of a slot that is in no list. *)
LEMMA Link ==
  ASSUME NEW q \in [Queues -> Seq(Tasks)], Placed(q),
         NEW l \in Queues, NEW t \in Tasks, \A m \in Queues : t \notin Range(q[m])
  PROVE  /\ ListAddTail(q, l, t) \in [Queues -> Seq(Tasks)]
         /\ Placed(ListAddTail(q, l, t))
         /\ ListAddTail(q, l, t)[l] # << >>
         /\ \A m \in Queues, u \in Tasks : u \in Range(ListAddTail(q, l, t)[m])
                                 <=> u \in Range(q[m]) \/ (m = l /\ u = t)
<1> DEFINE r == ListAddTail(q, l, t)
<1>1. r = [q EXCEPT ![l] = Append(q[l], t)]
  BY DEF ListAddTail
<1>2. /\ Append(q[l], t) \in Seq(Tasks)
      /\ Range(Append(q[l], t)) = Range(q[l]) \cup {t}
      /\ IsInjective(Append(q[l], t))
  BY AppendMembers DEF Placed
<1> HIDE DEF r
<1>3. r \in [Queues -> Seq(Tasks)] /\ r[l] = Append(q[l], t)
      /\ \A m \in Queues : m # l => r[m] = q[m]
  BY <1>1, <1>2
<1>4. \A m \in Queues, u \in Tasks : u \in Range(r[m]) <=> u \in Range(q[m]) \/ (m = l /\ u = t)
  BY <1>2, <1>3
<1>5. Placed(r)
  <2>1. \A m \in Queues : IsInjective(r[m])
    BY <1>2, <1>3 DEF Placed
  <2>2. \A m, n \in Queues, u \in Tasks : u \in Range(r[m]) /\ u \in Range(r[n]) => m = n
    BY <1>4 DEF Placed
  <2> QED BY <2>1, <2>2 DEF Placed
<1>6. r[l] # << >>
  BY <1>3
<1>7. r \in [Queues -> Seq(Tasks)] /\ Placed(r) /\ r[l] # << >>
  BY <1>3, <1>5, <1>6
<1> QED BY ONLY <1>4, <1>7, Zenon DEF r

(* list_del of the first slot of a list. *)
WithoutFirst(q, l) == [q EXCEPT ![l] = Tail(q[l])]

LEMMA Unlink ==
  ASSUME NEW q \in [Queues -> Seq(Tasks)], Placed(q),
         NEW l \in Queues, q[l] # << >>
  PROVE  /\ WithoutFirst(q, l) = ListDel(q, Head(q[l]))
         /\ WithoutFirst(q, l) \in [Queues -> Seq(Tasks)]
         /\ Placed(WithoutFirst(q, l))
         /\ Head(q[l]) \in Tasks /\ Head(q[l]) \in Range(q[l])
         /\ \A m \in Queues, u \in Tasks : u \in Range(WithoutFirst(q, l)[m])
                                         <=> u \in Range(q[m]) /\ u # Head(q[l])
<1> DEFINE r == WithoutFirst(q, l)
           t == Head(q[l])
<1>1. /\ t \in Tasks /\ t \in Range(q[l])
      /\ Tail(q[l]) \in Seq(Tasks)
      /\ Range(Tail(q[l])) = Range(q[l]) \ {t}
      /\ IsInjective(Tail(q[l]))
  BY TailMembers DEF Placed
<1>2. r \in [Queues -> Seq(Tasks)] /\ r[l] = Tail(q[l])
      /\ \A m \in Queues : m # l => r[m] = q[m]
  BY <1>1 DEF WithoutFirst
<1>3. \A m \in Queues, u \in Tasks : u \in Range(r[m]) <=> u \in Range(q[m]) /\ u # t
  BY <1>1, <1>2 DEF Placed
<1>4. Placed(r)
  BY <1>1, <1>2, <1>3 DEF Placed
<1>5. \A m \in Queues : m # l => ~(q[m] # << >> /\ Head(q[m]) = t)
  <2>1. \A m \in Queues : q[m] # << >> => Head(q[m]) \in Range(q[m])
    BY TailMembers DEF Placed
  <2> QED BY <1>1, <2>1 DEF Placed
<1>6. r = ListDel(q, t)
  BY <1>2, <1>5 DEF ListDel, WithoutFirst
<1> HIDE DEF r, t
<1> QED BY ONLY <1>1, <1>2, <1>3, <1>4, <1>6 DEF r, t

(* sched_next_rr() from a consistent pair of lists and states, whoever had *)
(* the processor before.                                                   *)
LEMMA Dispatch ==
  ASSUME NEW q, NEW s, Consistent(q, s, quantum), SchedNextRR(q, s)
  PROVE  IInv' /\ Lost' = LostIn(q, s)
<1> USE Constants, DistinctStates
<1>1. Consistent(q, s, quantum)
  OBVIOUS
<1>2. /\ queue' = Popped(q) /\ state' = [s EXCEPT ![NextTask(q)] = ST_RUN]
      /\ remaining_ticks' = quantum[NextTask(q)] /\ current' = NextTask(q)
      /\ quantum' = quantum
  BY DEF SchedNextRR
<1>3. CASE q[readyqueue] = << >>
  <2>1. NextTask(q) = IdleTask /\ Popped(q) = q
    BY <1>3 DEF NextTask, Popped
  <2>2. Range(q[readyqueue]) = {}
    BY <1>3 DEF Range
  <2>3. \A l \in Queues : IdleTask \notin Range(q[l])
    BY <1>1, <2>2 DEF Consistent, IdleApart, Queues
  <2>4. Consistent(queue', state', quantum')
    BY <1>1, <1>2, <2>1, <2>3 DEF Consistent, Agrees
  <2>5. Running(queue', state', current', remaining_ticks')
    BY <1>1, <1>2, <2>1, <2>3 DEF Consistent, Running, FullQuanta
  <2>6. LostIn(queue', state') = LostIn(q, s)
    BY <1>1, <1>2, <2>1 DEF LostIn, Consistent
  <2> QED BY <2>4, <2>5, <2>6, IInvShapeNext, LostShape
<1>4. CASE q[readyqueue] # << >>
  <2> DEFINE t == Head(q[readyqueue])
  <2>1. NextTask(q) = t /\ Popped(q) = WithoutFirst(q, readyqueue)
    BY <1>4 DEF NextTask, Popped, WithoutFirst
  <2>2. /\ queue' \in [Queues -> Seq(Tasks)] /\ Placed(queue')
        /\ t \in Tasks /\ t \in Range(q[readyqueue])
        /\ \A m \in Queues, u \in Tasks : u \in Range(queue'[m]) <=> u \in Range(q[m]) /\ u # t
    <3>1. q \in [Queues -> Seq(Tasks)] /\ Placed(q)
      BY <1>1 DEF Consistent
    <3>2. queue' = WithoutFirst(q, readyqueue)
      BY <1>2, <2>1
    <3> HIDE <1>1, <1>2
    <3>3. readyqueue \in Queues
      OBVIOUS
    <3> QED BY ONLY <3>1, <3>2, <3>3, <1>4, Unlink
  <2>3. t \notin Range(q[freequeue])
    BY <1>1, <2>2 DEF Consistent, Placed
  <2>4. state' = [s EXCEPT ![t] = ST_RUN] /\ state' \in [Tasks -> States]
    BY <1>1, <1>2, <2>1, <2>2 DEF Consistent
  <2>5. \A u \in Tasks : Agrees(queue', state', u)
    BY <1>1, <2>2, <2>4 DEF Consistent, Agrees
  <2>6. IdleApart(queue')
    BY <1>1, <2>2 DEF Consistent, IdleApart
  <2>7. FullQuanta(queue', quantum')
    BY <1>1, <1>2, <2>2, <2>3 DEF Consistent, FullQuanta
  <2>8. Running(queue', state', current', remaining_ticks')
    <3>1. current' = t /\ remaining_ticks' = quantum[t]
      BY <1>2, <2>1
    <3>2. quantum[t] = IF t = IdleTask THEN 0 ELSE QUANTUM
      BY <1>1, <2>2, <2>3 DEF Consistent, FullQuanta
    <3>3. state'[t] = ST_RUN
      BY <1>1, <2>2, <2>4 DEF Consistent
    <3>4. \A l \in Queues : t \notin Range(queue'[l])
      BY <2>2
    <3> HIDE DEF t
    <3> QED BY <3>1, <3>2, <3>3, <3>4, <2>2 DEF Running
  <2>9. Consistent(queue', state', quantum')
    BY <1>1, <1>2, <2>2, <2>4, <2>5, <2>6, <2>7 DEF Consistent
  <2>10. LostIn(queue', state') = LostIn(q, s)
    BY <1>1, <2>2, <2>4 DEF LostIn, Consistent, Agrees
  <2> QED BY <2>8, <2>9, <2>10, IInvShapeNext, LostShape
<1> QED BY <1>3, <1>4

-----------------------------------------------------------------------------
(* The running task joins a list: what Block, Exit and a preemption do     *)
(* before they dispatch.                                                   *)
LEMMA Leave ==
  ASSUME IInv, NEW l \in Queues, NEW s \in [Tasks -> States],
         \A t \in Tasks \ {current} : s[t] = state[t],
         s[current] = IF l = readyqueue THEN ST_READY
                      ELSE IF l = freequeue THEN ST_RUN ELSE ST_BLOCKED,
         current = IdleTask => l = readyqueue
  PROVE  /\ Consistent(ListAddTail(queue, l, current), s, quantum)
         /\ LostIn(ListAddTail(queue, l, current), s) = Lost
<1> USE Constants, DistinctStates
<1> DEFINE q == ListAddTail(queue, l, current)
<1>1. /\ Consistent(queue, state, quantum)
      /\ Running(queue, state, current, remaining_ticks)
  BY IInvShape
<1>2. /\ q \in [Queues -> Seq(Tasks)] /\ Placed(q)
      /\ \A m \in Queues, u \in Tasks : u \in Range(q[m])
                              <=> u \in Range(queue[m]) \/ (m = l /\ u = current)
  <2>1. /\ queue \in [Queues -> Seq(Tasks)] /\ Placed(queue) /\ current \in Tasks
        /\ \A m \in Queues : current \notin Range(queue[m])
    BY <1>1 DEF Consistent, Running
  <2> QED BY ONLY <2>1, Link, l \in Queues
<1> HIDE DEF q
<1>3. \A t \in Tasks : Agrees(q, s, t)
  BY <1>1, <1>2 DEF Consistent, Running, Agrees, Queues
<1>4. IdleApart(q)
  BY <1>1, <1>2 DEF Consistent, IdleApart
<1>5. FullQuanta(q, quantum)
  BY <1>1, <1>2 DEF Consistent, FullQuanta
<1>6. Consistent(q, s, quantum)
  BY <1>1, <1>2, <1>3, <1>4, <1>5 DEF Consistent
<1>7. LostIn(q, s) = Lost
  BY <1>1, <1>2, LostShape DEF Consistent, Running, LostIn
<1> QED BY <1>6, <1>7 DEF q

LEMMA ClockKeeps == IInv /\ ClockInterrupt => IInv' /\ Lost' = Lost
<1> SUFFICES ASSUME IInv, ClockInterrupt PROVE IInv' /\ Lost' = Lost
  OBVIOUS
<1> USE Constants, DistinctStates
<1> DEFINE r == Decremented(remaining_ticks)
<1>1. /\ Consistent(queue, state, quantum)
      /\ Running(queue, state, current, remaining_ticks)
  BY IInvShape
<1>2. CASE NeedsSchedRR(r) /\ SchedNextRR(Relinked(current, readyqueue), Restated(current, readyqueue))
  <2>1. Relinked(current, readyqueue) = ListAddTail(queue, readyqueue, current)
    BY <1>1 DEF Running, Relinked
  <2>2. Restated(current, readyqueue) = [state EXCEPT ![current] = ST_READY]
    BY DEF Restated
  <2>3. [state EXCEPT ![current] = ST_READY] \in [Tasks -> States]
    BY <1>1 DEF Consistent
  <2>4. /\ Consistent(ListAddTail(queue, readyqueue, current),
                      [state EXCEPT ![current] = ST_READY], quantum)
        /\ LostIn(ListAddTail(queue, readyqueue, current),
                  [state EXCEPT ![current] = ST_READY]) = Lost
    BY <1>1, <2>3, Leave DEF Consistent, Running
  <2> QED BY <1>2, <2>1, <2>2, <2>4, Dispatch
<1>3. CASE /\ ~NeedsSchedRR(r)
           /\ remaining_ticks' = IF r = 0 THEN quantum[current] ELSE r
           /\ UNCHANGED <<queue, state, quantum, current>>
  <2>1. quantum[current] = IF current = IdleTask THEN 0 ELSE QUANTUM
    <3>1. current \notin Range(queue[freequeue]) /\ current \in Tasks
      BY <1>1 DEF Running
    <3> QED BY <1>1, <3>1 DEF Consistent, FullQuanta
  <2>2. Running(queue', state', current', remaining_ticks')
    BY <1>1, <1>3, <2>1 DEF Running, Decremented
  <2>3. Consistent(queue', state', quantum')
    BY <1>1, <1>3
  <2>4. Lost' = Lost
    BY <1>3, LostShape
  <2> QED BY <2>2, <2>3, <2>4, IInvShapeNext
<1> QED BY <1>2, <1>3 DEF ClockInterrupt

LEMMA BlockKeeps ==
  ASSUME NEW l \in WaitQueues PROVE IInv /\ Block(l) => IInv' /\ Lost' = Lost
<1> SUFFICES ASSUME IInv, Block(l) PROVE IInv' /\ Lost' = Lost
  OBVIOUS
<1> USE Constants, DistinctStates
<1>1. /\ Consistent(queue, state, quantum)
      /\ Running(queue, state, current, remaining_ticks)
  BY IInvShape
<1>2. Relinked(current, l) = ListAddTail(queue, l, current)
  BY <1>1 DEF Running, Relinked
<1>3. Restated(current, l) = [state EXCEPT ![current] = ST_BLOCKED]
  BY DEF Restated
<1>4. [state EXCEPT ![current] = ST_BLOCKED] \in [Tasks -> States]
  BY <1>1 DEF Consistent
<1>5. /\ Consistent(ListAddTail(queue, l, current), [state EXCEPT ![current] = ST_BLOCKED], quantum)
      /\ LostIn(ListAddTail(queue, l, current), [state EXCEPT ![current] = ST_BLOCKED]) = Lost
  BY <1>1, <1>4, Leave DEF Block, Consistent, Running
<1> QED BY <1>2, <1>3, <1>5, Dispatch DEF Block

LEMMA ExitKeeps == IInv /\ Exit => IInv' /\ Lost' = Lost
<1> SUFFICES ASSUME IInv, Exit PROVE IInv' /\ Lost' = Lost
  OBVIOUS
<1> USE Constants, DistinctStates
<1>1. /\ Consistent(queue, state, quantum)
      /\ Running(queue, state, current, remaining_ticks)
  BY IInvShape
<1>2. /\ Consistent(ListAddTail(queue, freequeue, current), state, quantum)
      /\ LostIn(ListAddTail(queue, freequeue, current), state) = Lost
  BY <1>1, Leave DEF Exit, Consistent, Running
<1> QED BY <1>2, Dispatch DEF Exit

LEMMA WakeKeeps ==
  ASSUME NEW l \in WaitQueues PROVE IInv /\ Wake(l) => IInv' /\ Lost' = Lost
<1> SUFFICES ASSUME IInv, Wake(l) PROVE IInv' /\ Lost' = Lost
  OBVIOUS
<1> USE Constants, DistinctStates
<1> DEFINE t == Head(queue[l])
           q == WithoutFirst(queue, l)
<1>1. /\ Consistent(queue, state, quantum)
      /\ Running(queue, state, current, remaining_ticks)
      /\ queue[l] # << >> /\ l \in Queues
  BY IInvShape DEF Wake
<1>2. /\ q \in [Queues -> Seq(Tasks)] /\ Placed(q)
      /\ t \in Tasks /\ t \in Range(queue[l])
      /\ \A m \in Queues, u \in Tasks : u \in Range(q[m]) <=> u \in Range(queue[m]) /\ u # t
      /\ q = ListDel(queue, t)
  <2>1. queue \in [Queues -> Seq(Tasks)] /\ Placed(queue)
    BY <1>1 DEF Consistent
  <2> QED BY ONLY <1>1, <2>1, Unlink
<1>3. state[t] = ST_BLOCKED /\ t # current /\ t # IdleTask /\ t \notin Range(queue[freequeue])
  BY <1>1, <1>2 DEF Consistent, Agrees, Running, IdleApart, Placed
<1> HIDE DEF q, t
<1>4. /\ queue' = ListAddTail(q, readyqueue, t)
      /\ state' = [state EXCEPT ![t] = ST_READY]
      /\ UNCHANGED <<quantum, current, remaining_ticks>>
  BY <1>2, <1>3 DEF Wake, Relinked, Restated, t
<1>5. /\ queue' \in [Queues -> Seq(Tasks)] /\ Placed(queue')
      /\ \A m \in Queues, u \in Tasks : u \in Range(queue'[m])
                              <=> u \in Range(q[m]) \/ (m = readyqueue /\ u = t)
  <2>1. readyqueue \in Queues
    OBVIOUS
  <2> QED BY ONLY <2>1, <1>2, <1>4, Link
<1>6. \A u \in Tasks : Agrees(queue', state', u)
  BY <1>1, <1>2, <1>3, <1>4, <1>5 DEF Consistent, Agrees, Queues
<1>7. IdleApart(queue') /\ FullQuanta(queue', quantum')
  BY <1>1, <1>2, <1>3, <1>4, <1>5 DEF Consistent, IdleApart, FullQuanta
<1>8. Consistent(queue', state', quantum')
  BY <1>1, <1>2, <1>4, <1>5, <1>6, <1>7 DEF Consistent
<1>9. Running(queue', state', current', remaining_ticks')
  BY <1>1, <1>2, <1>3, <1>4, <1>5 DEF Consistent, Running
<1>10. Lost' = Lost
  BY <1>1, <1>2, <1>3, <1>4, <1>5, LostShape DEF Consistent, LostIn
<1> QED BY <1>8, <1>9, <1>10, IInvShapeNext

LEMMA SpawnKeeps == IInv /\ Spawn => IInv' /\ Lost' = Lost
<1> SUFFICES ASSUME IInv, Spawn PROVE IInv' /\ Lost' = Lost
  OBVIOUS
<1> USE Constants, DistinctStates
<1> DEFINE q == WithoutFirst(queue, freequeue)
<1>1. /\ Consistent(queue, state, quantum)
      /\ Running(queue, state, current, remaining_ticks)
      /\ queue[freequeue] # << >> /\ current # IdleTask
  BY IInvShape DEF Spawn
<1>2. /\ q \in [Queues -> Seq(Tasks)] /\ Placed(q)
      /\ Child \in Tasks /\ Child \in Range(queue[freequeue])
      /\ \A m \in Queues, u \in Tasks : u \in Range(q[m]) <=> u \in Range(queue[m]) /\ u # Child
  <2>1. queue \in [Queues -> Seq(Tasks)] /\ Placed(queue)
    BY <1>1 DEF Consistent
  <2>2. freequeue \in Queues
    OBVIOUS
  <2> QED BY ONLY <1>1, <2>1, <2>2, Unlink DEF Child
<1>3. Child # current /\ Child # IdleTask
  BY <1>1, <1>2 DEF Consistent, Running, IdleApart
<1> HIDE DEF q
<1>4. /\ queue' = ListAddTail(q, readyqueue, Child)
      /\ state' = [state EXCEPT ![Child] = ST_RUN]
      /\ quantum' = [quantum EXCEPT ![Child] = QUANTUM]
      /\ UNCHANGED <<current, remaining_ticks>>
  <2>1. queue' = ListAddTail(q, readyqueue, Child)
    BY <1>1 DEF Spawn, ListAddTail, WithoutFirst, q, Consistent
  <2>2. state[current] = ST_RUN /\ quantum[current] = QUANTUM
    BY <1>1 DEF Running, Consistent, FullQuanta
  <2> QED BY <2>1, <2>2 DEF Spawn
<1>5. /\ queue' \in [Queues -> Seq(Tasks)] /\ Placed(queue')
      /\ \A m \in Queues, u \in Tasks : u \in Range(queue'[m])
                              <=> u \in Range(q[m]) \/ (m = readyqueue /\ u = Child)
  <2>1. readyqueue \in Queues
    OBVIOUS
  <2> QED BY ONLY <2>1, <1>2, <1>4, Link
<1>6. /\ state' \in [Tasks -> States] /\ quantum' \in [Tasks -> {0, QUANTUM}]
  BY <1>1, <1>2, <1>4 DEF Consistent
<1>7. \A u \in Tasks : Agrees(queue', state', u)
  BY <1>1, <1>2, <1>3, <1>4, <1>5 DEF Consistent, Agrees, Queues
<1>8. IdleApart(queue') /\ FullQuanta(queue', quantum')
  BY <1>1, <1>2, <1>3, <1>4, <1>5 DEF Consistent, IdleApart, FullQuanta
<1>9. Consistent(queue', state', quantum')
  <2>1. state'[IdleTask] # ST_BLOCKED
    BY <1>1, <1>2, <1>3, <1>4 DEF Consistent
  <2> QED BY <2>1, <1>5, <1>6, <1>7, <1>8 DEF Consistent
<1>10. Running(queue', state', current', remaining_ticks')
  BY <1>1, <1>2, <1>3, <1>4, <1>5 DEF Consistent, Running
<1>11. Lost' = Lost
  <2>1. state[Child] = ST_RUN
    BY <1>1, <1>2 DEF Consistent, Agrees
  <2> QED BY <2>1, <1>1, <1>2, <1>4, <1>5, LostShape DEF Consistent, LostIn
<1> QED BY <1>9, <1>10, <1>11, IInvShapeNext

LEMMA WakeAllKeeps ==
  ASSUME NEW l \in WaitQueues PROVE IInv /\ WakeAll(l) => IInv' /\ Lost' = Lost
<1> SUFFICES ASSUME IInv, WakeAll(l) PROVE IInv' /\ Lost' = Lost
  OBVIOUS
<1> USE Constants, DistinctStates
<1>1. /\ Consistent(queue, state, quantum)
      /\ Running(queue, state, current, remaining_ticks)
      /\ l \in Queues
  BY IInvShape
<1>2. /\ queue' = [queue EXCEPT ![l] = << >>, ![readyqueue] = queue[readyqueue] \o queue[l]]
      /\ state' = [t \in Tasks |-> IF t \in Range(queue[l]) THEN ST_READY ELSE state[t]]
      /\ UNCHANGED <<quantum, current, remaining_ticks>>
  BY DEF WakeAll, On
<1>3. /\ queue[readyqueue] \o queue[l] \in Seq(Tasks)
      /\ Range(queue[readyqueue] \o queue[l]) = Range(queue[readyqueue]) \cup Range(queue[l])
      /\ IsInjective(queue[readyqueue] \o queue[l])
  <2>1. /\ queue[readyqueue] \in Seq(Tasks) /\ queue[l] \in Seq(Tasks)
        /\ IsInjective(queue[readyqueue]) /\ IsInjective(queue[l])
        /\ \A x \in Tasks : ~(x \in Range(queue[readyqueue]) /\ x \in Range(queue[l]))
    BY <1>1 DEF Consistent, Placed
  <2> QED BY ONLY <2>1, ConcatMembers
<1>4. << >> \in Seq(Tasks) /\ Range(<< >>) = {} /\ IsInjective(<< >>)
  BY DEF Range, IsInjective
<1>5. /\ queue' \in [Queues -> Seq(Tasks)]
      /\ queue'[l] = << >> /\ queue'[readyqueue] = queue[readyqueue] \o queue[l]
      /\ \A m \in Queues \ {l, readyqueue} : queue'[m] = queue[m]
  BY <1>1, <1>2, <1>3, <1>4 DEF Consistent
<1>6. /\ \A m \in Queues : Range(queue'[m]) =
           IF m = l THEN {}
           ELSE IF m = readyqueue THEN Range(queue[m]) \cup Range(queue[l])
           ELSE Range(queue[m])
  BY <1>3, <1>4, <1>5
<1>7. Placed(queue')
  BY <1>1, <1>3, <1>4, <1>5, <1>6 DEF Placed, Consistent
<1>8. \A u \in Tasks : Agrees(queue', state', u)
  <2>1. \A m \in Queues, u \in Tasks : u \in Range(queue'[m])
          <=> m # l /\ (u \in Range(queue[m]) \/ (m = readyqueue /\ u \in Range(queue[l])))
    BY <1>6
  <2>2. \A u \in Tasks : state'[u] = IF u \in Range(queue[l]) THEN ST_READY ELSE state[u]
    BY <1>2
  <2> QED BY <1>1, <2>1, <2>2 DEF Consistent, Agrees, Queues, Placed
<1>9. IdleApart(queue') /\ FullQuanta(queue', quantum')
  <2>1. \A m \in WaitQueues \cup {freequeue} : IdleTask \notin Range(queue'[m])
    BY <1>1, <1>6 DEF Consistent, IdleApart
  <2>2. Range(queue'[freequeue]) = Range(queue[freequeue])
    BY <1>6
  <2> QED BY <1>1, <1>2, <2>1, <2>2 DEF Consistent, IdleApart, FullQuanta
<1>10. state' \in [Tasks -> States] /\ quantum' \in [Tasks -> {0, QUANTUM}]
  BY <1>1, <1>2 DEF Consistent
<1>11. Consistent(queue', state', quantum')
  <2>1. state'[IdleTask] # ST_BLOCKED
    BY <1>1, <1>2 DEF Consistent
  <2> QED BY <2>1, <1>5, <1>7, <1>8, <1>9, <1>10 DEF Consistent
<1>12. Running(queue', state', current', remaining_ticks')
  <2>1. state'[current] = ST_RUN
    BY <1>1, <1>2 DEF Running
  <2>2. \A m \in Queues : current \notin Range(queue[m])
    BY <1>1 DEF Running
  <2>3. \A m \in Queues : current \notin Range(queue'[m])
    <3> TAKE m \in Queues
    <3>1. \/ Range(queue'[m]) = {}
          \/ Range(queue'[m]) = Range(queue[readyqueue]) \cup Range(queue[l])
          \/ Range(queue'[m]) = Range(queue[m])
      BY <1>6
    <3> QED BY <1>1, <2>2, <3>1
  <2> QED BY <1>1, <1>2, <2>1, <2>3 DEF Running
<1>13. Lost' = Lost
  <2>1. \A m \in Queues, u \in Tasks : u \in Range(queue'[m])
          <=> m # l /\ (u \in Range(queue[m]) \/ (m = readyqueue /\ u \in Range(queue[l])))
    BY <1>6
  <2>2. \A u \in Tasks : state'[u] = IF u \in Range(queue[l]) THEN ST_READY ELSE state[u]
    BY <1>2
  <2> QED BY <1>1, <2>1, <2>2, LostShape DEF LostIn, Queues
<1> QED BY <1>11, <1>12, <1>13, IInvShapeNext

LEMMA ResetKeeps ==
  ASSUME NEW l \in WaitQueues, IInv, ResetQueue(l)
  PROVE  /\ IInv'
         /\ Lost \subseteq Lost'
         /\ \A t \in Lost' \ Lost : On(t, l)
         /\ queue'[l] = << >>
<1> USE Constants, DistinctStates
<1>1. /\ Consistent(queue, state, quantum)
      /\ Running(queue, state, current, remaining_ticks)
      /\ l \in Queues
  BY IInvShape
<1>2. /\ queue' = [queue EXCEPT ![l] = << >>]
      /\ UNCHANGED <<state, quantum, current, remaining_ticks>>
  BY DEF ResetQueue
<1>3. << >> \in Seq(Tasks) /\ Range(<< >>) = {} /\ IsInjective(<< >>)
  BY DEF Range, IsInjective
<1>4. /\ queue' \in [Queues -> Seq(Tasks)]
      /\ queue'[l] = << >> /\ \A m \in Queues \ {l} : queue'[m] = queue[m]
  BY <1>1, <1>2, <1>3 DEF Consistent
<1>5. Placed(queue')
  BY <1>1, <1>3, <1>4 DEF Placed, Consistent
<1>6. \A m \in Queues : Range(queue'[m]) = IF m = l THEN {} ELSE Range(queue[m])
  BY <1>3, <1>4
<1>7. \A u \in Tasks : Agrees(queue', state', u)
  BY <1>1, <1>2, <1>6 DEF Consistent, Agrees
<1>8. IdleApart(queue') /\ FullQuanta(queue', quantum')
  BY <1>1, <1>2, <1>6 DEF Consistent, IdleApart, FullQuanta
<1>9. Consistent(queue', state', quantum')
  BY <1>1, <1>2, <1>4, <1>5, <1>7, <1>8 DEF Consistent
<1>10. Running(queue', state', current', remaining_ticks')
  BY <1>1, <1>2, <1>6 DEF Running
<1>11. Lost \subseteq Lost' /\ (\A t \in Lost' \ Lost : On(t, l)) /\ queue'[l] = << >>
  BY <1>1, <1>2, <1>4, <1>6, LostShape DEF LostIn, On
<1> QED BY <1>9, <1>10, <1>11, IInvShapeNext

LEMMA StrandKeeps ==
  ASSUME NEW l \in WaitQueues, IInv, Strand(l)
  PROVE  /\ IInv'
         /\ Lost' = Lost \cup {Head(queue[l])}
         /\ Head(queue[l]) \in Tasks /\ On(Head(queue[l]), l)
         /\ queue' = WithoutFirst(queue, l) /\ queue'[l] = Tail(queue[l])
<1> USE Constants, DistinctStates
<1> DEFINE t == Head(queue[l])
<1>1. /\ Consistent(queue, state, quantum)
      /\ Running(queue, state, current, remaining_ticks)
      /\ l \in Queues /\ queue[l] # << >>
      /\ queue \in [Queues -> Seq(Tasks)] /\ Placed(queue)
  BY IInvShape DEF Strand, Consistent
<1>2. /\ queue' = ListDel(queue, t)
      /\ UNCHANGED <<state, quantum, current, remaining_ticks>>
  BY DEF Strand
<1>3. /\ queue' = WithoutFirst(queue, l)
      /\ queue' \in [Queues -> Seq(Tasks)] /\ Placed(queue')
      /\ t \in Tasks /\ t \in Range(queue[l])
      /\ \A m \in Queues, u \in Tasks : u \in Range(queue'[m]) <=> u \in Range(queue[m]) /\ u # t
  BY ONLY <1>1, <1>2, Unlink
<1>4. queue'[l] = Tail(queue[l])
  BY <1>1, <1>3 DEF WithoutFirst
<1> HIDE DEF t
<1>5. \A m \in Queues : t \in Range(queue[m]) => m = l
  BY <1>1, <1>3 DEF Placed
<1>6. state[t] = ST_BLOCKED /\ t # IdleTask
  BY <1>1, <1>3 DEF Consistent, Agrees, IdleApart
<1>7. \A u \in Tasks : Agrees(queue', state', u)
  BY <1>1, <1>2, <1>3, <1>6 DEF Consistent, Agrees
<1>8. IdleApart(queue') /\ FullQuanta(queue', quantum')
  BY <1>1, <1>2, <1>3, <1>5 DEF Consistent, IdleApart, FullQuanta
<1>9. Consistent(queue', state', quantum')
  BY <1>1, <1>2, <1>3, <1>7, <1>8 DEF Consistent
<1>10. Running(queue', state', current', remaining_ticks')
  BY <1>1, <1>2, <1>3 DEF Running
<1>11. Lost' = Lost \cup {t}
  BY <1>2, <1>3, <1>5, <1>6, LostShape DEF LostIn
<1>12. On(t, l)
  BY <1>3 DEF On
<1> QED BY <1>3, <1>4, <1>9, <1>10, <1>11, <1>12, IInvShapeNext DEF t

-----------------------------------------------------------------------------
(* Where each pattern leaves the tasks: the members of every list and the  *)
(* running task afterwards.  What builds on the scheduler rests on these.  *)
Members(m) == Range(queue[m])

(* The running task joins the list l, and sched_next_rr() dispatches.      *)
LEMMA JoinPlaces ==
  ASSUME IInv, NEW l \in Queues, NEW s,
         Consistent(ListAddTail(queue, l, current), s, quantum),
         SchedNextRR(ListAddTail(queue, l, current), s)
  PROVE  /\ current' \in Tasks
         /\ \/ current' = IdleTask
            \/ current' \in Members(readyqueue)
            \/ l = readyqueue /\ current' = current
         /\ \A m \in Queues, u \in Tasks :
              u \in Members(m)' <=> /\ u \in Members(m) \/ (m = l /\ u = current)
                                   /\ ~(m = readyqueue /\ u = current')
         /\ \A m \in Queues \ {l, readyqueue} : queue'[m] = queue[m]
<1> USE Constants
<1> DEFINE q == ListAddTail(queue, l, current)
<1>1. /\ queue \in [Queues -> Seq(Tasks)] /\ Placed(queue) /\ current \in Tasks
      /\ \A m \in Queues : current \notin Range(queue[m])
  BY IInvShape DEF Consistent, Running
<1>2. /\ q \in [Queues -> Seq(Tasks)] /\ Placed(q)
      /\ \A m \in Queues, u \in Tasks : u \in Range(q[m])
                              <=> u \in Range(queue[m]) \/ (m = l /\ u = current)
  BY ONLY <1>1, Link, l \in Queues
<1>3. \A m \in Queues \ {l} : q[m] = queue[m]
  BY <1>1 DEF ListAddTail
<1>4. queue' = Popped(q) /\ current' = NextTask(q)
  BY DEF SchedNextRR
<1>5. \A u \in Tasks : Agrees(q, s, u)
  BY DEF Consistent
<1> HIDE DEF q
<1>6. CASE q[readyqueue] = << >>
  <2>1. queue' = q /\ current' = IdleTask
    BY <1>4, <1>6 DEF Popped, NextTask
  <2>2. Range(q[readyqueue]) = {}
    BY <1>6 DEF Range
  <2> QED BY <1>2, <1>3, <2>1, <2>2 DEF Members
<1>7. CASE q[readyqueue] # << >>
  <2>1. queue' = WithoutFirst(q, readyqueue) /\ current' = Head(q[readyqueue])
    BY <1>4, <1>7 DEF Popped, NextTask, WithoutFirst
  <2>2. /\ current' \in Tasks /\ current' \in Range(q[readyqueue])
        /\ \A m \in Queues, u \in Tasks : u \in Range(queue'[m])
                                          <=> u \in Range(q[m]) /\ u # current'
    BY <1>2, <1>7, <2>1, Unlink
  <2>3. \A m \in Queues : current' \in Range(q[m]) => m = readyqueue
    BY <1>2, <2>2 DEF Placed
  <2>4. \A m \in Queues \ {readyqueue} : queue'[m] = q[m]
    BY <1>2, <2>1 DEF WithoutFirst
  <2> QED BY <1>2, <1>3, <2>2, <2>3, <2>4 DEF Members
<1> QED BY <1>6, <1>7

LEMMA ClockPlaces ==
  ASSUME IInv, ClockInterrupt
  PROVE  /\ current' \in Tasks
         /\ current' \in {current, IdleTask} \cup Members(readyqueue)
         /\ \A m \in Queues \ {readyqueue} : queue'[m] = queue[m]
         /\ \A u \in Tasks : u \in Members(readyqueue)'
              <=> u \in Members(readyqueue) \cup {current} /\ u # current'
<1> USE Constants, DistinctStates
<1>1. /\ Consistent(queue, state, quantum)
      /\ Running(queue, state, current, remaining_ticks)
  BY IInvShape
<1>2. CASE SchedNextRR(Relinked(current, readyqueue), Restated(current, readyqueue))
  <2>1. Relinked(current, readyqueue) = ListAddTail(queue, readyqueue, current)
    BY <1>1 DEF Running, Relinked
  <2>2. /\ Restated(current, readyqueue) \in [Tasks -> States]
        /\ Restated(current, readyqueue) = [state EXCEPT ![current] = ST_READY]
    BY <1>1 DEF Consistent, Restated
  <2>3. Consistent(ListAddTail(queue, readyqueue, current), Restated(current, readyqueue), quantum)
    BY <1>1, <2>2, Leave DEF Consistent, Running
  <2> QED BY <1>1, <1>2, <2>1, <2>3, JoinPlaces
<1>3. CASE UNCHANGED <<queue, current>>
  BY <1>1, <1>3 DEF Running, Members
<1> QED BY <1>2, <1>3 DEF ClockInterrupt

LEMMA BlockPlaces ==
  ASSUME IInv, NEW l \in WaitQueues, Block(l)
  PROVE  /\ current # IdleTask /\ current' # current
         /\ current' \in Tasks
         /\ current' \in {IdleTask} \cup Members(readyqueue)
         /\ \A m \in Queues \ {l, readyqueue} : queue'[m] = queue[m]
         /\ \A u \in Tasks : /\ u \in Members(l)' <=> u \in Members(l) \cup {current}
                             /\ u \in Members(readyqueue)'
                                  <=> u \in Members(readyqueue) /\ u # current'
<1> USE Constants, DistinctStates
<1>1. /\ Consistent(queue, state, quantum)
      /\ Running(queue, state, current, remaining_ticks)
  BY IInvShape
<1>2. Relinked(current, l) = ListAddTail(queue, l, current)
  BY <1>1 DEF Running, Relinked
<1>3. /\ Restated(current, l) = [state EXCEPT ![current] = ST_BLOCKED]
      /\ Restated(current, l) \in [Tasks -> States]
  BY <1>1 DEF Consistent, Restated
<1>4. Consistent(ListAddTail(queue, l, current), Restated(current, l), quantum)
  BY <1>1, <1>3, Leave DEF Block, Consistent, Running
<1>5. SchedNextRR(ListAddTail(queue, l, current), Restated(current, l)) /\ current # IdleTask
  BY <1>2 DEF Block
<1>6. current \in Tasks /\ current \notin Members(readyqueue)
  BY <1>1 DEF Running, Members
<1> QED BY ONLY <1>4, <1>5, <1>6, JoinPlaces, Constants, l \in WaitQueues, IInv

LEMMA ExitPlaces ==
  ASSUME IInv, Exit
  PROVE  /\ current # IdleTask /\ current' # current
         /\ current' \in Tasks
         /\ current' \in {IdleTask} \cup Members(readyqueue)
         /\ \A m \in WaitQueues : queue'[m] = queue[m]
         /\ \A u \in Tasks : /\ u \in Members(freequeue)' <=> u \in Members(freequeue) \cup {current}
                             /\ u \in Members(readyqueue)'
                                  <=> u \in Members(readyqueue) /\ u # current'
<1> USE Constants, DistinctStates
<1>1. /\ Consistent(queue, state, quantum)
      /\ Running(queue, state, current, remaining_ticks)
  BY IInvShape
<1>2. Consistent(ListAddTail(queue, freequeue, current), state, quantum)
  BY <1>1, Leave DEF Exit, Consistent, Running
<1>3. SchedNextRR(ListAddTail(queue, freequeue, current), state) /\ current # IdleTask
  BY DEF Exit
<1>4. current \in Tasks /\ current \notin Members(readyqueue)
  BY <1>1 DEF Running, Members
<1> QED BY ONLY <1>2, <1>3, <1>4, JoinPlaces, Constants, IInv

LEMMA SpawnPlaces ==
  ASSUME IInv, Spawn
  PROVE  /\ Child \in Tasks /\ Child \in Members(freequeue)
         /\ Child # current /\ current # IdleTask /\ current' = current
         /\ state[Child] = ST_RUN
         /\ \A m \in WaitQueues : queue'[m] = queue[m] /\ Child \notin Members(m)
         /\ Child \notin Members(readyqueue)
         /\ \A u \in Tasks : /\ u \in Members(freequeue)' <=> u \in Members(freequeue) /\ u # Child
                             /\ u \in Members(readyqueue)' <=> u \in Members(readyqueue) \cup {Child}
<1> USE Constants
<1>1. /\ Consistent(queue, state, quantum)
      /\ Running(queue, state, current, remaining_ticks)
      /\ queue[freequeue] # << >> /\ current # IdleTask
  BY IInvShape DEF Spawn
<1>2. queue[freequeue] \in Seq(Tasks) /\ queue[readyqueue] \in Seq(Tasks) /\ IsInjective(queue[freequeue])
  BY <1>1 DEF Consistent, Placed
<1>3. /\ Child \in Tasks /\ Child \in Range(queue[freequeue])
      /\ Range(Tail(queue[freequeue])) = Range(queue[freequeue]) \ {Child}
  BY ONLY <1>1, <1>2, TailMembers DEF Child
<1>4. Range(Append(queue[readyqueue], Child)) = Range(queue[readyqueue]) \cup {Child}
  BY ONLY <1>2, <1>3, AppendMembers
<1>5. /\ queue' = [queue EXCEPT ![freequeue] = Tail(queue[freequeue]),
                                ![readyqueue] = Append(queue[readyqueue], Child)]
      /\ current' = current
  BY DEF Spawn
<1>6. /\ queue'[freequeue] = Tail(queue[freequeue])
      /\ queue'[readyqueue] = Append(queue[readyqueue], Child)
      /\ \A m \in WaitQueues : queue'[m] = queue[m]
  BY <1>1, <1>5 DEF Consistent
<1>7. \A m \in Queues : Child \in Range(queue[m]) => m = freequeue
  BY <1>1, <1>3 DEF Consistent, Placed
<1>8. Child # current /\ state[Child] = ST_RUN
  BY <1>1, <1>3 DEF Consistent, Agrees, Running
<1> QED BY <1>1, <1>3, <1>4, <1>5, <1>6, <1>7, <1>8 DEF Members

LEMMA WakePlaces ==
  ASSUME IInv, NEW l \in WaitQueues, Wake(l)
  PROVE  /\ current' = current
         /\ Head(queue[l]) \in Tasks /\ Head(queue[l]) \in Members(l)
         /\ \A m \in Queues \ {l, readyqueue} : queue'[m] = queue[m]
         /\ \A u \in Tasks :
              /\ u \in Members(l)' <=> u \in Members(l) /\ u # Head(queue[l])
              /\ u \in Members(readyqueue)' <=> u \in Members(readyqueue) \cup {Head(queue[l])}
<1> USE Constants, DistinctStates
<1> DEFINE t == Head(queue[l])
           q == WithoutFirst(queue, l)
<1>1. /\ Consistent(queue, state, quantum) /\ queue[l] # << >> /\ l \in Queues
  BY IInvShape DEF Wake
<1>2. queue \in [Queues -> Seq(Tasks)] /\ Placed(queue)
  BY <1>1 DEF Consistent
<1>3. /\ q \in [Queues -> Seq(Tasks)] /\ Placed(q)
      /\ q = ListDel(queue, t)
      /\ t \in Tasks /\ t \in Range(queue[l])
      /\ \A m \in Queues, u \in Tasks : u \in Range(q[m]) <=> u \in Range(queue[m]) /\ u # t
  BY ONLY <1>1, <1>2, Unlink
<1>4. \A m \in Queues \ {l} : q[m] = queue[m]
  BY <1>2 DEF WithoutFirst
<1>5. state[t] # ST_RUN
  BY <1>1, <1>3 DEF Consistent, Agrees
<1>6. current' = current /\ queue' = ListAddTail(q, readyqueue, t)
  BY <1>3, <1>5 DEF Wake, Relinked
<1> HIDE DEF q, t
<1>7. \A m \in Queues : t \notin Range(q[m])
  BY <1>3
<1>8. \A m \in Queues, u \in Tasks : u \in Range(queue'[m])
                              <=> u \in Range(q[m]) \/ (m = readyqueue /\ u = t)
  <2>1. readyqueue \in Queues
    OBVIOUS
  <2>2. q \in [Queues -> Seq(Tasks)] /\ Placed(q) /\ t \in Tasks
    BY <1>3
  <2> QED BY ONLY <2>1, <2>2, <1>6, <1>7, Link
<1>9. \A m \in Queues \ {readyqueue} : queue'[m] = q[m]
  BY <1>3, <1>6 DEF ListAddTail
<1>10. \A m \in Queues : t \in Range(queue[m]) => m = l
  BY <1>1, <1>2, <1>3 DEF Placed
<1> QED BY <1>1, <1>3, <1>4, <1>6, <1>8, <1>9, <1>10 DEF Members, t

LEMMA WakeAllPlaces ==
  ASSUME IInv, NEW l \in WaitQueues, WakeAll(l)
  PROVE  /\ current' = current
         /\ \A m \in Queues \ {l, readyqueue} : queue'[m] = queue[m]
         /\ queue'[l] = << >> /\ Members(l)' = {}
         /\ Members(readyqueue)' = Members(readyqueue) \cup Members(l)
<1> USE Constants
<1>1. queue \in [Queues -> Seq(Tasks)] /\ l \in Queues
  BY IInvShape DEF Consistent
<1>2. queue' = [queue EXCEPT ![l] = << >>, ![readyqueue] = queue[readyqueue] \o queue[l]]
  BY DEF WakeAll
<1>3. /\ queue'[l] = << >> /\ queue'[readyqueue] = queue[readyqueue] \o queue[l]
      /\ \A m \in Queues \ {l, readyqueue} : queue'[m] = queue[m]
  BY <1>1, <1>2
<1>4. Range(queue[readyqueue] \o queue[l]) = Range(queue[readyqueue]) \cup Range(queue[l])
  BY ONLY <1>1, ConcatMembers, Constants
<1>5. Range(<< >>) = {}
  BY DEF Range
<1>6. current' = current
  BY DEF WakeAll
<1> QED BY <1>3, <1>4, <1>5, <1>6 DEF Members

LEMMA ResetPlaces ==
  ASSUME IInv, NEW l \in WaitQueues, ResetQueue(l)
  PROVE  /\ current' = current /\ state' = state
         /\ \A m \in Queues \ {l} : queue'[m] = queue[m]
         /\ queue'[l] = << >> /\ Members(l)' = {}
<1> USE Constants
<1>1. queue \in [Queues -> Seq(Tasks)] /\ l \in Queues
  BY IInvShape DEF Consistent
<1>2. queue' = [queue EXCEPT ![l] = << >>] /\ current' = current /\ state' = state
  BY DEF ResetQueue
<1>3. Range(<< >>) = {}
  BY DEF Range
<1> QED BY <1>1, <1>2, <1>3 DEF Members

LEMMA StrandPlaces ==
  ASSUME IInv, NEW l \in WaitQueues, Strand(l)
  PROVE  /\ current' = current /\ state' = state
         /\ Head(queue[l]) \in Tasks /\ Head(queue[l]) \in Members(l)
         /\ \A m \in Queues \ {l} : queue'[m] = queue[m]
         /\ \A u \in Tasks : u \in Members(l)' <=> u \in Members(l) /\ u # Head(queue[l])
<1> USE Constants
<1>1. /\ queue \in [Queues -> Seq(Tasks)] /\ Placed(queue)
      /\ l \in Queues /\ queue[l] # << >>
      /\ queue' = WithoutFirst(queue, l) /\ UNCHANGED <<current, state>>
  BY IInvShape, StrandKeeps DEF Strand, Consistent
<1>2. /\ Head(queue[l]) \in Tasks /\ Head(queue[l]) \in Range(queue[l])
      /\ \A u \in Tasks : u \in Range(queue'[l]) <=> u \in Range(queue[l]) /\ u # Head(queue[l])
  BY <1>1, Unlink
<1>3. \A m \in Queues \ {l} : queue'[m] = queue[m]
  BY <1>1 DEF WithoutFirst
<1> QED BY <1>1, <1>2, <1>3 DEF Members

-----------------------------------------------------------------------------
LEMMA InitPlaces ==
  ASSUME SchedInit
  PROVE  /\ queue \in [Queues -> Seq(Tasks)] /\ Placed(queue)
         /\ \A l \in Queues \ {freequeue} : Members(l) = {}
         /\ \A t \in Tasks : t \in Members(freequeue) <=> t # IdleTask /\ t # Task1
<1> USE Constants
<1>1. /\ queue \in [Queues -> Seq(Tasks)]
      /\ queue[freequeue] = [i \in 1 .. NR_TASKS - 2 |-> NR_TASKS - 2 - i]
      /\ \A l \in Queues \ {freequeue} : queue[l] = << >>
  <2>1. [i \in 1 .. NR_TASKS - 2 |-> NR_TASKS - 2 - i] \in Seq(Tasks)
    BY SchedAssumption DEF Tasks
  <2>2. << >> \in Seq(Tasks)
    OBVIOUS
  <2> DEFINE free == [i \in 1 .. NR_TASKS - 2 |-> NR_TASKS - 2 - i]
  <2>3. queue = [l \in Queues |-> IF l = freequeue THEN free ELSE << >>]
    BY DEF SchedInit
  <2> HIDE DEF free
  <2>4. /\ queue \in [Queues -> Seq(Tasks)] /\ queue[freequeue] = free
        /\ \A l \in Queues \ {freequeue} : queue[l] = << >>
    BY <2>1, <2>2, <2>3 DEF free
  <2> QED BY <2>4 DEF free
<1>2. /\ \A l \in Queues \ {freequeue} : Range(queue[l]) = {} /\ IsInjective(queue[l])
      /\ IsInjective(queue[freequeue])
      /\ \A t \in Tasks : t \in Range(queue[freequeue]) <=> t # IdleTask /\ t # Task1
  <2>1. Range(<< >>) = {} /\ IsInjective(<< >>)
    BY DEF Range, IsInjective
  <2>2. IsInjective(queue[freequeue])
    BY <1>1, SchedAssumption DEF IsInjective
  <2>3. \A t \in Tasks : t \in Range(queue[freequeue]) => t # IdleTask /\ t # Task1
    BY <1>1, SchedAssumption DEF Range, Tasks, IdleTask, Task1
  <2>4. ASSUME NEW t \in Tasks, t # IdleTask, t # Task1 PROVE t \in Range(queue[freequeue])
    <3>1. NR_TASKS - 2 - t \in 1 .. NR_TASKS - 2
      BY <2>4, SchedAssumption DEF Tasks, IdleTask, Task1
    <3>2. queue[freequeue][NR_TASKS - 2 - t] = t
      BY <1>1, <3>1, SchedAssumption DEF Tasks
    <3> QED BY <1>1, <3>1, <3>2 DEF Range
  <2>5. \A l \in Queues \ {freequeue} : Range(queue[l]) = {} /\ IsInjective(queue[l])
    BY <1>1, <2>1
  <2> QED BY <2>2, <2>3, <2>4, <2>5
<1> QED BY <1>1, <1>2 DEF Placed, Members

LEMMA InitHolds == SchedInit => IInv
<1> SUFFICES ASSUME SchedInit PROVE IInv
  OBVIOUS
<1> USE Constants, DistinctStates
<1>1. /\ queue \in [Queues -> Seq(Tasks)] /\ Placed(queue)
      /\ \A l \in Queues \ {freequeue} : Range(queue[l]) = {}
      /\ \A t \in Tasks : t \in Range(queue[freequeue]) <=> t # IdleTask /\ t # Task1
  BY InitPlaces DEF Members
<1>2. /\ state \in [Tasks -> States] /\ \A t \in Tasks : state[t] = ST_RUN
      /\ quantum \in [Tasks -> {0, QUANTUM}]
      /\ \A t \in Tasks : quantum[t] = IF t = Task1 THEN QUANTUM ELSE 0
      /\ current = Task1 /\ remaining_ticks \in 1 .. QUANTUM
  BY SchedAssumption DEF SchedInit
<1>3. /\ \A t \in Tasks : Agrees(queue, state, t)
      /\ IdleApart(queue) /\ FullQuanta(queue, quantum)
  BY <1>1, <1>2 DEF Agrees, IdleApart, FullQuanta
<1>4. Running(queue, state, current, remaining_ticks)
  BY <1>1, <1>2 DEF Running
<1> QED BY <1>1, <1>2, <1>3, <1>4, IInvShape DEF Consistent

LEMMA StepKeeps ==
  IInv /\ [SchedNext]_schedVars =>
    IInv' /\ Lost \subseteq Lost' /\ \A t \in Lost' \ Lost : LeavesUnready(t)
<1> DEFINE Goal == IInv' /\ Lost \subseteq Lost' /\ \A t \in Lost' \ Lost : LeavesUnready(t)
<1> SUFFICES ASSUME IInv, [SchedNext]_schedVars PROVE Goal
  OBVIOUS
<1>1. CASE ClockInterrupt
  BY <1>1, ClockKeeps
<1>2. ASSUME NEW l \in WaitQueues, Block(l) PROVE Goal
  BY <1>2, BlockKeeps
<1>3. ASSUME NEW l \in WaitQueues, Wake(l) PROVE Goal
  BY <1>3, WakeKeeps
<1>4. ASSUME NEW l \in WaitQueues, WakeAll(l) PROVE Goal
  BY <1>4, WakeAllKeeps
<1>5. ASSUME NEW l \in WaitQueues, ResetQueue(l) PROVE Goal
  BY <1>5, ResetKeeps DEF LeavesUnready
<1>9. ASSUME NEW l \in WaitQueues, Strand(l) PROVE Goal
  BY <1>9, StrandKeeps DEF LeavesUnready
<1>6. CASE Spawn
  BY <1>6, SpawnKeeps
<1>7. CASE Exit
  BY <1>7, ExitKeeps
<1>8. CASE UNCHANGED schedVars
  <2>1. UNCHANGED <<queue, state, quantum, current, remaining_ticks>>
    BY <1>8 DEF schedVars
  <2>2. Consistent(queue', state', quantum') /\ Running(queue', state', current', remaining_ticks')
    BY <2>1, IInvShape
  <2>3. Lost' = Lost
    BY <2>1, LostShape
  <2> QED BY <2>2, <2>3, IInvShapeNext
<1> QED BY <1>1, <1>2, <1>3, <1>4, <1>5, <1>6, <1>7, <1>8, <1>9 DEF SchedNext

-----------------------------------------------------------------------------
(* The order of the ready tasks.  Follows(r, s): r goes on where s ends.   *)
Follows(r, s) == Len(s) <= Len(r) /\ SubSeq(r, 1, Len(s)) = s

LEMMA FollowsItself ==
  ASSUME NEW S, NEW s \in Seq(S) PROVE Follows(s, s)
BY DEF Follows

LEMMA FollowsMore ==
  ASSUME NEW S, NEW s \in Seq(S), NEW r \in Seq(S) PROVE Follows(s \o r, s)
<1>1. s \o r \in Seq(S) /\ Len(s \o r) = Len(s) + Len(r) /\ Len(s) \in Nat /\ Len(r) \in Nat
  OBVIOUS
<1>2. \A i \in 1 .. Len(s) : (s \o r)[i] = s[i]
  OBVIOUS
<1>3. SubSeq(s \o r, 1, Len(s)) = [i \in 1 .. Len(s) |-> (s \o r)[i]]
  BY <1>1
<1>4. s = [i \in 1 .. Len(s) |-> s[i]]
  OBVIOUS
<1> QED BY <1>1, <1>2, <1>3, <1>4 DEF Follows

LEMMA FollowsAppended ==
  ASSUME NEW S, NEW s \in Seq(S), NEW e \in S PROVE Follows(Append(s, e), s)
<1>1. Append(s, e) = s \o <<e>> /\ <<e>> \in Seq(S)
  OBVIOUS
<1> QED BY <1>1, FollowsMore

LEMMA TailAppended ==
  ASSUME NEW S, NEW s \in Seq(S), NEW e \in S, s # << >>
  PROVE  /\ Append(s, e) # << >> /\ Head(Append(s, e)) = Head(s)
         /\ Tail(Append(s, e)) = Append(Tail(s), e)
<1>1. Len(Append(s, e)) = Len(s) + 1 /\ Len(s) \in Nat /\ Len(<< >>) = 0
  OBVIOUS
<1>2. Head(Append(s, e)) = Head(s) /\ Tail(Append(s, e)) = Append(Tail(s), e)
  OBVIOUS
<1> QED BY <1>1, <1>2

InOrder ==
  LET stay == IF On(current', readyqueue) THEN Tail(queue[readyqueue]) ELSE queue[readyqueue]
  IN  /\ Len(stay) <= Len(queue'[readyqueue])
      /\ SubSeq(queue'[readyqueue], 1, Len(stay)) = stay
      /\ On(current', readyqueue) => current' = Head(queue[readyqueue])

(* The running task goes on: nobody leaves the ready tasks.                *)
LEMMA StayInOrder ==
  ASSUME IInv, current' = current, Follows(queue'[readyqueue], queue[readyqueue])
  PROVE  InOrder
<1>1. ~On(current', readyqueue)
  BY Constants DEF IInv, OnePlace
<1> QED BY <1>1 DEF InOrder, Follows

(* The running task joins the list l, and sched_next_rr() dispatches.      *)
LEMMA JoinInOrder ==
  ASSUME IInv, NEW l \in Queues, NEW s, SchedNextRR(ListAddTail(queue, l, current), s)
  PROVE  InOrder
<1> USE Constants
<1> DEFINE R == queue[readyqueue]
           q == ListAddTail(queue, l, current)
<1>1. /\ queue \in [Queues -> Seq(Tasks)] /\ R \in Seq(Tasks) /\ current \in Tasks
      /\ current \notin Range(R) /\ IsInjective(R)
  BY IInvShape DEF Consistent, Running, Placed
<1>2. /\ q \in [Queues -> Seq(Tasks)]
      /\ q[readyqueue] = IF l = readyqueue THEN Append(R, current) ELSE R
  BY <1>1 DEF ListAddTail
<1>3. queue' = Popped(q) /\ current' = NextTask(q)
  BY DEF SchedNextRR
<1>4. On(current', readyqueue) <=> current' \in Range(R)
  BY DEF On
<1> HIDE DEF q, R
<1>5. CASE R = << >>
  <2>1. Range(R) = {} /\ Len(R) = 0
    BY <1>5 DEF Range
  <2>2. queue'[readyqueue] = << >>
    <3>1. CASE l = readyqueue
      <4>1. q[readyqueue] = <<current>> /\ Tail(<<current>>) = << >> /\ <<current>> # << >>
        BY <1>2, <1>5, <3>1
      <4> QED BY <1>2, <1>3, <4>1 DEF Popped
    <3>2. CASE l # readyqueue
      BY <1>2, <1>3, <1>5, <3>2 DEF Popped
    <3> QED BY <3>1, <3>2
  <2>3. SubSeq(<< >>, 1, 0) = << >> /\ Len(<< >>) = 0
    OBVIOUS
  <2> QED BY <1>4, <1>5, <2>1, <2>2, <2>3 DEF InOrder, R
<1>6. CASE R # << >>
  <2>1. /\ Head(R) \in Range(R) /\ Tail(R) \in Seq(Tasks)
    BY <1>1, <1>6, TailMembers
  <2>2. q[readyqueue] # << >> /\ Head(q[readyqueue]) = Head(R)
    <3>1. Append(R, current) # << >> /\ Head(Append(R, current)) = Head(R)
      BY ONLY <1>1, <1>6, TailAppended
    <3> QED BY <1>2, <1>6, <3>1
  <2>3. current' = Head(R) /\ queue'[readyqueue] = Tail(q[readyqueue])
    BY <1>2, <1>3, <2>2 DEF Popped, NextTask
  <2>4. Follows(queue'[readyqueue], Tail(R))
    <3>1. CASE l = readyqueue
      <4>1. Tail(Append(R, current)) = Append(Tail(R), current)
        BY <1>1, <1>6, TailAppended
      <4>2. Follows(Append(Tail(R), current), Tail(R))
        BY <1>1, <2>1, FollowsAppended
      <4> QED BY <1>2, <2>3, <3>1, <4>1, <4>2
    <3>2. CASE l # readyqueue
      BY <1>2, <2>1, <2>3, <3>2, FollowsItself
    <3> QED BY <3>1, <3>2
  <2> QED BY <1>4, <2>1, <2>3, <2>4 DEF InOrder, Follows, R
<1> QED BY <1>5, <1>6

LEMMA StepInOrder == IInv /\ SchedNext => InOrder
<1> SUFFICES ASSUME IInv, SchedNext PROVE InOrder
  OBVIOUS
<1> USE Constants
<1> DEFINE R == queue[readyqueue]
<1>1. /\ queue \in [Queues -> Seq(Tasks)] /\ R \in Seq(Tasks)
      /\ Running(queue, state, current, remaining_ticks)
  BY IInvShape DEF Consistent
<1>2. CASE ClockInterrupt
  <2>1. CASE SchedNextRR(Relinked(current, readyqueue), Restated(current, readyqueue))
    <3>1. Relinked(current, readyqueue) = ListAddTail(queue, readyqueue, current)
      BY <1>1 DEF Running, Relinked
    <3> QED BY <2>1, <3>1, JoinInOrder
  <2>2. CASE UNCHANGED <<queue, current>>
    BY <1>1, <2>2, FollowsItself, StayInOrder
  <2> QED BY <1>2, <2>1, <2>2 DEF ClockInterrupt
<1>3. ASSUME NEW l \in WaitQueues, Block(l) PROVE InOrder
  <2>1. Relinked(current, l) = ListAddTail(queue, l, current)
    BY <1>1 DEF Running, Relinked
  <2> QED BY <1>3, <2>1, JoinInOrder DEF Block
<1>4. CASE Exit
  BY <1>4, JoinInOrder DEF Exit
<1>5. ASSUME NEW l \in WaitQueues, Wake(l) PROVE InOrder
  <2> DEFINE t == Head(queue[l])
             q == WithoutFirst(queue, l)
  <2>1. /\ Consistent(queue, state, quantum) /\ queue[l] # << >>
        /\ q = ListDel(queue, t) /\ t \in Tasks /\ t \in Range(queue[l])
        /\ q[readyqueue] = R
    <3>1. Consistent(queue, state, quantum) /\ queue[l] # << >> /\ l \in Queues /\ Placed(queue)
      BY <1>5, IInvShape DEF Wake, Consistent
    <3>2. q = ListDel(queue, t) /\ t \in Tasks /\ t \in Range(queue[l])
      BY ONLY <1>1, <3>1, Unlink
    <3>3. q[readyqueue] = R
      BY <1>1 DEF WithoutFirst
    <3> QED BY <3>1, <3>2, <3>3
  <2>2. state[t] # ST_RUN
    BY <2>1, DistinctStates DEF Consistent, Agrees
  <2>3. current' = current /\ queue' = ListAddTail(q, readyqueue, t)
    BY <1>5, <2>1, <2>2 DEF Wake, Relinked
  <2>4. queue'[readyqueue] = Append(R, t)
    BY <1>1, <2>1, <2>3 DEF ListAddTail, WithoutFirst
  <2> QED BY <1>1, <2>1, <2>3, <2>4, FollowsAppended, StayInOrder
<1>6. ASSUME NEW l \in WaitQueues, WakeAll(l) PROVE InOrder
  <2>1. current' = current /\ queue'[readyqueue] = R \o queue[l] /\ queue[l] \in Seq(Tasks)
    BY <1>1, <1>6 DEF WakeAll
  <2> QED BY <1>1, <2>1, FollowsMore, StayInOrder
<1>7. ASSUME NEW l \in WaitQueues, ResetQueue(l) PROVE InOrder
  <2>1. current' = current /\ queue'[readyqueue] = R
    BY <1>7, ResetPlaces
  <2> QED BY <1>1, <2>1, FollowsItself, StayInOrder
<1>8. CASE Spawn
  <2>1. current' = current /\ Child \in Tasks
    BY <1>8, SpawnPlaces
  <2>2. queue'[readyqueue] = Append(R, Child)
    BY <1>1, <1>8 DEF Spawn
  <2> QED BY <1>1, <2>1, <2>2, FollowsAppended, StayInOrder
<1>9. ASSUME NEW l \in WaitQueues, Strand(l) PROVE InOrder
  <2>1. current' = current /\ queue'[readyqueue] = R
    BY <1>9, StrandPlaces
  <2> QED BY <1>1, <2>1, FollowsItself, StayInOrder
<1> QED BY <1>2, <1>3, <1>4, <1>5, <1>6, <1>7, <1>8, <1>9 DEF SchedNext

(* The scheduler's inductive invariant holds in every reachable state. *)
THEOREM SchedInvariant == SchedSafety => []IInv
BY InitHolds, StepKeeps, PTL DEF SchedSafety

(* Every variable of the scheduler keeps its type. *)
THEOREM SchedTypeCorrect == SchedSafety => []TypeOK
<1>1. IInv => TypeOK
  BY DEF IInv
<1> QED BY <1>1, SchedInvariant, PTL

(* A task is in one list at most, once, and never while it runs: the one   *)
(* pair of links of its PCB never ties two lists together.                 *)
THEOREM TaskInOnePlace == SchedSafety => []OnePlace
<1>1. IInv => OnePlace
  BY DEF IInv
<1> QED BY <1>1, SchedInvariant, PTL

(* update_process_state_rr may trust the state field: it says whether the  *)
(* task must be unlinked, and a blocked task is never dispatched.          *)
THEOREM StateFieldTrusted == SchedSafety => []StateMatchesPlace
<1>1. IInv => StateMatchesPlace
  BY DEF IInv
<1> QED BY <1>1, SchedInvariant, PTL

(* A process always has at least one tick left when it runs, and never     *)
(* more than its quantum.                                                  *)
THEOREM TicksBounded == SchedSafety => []TicksMatchTask
<1>1. IInv => TicksMatchTask
  BY DEF IInv
<1> QED BY <1>1, SchedInvariant, PTL

(* No tick, wake-up, fork or exit drops a blocked task out of reach of its *)
(* wake-ups; a sem_signal drops the first of its list and no other, a      *)
(* sem_init those of the list it empties; and no step brings one back.     *)
THEOREM BlockedLostForGood == SchedSafety => LostForGood
<1>1. IInv /\ [SchedNext]_schedVars =>
        [Lost \subseteq Lost' /\ \A t \in Lost' \ Lost : LeavesUnready(t)]_schedVars
  BY StepKeeps
<1> QED BY <1>1, SchedInvariant, PTL DEF SchedSafety, LostForGood

(* Round robin: whoever becomes ready goes behind all who are, and only    *)
(* the first of them leaves, to the processor.                             *)
THEOREM RoundRobinOrder == SchedSafety => NoOvertaking
<1>1. IInv /\ [SchedNext]_schedVars => [InOrder]_schedVars
  BY StepInOrder
<1>2. SchedSafety => [][InOrder]_schedVars
  BY <1>1, SchedInvariant, PTL DEF SchedSafety
<1> QED BY <1>2 DEF NoOvertaking, InOrder

=============================================================================
