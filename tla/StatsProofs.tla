----------------------------- MODULE StatsProofs -----------------------------
(***************************************************************************)
(* Proofs of what the statistics mean, for any number of tasks, any        *)
(* quantum and however long each of them runs, waits or stays in a handler.*)
(*                                                                         *)
(* The running task's sums can only be right if those of the others are on *)
(* their way: TInv says for every task where the time since its last       *)
(* booking will be booked.  A waiting task's goes to system_ticks when it  *)
(* is dispatched, any other's to user_ticks.                               *)
(***************************************************************************)
EXTENDS Stats, SchedProofs

Sums   == {"user_ticks", "system_ticks", "ready_ticks"}
Fields == Sums \cup {"blocked_ticks", "total_trans", "elapsed_total_ticks", "remaining_ticks"}
StatsRecord == [Fields -> Int]
Hows == {"running", "inKernel", "waiting", "blocked"}

(* One booking, on the statistics r of one task. *)
Book(r, field, now) ==
  [r EXCEPT ![field] = @ + now - r.elapsed_total_ticks, !.elapsed_total_ticks = now]

Total(r) == r.user_ticks + r.system_ticks + r.ready_ticks

Good(s) ==
  /\ s \in [Tasks -> StatsRecord]
  /\ \A t \in Tasks : Total(s[t]) = s[t].elapsed_total_ticks - s[t].remaining_ticks

(* The sums r account for the time sp, once the ticks lateUser and         *)
(* lateSystem not booked yet are in user_ticks and in system_ticks.        *)
Accounts(r, sp, lateUser, lateSystem) ==
  /\ lateUser >= 0 /\ lateSystem >= 0
  /\ r.ready_ticks = 0
  /\ Total(r) + lateUser + lateSystem = sp.running + sp.blocked + sp.waiting + sp.inKernel
  /\ r.user_ticks + lateUser >= sp.running + sp.blocked
  /\ r.system_ticks + lateSystem >= sp.waiting

(* A task that is nowhere is blocked. *)
Settled ==
  \A t \in Tasks \ {IdleTask} :
    \/ t = current \/ t \in Members(freequeue) \/ t \in Members(readyqueue)
    \/ state[t] = ST_BLOCKED

TaskAccounted(t) ==
  LET late == ticks - task_stats[t].elapsed_total_ticks
  IN  t \notin Members(freequeue) =>
        /\ IF t \in Members(readyqueue) THEN Accounts(task_stats[t], spent[t], 0, late)
                                        ELSE Accounts(task_stats[t], spent[t], late, 0)
        /\ t = current /\ late # 0 => t = Task1 /\ Total(task_stats[t]) = 0

SpentTyped(sp) == sp \in [Tasks -> [Hows -> Nat]]

TInv ==
  /\ IInv /\ Settled
  /\ ticks \in Nat /\ Good(task_stats) /\ SpentTyped(spent)
  /\ \A t \in Tasks \ {IdleTask} : TaskAccounted(t)

-----------------------------------------------------------------------------
(* Bookings on one task's sums.                                            *)
LEMMA BookIs ==
  ASSUME NEW r \in StatsRecord, NEW field \in Sums, NEW now \in Int
  PROVE  /\ Book(r, field, now) \in StatsRecord
         /\ Book(r, field, now).elapsed_total_ticks = now
         /\ Book(r, field, now).remaining_ticks = r.remaining_ticks
         /\ Book(r, field, now).user_ticks = r.user_ticks
              + (IF field = "user_ticks" THEN now - r.elapsed_total_ticks ELSE 0)
         /\ Book(r, field, now).system_ticks = r.system_ticks
              + (IF field = "system_ticks" THEN now - r.elapsed_total_ticks ELSE 0)
         /\ Book(r, field, now).ready_ticks = r.ready_ticks
              + (IF field = "ready_ticks" THEN now - r.elapsed_total_ticks ELSE 0)
<1> USE DEF StatsRecord, Fields, Sums
<1>1. Book(r, field, now) =
        [f \in Fields |-> IF f = "elapsed_total_ticks" THEN now
                          ELSE IF f = field THEN r[field] + now - r.elapsed_total_ticks ELSE r[f]]
  BY DEF Book
<1>2. r[field] + now - r.elapsed_total_ticks \in Int
  OBVIOUS
<1> QED BY <1>1, <1>2

LEMMA FieldsTyped ==
  ASSUME NEW r \in StatsRecord
  PROVE  /\ r.user_ticks \in Int /\ r.system_ticks \in Int /\ r.ready_ticks \in Int
         /\ r.elapsed_total_ticks \in Int /\ r.remaining_ticks \in Int
         /\ Total(r) = r.user_ticks + r.system_ticks + r.ready_ticks /\ Total(r) \in Int
BY DEF StatsRecord, Fields, Sums, Total

(* A booking books the time since the last one, once.                      *)
LEMMA BookTotal ==
  ASSUME NEW r \in StatsRecord, NEW field \in Sums, NEW now \in Int,
         Total(r) = r.elapsed_total_ticks - r.remaining_ticks
  PROVE  LET b == Book(r, field, now)
         IN  Total(b) = b.elapsed_total_ticks - b.remaining_ticks
<1>1. field = "user_ticks" \/ field = "system_ticks" \/ field = "ready_ticks"
  BY DEF Sums
<1>2. PICK b \in StatsRecord :
        /\ b = Book(r, field, now) /\ b.elapsed_total_ticks = now
        /\ b.remaining_ticks = r.remaining_ticks
        /\ b.user_ticks = r.user_ticks
             + (IF field = "user_ticks" THEN now - r.elapsed_total_ticks ELSE 0)
        /\ b.system_ticks = r.system_ticks
             + (IF field = "system_ticks" THEN now - r.elapsed_total_ticks ELSE 0)
        /\ b.ready_ticks = r.ready_ticks
             + (IF field = "ready_ticks" THEN now - r.elapsed_total_ticks ELSE 0)
  BY BookIs
<1>3. Total(b) = Total(r) + now - r.elapsed_total_ticks
  BY <1>1, <1>2, FieldsTyped
<1> QED BY <1>2, <1>3, FieldsTyped

LEMMA UpdateIs ==
  ASSUME NEW s, Good(s), NEW t \in Tasks, NEW field \in Sums, NEW now \in Int
  PROVE  /\ Good(UpdateStats(s, t, field, now))
         /\ \A v \in Tasks : UpdateStats(s, t, field, now)[v]
                               = IF v = t THEN Book(s[v], field, now) ELSE s[v]
<1> DEFINE s2 == UpdateStats(s, t, field, now)
<1>1. s \in [Tasks -> StatsRecord] /\ s[t] \in StatsRecord
  BY DEF Good
<1>2. /\ s2[t] = Book(s[t], field, now)
      /\ \A v \in Tasks \ {t} : s2[v] = s[v]
      /\ s2 = [v \in Tasks |-> s2[v]]
  BY <1>1 DEF UpdateStats, Book
<1>3. Book(s[t], field, now) \in StatsRecord
  BY <1>1, BookIs
<1> HIDE DEF s2
<1>4. s2 \in [Tasks -> StatsRecord]
  BY <1>1, <1>2, <1>3
<1>5. Total(s2[t]) = s2[t].elapsed_total_ticks - s2[t].remaining_ticks
  <2>1. Total(s[t]) = s[t].elapsed_total_ticks - s[t].remaining_ticks
    BY DEF Good
  <2> QED BY <1>1, <1>2, <2>1, BookTotal
<1>6. Good(s2)
  BY <1>2, <1>4, <1>5 DEF Good
<1> QED BY <1>2, <1>6 DEF s2

-----------------------------------------------------------------------------
(* What chains of bookings add up to: du ticks in user_ticks, ds ticks in  *)
(* system_ticks, everything up to now.                                     *)
Charged(r2, r, du, ds, now) ==
  /\ r2 \in StatsRecord /\ r2.elapsed_total_ticks = now
  /\ r2.user_ticks = r.user_ticks + du
  /\ r2.system_ticks = r.system_ticks + ds
  /\ r2.ready_ticks = r.ready_ticks

LEMMA ChargedOnce ==
  ASSUME NEW r \in StatsRecord, NEW b \in Int
  PROVE  LET el == r.elapsed_total_ticks
         IN  /\ Charged(Book(r, "user_ticks", b), r, b - el, 0, b)
             /\ Charged(Book(r, "system_ticks", b), r, 0, b - el, b)
             /\ r.elapsed_total_ticks = b => Charged(Book(r, "ready_ticks", b), r, 0, 0, b)
<1>1. "user_ticks" \in Sums /\ "system_ticks" \in Sums /\ "ready_ticks" \in Sums
  BY DEF Sums
<1>2. /\ r.user_ticks \in Int /\ r.system_ticks \in Int /\ r.ready_ticks \in Int
      /\ r.elapsed_total_ticks \in Int
  BY FieldsTyped
<1>3. ASSUME NEW f \in Sums
      PROVE  LET d == b - r.elapsed_total_ticks
             IN  /\ Book(r, f, b) \in StatsRecord /\ Book(r, f, b).elapsed_total_ticks = b
                 /\ Book(r, f, b).user_ticks = r.user_ticks + (IF f = "user_ticks" THEN d ELSE 0)
                 /\ Book(r, f, b).system_ticks = r.system_ticks + (IF f = "system_ticks" THEN d ELSE 0)
                 /\ Book(r, f, b).ready_ticks = r.ready_ticks + (IF f = "ready_ticks" THEN d ELSE 0)
  BY BookIs
<1>4. Charged(Book(r, "user_ticks", b), r, b - r.elapsed_total_ticks, 0, b)
  BY <1>1, <1>2, <1>3 DEF Charged
<1>5. Charged(Book(r, "system_ticks", b), r, 0, b - r.elapsed_total_ticks, b)
  BY <1>1, <1>2, <1>3 DEF Charged
<1>6. r.elapsed_total_ticks = b => Charged(Book(r, "ready_ticks", b), r, 0, 0, b)
  BY <1>1, <1>2, <1>3 DEF Charged
<1> QED BY <1>4, <1>5, <1>6

LEMMA ChargedThen ==
  ASSUME NEW r \in StatsRecord, NEW r1, NEW r2, NEW x, NEW b,
         NEW du1 \in Int, NEW ds1 \in Int, NEW du2 \in Int, NEW ds2 \in Int,
         Charged(r1, r, du1, ds1, x), Charged(r2, r1, du2, ds2, b)
  PROVE  Charged(r2, r, du1 + du2, ds1 + ds2, b)
BY FieldsTyped DEF Charged

(* The running task that goes on, the one that blocks and the one that is  *)
(* preempted.                                                              *)
LEMMA ChargedRunning ==
  ASSUME NEW r \in StatsRecord, NEW e \in Int, NEW b \in Int
  PROVE  LET el == r.elapsed_total_ticks
             r1 == Book(r, "user_ticks", e)
             r2 == Book(r1, "user_ticks", b)
         IN  /\ Charged(Book(r1, "system_ticks", b), r, e - el, b - e, b)
             /\ Charged(Book(Book(r1, "system_ticks", b), "ready_ticks", b), r, e - el, b - e, b)
             /\ Charged(Book(Book(r2, "system_ticks", b), "ready_ticks", b), r, b - el, 0, b)
<1> DEFINE el == r.elapsed_total_ticks
<1>1. el \in Int
  BY FieldsTyped
<1>2. PICK r1 \in StatsRecord : r1 = Book(r, "user_ticks", e) /\ Charged(r1, r, e - el, 0, e)
  BY ChargedOnce DEF Charged
<1>3. PICK r2 \in StatsRecord : r2 = Book(r1, "user_ticks", b) /\ Charged(r2, r1, b - e, 0, b)
  <2>1. r1.elapsed_total_ticks = e
    BY <1>2 DEF Charged
  <2>2. Charged(Book(r1, "user_ticks", b), r1, b - r1.elapsed_total_ticks, 0, b)
    BY ChargedOnce
  <2> QED BY <2>1, <2>2 DEF Charged
<1>4. PICK s1 \in StatsRecord : s1 = Book(r1, "system_ticks", b) /\ Charged(s1, r1, 0, b - e, b)
  <2>1. r1.elapsed_total_ticks = e
    BY <1>2 DEF Charged
  <2>2. Charged(Book(r1, "system_ticks", b), r1, 0, b - r1.elapsed_total_ticks, b)
    BY ChargedOnce
  <2> QED BY <2>1, <2>2 DEF Charged
<1>5. PICK s2 \in StatsRecord : s2 = Book(r2, "system_ticks", b) /\ Charged(s2, r2, 0, 0, b)
  <2>1. r2.elapsed_total_ticks = b /\ b - b = 0
    BY <1>3 DEF Charged
  <2>2. Charged(Book(r2, "system_ticks", b), r2, 0, b - r2.elapsed_total_ticks, b)
    BY ChargedOnce
  <2> QED BY <2>1, <2>2 DEF Charged
<1>6. Charged(Book(s1, "ready_ticks", b), s1, 0, 0, b)
  BY <1>4, ChargedOnce DEF Charged
<1>7. Charged(Book(s2, "ready_ticks", b), s2, 0, 0, b)
  BY <1>5, ChargedOnce DEF Charged
<1> HIDE DEF el
<1>8. /\ e - el \in Int /\ b - e \in Int /\ b - el \in Int /\ 0 \in Int
      /\ e - el + (b - e) = b - el /\ e - el + 0 = e - el /\ 0 + (b - e) = b - e
      /\ b - el + 0 = b - el /\ b - e + 0 = b - e /\ 0 + 0 = 0
  BY <1>1
<1>9. Charged(s1, r, e - el, b - e, b)
  <2>1. Charged(s1, r, e - el + 0, 0 + (b - e), b)
    BY ONLY <1>2, <1>4, <1>8, ChargedThen
  <2> QED BY <1>8, <2>1
<1>10. Charged(Book(s1, "ready_ticks", b), r, e - el, b - e, b)
  <2>1. Charged(Book(s1, "ready_ticks", b), r, e - el + 0, b - e + 0, b)
    BY ONLY <1>6, <1>8, <1>9, ChargedThen
  <2> QED BY <1>8, <2>1
<1>11. Charged(r2, r, b - el, 0, b)
  <2>1. Charged(r2, r, e - el + (b - e), 0 + 0, b)
    BY ONLY <1>2, <1>3, <1>8, ChargedThen
  <2> QED BY <1>8, <2>1
<1>12. Charged(s2, r, b - el, 0, b)
  <2>1. Charged(s2, r, b - el + 0, 0 + 0, b)
    BY ONLY <1>5, <1>8, <1>11, ChargedThen
  <2> QED BY <1>8, <2>1
<1>13. Charged(Book(s2, "ready_ticks", b), r, b - el, 0, b)
  <2>1. Charged(Book(s2, "ready_ticks", b), r, b - el + 0, 0 + 0, b)
    BY ONLY <1>7, <1>8, <1>12, ChargedThen
  <2> QED BY <1>8, <2>1
<1> QED BY <1>2, <1>3, <1>4, <1>5, <1>9, <1>10, <1>13 DEF el

(* Sums that are charged what was spent, and what was late, account for it. *)
LEMMA ChargedAccounts ==
  ASSUME NEW r \in StatsRecord, NEW r2, NEW du \in Int, NEW ds \in Int,
         NEW x \in Int, NEW y \in Int, NEW d \in Int, NEW b \in Int,
         NEW sp \in [Hows -> Nat], NEW sp2 \in [Hows -> Nat],
         Accounts(r, sp, x, y), Charged(r2, r, du, ds, b),
         du + ds = x + y + d,
         sp2.running + sp2.blocked + sp2.waiting + sp2.inKernel
           = sp.running + sp.blocked + sp.waiting + sp.inKernel + d,
         du >= x + (sp2.running + sp2.blocked - sp.running - sp.blocked),
         ds >= y + (sp2.waiting - sp.waiting)
  PROVE  Accounts(r2, sp2, 0, 0)
<1>1. /\ sp.running \in Nat /\ sp.blocked \in Nat /\ sp.waiting \in Nat /\ sp.inKernel \in Nat
      /\ sp2.running \in Nat /\ sp2.blocked \in Nat /\ sp2.waiting \in Nat /\ sp2.inKernel \in Nat
  BY DEF Hows
<1>2. /\ r.user_ticks \in Int /\ r.system_ticks \in Int /\ r.ready_ticks \in Int
      /\ Total(r) = r.user_ticks + r.system_ticks + r.ready_ticks
  BY FieldsTyped
<1>3. /\ r2.user_ticks \in Int /\ r2.system_ticks \in Int /\ r2.ready_ticks \in Int
      /\ Total(r2) = r2.user_ticks + r2.system_ticks + r2.ready_ticks
  BY FieldsTyped DEF Charged
<1>4. /\ r.ready_ticks = 0
      /\ Total(r) + x + y = sp.running + sp.blocked + sp.waiting + sp.inKernel
      /\ r.user_ticks + x >= sp.running + sp.blocked
      /\ r.system_ticks + y >= sp.waiting
  BY DEF Accounts
<1>5. /\ r2.user_ticks = r.user_ticks + du
      /\ r2.system_ticks = r.system_ticks + ds
      /\ r2.ready_ticks = r.ready_ticks
  BY DEF Charged
<1>6. r2.ready_ticks = 0
  BY <1>4, <1>5
<1>7. Total(r2) = sp2.running + sp2.blocked + sp2.waiting + sp2.inKernel
  <2>1. Total(r2) = Total(r) + du + ds /\ Total(r) \in Int
    BY <1>2, <1>3, <1>5
  <2>2. Total(r2) = Total(r) + x + y + d
    BY ONLY <2>1, x \in Int, y \in Int, d \in Int, du \in Int, ds \in Int, du + ds = x + y + d
  <2> QED BY ONLY <1>1, <1>4, <2>2, d \in Int,
        sp2.running + sp2.blocked + sp2.waiting + sp2.inKernel
          = sp.running + sp.blocked + sp.waiting + sp.inKernel + d
<1>8. r2.user_ticks >= sp2.running + sp2.blocked
  BY <1>1, <1>2, <1>4, <1>5
<1>9. r2.system_ticks >= sp2.waiting
  BY <1>1, <1>2, <1>4, <1>5
<1> QED BY <1>1, <1>3, <1>6, <1>7, <1>8, <1>9 DEF Accounts

-----------------------------------------------------------------------------
(* What the bookings of a handler do to the statistics of each task.       *)
LEMMA SumNames == "user_ticks" \in Sums /\ "system_ticks" \in Sums /\ "ready_ticks" \in Sums
BY DEF Sums

LEMMA EnteredIs ==
  ASSUME Good(task_stats), current \in Tasks, NEW e \in Int
  PROVE  /\ Good(Entered(e))
         /\ \A v \in Tasks : Entered(e)[v] = IF v = current THEN Book(task_stats[v], "user_ticks", e)
                                             ELSE task_stats[v]
BY UpdateIs, SumNames DEF Entered

LEMMA LeftIs ==
  ASSUME NEW s, Good(s), NEW t \in Tasks, NEW b \in Int
  PROVE  /\ Good(Left(s, t, b))
         /\ \A v \in Tasks \ {IdleTask} :
              Left(s, t, b)[v] = IF v = t THEN Book(s[v], "system_ticks", b) ELSE s[v]
<1>1. CASE t = IdleTask /\ ~idleStarted
  BY <1>1 DEF Left
<1>2. CASE ~(t = IdleTask /\ ~idleStarted)
  <2>1. Left(s, t, b) = UpdateStats(s, t, "system_ticks", b)
    BY <1>2 DEF Left
  <2> QED BY <2>1, UpdateIs, SumNames
<1> QED BY <1>1, <1>2

LEMMA ReadiedIs ==
  ASSUME NEW s, Good(s), NEW ts, NEW b \in Int
  PROVE  /\ Good(Readied(s, ts, b))
         /\ \A v \in Tasks : Readied(s, ts, b)[v] = IF v \in ts THEN Book(s[v], "user_ticks", b)
                                                    ELSE s[v]
<1>1. \A v \in Tasks : /\ UpdateStats(s, v, "user_ticks", b)[v] = Book(s[v], "user_ticks", b)
                       /\ Good(UpdateStats(s, v, "user_ticks", b))
  BY UpdateIs, SumNames
<1>2. \A v \in Tasks : Readied(s, ts, b)[v] = IF v \in ts THEN UpdateStats(s, v, "user_ticks", b)[v]
                                              ELSE s[v]
  BY DEF Readied
<1>3. ASSUME NEW v \in Tasks
      PROVE  /\ Readied(s, ts, b)[v] \in StatsRecord
             /\ LET r == Readied(s, ts, b)[v]
                IN  Total(r) = r.elapsed_total_ticks - r.remaining_ticks
  BY <1>1, <1>2 DEF Good
<1>4. Readied(s, ts, b) = [v \in Tasks |-> Readied(s, ts, b)[v]]
  BY DEF Readied
<1>5. Good(Readied(s, ts, b))
  BY <1>3, <1>4 DEF Good
<1> QED BY <1>1, <1>2, <1>5

LEMMA DispatchedIs ==
  ASSUME NEW s, Good(s), current \in Tasks, NEW b \in Int
  PROVE  /\ Good(Dispatched(s, b))
         /\ \A v \in Tasks : Dispatched(s, b)[v]
              = IF v = current THEN Book(Book(s[v], "system_ticks", b), "ready_ticks", b) ELSE s[v]
<1> DEFINE s1 == UpdateStats(s, current, "system_ticks", b)
<1>1. /\ Good(s1)
      /\ \A v \in Tasks : s1[v] = IF v = current THEN Book(s[v], "system_ticks", b) ELSE s[v]
  BY UpdateIs, SumNames
<1> HIDE DEF s1
<1>2. /\ Good(UpdateStats(s1, current, "ready_ticks", b))
      /\ \A v \in Tasks : UpdateStats(s1, current, "ready_ticks", b)[v]
                            = IF v = current THEN Book(s1[v], "ready_ticks", b) ELSE s1[v]
  BY <1>1, UpdateIs, SumNames
<1> QED BY <1>1, <1>2 DEF Dispatched, s1

(* A new task starts with nothing booked and nothing to book.              *)
LEMMA InitTaskIs ==
  ASSUME NEW now \in Int
  PROVE  LET r == InitTaskStats(now)
         IN  /\ r \in StatsRecord /\ Total(r) = 0 /\ r.elapsed_total_ticks = now
             /\ r.remaining_ticks = now
             /\ r.user_ticks = 0 /\ r.system_ticks = 0 /\ r.ready_ticks = 0
BY DEF InitTaskStats, StatsRecord, Fields, Sums, Total

LEMMA NothingIs ==
  /\ NothingSpent \in [Hows -> Nat] /\ DOMAIN NothingSpent = Hows
  /\ NothingSpent.running = 0 /\ NothingSpent.blocked = 0
  /\ NothingSpent.waiting = 0 /\ NothingSpent.inKernel = 0
BY DEF NothingSpent, Hows

LEMMA PassedTyped ==
  ASSUME SpentTyped(spent), NEW t \in Tasks, NEW u \in Nat, NEW k \in Nat
  PROVE  Passed(t, u, k) \in [Hows -> Nat]
<1>1. \A how \in Hows : spent[t][how] \in Nat
  BY DEF SpentTyped
<1>2. \A how \in Hows : spent[t][how] + (IF Spending(t, "running") = how THEN u ELSE 0)
                          + (IF Spending(t, "inKernel") = how THEN k ELSE 0) \in Nat
  BY <1>1
<1> QED BY <1>2, NothingIs DEF Passed

LEMMA PassedIs ==
  ASSUME IInv, SpentTyped(spent), NEW t \in Tasks, NEW u \in Nat, NEW k \in Nat
  PROVE  LET sp  == spent[t]
             sp2 == Passed(t, u, k)
         IN  /\ t = current =>
                  /\ sp2.running = sp.running + u /\ sp2.inKernel = sp.inKernel + k
                  /\ sp2.waiting = sp.waiting /\ sp2.blocked = sp.blocked
             /\ t # current /\ t \in Members(readyqueue) =>
                  /\ sp2.running = sp.running /\ sp2.inKernel = sp.inKernel
                  /\ sp2.waiting = sp.waiting + u + k /\ sp2.blocked = sp.blocked
             /\ t # current /\ t \notin Members(readyqueue) /\ state[t] = ST_BLOCKED =>
                  /\ sp2.running = sp.running /\ sp2.inKernel = sp.inKernel
                  /\ sp2.waiting = sp.waiting /\ sp2.blocked = sp.blocked + u + k
<1> DEFINE sp == spent[t]
<1>1. /\ sp.running \in Nat /\ sp.inKernel \in Nat /\ sp.waiting \in Nat /\ sp.blocked \in Nat
  BY DEF SpentTyped, Hows
<1> HIDE DEF sp
<1>2. Passed(t, u, k) = [how \in Hows |->
        sp[how] + (IF Spending(t, "running") = how THEN u ELSE 0)
                + (IF Spending(t, "inKernel") = how THEN k ELSE 0)]
  BY NothingIs DEF Passed, sp
<1>3. CASE t = current
  <2>1. Spending(t, "running") = "running" /\ Spending(t, "inKernel") = "inKernel"
    BY <1>3 DEF Spending
  <2> QED BY <1>1, <1>2, <1>3, <2>1 DEF Hows, sp
<1>4. CASE t # current /\ t \in Members(readyqueue)
  <2>1. Spending(t, "running") = "waiting" /\ Spending(t, "inKernel") = "waiting"
    <3>1. state[t] # ST_BLOCKED
      BY <1>4 DEF IInv, StateMatchesPlace, On, Members
    <3> QED BY <1>4, <3>1 DEF Spending, On, Members
  <2> QED BY <1>1, <1>2, <1>4, <2>1 DEF Hows, sp
<1>5. CASE t # current /\ t \notin Members(readyqueue) /\ state[t] = ST_BLOCKED
  <2>1. Spending(t, "running") = "blocked" /\ Spending(t, "inKernel") = "blocked"
    BY <1>5 DEF Spending, On, Members
  <2> QED BY <1>1, <1>2, <1>5, <2>1 DEF Hows, sp
<1> QED BY <1>3, <1>4, <1>5 DEF sp

-----------------------------------------------------------------------------
(* How a task can fare in a handler entered at e with its body done at b.  *)
NextIs(t, r) == task_stats'[t] = r

Fares(t, e, b) ==
  LET r  == task_stats[t]
      r1 == Book(r, "user_ticks", e)
  IN  \/ t \in Members(freequeue)'
      \/ /\ t \in Members(freequeue) /\ NextIs(t, InitTaskStats(b)) /\ t # current'
      \/ /\ t = current /\ t \notin Members(freequeue)
         /\ \/ NextIs(t, Book(r1, "system_ticks", b))
            \/ NextIs(t, Book(Book(r1, "system_ticks", b), "ready_ticks", b))
            \/ NextIs(t, Book(Book(Book(r1, "user_ticks", b), "system_ticks", b), "ready_ticks", b))
      \/ /\ t # current /\ t \in Members(readyqueue) /\ t \notin Members(freequeue)
         /\ NextIs(t, Book(r, "system_ticks", b))
      \/ /\ t # current /\ t \notin Members(readyqueue) /\ t \notin Members(freequeue)
         /\ NextIs(t, Book(r, "user_ticks", b))
      \/ /\ t # current /\ t # current' /\ t \notin Members(freequeue)
         /\ NextIs(t, r) /\ (t \in Members(readyqueue)' <=> t \in Members(readyqueue))

LEMMA TaskStaysAccounted ==
  ASSUME TInv, NEW u \in Nat, NEW k \in Nat, ticks' = ticks + u + k,
         spent' = [t \in Tasks |-> IF On(t, freequeue) THEN NothingSpent ELSE Passed(t, u, k)],
         NEW t \in Tasks \ {IdleTask}, Fares(t, ticks + u, ticks + u + k)
  PROVE  TaskAccounted(t)'
<1> DEFINE T == ticks
           e == T + u
           b == T + u + k
           r == task_stats[t]
           sp == spent[t]
           sp2 == Passed(t, u, k)
<1>1. /\ IInv /\ Settled /\ T \in Nat /\ Good(task_stats) /\ SpentTyped(spent)
      /\ TaskAccounted(t)
  BY DEF TInv
<1>2. /\ r \in StatsRecord /\ r.elapsed_total_ticks \in Int
      /\ sp \in [Hows -> Nat] /\ sp2 \in [Hows -> Nat]
  BY <1>1, FieldsTyped, PassedTyped DEF Good, SpentTyped
<1>3. /\ sp.running \in Nat /\ sp.inKernel \in Nat /\ sp.waiting \in Nat /\ sp.blocked \in Nat
      /\ e \in Nat /\ b \in Nat
  BY <1>1, <1>2 DEF Hows
<1>4. spent'[t] = IF t \in Members(freequeue) THEN NothingSpent ELSE sp2
  BY DEF On, Members
<1>5. ASSUME t \notin Members(freequeue)
      PROVE  /\ t = current => t \notin Members(readyqueue)
             /\ t = current \/ t \in Members(readyqueue) \/ state[t] = ST_BLOCKED
             /\ t \in Members(readyqueue) => Accounts(r, sp, 0, T - r.elapsed_total_ticks)
             /\ t \notin Members(readyqueue) => Accounts(r, sp, T - r.elapsed_total_ticks, 0)
  <2>1. t = current => t \notin Members(readyqueue)
    BY <1>1, Constants DEF IInv, OnePlace, On, Members
  <2> QED BY <1>1, <1>5, <2>1 DEF TaskAccounted, Settled
<1>6. Accounts(task_stats'[t], spent'[t], 0, 0) /\ task_stats'[t].elapsed_total_ticks = b
        => TaskAccounted(t)'
  <2>1. ticks' = b /\ b - b = 0
    BY <1>3
  <2> QED BY <2>1 DEF TaskAccounted
<1> HIDE DEF r, sp, sp2
<1>7. CASE t \in Members(freequeue)'
  BY <1>7 DEF TaskAccounted
<1>8. CASE t \in Members(freequeue) /\ NextIs(t, InitTaskStats(b))
  <2>1. Accounts(InitTaskStats(b), NothingSpent, 0, 0)
    BY <1>3, InitTaskIs, NothingIs DEF Accounts
  <2> QED BY <1>3, <1>4, <1>6, <1>8, <2>1, InitTaskIs DEF NextIs
<1>9. ASSUME t = current, t \notin Members(freequeue)
      PROVE  /\ Accounts(r, sp, T - r.elapsed_total_ticks, 0)
             /\ sp2.running = sp.running + u /\ sp2.inKernel = sp.inKernel + k
             /\ sp2.waiting = sp.waiting /\ sp2.blocked = sp.blocked
  BY <1>1, <1>5, <1>9, PassedIs DEF sp, sp2
<1> DEFINE el == r.elapsed_total_ticks
<1>10. /\ el \in Int /\ T \in Int /\ b \in Int /\ e \in Int
       /\ T - el \in Int /\ e - el \in Int /\ b - e \in Int /\ b - el \in Int /\ u + k \in Int
       /\ e - el = T - el + u /\ b - e = k /\ b - el = T - el + u + k
  BY <1>1, <1>2, <1>3
<1> HIDE DEF el, T, e, b
<1>11. CASE t = current /\ t \notin Members(freequeue)
  <2> DEFINE r1 == Book(r, "user_ticks", e)
  <2>1. /\ sp2.running + sp2.blocked + sp2.waiting + sp2.inKernel
             = sp.running + sp.blocked + sp.waiting + sp.inKernel + (u + k)
        /\ sp2.running + sp2.blocked - sp.running - sp.blocked = u
        /\ sp2.waiting - sp.waiting = 0
        /\ Accounts(r, sp, T - el, 0)
    BY <1>3, <1>9, <1>11 DEF el
  <2>2. ASSUME NEW r2, Charged(r2, r, e - el, b - e, b) PROVE Accounts(r2, sp2, 0, 0)
    <3>1. /\ e - el + (b - e) = T - el + 0 + (u + k)
          /\ e - el >= T - el + u /\ b - e >= 0 + 0 /\ 0 \in Int
      BY ONLY <1>10, u \in Nat, k \in Nat
    <3> QED BY ONLY <1>2, <1>10, <2>1, <2>2, <3>1, ChargedAccounts
  <2>3. ASSUME NEW r2, Charged(r2, r, b - el, 0, b) PROVE Accounts(r2, sp2, 0, 0)
    <3>1. /\ b - el + 0 = T - el + 0 + (u + k)
          /\ b - el >= T - el + u /\ 0 >= 0 + 0
      BY <1>10
    <3>2. 0 \in Int
      OBVIOUS
    <3> QED BY ONLY <1>2, <1>10, <2>1, <2>3, <3>1, <3>2, ChargedAccounts
  <2>4. /\ Charged(Book(r1, "system_ticks", b), r, e - el, b - e, b)
        /\ Charged(Book(Book(r1, "system_ticks", b), "ready_ticks", b), r, e - el, b - e, b)
        /\ Charged(Book(Book(Book(r1, "user_ticks", b), "system_ticks", b), "ready_ticks", b),
                   r, b - el, 0, b)
    BY <1>2, <1>10, ChargedRunning DEF el
  <2>5. \A r2 : Accounts(r2, sp2, 0, 0) /\ Charged(r2, r, e - el, b - e, b) /\ NextIs(t, r2)
                  => TaskAccounted(t)'
    BY <1>4, <1>6, <1>11 DEF Charged, NextIs
  <2>6. \A r2 : Accounts(r2, sp2, 0, 0) /\ Charged(r2, r, b - el, 0, b) /\ NextIs(t, r2)
                  => TaskAccounted(t)'
    BY <1>4, <1>6, <1>11 DEF Charged, NextIs
  <2>7. \/ NextIs(t, Book(r1, "system_ticks", b))
        \/ NextIs(t, Book(Book(r1, "system_ticks", b), "ready_ticks", b))
        \/ NextIs(t, Book(Book(Book(r1, "user_ticks", b), "system_ticks", b), "ready_ticks", b))
        \/ TaskAccounted(t)'
    BY <1>7, <1>11 DEF Fares, r, e, b, T
  <2> HIDE DEF r1
  <2> QED BY <2>2, <2>3, <2>4, <2>5, <2>6, <2>7
<1>12. ASSUME t # current, t \notin Members(freequeue), t \in Members(readyqueue),
              NextIs(t, Book(r, "system_ticks", b))
       PROVE  TaskAccounted(t)'
  <2>1. /\ sp2.running = sp.running /\ sp2.inKernel = sp.inKernel
        /\ sp2.waiting = sp.waiting + u + k /\ sp2.blocked = sp.blocked
        /\ Accounts(r, sp, 0, T - el)
    BY <1>1, <1>5, <1>12, PassedIs DEF sp, sp2, el
  <2>2. /\ sp2.running + sp2.blocked + sp2.waiting + sp2.inKernel
             = sp.running + sp.blocked + sp.waiting + sp.inKernel + (u + k)
        /\ sp2.running + sp2.blocked - sp.running - sp.blocked = 0
        /\ sp2.waiting - sp.waiting = u + k
    BY ONLY <1>3, <2>1, u \in Nat, k \in Nat
  <2>3. /\ 0 + (b - el) = 0 + (T - el) + (u + k)
        /\ 0 >= 0 + 0 /\ b - el >= T - el + (u + k) /\ 0 \in Int
    BY <1>10
  <2>4. Charged(Book(r, "system_ticks", b), r, 0, b - el, b)
    BY <1>2, <1>10, ChargedOnce DEF el
  <2>5. Accounts(Book(r, "system_ticks", b), sp2, 0, 0)
    BY ONLY <1>2, <1>10, <2>1, <2>2, <2>3, <2>4, ChargedAccounts
  <2> QED BY <1>4, <1>6, <1>12, <2>4, <2>5 DEF Charged, NextIs
<1>13. ASSUME t # current, t \notin Members(freequeue), t \notin Members(readyqueue),
              NextIs(t, Book(r, "user_ticks", b))
       PROVE  TaskAccounted(t)'
  <2>1. /\ sp2.running = sp.running /\ sp2.inKernel = sp.inKernel
        /\ sp2.waiting = sp.waiting /\ sp2.blocked = sp.blocked + u + k
        /\ Accounts(r, sp, T - el, 0)
    BY <1>1, <1>5, <1>13, PassedIs DEF sp, sp2, el
  <2>2. /\ sp2.running + sp2.blocked + sp2.waiting + sp2.inKernel
             = sp.running + sp.blocked + sp.waiting + sp.inKernel + (u + k)
        /\ sp2.running + sp2.blocked - sp.running - sp.blocked = u + k
        /\ sp2.waiting - sp.waiting = 0
    BY ONLY <1>3, <2>1, u \in Nat, k \in Nat
  <2>3. /\ b - el + 0 = T - el + 0 + (u + k)
        /\ 0 >= 0 + 0 /\ b - el >= T - el + (u + k) /\ 0 \in Int
    BY <1>10
  <2>4. Charged(Book(r, "user_ticks", b), r, b - el, 0, b)
    BY <1>2, <1>10, ChargedOnce DEF el
  <2>5. Accounts(Book(r, "user_ticks", b), sp2, 0, 0)
    BY ONLY <1>2, <1>10, <2>1, <2>2, <2>3, <2>4, ChargedAccounts
  <2> QED BY <1>4, <1>6, <1>13, <2>4, <2>5 DEF Charged, NextIs
<1>14. ASSUME t # current, t # current', t \notin Members(freequeue), NextIs(t, r),
              t \in Members(readyqueue)' <=> t \in Members(readyqueue)
       PROVE  TaskAccounted(t)'
  <2>1. task_stats'[t] = r /\ spent'[t] = sp2 /\ ticks' = b
    BY <1>3, <1>4, <1>14 DEF NextIs, b, T
  <2>2. /\ r.user_ticks \in Int /\ r.system_ticks \in Int /\ Total(r) \in Int
    BY <1>2, FieldsTyped
  <2>3. CASE t \in Members(readyqueue)
    <3>1. /\ sp2.running = sp.running /\ sp2.inKernel = sp.inKernel
          /\ sp2.waiting = sp.waiting + u + k /\ sp2.blocked = sp.blocked
          /\ Accounts(r, sp, 0, T - el)
      BY <1>1, <1>5, <1>14, <2>3, PassedIs DEF sp, sp2, el
    <3>2. Accounts(r, sp2, 0, b - el)
      BY <1>3, <1>10, <2>2, <3>1 DEF Accounts
    <3> QED BY <1>14, <2>1, <2>3, <3>2 DEF TaskAccounted, el
  <2>4. CASE t \notin Members(readyqueue)
    <3>1. /\ sp2.running = sp.running /\ sp2.inKernel = sp.inKernel
          /\ sp2.waiting = sp.waiting /\ sp2.blocked = sp.blocked + u + k
          /\ Accounts(r, sp, T - el, 0)
      BY <1>1, <1>5, <1>14, <2>4, PassedIs DEF sp, sp2, el
    <3>2. Accounts(r, sp2, b - el, 0)
      BY <1>3, <1>10, <2>2, <3>1 DEF Accounts
    <3> QED BY <1>14, <2>1, <2>4, <3>2 DEF TaskAccounted, el
  <2> QED BY <2>3, <2>4
<1> QED BY <1>7, <1>8, <1>11, <1>12, <1>13, <1>14 DEF Fares, r, e, b, T

-----------------------------------------------------------------------------
(* The handlers.                                                           *)
LEMMA PlacesApart ==
  ASSUME IInv
  PROVE  /\ current \in Tasks
         /\ \A m \in Queues : current \notin Members(m)
         /\ \A l, m \in Queues, t \in Tasks : t \in Members(l) /\ t \in Members(m) => l = m
         /\ state \in [Tasks -> States]
BY IInvShape DEF Consistent, Running, Placed, Members

Handled(e, b) ==
  /\ IInv' /\ Settled' /\ Good(task_stats')
  /\ \A t \in Tasks \ {IdleTask} : Fares(t, e, b)

LEMMA TickHandled ==
  ASSUME TInv, NEW e \in Int, NEW b \in Int, Tick(e, b) PROVE Handled(e, b)
<1> USE Constants
<1>1. IInv /\ Settled /\ Good(task_stats) /\ ClockInterrupt
  BY DEF TInv, Tick
<1>2. /\ current \in Tasks /\ \A m \in Queues : current \notin Members(m)
      /\ \A l, m \in Queues, t \in Tasks : t \in Members(l) /\ t \in Members(m) => l = m
      /\ state \in [Tasks -> States]
  BY <1>1, PlacesApart
<1>3. /\ current' \in Tasks
      /\ current' \in {current, IdleTask} \cup Members(readyqueue)
      /\ Members(freequeue)' = Members(freequeue)
      /\ \A u \in Tasks : u \in Members(readyqueue)'
           <=> u \in Members(readyqueue) \cup {current} /\ u # current'
  BY <1>1, ClockPlaces DEF Members
<1>4. IInv'
  BY <1>1, ClockKeeps
<1>5. \A t \in Tasks \ {current, current'} : state'[t] = state[t]
  BY <1>1, <1>2, <1>3 DEF ClockInterrupt, SchedNextRR, Restated
<1>6. Settled'
  BY <1>1, <1>3, <1>5 DEF Settled
<1>7. /\ Good(Entered(e))
      /\ \A v \in Tasks : Entered(e)[v] = IF v = current THEN Book(task_stats[v], "user_ticks", e)
                                          ELSE task_stats[v]
  BY <1>1, <1>2, EnteredIs
<1>8. CASE current' = current
  <2>1. task_stats' = Left(Entered(e), current, b)
    BY <1>8 DEF Tick
  <2>2. /\ Good(task_stats')
        /\ \A v \in Tasks \ {IdleTask} :
             task_stats'[v] = IF v = current THEN Book(Entered(e)[v], "system_ticks", b)
                              ELSE Entered(e)[v]
    <3> DEFINE s == Entered(e)
    <3>1. Good(s) /\ current \in Tasks /\ b \in Int /\ task_stats' = Left(s, current, b)
      BY ONLY <1>2, <1>7, <2>1, b \in Int
    <3> HIDE DEF s
    <3>2. /\ Good(task_stats')
          /\ \A v \in Tasks \ {IdleTask} :
               task_stats'[v] = IF v = current THEN Book(s[v], "system_ticks", b) ELSE s[v]
      BY ONLY <3>1, LeftIs
    <3> QED BY ONLY <3>2 DEF s
  <2>3. ASSUME NEW t \in Tasks \ {IdleTask} PROVE Fares(t, e, b)
    BY <1>2, <1>3, <1>7, <1>8, <2>2 DEF Fares, NextIs
  <2> QED BY <1>4, <1>6, <2>2, <2>3 DEF Handled
<1>9. CASE current' # current
  <2> DEFINE s1 == Readied(Entered(e), {current}, b)
             s2 == Dispatched(s1, b)
  <2>1. task_stats' = Left(s2, current', b)
    BY <1>9 DEF Tick
  <2>2. /\ Good(s1)
        /\ \A v \in Tasks : s1[v] = IF v = current THEN Book(Entered(e)[v], "user_ticks", b)
                                    ELSE Entered(e)[v]
    BY <1>7, ReadiedIs
  <2> HIDE DEF s1
  <2>3. /\ Good(s2)
        /\ \A v \in Tasks : s2[v] = IF v = current
                                    THEN Book(Book(s1[v], "system_ticks", b), "ready_ticks", b)
                                    ELSE s1[v]
    BY <1>2, <2>2, DispatchedIs
  <2> HIDE DEF s2
  <2>4. /\ Good(task_stats')
        /\ \A v \in Tasks \ {IdleTask} :
             task_stats'[v] = IF v = current' THEN Book(s2[v], "system_ticks", b) ELSE s2[v]
    <3>1. Good(s2) /\ current' \in Tasks /\ b \in Int
      BY ONLY <1>3, <2>3, b \in Int
    <3>2. /\ Good(Left(s2, current', b))
          /\ \A v \in Tasks \ {IdleTask} :
               Left(s2, current', b)[v] = IF v = current' THEN Book(s2[v], "system_ticks", b)
                                          ELSE s2[v]
      BY ONLY <3>1, LeftIs
    <3> QED BY ONLY <2>1, <3>2
  <2>5. ASSUME NEW t \in Tasks \ {IdleTask} PROVE Fares(t, e, b)
    <3>1. CASE t = current
      BY <1>2, <1>7, <1>9, <2>2, <2>3, <2>4, <3>1 DEF Fares, NextIs
    <3>2. CASE t # current /\ t = current'
      BY <1>2, <1>3, <1>7, <2>2, <2>3, <2>4, <3>2 DEF Fares, NextIs
    <3>3. CASE t # current /\ t # current'
      BY <1>3, <1>7, <2>2, <2>3, <2>4, <3>3 DEF Fares, NextIs
    <3> QED BY <3>1, <3>2, <3>3
  <2> QED BY <1>4, <1>6, <2>4, <2>5 DEF Handled
<1> QED BY <1>8, <1>9

LEMMA BlockCallHandled ==
  ASSUME TInv, NEW e \in Int, NEW b \in Int, BlockCall(e, b) PROVE Handled(e, b)
<1> USE Constants
<1>1. IInv /\ Settled /\ Good(task_stats)
  BY DEF TInv
<1>2. /\ current \in Tasks /\ \A m \in Queues : current \notin Members(m)
      /\ \A l, m \in Queues, t \in Tasks : t \in Members(l) /\ t \in Members(m) => l = m
      /\ state \in [Tasks -> States]
  BY <1>1, PlacesApart
<1>3. /\ IInv' /\ current' \in Tasks /\ current' # current
      /\ current' \in {IdleTask} \cup Members(readyqueue)
      /\ \A u \in Tasks \ {current} : u \in Members(freequeue)' <=> u \in Members(freequeue)
      /\ \A u \in Tasks : u \in Members(readyqueue)' <=> u \in Members(readyqueue) /\ u # current'
      /\ \A t \in Tasks \ {current, current'} : state'[t] = state[t]
      /\ current \in Members(freequeue)' \/ state'[current] = ST_BLOCKED
  <2>1. ASSUME NEW l \in WaitQueues, Block(l)
        PROVE  /\ IInv' /\ current' \in Tasks /\ current' # current
               /\ current' \in {IdleTask} \cup Members(readyqueue)
               /\ Members(freequeue)' = Members(freequeue)
               /\ \A u \in Tasks : u \in Members(readyqueue)'
                                     <=> u \in Members(readyqueue) /\ u # current'
               /\ \A t \in Tasks \ {current, current'} : state'[t] = state[t]
               /\ state'[current] = ST_BLOCKED
    <3>1. /\ current' # current /\ current' \in Tasks
          /\ current' \in {IdleTask} \cup Members(readyqueue)
          /\ \A m \in Queues \ {l, readyqueue} : queue'[m] = queue[m]
          /\ \A u \in Tasks : u \in Members(readyqueue)'
                                <=> u \in Members(readyqueue) /\ u # current'
      BY <1>1, <2>1, BlockPlaces
    <3>2. IInv'
      BY <1>1, <2>1, BlockKeeps
    <3>3. state' = [[state EXCEPT ![current] = ST_BLOCKED] EXCEPT ![current'] = ST_RUN]
      BY <2>1 DEF Block, SchedNextRR, Restated
    <3>4. /\ \A t \in Tasks \ {current, current'} : state'[t] = state[t]
          /\ state'[current] = ST_BLOCKED
      BY <1>2, <3>1, <3>3
    <3> QED BY <3>1, <3>2, <3>4 DEF Members
  <2>2. ASSUME Exit
        PROVE  /\ IInv' /\ current' \in Tasks /\ current' # current
               /\ current' \in {IdleTask} \cup Members(readyqueue)
               /\ \A u \in Tasks : u \in Members(freequeue)'
                                     <=> u \in Members(freequeue) \cup {current}
               /\ \A u \in Tasks : u \in Members(readyqueue)'
                                     <=> u \in Members(readyqueue) /\ u # current'
               /\ \A t \in Tasks \ {current, current'} : state'[t] = state[t]
    <3>1. IInv'
      BY <1>1, <2>2, ExitKeeps
    <3>2. \A t \in Tasks \ {current, current'} : state'[t] = state[t]
      BY <1>2, <2>2 DEF Exit, SchedNextRR
    <3> QED BY <1>1, <2>2, <3>1, <3>2, ExitPlaces
  <2>3. (\E l \in WaitQueues : Block(l)) \/ Exit
    BY DEF BlockCall
  <2>4. CASE \E l \in WaitQueues : Block(l)
    BY <2>1, <2>4
  <2>5. CASE Exit
    BY <1>2, <2>2, <2>5
  <2> QED BY <2>3, <2>4, <2>5
<1>4. Settled'
  BY <1>1, <1>3 DEF Settled
<1> DEFINE s2 == Dispatched(Entered(e), b)
<1>5. /\ Good(Entered(e))
      /\ \A v \in Tasks : Entered(e)[v] = IF v = current THEN Book(task_stats[v], "user_ticks", e)
                                          ELSE task_stats[v]
  BY <1>1, <1>2, EnteredIs
<1>6. /\ Good(s2)
      /\ \A v \in Tasks : s2[v] = IF v = current
                                  THEN Book(Book(Entered(e)[v], "system_ticks", b), "ready_ticks", b)
                                  ELSE Entered(e)[v]
  BY <1>2, <1>5, DispatchedIs
<1>7. task_stats' = Left(s2, current', b)
  BY DEF BlockCall
<1> HIDE DEF s2
<1>8. /\ Good(task_stats')
      /\ \A v \in Tasks \ {IdleTask} :
           task_stats'[v] = IF v = current' THEN Book(s2[v], "system_ticks", b) ELSE s2[v]
  <2>1. current' \in Tasks
    BY <1>3
  <2> QED BY ONLY <1>6, <1>7, <2>1, b \in Int, LeftIs
<1>9. ASSUME NEW t \in Tasks \ {IdleTask} PROVE Fares(t, e, b)
  <2>1. CASE t = current
    BY <1>2, <1>3, <1>5, <1>6, <1>8, <2>1 DEF Fares, NextIs
  <2>2. CASE t # current /\ t = current'
    BY <1>2, <1>3, <1>5, <1>6, <1>8, <2>2 DEF Fares, NextIs
  <2>3. CASE t # current /\ t # current'
    BY <1>3, <1>5, <1>6, <1>8, <2>3 DEF Fares, NextIs
  <2> QED BY <2>1, <2>2, <2>3
<1> QED BY <1>3, <1>4, <1>8, <1>9 DEF Handled

LEMMA WakeCallHandled ==
  ASSUME TInv, NEW l \in WaitQueues, NEW e \in Int, NEW b \in Int, WakeCall(l, e, b)
  PROVE  Handled(e, b)
<1> USE Constants
<1>1. IInv /\ Settled /\ Good(task_stats)
  BY DEF TInv
<1>2. /\ current \in Tasks /\ \A m \in Queues : current \notin Members(m)
      /\ \A m, n \in Queues, t \in Tasks : t \in Members(m) /\ t \in Members(n) => m = n
      /\ state \in [Tasks -> States]
  BY <1>1, PlacesApart
<1>3. PICK ts :
        /\ task_stats' = Left(Readied(Entered(e), ts, b), current, b)
        /\ ts \subseteq Members(l)
        /\ IInv' /\ current' = current /\ Members(freequeue)' = Members(freequeue)
        /\ \A u \in Tasks : u \in Members(readyqueue)' <=> u \in Members(readyqueue) \/ u \in ts
        /\ \A t \in Tasks \ ts : state'[t] = state[t]
  <2>1. CASE /\ Wake(l)
             /\ task_stats' = Left(Readied(Entered(e), {Head(queue[l])}, b), current, b)
    <3>1. IInv'
      BY <1>1, <2>1, WakeKeeps
    <3>2. /\ current' = current /\ Head(queue[l]) \in Tasks /\ Head(queue[l]) \in Members(l)
          /\ Members(freequeue)' = Members(freequeue)
          /\ \A u \in Tasks : u \in Members(readyqueue)'
                                <=> u \in Members(readyqueue) \cup {Head(queue[l])}
      BY <1>1, <2>1, WakePlaces DEF Members
    <3>3. \A t \in Tasks \ {Head(queue[l])} : state'[t] = state[t]
      BY <1>2, <2>1 DEF Wake, Restated
    <3> QED BY <2>1, <3>1, <3>2, <3>3
  <2>2. CASE /\ WakeAll(l)
             /\ task_stats' = Left(Readied(Entered(e), Range(queue[l]), b), current, b)
    <3>1. IInv'
      BY <1>1, <2>2, WakeAllKeeps
    <3>2. /\ current' = current /\ Members(freequeue)' = Members(freequeue)
          /\ Members(readyqueue)' = Members(readyqueue) \cup Members(l)
      BY <1>1, <2>2, WakeAllPlaces DEF Members
    <3>3. \A t \in Tasks \ Range(queue[l]) : state'[t] = state[t]
      BY <1>2, <2>2 DEF WakeAll, On
    <3> QED BY <2>2, <3>1, <3>2, <3>3 DEF Members
  <2> QED BY <2>1, <2>2 DEF WakeCall
<1>4. Settled'
  BY <1>1, <1>3 DEF Settled
<1> DEFINE s2 == Readied(Entered(e), ts, b)
<1>5. /\ Good(Entered(e))
      /\ \A v \in Tasks : Entered(e)[v] = IF v = current THEN Book(task_stats[v], "user_ticks", e)
                                          ELSE task_stats[v]
  BY <1>1, <1>2, EnteredIs
<1>6. /\ Good(s2)
      /\ \A v \in Tasks : s2[v] = IF v \in ts THEN Book(Entered(e)[v], "user_ticks", b)
                                  ELSE Entered(e)[v]
  BY <1>5, ReadiedIs
<1>7. task_stats' = Left(s2, current, b)
  BY <1>3
<1> HIDE DEF s2
<1>8. /\ Good(task_stats')
      /\ \A v \in Tasks \ {IdleTask} :
           task_stats'[v] = IF v = current THEN Book(s2[v], "system_ticks", b) ELSE s2[v]
  BY ONLY <1>2, <1>6, <1>7, b \in Int, LeftIs
<1>9. ASSUME NEW t \in Tasks \ {IdleTask} PROVE Fares(t, e, b)
  <2>1. CASE t = current
    BY <1>2, <1>3, <1>5, <1>6, <1>8, <2>1 DEF Fares, NextIs
  <2>2. CASE t # current /\ t \in ts
    BY <1>2, <1>3, <1>5, <1>6, <1>8, <2>2 DEF Fares, NextIs
  <2>3. CASE t # current /\ t \notin ts
    BY <1>3, <1>5, <1>6, <1>8, <2>3 DEF Fares, NextIs
  <2> QED BY <2>1, <2>2, <2>3
<1> QED BY <1>3, <1>4, <1>8, <1>9 DEF Handled

LEMMA SpawnCallHandled ==
  ASSUME TInv, NEW e \in Int, NEW b \in Int, SpawnCall(e, b) PROVE Handled(e, b)
<1> USE Constants
<1>1. IInv /\ Settled /\ Good(task_stats) /\ Spawn
  BY DEF TInv, SpawnCall
<1>2. /\ current \in Tasks /\ \A m \in Queues : current \notin Members(m)
      /\ state \in [Tasks -> States]
  BY <1>1, PlacesApart
<1>3. PICK c \in Tasks : c = Child
  BY <1>1, SpawnPlaces
<1>4. /\ c \in Members(freequeue) /\ c # current /\ current' = current
      /\ \A u \in Tasks : /\ u \in Members(freequeue)' <=> u \in Members(freequeue) /\ u # c
                          /\ u \in Members(readyqueue)' <=> u \in Members(readyqueue) \cup {c}
  BY <1>1, <1>3, SpawnPlaces
<1>5. IInv'
  BY <1>1, SpawnKeeps
<1>6. \A t \in Tasks \ {c} : state'[t] = state[t]
  BY <1>1, <1>2, <1>3 DEF Spawn
<1>7. Settled'
  BY <1>1, <1>4, <1>6 DEF Settled
<1> DEFINE s2 == [Entered(e) EXCEPT ![c] = InitTaskStats(b)]
<1>8. /\ Good(Entered(e))
      /\ \A v \in Tasks : Entered(e)[v] = IF v = current THEN Book(task_stats[v], "user_ticks", e)
                                          ELSE task_stats[v]
  BY <1>1, <1>2, EnteredIs
<1>9. /\ Good(s2)
      /\ \A v \in Tasks : s2[v] = IF v = c THEN InitTaskStats(b) ELSE Entered(e)[v]
  <2>1. /\ InitTaskStats(b) \in StatsRecord
        /\ Total(InitTaskStats(b))
             = InitTaskStats(b).elapsed_total_ticks - InitTaskStats(b).remaining_ticks
    BY InitTaskIs
  <2>2. Entered(e) \in [Tasks -> StatsRecord]
    BY <1>8 DEF Good
  <2>3. /\ s2 \in [Tasks -> StatsRecord]
        /\ \A v \in Tasks : s2[v] = IF v = c THEN InitTaskStats(b) ELSE Entered(e)[v]
    BY <2>1, <2>2
  <2> QED BY <1>8, <2>1, <2>3 DEF Good
<1>10. task_stats' = Left(s2, current, b)
  BY <1>3 DEF SpawnCall
<1> HIDE DEF s2
<1>11. /\ Good(task_stats')
       /\ \A v \in Tasks \ {IdleTask} :
            task_stats'[v] = IF v = current THEN Book(s2[v], "system_ticks", b) ELSE s2[v]
  BY ONLY <1>2, <1>9, <1>10, b \in Int, LeftIs
<1>12. ASSUME NEW t \in Tasks \ {IdleTask} PROVE Fares(t, e, b)
  <2>1. CASE t = current
    BY <1>2, <1>4, <1>8, <1>9, <1>11, <2>1 DEF Fares, NextIs
  <2>2. CASE t = c
    BY <1>4, <1>9, <1>11, <2>2 DEF Fares, NextIs
  <2>3. CASE t # current /\ t # c
    BY <1>4, <1>8, <1>9, <1>11, <2>3 DEF Fares, NextIs
  <2> QED BY <2>1, <2>2, <2>3
<1> QED BY <1>5, <1>7, <1>11, <1>12 DEF Handled

LEMMA PlainCallHandled ==
  ASSUME TInv, NEW e \in Int, NEW b \in Int, PlainCall(e, b) PROVE Handled(e, b)
<1> USE Constants
<1>1. IInv /\ Settled /\ Good(task_stats)
  BY DEF TInv
<1>2. /\ current \in Tasks /\ \A m \in Queues : current \notin Members(m)
  BY <1>1, PlacesApart
<1>3. /\ IInv' /\ current' = current /\ state' = state
      /\ Members(freequeue)' = Members(freequeue)
      /\ Members(readyqueue)' = Members(readyqueue)
  <2>1. CASE UNCHANGED schedVars
    <3>1. IInv'
      BY <1>1, <2>1, StepKeeps
    <3> QED BY <2>1, <3>1 DEF schedVars, Members
  <2>2. ASSUME NEW l \in WaitQueues, ResetQueue(l)
        PROVE  /\ IInv' /\ current' = current /\ state' = state
               /\ Members(freequeue)' = Members(freequeue)
               /\ Members(readyqueue)' = Members(readyqueue)
    BY <1>1, <2>2, ResetKeeps, ResetPlaces DEF Members
  <2>3. ASSUME NEW l \in WaitQueues, Strand(l)
        PROVE  /\ IInv' /\ current' = current /\ state' = state
               /\ Members(freequeue)' = Members(freequeue)
               /\ Members(readyqueue)' = Members(readyqueue)
    BY <1>1, <2>3, StrandKeeps, StrandPlaces DEF Members
  <2> QED BY <2>1, <2>2, <2>3 DEF PlainCall
<1>4. Settled'
  BY <1>1, <1>3 DEF Settled
<1>5. /\ Good(Entered(e))
      /\ \A v \in Tasks : Entered(e)[v] = IF v = current THEN Book(task_stats[v], "user_ticks", e)
                                          ELSE task_stats[v]
  BY <1>1, <1>2, EnteredIs
<1>6. task_stats' = Left(Entered(e), current, b)
  BY DEF PlainCall
<1>7. /\ Good(task_stats')
      /\ \A v \in Tasks \ {IdleTask} :
           task_stats'[v] = IF v = current THEN Book(Entered(e)[v], "system_ticks", b)
                            ELSE Entered(e)[v]
  BY ONLY <1>2, <1>5, <1>6, b \in Int, LeftIs
<1>8. ASSUME NEW t \in Tasks \ {IdleTask} PROVE Fares(t, e, b)
  BY <1>2, <1>3, <1>5, <1>7 DEF Fares, NextIs
<1> QED BY <1>3, <1>4, <1>7, <1>8 DEF Handled

-----------------------------------------------------------------------------
LEMMA StatsInitHolds == StatsInit => TInv
<1> SUFFICES ASSUME StatsInit PROVE TInv
  OBVIOUS
<1> USE Constants
<1>1. /\ SchedInit /\ ticks \in Nat
      /\ task_stats = [t \in Tasks |-> InitTaskStats(0)]
      /\ spent = [t \in Tasks |-> [NothingSpent EXCEPT !.running = IF t = Task1 THEN ticks ELSE 0]]
  BY StatsAssumption DEF StatsInit
<1>2. IInv
  BY <1>1, InitHolds
<1>3. /\ Members(readyqueue) = {} /\ current = Task1
      /\ \A t \in Tasks : t \in Members(freequeue) <=> t # IdleTask /\ t # Task1
  BY <1>1, InitPlaces DEF SchedInit
<1>4. Settled
  BY <1>3 DEF Settled
<1> DEFINE r == InitTaskStats(0)
<1>5. /\ r \in StatsRecord /\ Total(r) = 0 /\ r.elapsed_total_ticks = 0
      /\ r.remaining_ticks = 0 /\ r.user_ticks = 0 /\ r.system_ticks = 0 /\ r.ready_ticks = 0
  BY InitTaskIs
<1>6. Good(task_stats)
  BY <1>1, <1>5 DEF Good
<1>7. /\ \A t \in Tasks : spent[t] \in [Hows -> Nat]
      /\ spent[Task1].running = ticks /\ spent[Task1].blocked = 0
      /\ spent[Task1].waiting = 0 /\ spent[Task1].inKernel = 0
  BY <1>1, NothingIs DEF Hows
<1>8. SpentTyped(spent)
  BY <1>1, <1>7 DEF SpentTyped
<1>9. Accounts(r, spent[Task1], ticks - 0, 0)
  BY <1>1, <1>5, <1>7 DEF Accounts
<1>10. \A t \in Tasks \ {IdleTask} : TaskAccounted(t)
  BY <1>1, <1>3, <1>5, <1>9 DEF TaskAccounted
<1> QED BY <1>1, <1>2, <1>4, <1>6, <1>8, <1>10 DEF TInv

LEMMA StatsStepKeeps == TInv /\ [StatsNext]_statsVars => TInv'
<1> SUFFICES ASSUME TInv, [StatsNext]_statsVars PROVE TInv'
  OBVIOUS
<1>1. CASE StatsNext
  <2>1. PICK u \in Nat, k \in Nat :
          /\ ticks' = ticks + u + k
          /\ Handler(ticks + u, ticks + u + k)
          /\ spent' = [t \in Tasks |-> IF On(t, freequeue) THEN NothingSpent
                                       ELSE Passed(t, u, k)]
    BY <1>1, StatsAssumption DEF StatsNext
  <2>2. ticks \in Nat /\ SpentTyped(spent)
    BY DEF TInv
  <2>3. ticks + u \in Int /\ ticks + u + k \in Int /\ ticks' \in Nat
    BY <2>1, <2>2
  <2>4. Handled(ticks + u, ticks + u + k)
    BY <2>1, <2>3, TickHandled, BlockCallHandled, SpawnCallHandled, PlainCallHandled,
       WakeCallHandled DEF Handler
  <2>5. SpentTyped(spent')
    BY <2>1, <2>2, PassedTyped, NothingIs DEF SpentTyped
  <2>6. ASSUME NEW t \in Tasks \ {IdleTask} PROVE TaskAccounted(t)'
    BY <2>1, <2>4, TaskStaysAccounted DEF Handled
  <2> QED BY <2>3, <2>4, <2>5, <2>6 DEF TInv, Handled
<1>2. CASE UNCHANGED statsVars
  <2>1. IInv /\ UNCHANGED schedVars
    BY <1>2 DEF TInv, statsVars
  <2>2. IInv'
    BY <2>1, StepKeeps
  <2> QED BY <1>2, <2>2 DEF TInv, statsVars, schedVars, Settled, Members, TaskAccounted
<1> QED BY <1>1, <1>2

(* TInv is invariant: at any time every task's sums, with what will still  *)
(* be booked for it, account for all the time it was given.                *)
THEOREM StatsInvariant == StatsSpec => []TInv
BY StatsInitHolds, StatsStepKeeps, PTL DEF StatsSpec

(* What get_stats() shows a process: time blocked in user_ticks, time      *)
(* waiting in system_ticks, and never anything in ready_ticks.             *)
THEOREM SumsMeanThis == StatsSpec => []TimeBookedAs
<1>1. TInv => TimeBookedAs
  <2> SUFFICES ASSUME TInv, current # IdleTask PROVE TimeBookedAs
    BY DEF TimeBookedAs
  <2> DEFINE r == task_stats[current]
             late == ticks - r.elapsed_total_ticks
             sp == spent[current]
  <2>1. /\ current \in Tasks /\ current \notin Members(freequeue)
        /\ current \notin Members(readyqueue)
    BY Constants, PlacesApart DEF TInv
  <2>2. /\ Accounts(r, sp, late, 0)
        /\ late # 0 => current = Task1 /\ Total(r) = 0
    BY <2>1 DEF TInv, TaskAccounted
  <2>3. r \in StatsRecord /\ sp \in [Hows -> Nat] /\ ticks \in Nat
    BY <2>1 DEF TInv, Good, SpentTyped
  <2>4. /\ sp.running \in Nat /\ sp.blocked \in Nat /\ sp.waiting \in Nat /\ sp.inKernel \in Nat
    BY <2>3 DEF Hows
  <2>5. /\ r.user_ticks \in Int /\ r.system_ticks \in Int /\ r.ready_ticks \in Int
        /\ late \in Int /\ Total(r) = r.user_ticks + r.system_ticks + r.ready_ticks
    BY <2>3, FieldsTyped
  <2>6. Booked(current) = Total(r)
    BY DEF Booked, Total
  <2> HIDE DEF late, sp
  <2>7. /\ r.user_ticks + late >= sp.running + sp.blocked
        /\ r.system_ticks >= sp.waiting
        /\ r.ready_ticks = 0
        /\ Total(r) + late = sp.running + sp.blocked + sp.waiting + sp.inKernel
        /\ late > 0 => current = Task1 /\ Total(r) = 0
    BY <2>2, <2>4, <2>5 DEF Accounts
  <2> QED BY <2>6, <2>7 DEF TimeBookedAs, late, sp
<1> QED BY <1>1, StatsInvariant, PTL
=============================================================================
