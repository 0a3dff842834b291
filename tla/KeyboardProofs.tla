---------------------------- MODULE KeyboardProofs ----------------------------
(***************************************************************************)
(* Proofs about reading from the keyboard, for any capacity of the buffer, *)
(* any counts and any number of readers.                                   *)
(*                                                                         *)
(* The loop of sys_read_keyboard keeps an invariant of its own, whatever   *)
(* runs while it is blocked: what was read and what is left make up the    *)
(* count, and a reader that the buffer is too small for has read a number  *)
(* of whole buffers, the last of them with something left to read.         *)
(***************************************************************************)
EXTENDS Keyboard, SchedProofs

Serial == 0 .. Serials - 1

Calls == [size : Nat, to_read : Int, already_read : Nat, got : Seq(Serial)]

KbTypes ==
  /\ fifo \in Seq(Serial) /\ Len(fifo) <= Capacity
  /\ next \in Serial
  /\ call \in [Tasks -> Calls]

(* The keys in the buffer follow one another, and the next follows them.   *)
InSequence(s, n) == Consecutive(s) /\ (s # << >> => n = (s[Len(s)] + 1) % Serials)

(* n keys are whole buffers, and all but the last left something to read.  *)
WholeBuffers(n, count) ==
  \E k \in Nat \ {0} : n = Capacity * k /\ Capacity * (k - 1) < count

Unread(c) == c.already_read = 0 /\ c.got = << >>

ReadAtOnce(c) == c.size <= Capacity /\ c.to_read = 0 /\ Len(c.got) = c.size

ReadInRounds(c) ==
  c.size > Capacity /\ Len(c.got) = Capacity /\ WholeBuffers(c.already_read, c.size)

InLoop(c) ==
  /\ c.already_read + c.to_read = c.size
  /\ Consecutive(c.got)
  /\ Unread(c) \/ ReadAtOnce(c) \/ ReadInRounds(c)

ReadersInLoop == \A t \in Tasks : Reading(t) => t # IdleTask /\ InLoop(call[t])

KInv == IInv /\ KbTypes /\ InSequence(fifo, next) /\ ReadersInLoop

(* What the two action properties say of a step.                           *)
CountStep ==
  \A t \in Tasks :
    Reading(t) /\ ~Reading(t)' => call[t].already_read = Returned(call[t].size)

KeysStep ==
  \A t \in Tasks :
    Reading(t) /\ ~Reading(t)' =>
      /\ Consecutive(call[t].got)
      /\ Len(call[t].got) = IF call[t].size <= Capacity THEN call[t].size ELSE Capacity

KbKeeps == KInv' /\ CountStep /\ KeysStep

-----------------------------------------------------------------------------
LEMMA KbConstants ==
  /\ keyboardqueue \in WaitQueues /\ Capacity \in Nat /\ Capacity >= 1
  /\ \A n \in Counts : n \in Nat /\ n >= 1
  /\ Serials \in Nat /\ Serials >= 1
BY KeyboardAssumption

(* The number of buffers it takes is the count divided and rounded up.     *)
LEMMA RoundedUp ==
  ASSUME NEW C \in Nat, C >= 1, NEW k \in Nat, k >= 1, NEW n \in Nat,
         C * (k - 1) < n, n <= C * k
  PROVE  (n + C - 1) \div C = k
<1> DEFINE m == n + C - 1
           q == m \div C
<1>1. m \in Int /\ m >= 0
  OBVIOUS
<1>2. C * (k - 1) = C * k - C /\ C * k \in Int /\ C * (k + 1) = C * k + C
  OBVIOUS
<1>3. C * k <= m /\ m < C * k + C
  BY <1>2
<1> HIDE DEF m
<1>4. q \in Int /\ C * q <= m /\ m < C * (q + 1)
  BY <1>1
<1> HIDE DEF q
<1>5. ~(q < k) /\ ~(k < q)
  <2>1. ASSUME NEW x \in Int, NEW y \in Int, x < y PROVE C * (x + 1) <= C * y
    <3>1. PICK d \in Nat : y = x + 1 + d
      <4>1. y - x - 1 \in Nat /\ y = x + 1 + (y - x - 1)
        BY <2>1
      <4> QED BY ONLY <4>1
    <3>2. C * y = C * (x + 1) + C * d
      BY <3>1
    <3>3. C * d >= 0 /\ C * d \in Int /\ C * (x + 1) \in Int
      OBVIOUS
    <3> QED BY ONLY <3>2, <3>3
  <2>2. k \in Int /\ q \in Int
    BY <1>4
  <2>3. (q < k => C * (q + 1) <= C * k) /\ (k < q => C * (k + 1) <= C * q)
    BY ONLY <2>1, <2>2
  <2>4. C * (q + 1) \in Int /\ C * q \in Int
    BY <1>4
  <2> QED BY <1>1, <1>2, <1>3, <1>4, <2>3, <2>4
<1>6. q = k
  BY <1>4, <1>5
<1> QED BY <1>6 DEF q, m

LEMMA WholeBuffersReturned ==
  ASSUME NEW count \in Nat, NEW n \in Nat, count > Capacity, WholeBuffers(n, count),
         count <= n
  PROVE  n = Returned(count)
<1> USE KbConstants
<1>1. PICK k \in Nat \ {0} : n = Capacity * k /\ Capacity * (k - 1) < count
  BY DEF WholeBuffers
<1>2. k \in Nat /\ k >= 1
  BY <1>1
<1>3. (count + Capacity - 1) \div Capacity = k
  BY ONLY KbConstants, count \in Nat, count <= n, <1>1, <1>2, RoundedUp
<1> QED BY <1>1, <1>3 DEF Returned

LEMMA OneMoreBuffer ==
  ASSUME NEW count \in Nat, NEW n \in Nat, n < count, n = 0 \/ WholeBuffers(n, count)
  PROVE  WholeBuffers(n + Capacity, count)
<1> USE KbConstants
<1>1. CASE n = 0
  <2>1. 1 \in Nat \ {0} /\ n + Capacity = Capacity * 1 /\ Capacity * (1 - 1) = 0
    BY <1>1
  <2> QED BY <1>1, <2>1 DEF WholeBuffers
<1>2. CASE WholeBuffers(n, count)
  <2>1. PICK k \in Nat \ {0} : n = Capacity * k
    BY <1>2 DEF WholeBuffers
  <2> DEFINE j == k + 1
  <2>2. /\ j \in Nat \ {0} /\ n + Capacity = Capacity * j
        /\ Capacity * (j - 1) < count
    BY <2>1
  <2> HIDE DEF j
  <2> QED BY <2>2 DEF WholeBuffers
<1> QED BY <1>1, <1>2

-----------------------------------------------------------------------------
(* Sequences of keys.                                                      *)

LEMMA SubSeqFacts ==
  ASSUME NEW s \in Seq(Serial), NEW a \in Nat, NEW b \in Nat, 1 <= a, b <= Len(s), a <= b + 1
  PROVE  /\ SubSeq(s, a, b) \in Seq(Serial) /\ Len(SubSeq(s, a, b)) = b - a + 1
         /\ \A i \in 1 .. b - a + 1 : SubSeq(s, a, b)[i] = s[a + i - 1]
OBVIOUS

LEMMA SubSeqConsecutive ==
  ASSUME NEW s \in Seq(Serial), NEW a \in Nat, NEW b \in Nat, 1 <= a, b <= Len(s), a <= b + 1,
         Consecutive(s)
  PROVE  Consecutive(SubSeq(s, a, b))
<1> DEFINE r == SubSeq(s, a, b)
<1>1. Len(r) = b - a + 1 /\ \A i \in 1 .. b - a + 1 : r[i] = s[a + i - 1]
  BY SubSeqFacts
<1> HIDE DEF r
<1>2. ASSUME NEW i \in 1 .. Len(r) - 1 PROVE r[i + 1] = (r[i] + 1) % Serials
  <2>1. /\ i \in 1 .. b - a + 1 /\ i + 1 \in 1 .. b - a + 1 /\ a + (i + 1) - 1 = a + i - 1 + 1
        /\ a + i - 1 \in 1 .. Len(s) - 1
    BY <1>1
  <2>2. s[a + i - 1 + 1] = (s[a + i - 1] + 1) % Serials
    BY <2>1 DEF Consecutive
  <2>3. r[i] = s[a + i - 1] /\ r[i + 1] = s[a + i - 1 + 1]
    BY <1>1, <2>1
  <2> QED BY <2>2, <2>3
<1> QED BY <1>2 DEF Consecutive, r

(* The rest of the buffer is still in sequence with the next key.          *)
LEMMA RestInSequence ==
  ASSUME NEW s \in Seq(Serial), NEW n, NEW a \in Nat, a <= Len(s), InSequence(s, n)
  PROVE  InSequence(SubSeq(s, a + 1, Len(s)), n)
<1> DEFINE b == Len(s)
           r == SubSeq(s, a + 1, b)
<1>1. b \in Nat /\ a + 1 \in Nat /\ 1 <= a + 1 /\ b <= Len(s) /\ a + 1 <= b + 1
  OBVIOUS
<1>2. Consecutive(r)
  BY <1>1, SubSeqConsecutive DEF InSequence
<1>3. r \in Seq(Serial) /\ Len(r) = b - a /\ \A i \in 1 .. b - a : r[i] = s[a + i]
  BY <1>1
<1>4. ASSUME r # << >> PROVE n = (r[Len(r)] + 1) % Serials
  <2>1. Len(r) # 0 /\ s # << >>
    BY <1>3, <1>4
  <2>2. Len(r) \in 1 .. b - a /\ a + Len(r) = b
    BY <1>1, <1>3, <2>1
  <2>3. r[Len(r)] = s[b]
    BY ONLY <1>3, <2>2
  <2> QED BY <2>1, <2>3 DEF InSequence
<1> QED BY <1>2, <1>4 DEF InSequence

LEMMA AppendInSequence ==
  ASSUME NEW s \in Seq(Serial), NEW n \in Serial, InSequence(s, n)
  PROVE  InSequence(Append(s, n), (n + 1) % Serials)
<1> DEFINE r == Append(s, n)
           k == Len(s)
<1>1. k \in Nat /\ Len(r) = k + 1 /\ r[k + 1] = n /\ \A i \in 1 .. k : r[i] = s[i]
  OBVIOUS
<1>2. k = 0 <=> s = << >>
  OBVIOUS
<1>3. \A i \in 1 .. k - 1 : s[i + 1] = (s[i] + 1) % Serials
  BY DEF InSequence, Consecutive
<1>4. k # 0 => n = (s[k] + 1) % Serials
  BY <1>2 DEF InSequence
<1> HIDE DEF r, k
<1>5. \A i \in 1 .. k : r[i + 1] = (r[i] + 1) % Serials
  BY <1>1, <1>3, <1>4
<1> QED BY <1>1, <1>5 DEF InSequence, Consecutive, r

-----------------------------------------------------------------------------
(* Steps in which no read goes on.                                         *)

LEMMA CallsLeft ==
  ASSUME KInv, IInv', UNCHANGED call, fifo' \in Seq(Serial), Len(fifo') <= Capacity,
         next' \in Serial, InSequence(fifo', next')
  PROVE  KbKeeps
<1>1. ReadersInLoop'
  BY DEF KInv, ReadersInLoop, Reading
<1>2. CountStep /\ KeysStep
  BY DEF CountStep, KeysStep, Reading
<1>3. KbTypes'
  BY DEF KInv, KbTypes
<1> QED BY <1>1, <1>2, <1>3 DEF KbKeeps, KInv

LEMMA OthersKeep ==
  ASSUME KInv, IInv', UNCHANGED <<fifo, next, call>> PROVE KbKeeps
<1>1. fifo' \in Seq(Serial) /\ Len(fifo') <= Capacity /\ next' \in Serial
  BY DEF KInv, KbTypes
<1>2. InSequence(fifo', next')
  BY DEF KInv
<1> QED BY <1>1, <1>2, CallsLeft

LEMMA KeyKeeps == ASSUME KInv, IInv', KeyInterrupt PROVE KbKeeps
<1>1. UNCHANGED call /\ fifo' = Stored /\ next' = IF Full THEN next ELSE (next + 1) % Serials
  BY DEF KeyInterrupt
<1>2. /\ fifo \in Seq(Serial) /\ Len(fifo) \in Nat /\ Len(fifo) <= Capacity
      /\ next \in Serial /\ InSequence(fifo, next)
  BY DEF KInv, KbTypes
<1>3. CASE Full
  <2>1. fifo' = fifo /\ next' = next
    BY <1>1, <1>3 DEF Stored
  <2> QED BY <1>1, <1>2, <2>1, CallsLeft
<1>4. CASE ~Full
  <2>1. fifo' = Append(fifo, next) /\ next' = (next + 1) % Serials
    BY <1>1, <1>4 DEF Stored
  <2>2. fifo' \in Seq(Serial) /\ Len(fifo') <= Capacity
    BY <1>2, <1>4, <2>1, KbConstants DEF Full
  <2>3. next' \in Serial
    BY <1>2, <2>1, KbConstants DEF Serial
  <2>4. InSequence(fifo', next')
    BY <1>2, <2>1, AppendInSequence
  <2> QED BY <1>1, <2>2, <2>3, <2>4, CallsLeft
<1> QED BY <1>3, <1>4

-----------------------------------------------------------------------------
(* Steps of sys_read: c is what becomes of the running task's call.        *)

LEMMA ReadKeeps ==
  ASSUME KInv, IInv', NEW c \in Calls, call' = [call EXCEPT ![current] = c],
         c.size # 0 => current # IdleTask /\ InLoop(c),
         Reading(current) /\ c.size = 0 =>
           /\ call[current].already_read = Returned(call[current].size)
           /\ Consecutive(call[current].got)
           /\ Len(call[current].got) =
                IF call[current].size <= Capacity THEN call[current].size ELSE Capacity,
         fifo' \in Seq(Serial), Len(fifo') <= Capacity, InSequence(fifo', next), next' = next
  PROVE  KbKeeps
<1>1. call \in [Tasks -> Calls] /\ current \in Tasks /\ next \in Serial
  BY DEF KInv, KbTypes, IInv, TypeOK
<1>2. call'[current] = c /\ \A t \in Tasks \ {current} : call'[t] = call[t]
  BY <1>1
<1>3. KbTypes'
  BY <1>1 DEF KbTypes
<1>4. ReadersInLoop'
  BY <1>2 DEF KInv, ReadersInLoop, Reading
<1>5. CountStep /\ KeysStep
  BY <1>1, <1>2 DEF CountStep, KeysStep, Reading
<1> QED BY <1>3, <1>4, <1>5 DEF KbKeeps, KInv

(* A call some of whose fields have changed.                               *)
Changed(d, c, x, y, g) == d = [c EXCEPT !.to_read = x, !.already_read = y, !.got = g]

LEMMA ChangedCall ==
  ASSUME NEW c \in Calls, NEW x \in Int, NEW y \in Nat, NEW g \in Seq(Serial), NEW d,
         Changed(d, c, x, y, g)
  PROVE  /\ d \in Calls /\ d.size = c.size /\ d.to_read = x /\ d.already_read = y
         /\ d.got = g
BY DEF Calls, Changed

LEMMA NewCall ==
  ASSUME NEW n \in Nat, NEW d, d = [NotReading EXCEPT !.size = n, !.to_read = n]
  PROVE  /\ d \in Calls /\ d.size = n /\ d.to_read = n /\ d.already_read = 0
         /\ d.got = << >>
<1>1. << >> \in Seq(Serial) /\ n \in Int /\ 0 \in Nat
  OBVIOUS
<1>2. d.size = n /\ d.to_read = n /\ d.already_read = 0 /\ d.got = << >>
  BY DEF NotReading
<1>3. d = [size |-> n, to_read |-> n, already_read |-> 0, got |-> << >>]
  BY DEF NotReading
<1> QED BY <1>1, <1>2, <1>3 DEF Calls

LEMMA SysReadKeeps == ASSUME KInv, IInv', NEW n \in Counts, SysRead(n) PROVE KbKeeps
<1> DEFINE c == [NotReading EXCEPT !.size = n, !.to_read = n]
<1>1. n \in Nat /\ n >= 1
  BY KbConstants
<1>2. c = [NotReading EXCEPT !.size = n, !.to_read = n]
  OBVIOUS
<1>3. /\ call' = [call EXCEPT ![current] = c] /\ UNCHANGED <<fifo, next>>
      /\ current # IdleTask /\ ~Reading(current)
  BY DEF SysRead, UserMode
<1> HIDE DEF c
<1>4. /\ c \in Calls /\ c.size = n /\ c.to_read = n /\ c.already_read = 0
      /\ c.got = << >>
  BY ONLY <1>1, <1>2, NewCall
<1>5. Consecutive(<< >>)
  BY DEF Consecutive
<1>6. InLoop(c)
  BY <1>1, <1>4, <1>5 DEF InLoop, Unread
<1>7. fifo' \in Seq(Serial) /\ Len(fifo') <= Capacity /\ InSequence(fifo', next)
  BY <1>3 DEF KInv, KbTypes
<1>8. next' = next
  BY <1>3
<1> QED BY <1>3, <1>4, <1>6, <1>7, <1>8, ReadKeeps

(* What is known of the reader that runs.                                  *)
LEMMA ReaderIs ==
  ASSUME KInv, Reading(current)
  PROVE  /\ call[current] \in Calls /\ call[current].size # 0
         /\ current # IdleTask /\ InLoop(call[current])
         /\ fifo \in Seq(Serial) /\ Len(fifo) \in Nat /\ Len(fifo) <= Capacity
         /\ InSequence(fifo, next)
<1>1. current \in Tasks /\ call \in [Tasks -> Calls] /\ fifo \in Seq(Serial)
  BY DEF KInv, KbTypes, IInv, TypeOK
<1> QED BY <1>1 DEF KInv, KbTypes, ReadersInLoop, Reading

LEMMA ReturnsKeep == ASSUME KInv, IInv', ReadReturns PROVE KbKeeps
<1> DEFINE c == call[current]
<1>1. /\ Reading(current) /\ c.to_read <= 0 /\ UNCHANGED <<fifo, next>>
      /\ call' = [call EXCEPT ![current] = NotReading]
  BY DEF ReadReturns
<1>2. /\ c \in Calls /\ c.size # 0 /\ InLoop(c)
      /\ fifo \in Seq(Serial) /\ Len(fifo) <= Capacity /\ InSequence(fifo, next)
  BY <1>1, ReaderIs
<1> HIDE DEF c
<1>3. /\ c.size \in Nat /\ c.to_read \in Int /\ c.already_read \in Nat
      /\ c.already_read + c.to_read = c.size /\ c.size <= c.already_read
      /\ Consecutive(c.got)
  BY <1>1, <1>2 DEF Calls, InLoop
<1>4. ~Unread(c)
  BY <1>2, <1>3 DEF Unread
<1>5. /\ c.already_read = Returned(c.size)
      /\ Len(c.got) = IF c.size <= Capacity THEN c.size ELSE Capacity
  <2>1. CASE ReadAtOnce(c)
    BY <1>3, <2>1 DEF ReadAtOnce, Returned
  <2>2. CASE ReadInRounds(c)
    <3>1. c.size > Capacity /\ Len(c.got) = Capacity /\ WholeBuffers(c.already_read, c.size)
      BY <2>2 DEF ReadInRounds
    <3>2. c.already_read = Returned(c.size)
      BY <1>3, <3>1, WholeBuffersReturned
    <3> QED BY <1>3, <3>1, <3>2, KbConstants
  <2> QED BY <1>2, <1>4, <2>1, <2>2 DEF InLoop
<1>6. NotReading \in Calls /\ NotReading.size = 0
  BY DEF NotReading, Calls
<1>7. fifo' = fifo /\ next' = next
  BY <1>1
<1> QED BY <1>1, <1>2, <1>3, <1>5, <1>6, <1>7, ReadKeeps DEF c

LEMMA TakesKeep == ASSUME KInv, IInv', ReadTakes PROVE KbKeeps
<1> DEFINE c == call[current]
           n == c.size
           d == After(n)
<1>1. /\ Reading(current) /\ c.to_read > 0 /\ n <= Len(fifo) /\ next' = next
      /\ fifo' = SubSeq(fifo, n + 1, Len(fifo))
      /\ call' = [call EXCEPT ![current] = d]
  BY DEF ReadTakes, MayTake, AtLoop, Fits
<1>2. /\ c \in Calls /\ n # 0 /\ InLoop(c) /\ current # IdleTask
      /\ fifo \in Seq(Serial) /\ Len(fifo) \in Nat /\ Len(fifo) <= Capacity
      /\ InSequence(fifo, next)
  BY <1>1, ReaderIs
<1>3. n \in Nat /\ n >= 1 /\ n <= Capacity /\ Capacity \in Nat
  BY <1>1, <1>2, KbConstants DEF Calls
<1>4. Unread(c)
  BY <1>1, <1>2, <1>3 DEF InLoop, ReadAtOnce, ReadInRounds, Calls
<1> DEFINE r == SubSeq(fifo, 1, n)
<1>5. r \in Seq(Serial) /\ Len(r) = n /\ Consecutive(r)
  <2>1. 1 \in Nat /\ 1 <= 1 /\ 1 <= n + 1 /\ n - 1 + 1 = n
    BY <1>3
  <2> QED BY <1>1, <1>2, <1>3, <2>1, SubSeqFacts, SubSeqConsecutive DEF InSequence
<1>6. d = [c EXCEPT !.to_read = @ - n, !.already_read = @ + n,
                    !.got = r \o SubSeq(@, n + 1, Len(@))]
  BY DEF After
<1> HIDE DEF c, r, d
<1>7. c.got = << >> /\ c.already_read = 0 /\ c.already_read + c.to_read = n
  BY <1>2, <1>4 DEF Unread, InLoop, n
<1>8. r \o SubSeq(c.got, n + 1, Len(c.got)) = r
  BY <1>3, <1>5, <1>7
<1>9. /\ d \in Calls /\ d.size = n /\ d.to_read = 0 /\ d.already_read = n /\ d.got = r
  <2>1. /\ c.to_read \in Int /\ c.already_read \in Nat /\ c.to_read - n = 0
        /\ c.already_read + n = n
    BY <1>2, <1>3, <1>7 DEF Calls
  <2>2. Changed(d, c, 0, n, r)
    BY <1>6, <1>8, <2>1 DEF Changed
  <2>3. c \in Calls /\ 0 \in Int /\ n \in Nat /\ r \in Seq(Serial) /\ n = c.size
    BY <1>2, <1>3, <1>5 DEF n
  <2> HIDE DEF n
  <2> QED BY ONLY <2>2, <2>3, ChangedCall
<1>10. InLoop(d)
  BY <1>3, <1>5, <1>9 DEF InLoop, ReadAtOnce
<1>11. /\ fifo' \in Seq(Serial) /\ Len(fifo') <= Capacity /\ InSequence(fifo', next)
  <2>1. n + 1 \in Nat /\ 1 <= n + 1 /\ n + 1 <= Len(fifo) + 1
    BY <1>1, <1>2, <1>3
  <2>2. fifo' \in Seq(Serial) /\ Len(fifo') = Len(fifo) - (n + 1) + 1
    BY <1>1, <1>2, <2>1, SubSeqFacts
  <2>3. InSequence(fifo', next)
    BY <1>1, <1>2, <1>3, RestInSequence
  <2> QED BY <1>2, <1>3, <2>2, <2>3
<1> QED BY <1>1, <1>2, <1>3, <1>9, <1>10, <1>11, ReadKeeps

LEMMA DrainsKeep == ASSUME KInv, IInv', ReadDrains PROVE KbKeeps
<1> DEFINE c == call[current]
           n == Len(fifo)
           d == After(n)
<1>1. /\ Reading(current) /\ c.to_read > 0 /\ ~(c.size <= n) /\ n = Capacity
      /\ next' = next /\ fifo' = << >> /\ call' = [call EXCEPT ![current] = d]
  BY DEF ReadDrains, MayTake, AtLoop, Fits, Full
<1>2. /\ c \in Calls /\ InLoop(c) /\ current # IdleTask
      /\ fifo \in Seq(Serial) /\ n \in Nat /\ InSequence(fifo, next)
  BY <1>1, ReaderIs
<1>3. c.size > Capacity /\ Capacity \in Nat /\ n \in Nat /\ n >= 1 /\ c.size \in Nat
  BY <1>1, <1>2, KbConstants DEF Calls
<1>4. Unread(c) \/ ReadInRounds(c)
  BY <1>2, <1>3 DEF InLoop, ReadAtOnce, Calls
<1>5. SubSeq(fifo, 1, n) = fifo
  BY <1>2
<1>6. d = [c EXCEPT !.to_read = @ - n, !.already_read = @ + n,
                    !.got = fifo \o SubSeq(@, n + 1, Len(@))]
  BY <1>5 DEF After
<1> HIDE DEF c, d, n
<1>7. /\ c.to_read \in Int /\ c.already_read \in Nat /\ c.got \in Seq(Serial)
      /\ c.already_read + c.to_read = c.size /\ c.already_read < c.size
  BY <1>1, <1>2, <1>3 DEF Calls, InLoop
<1>8. Len(c.got) <= n /\ Len(c.got) \in Nat
  BY <1>1, <1>3, <1>4, <1>7 DEF Unread, ReadInRounds
<1>9. fifo \o SubSeq(c.got, n + 1, Len(c.got)) = fifo
  <2>1. SubSeq(c.got, n + 1, Len(c.got)) = << >>
    BY <1>3, <1>7, <1>8
  <2>2. fifo \o << >> = fifo
    BY <1>2
  <2> QED BY ONLY <2>1, <2>2
<1>10. /\ d \in Calls /\ d.size = c.size /\ d.to_read = c.to_read - n
       /\ d.already_read = c.already_read + n /\ d.got = fifo
  <2> DEFINE x == c.to_read - n
             y == c.already_read + n
  <2>1. Changed(d, c, x, y, fifo)
    BY <1>6, <1>9 DEF Changed
  <2>2. c \in Calls /\ x \in Int /\ y \in Nat /\ fifo \in Seq(Serial)
    BY <1>2, <1>3, <1>7
  <2>3. x = c.to_read - n /\ y = c.already_read + n
    OBVIOUS
  <2> HIDE DEF x, y
  <2> QED BY ONLY <2>1, <2>2, <2>3, ChangedCall
<1>11. WholeBuffers(d.already_read, d.size)
  <2>1. c.already_read = 0 \/ WholeBuffers(c.already_read, c.size)
    BY <1>4 DEF Unread, ReadInRounds
  <2> QED BY <1>1, <1>3, <1>7, <1>10, <2>1, OneMoreBuffer
<1>12. InLoop(d)
  <2>1. Consecutive(d.got) /\ Len(d.got) = Capacity
    BY <1>1, <1>2, <1>10 DEF InSequence, n
  <2>2. d.already_read + d.to_read = d.size
    BY <1>3, <1>7, <1>10
  <2> QED BY <1>3, <1>10, <1>11, <2>1, <2>2 DEF InLoop, ReadInRounds
<1>13. fifo' \in Seq(Serial) /\ Len(fifo') <= Capacity /\ InSequence(fifo', next)
  BY <1>1, <1>3 DEF InSequence, Consecutive
<1>14. d.size # 0
  BY <1>3, <1>10
<1> QED BY <1>1, <1>2, <1>10, <1>12, <1>13, <1>14, ReadKeeps

(* Reading uses the scheduler as Sched lets its users do.                  *)
LEMMA KbUsesSched == KInv /\ [KbNext]_kbVars => [SchedNext]_schedVars
<1> SUFFICES ASSUME KInv, [KbNext]_kbVars PROVE [SchedNext]_schedVars
  OBVIOUS
<1>1. CASE KeyInterrupt
  BY <1>1, KbConstants DEF KeyInterrupt, SchedNext
<1>2. ASSUME NEW n \in Counts, SysRead(n) PROVE [SchedNext]_schedVars
  BY <1>2 DEF SysRead
<1>3. CASE ReadGoesOn
  BY <1>3, KbConstants DEF ReadGoesOn, ReadTakes, ReadDrains, ReadBlocks, ReadReturns, SchedNext
<1>4. CASE Interrupted
  BY <1>4 DEF Interrupted, SchedNext
<1>5. CASE OtherCall
  BY <1>5 DEF OtherCall, SchedNext
<1>6. CASE UNCHANGED kbVars
  BY <1>6 DEF kbVars
<1> QED BY <1>1, <1>2, <1>3, <1>4, <1>5, <1>6 DEF KbNext

LEMMA KbStepKeeps == KInv /\ [KbNext]_kbVars => KbKeeps
<1> SUFFICES ASSUME KInv, [KbNext]_kbVars PROVE KbKeeps
  OBVIOUS
<1>1. IInv'
  BY KbUsesSched, StepKeeps DEF KInv
<1>2. CASE KeyInterrupt
  BY <1>1, <1>2, KeyKeeps
<1>3. ASSUME NEW n \in Counts, SysRead(n) PROVE KbKeeps
  BY <1>1, <1>3, SysReadKeeps
<1>4. CASE ReadTakes
  BY <1>1, <1>4, TakesKeep
<1>5. CASE ReadDrains
  BY <1>1, <1>5, DrainsKeep
<1>6. CASE ReadReturns
  BY <1>1, <1>6, ReturnsKeep
<1>7. CASE ReadBlocks \/ Interrupted \/ OtherCall \/ UNCHANGED kbVars
  <2>1. UNCHANGED <<fifo, next, call>>
    BY <1>7 DEF ReadBlocks, Interrupted, OtherCall, kbVars
  <2> QED BY <1>1, <2>1, OthersKeep
<1> QED BY <1>2, <1>3, <1>4, <1>5, <1>6, <1>7 DEF KbNext, ReadGoesOn

LEMMA KbInitHolds == KbInit => KInv
<1> SUFFICES ASSUME KbInit PROVE KInv
  OBVIOUS
<1>1. IInv
  BY InitHolds DEF KbInit
<1>2. /\ fifo = << >> /\ next = 0 /\ call = [t \in Tasks |-> NotReading]
  BY DEF KbInit
<1>3. NotReading.size = 0 /\ NotReading \in Calls
  BY DEF NotReading, Calls
<1>4. KbTypes
  BY <1>2, <1>3, KbConstants DEF KbTypes, Serial
<1>5. InSequence(fifo, next)
  BY <1>2 DEF InSequence, Consecutive
<1>6. ReadersInLoop
  BY <1>2, <1>3 DEF ReadersInLoop, Reading
<1> QED BY <1>1, <1>4, <1>5, <1>6 DEF KInv

-----------------------------------------------------------------------------
(* The inductive invariant holds in every reachable state.                 *)
THEOREM KbInvariant == KbSafety => []KInv
<1>1. KInv /\ [KbNext]_kbVars => KInv'
  BY KbStepKeeps DEF KbKeeps
<1> QED BY <1>1, KbInitHolds, PTL DEF KbSafety

(* read() returns the count asked for, or for a count that the buffer      *)
(* cannot hold the next multiple of its capacity, whoever else reads.      *)
THEOREM ReadsReturnCounts == KbSafety => ReadReturnsCount
<1>1. KInv /\ [KbNext]_kbVars => [CountStep]_kbVars
  BY KbStepKeeps DEF KbKeeps
<1>2. KbSafety => [][CountStep]_kbVars
  BY <1>1, KbInvariant, PTL DEF KbSafety
<1> QED BY <1>2 DEF ReadReturnsCount, CountStep

(* The keys a read() leaves in the user's buffer were typed one after the  *)
(* other, and are as many as the count or as the buffer holds.             *)
THEOREM ReadsAreConsecutive == KbSafety => KeysConsecutive
<1>1. KInv /\ [KbNext]_kbVars => [KeysStep]_kbVars
  BY KbStepKeeps DEF KbKeeps
<1>2. KbSafety => [][KeysStep]_kbVars
  BY <1>1, KbInvariant, PTL DEF KbSafety
<1> QED BY <1>2 DEF KeysConsecutive, KeysStep
===============================================================================
