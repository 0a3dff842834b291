------------------------------ MODULE Keyboard ------------------------------
(***************************************************************************)
(* Reading from the keyboard: the interrupt that stores a key and wakes    *)
(* the first reader (interrupt.c), and sys_read_keyboard (devices.c).      *)
(*                                                                         *)
(* The key buffer is the FIFO that RingBuffer implements, of capacity      *)
(* size - 1, with num_elem its length.  A key is the number of keys stored *)
(* before it, modulo Serials: enough to tell whether the keys of a read    *)
(* are consecutive.                                                        *)
(*                                                                         *)
(* A process is in sys_read_keyboard while call[t] is not NotReading.  Its *)
(* PCB's kb_data is only looked at then, so it is kept in call[t]; got is  *)
(* what the call has written to the user's buffer from its start on.       *)
(***************************************************************************)
EXTENDS Sched

CONSTANTS
  keyboardqueue,  \* the list readers block on
  Capacity,       \* keys the buffer holds
  Counts,         \* bound: the positive counts read() is called with
  Serials         \* bound: keys are numbered modulo this

ASSUME KeyboardAssumption ==
  /\ keyboardqueue \in WaitQueues
  /\ Capacity \in Nat \ {0}
  /\ Counts \subseteq Nat \ {0}
  /\ Serials \in Nat /\ Serials > Capacity

VARIABLES
  fifo,   \* the keys stored, oldest first
  next,   \* the number of the next key
  call    \* slot -> its read in progress, or NotReading

kbVars  == <<schedVars, fifo, next, call>>

NotReading == [size |-> 0, to_read |-> 0, already_read |-> 0, got |-> << >>]

Reading(t) == call[t].size # 0

KbInit ==
  /\ SchedInit
  /\ fifo = << >>
  /\ next = 0
  /\ call = [t \in Tasks |-> NotReading]

(* Handlers run with interrupts disabled, and a dispatched reader goes on  *)
(* inside its loop: keys and ticks arrive in user mode only.               *)
UserMode == ~Reading(current)

-----------------------------------------------------------------------------
Full == Len(fifo) = Capacity

(* circular_buf_put(): refused, and the key lost, when full. *)
Stored == IF Full THEN fifo ELSE Append(fifo, next)

(* Mutant: a refused key wakes nobody. *)
Wakes_NotWhenFull(t, keys) == call[t].to_read <= Len(keys)

(* A key wakes the reader t at the head of the queue when the buffer then  *)
(* holds all it still has to read, or when the key did not fit.            *)
Wakes(t, keys) == call[t].to_read <= Len(keys) \/ Full

(* keyboard_interrupt() with the code of a key that was pressed *)
KeyInterrupt ==
  /\ UserMode
  /\ fifo' = Stored
  /\ next' = IF Full THEN next ELSE (next + 1) % Serials
  /\ IF queue[keyboardqueue] # << >> /\ Wakes(Head(queue[keyboardqueue]), Stored)
     THEN Wake(keyboardqueue)
     ELSE UNCHANGED schedVars
  /\ UNCHANGED call

-----------------------------------------------------------------------------
(* sys_read(0, buffer, count) with arguments that pass its checks, up to   *)
(* the first test of its loop.                                             *)
SysRead(count) ==
  /\ UserMode /\ current # IdleTask
  /\ call' = [call EXCEPT ![current] =
                [NotReading EXCEPT !.size = count, !.to_read = count]]
  /\ UNCHANGED <<schedVars, fifo, next>>

(* The reader may take keys: nobody is blocked before it. *)
AtLoop   == Reading(current) /\ call[current].to_read > 0
MayTake  == AtLoop /\ queue[keyboardqueue] = << >>
Fits     == call[current].size <= Len(fifo)

(* The call after reading n keys, which land at the start of the buffer    *)
(* however many were read before.                                          *)
After(n) ==
  [call[current] EXCEPT !.to_read = @ - n, !.already_read = @ + n,
     !.got = SubSeq(fifo, 1, n) \o SubSeq(@, n + 1, Len(@))]

(* The buffer holds `size' keys: they are read. *)
ReadTakes ==
  /\ MayTake /\ Fits
  /\ call' = [call EXCEPT ![current] = After(call[current].size)]
  /\ fifo' = SubSeq(fifo, call[current].size + 1, Len(fifo))
  /\ UNCHANGED <<schedVars, next>>

(* Mutants: the buffer is emptied before it is full; what was read before  *)
(* is forgotten.                                                           *)
ReadDrains_NotFull ==
  /\ MayTake /\ ~Fits
  /\ call' = [call EXCEPT ![current] = After(Len(fifo))]
  /\ fifo' = << >>
  /\ Block(keyboardqueue)
  /\ UNCHANGED next

ReadDrains_Forgets ==
  /\ MayTake /\ ~Fits /\ Full
  /\ call' = [call EXCEPT ![current] = [After(Len(fifo)) EXCEPT !.already_read = Len(fifo)]]
  /\ fifo' = << >>
  /\ Block(keyboardqueue)
  /\ UNCHANGED next

(* It cannot hold that many: all of it is read, and the reader blocks,     *)
(* even if it has all it wanted.                                           *)
ReadDrains ==
  /\ MayTake /\ ~Fits /\ Full
  /\ call' = [call EXCEPT ![current] = After(Len(fifo))]
  /\ fifo' = << >>
  /\ Block(keyboardqueue)
  /\ UNCHANGED next

(* Too few keys yet, or somebody is blocked before the reader. *)
ReadBlocks ==
  /\ AtLoop
  /\ queue[keyboardqueue] # << >> \/ (~Fits /\ ~Full)
  /\ Block(keyboardqueue)
  /\ UNCHANGED <<fifo, next, call>>

(* The loop is over; already_read is returned. *)
ReadReturns ==
  /\ Reading(current) /\ call[current].to_read <= 0
  /\ call' = [call EXCEPT ![current] = NotReading]
  /\ UNCHANGED <<schedVars, fifo, next>>

ReadGoesOn == ReadTakes \/ ReadDrains \/ ReadBlocks \/ ReadReturns

-----------------------------------------------------------------------------
Interrupted == UserMode /\ ClockInterrupt /\ UNCHANGED <<fifo, next, call>>

(* The calls of other modules: processes come and go. *)
OtherCall == UserMode /\ (Spawn \/ Exit) /\ UNCHANGED <<fifo, next, call>>

KbNext ==
  \/ KeyInterrupt
  \/ \E count \in Counts : SysRead(count)
  \/ ReadGoesOn
  \/ Interrupted
  \/ OtherCall

KbSafety == KbInit /\ [][KbNext]_kbVars

(* An interrupt that is raised while a handler runs stays pending and is   *)
(* taken on return to user mode, so a stream of system calls cannot keep   *)
(* the timer or the keyboard out; kernel code runs on by itself.  That     *)
(* somebody goes on typing is an assumption about the user: without it a   *)
(* reader rightly waits for ever.                                          *)
KbSpec ==
  /\ KbSafety
  /\ WF_kbVars(ReadGoesOn)
  /\ SF_kbVars(Interrupted)
  /\ SF_kbVars(KeyInterrupt)

-----------------------------------------------------------------------------
(* What read() returns: the count, if the buffer can hold as many keys; if *)
(* not, the next multiple of the buffer's capacity, since such a reader    *)
(* only ever empties a full buffer.  It holds whoever else reads meanwhile.*)
Returned(count) ==
  IF count <= Capacity THEN count
  ELSE Capacity * ((count + Capacity - 1) \div Capacity)

ReadReturnsCount ==
  [][\A t \in Tasks :
       Reading(t) /\ ~Reading(t)' => call[t].already_read = Returned(call[t].size)]_kbVars

(* A read that fits the buffer delivers consecutive keys, none of another  *)
(* reader's between them, and fills the user's buffer with them; a longer  *)
(* one leaves there only the keys of its last round.                       *)
Consecutive(s) == \A i \in 1 .. Len(s) - 1 : s[i + 1] = (s[i] + 1) % Serials

KeysConsecutive ==
  [][\A t \in Tasks :
       Reading(t) /\ ~Reading(t)' =>
         /\ Consecutive(call[t].got)
         /\ Len(call[t].got) = IF call[t].size <= Capacity THEN call[t].size
                                                           ELSE Capacity]_kbVars

(* No wake-up is lost: a reader that is left alone, whatever it went       *)
(* through with other readers before, gets its keys and returns, again and *)
(* again.  (Two readers may keep sending each other back to the queue.)    *)
SoleReaderServed ==
  \A t \in Tasks :
    <>[](\A u \in Tasks \ {t} : ~Reading(u)) => []<>(~Reading(t))
=============================================================================
