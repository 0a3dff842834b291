----------------------------- MODULE RingBuffer -----------------------------
(***************************************************************************)
(* The circular buffer (circular_buffer.c).  One cell stays empty so that  *)
(* head = tail means empty; num_elem counts the items besides, and the     *)
(* keyboard driver trusts both.                                            *)
(***************************************************************************)
EXTENDS Integers, Sequences

CONSTANTS Item, size

ASSUME RingAssumption == size \in Nat \ {0}

VARIABLES
  head, tail, num_elem, buffer,   \* the fields of circular_buffer
  done                            \* the call last completed, as in BoundedFifo

fields   == <<head, tail, num_elem, buffer>>
ringVars == <<fields, done>>

Indices == 0 .. size - 1

(* circular_buffer_init does not write to the buffer's memory. *)
RingInit ==
  /\ head = 0 /\ tail = 0 /\ num_elem = 0
  /\ buffer \in [Indices -> Item]
  /\ done = <<"none">>

(* circular_buf_empty *)
Empty == head = tail

(* Mutant: full only when the head has caught up, as if no cell were kept  *)
(* empty.                                                                  *)
Full_NoGap == num_elem = size

(* circular_buf_full *)
Full == (head + 1) % size = tail

(* Mutants: the count is left alone; the item is stored past the head. *)
Stored_NoCount(data) ==
  /\ buffer' = [buffer EXCEPT ![head] = data]
  /\ head' = (head + 1) % size
  /\ UNCHANGED <<tail, num_elem>>

Stored_Past(data) ==
  /\ buffer' = [buffer EXCEPT ![(head + 1) % size] = data]
  /\ head' = (head + 1) % size
  /\ num_elem' = num_elem + 1
  /\ UNCHANGED tail

Stored(data) ==
  /\ buffer' = [buffer EXCEPT ![head] = data]
  /\ head' = (head + 1) % size
  /\ num_elem' = num_elem + 1
  /\ UNCHANGED tail

(* circular_buf_put *)
CircularBufPut(data) ==
  \/ ~Full /\ Stored(data) /\ done' = <<"put", data, 0>>
  \/ Full /\ done' = <<"put", data, -1>> /\ UNCHANGED fields

(* circular_buf_read *)
CircularBufRead ==
  \/ /\ ~Empty
     /\ tail' = (tail + 1) % size
     /\ num_elem' = num_elem - 1
     /\ done' = <<"read", buffer[tail], 0>>
     /\ UNCHANGED <<head, buffer>>
  \/ Empty /\ done' = <<"read", -1>> /\ UNCHANGED fields

RingNext ==
  \/ \E data \in Item : CircularBufPut(data)
  \/ CircularBufRead

RingSpec == RingInit /\ [][RingNext]_ringVars

-----------------------------------------------------------------------------
(* The items from tail up to head: what successive reads will return. *)
Contents == [i \in 1 .. (head - tail) % size |-> buffer[(tail + i - 1) % size]]

Fifo == INSTANCE BoundedFifo WITH Capacity <- size - 1, fifo <- Contents

(* Type invariant. *)
RingTypeOK ==
  /\ head \in Indices /\ tail \in Indices
  /\ num_elem \in 0 .. size - 1
  /\ buffer \in [Indices -> Item]

(* The two ways of telling how full the buffer is agree: the driver counts *)
(* with num_elem (circular_buf_num_elems) and stops on Full and Empty.     *)
CountsAgree ==
  /\ num_elem = Len(Contents)
  /\ Empty <=> num_elem = 0
  /\ Full <=> num_elem = size - 1

(* The ring is a FIFO of size - 1 items: none lost, repeated, reordered,   *)
(* or read before it was written, wherever head and tail wrap around.      *)
IsFifo == Fifo!FifoSpec
==============================================================================
