--------------------------- MODULE StructureProofs ---------------------------
(***************************************************************************)
(* Proofs about the kernel's two data structures.                          *)
(*                                                                         *)
(* The circular buffer, for every size and every set of items: the two     *)
(* ways of counting agree, and the ring implements the bounded FIFO.  The  *)
(* invariant adds to the types that num_elem is the distance from tail to  *)
(* head.  The lemmas below it turn the modulo arithmetic into case         *)
(* distinctions, and describe the contents as a sequence of that length.   *)
(*                                                                         *)
(* The linked lists, for any number of heads and nodes and lists of any    *)
(* length: their pointers spell the sequences every other module works     *)
(* with, until readyqueue is torn, and that takes one of two misuses.  The *)
(* invariant adds what the fields of NULL may hold while it is in no list. *)
(* Each operation writes the fields of its node and of the cells next to   *)
(* it; Spells says what a list asks of its own cells, one lemma for each   *)
(* way of writing them says what becomes of it, and SpellsApart that no    *)
(* other list is touched.                                                  *)
(***************************************************************************)
EXTENDS RingBuffer, Lists, SequenceTheorems, TLAPS

Count == (head - tail) % size

RInv == RingTypeOK /\ num_elem = Count

-----------------------------------------------------------------------------
(* Modulo: the cells, the next cell, and distances between cells. *)
LEMMA ModCases ==
  ASSUME NEW x \in Int
  PROVE  /\ x % size \in Indices
         /\ x \in 0 .. size - 1 => x % size = x
         /\ x \in size .. 2 * size - 1 => x % size = x - size
         /\ -size <= x /\ x < 0 => x % size = x + size
<1>1. x % size \in Indices
  BY RingAssumption, SMTT(30) DEF Indices
<1>2. ASSUME x \in 0 .. size - 1 PROVE x % size = x
  BY <1>2, RingAssumption, SMTT(30)
<1>3. ASSUME x \in size .. 2 * size - 1 PROVE x % size = x - size
  BY <1>3, RingAssumption, SMTT(30)
<1>4. ASSUME -size <= x, x < 0 PROVE x % size = x + size
  BY <1>4, RingAssumption, SMTT(30)
<1>5. QED
  BY <1>1, <1>2, <1>3, <1>4

(* The cell after c, and how far it is from cell a to cell b. *)
LEMMA NextCell ==
  ASSUME NEW c \in Indices
  PROVE  (c + 1) % size = IF c + 1 = size THEN 0 ELSE c + 1
<1> DEFINE x == c + 1
<1>1. x \in Int /\ (x \in 0 .. size - 1 \/ (x = size /\ x \in size .. 2 * size - 1))
  BY RingAssumption DEF Indices
<1>2. x % size = IF x = size THEN 0 ELSE x
  <2> HIDE DEF x
  <2> QED BY <1>1, ModCases, RingAssumption
<1>3. QED
  BY <1>2

LEMMA Distance ==
  ASSUME NEW a \in Indices, NEW b \in Indices
  PROVE  (b - a) % size = IF b >= a THEN b - a ELSE b - a + size
<1> DEFINE x == b - a
<1>1. x \in Int /\ (IF b >= a THEN x \in 0 .. size - 1 ELSE -size <= x /\ x < 0)
  BY RingAssumption DEF Indices
<1>2. x % size = IF b >= a THEN x ELSE x + size
  <2> HIDE DEF x
  <2> QED BY <1>1, ModCases, RingAssumption
<1>3. QED
  BY <1>2

(* The i-th cell from cell a on, for the size cells there are. *)
LEMMA CellAt ==
  ASSUME NEW a \in Indices, NEW i \in 1 .. size
  PROVE  (a + i - 1) % size = IF a + i - 1 < size THEN a + i - 1 ELSE a + i - 1 - size
<1> DEFINE x == a + i - 1
<1>1. x \in Int /\ (IF x < size THEN x \in 0 .. size - 1 ELSE x \in size .. 2 * size - 1)
  BY RingAssumption DEF Indices
<1>2. x % size = IF x < size THEN x ELSE x - size
  <2> HIDE DEF x
  <2> QED BY <1>1, ModCases, RingAssumption
<1>3. QED
  BY <1>2, RingAssumption DEF Indices

-----------------------------------------------------------------------------
LEMMA IntervalEnd ==
  ASSUME NEW k \in Nat, NEW m \in Nat, 1 .. k = 1 .. m
  PROVE  k = m
<1>1. k >= 1 => k \in 1 .. m
  OBVIOUS
<1>2. m >= 1 => m \in 1 .. k
  OBVIOUS
<1>3. QED
  BY <1>1, <1>2

(* A function from 1 .. n is a sequence of length n. *)
LEMMA LenOf ==
  ASSUME NEW S, NEW n \in Nat, NEW s \in [1 .. n -> S]
  PROVE  s \in Seq(S) /\ Len(s) = n
<1>1. s \in Seq(S)
  BY SeqDef
<1>2. Len(s) \in Nat /\ 1 .. n = 1 .. Len(s)
  <2>1. Len(s) \in Nat /\ DOMAIN s = 1 .. Len(s)
    BY <1>1, LenProperties
  <2>2. DOMAIN s = 1 .. n
    OBVIOUS
  <2>3. QED
    BY <2>1, <2>2
<1>3. Len(s) = n
  BY ONLY n \in Nat, <1>2, IntervalEnd
<1>4. QED
  BY <1>1, <1>3

(* The contents are a sequence, its length the distance from tail to head, *)
(* its i-th element in the i-th cell from tail on.                         *)
LEMMA ContentsShape ==
  ASSUME RingTypeOK
  PROVE  /\ Contents \in Seq(Item) /\ Len(Contents) = Count /\ Count \in 0 .. size - 1
         /\ \A i \in 1 .. Count : /\ (tail + i - 1) % size \in Indices
                                  /\ Contents[i] = buffer[(tail + i - 1) % size]
<1>1. Count \in 0 .. size - 1 /\ Count \in Nat
  BY Distance, RingAssumption DEF RingTypeOK, Count, Indices
<1>2. \A i \in 1 .. Count : (tail + i - 1) % size \in Indices
  BY <1>1, CellAt, RingAssumption DEF RingTypeOK, Indices
<1>3. Contents = [i \in 1 .. Count |-> buffer[(tail + i - 1) % size]]
  BY DEF Contents, Count
<1>4. Contents \in [1 .. Count -> Item]
  BY <1>2, <1>3 DEF RingTypeOK
<1>5. Contents \in Seq(Item) /\ Len(Contents) = Count
  BY ONLY <1>1, <1>4, LenOf
<1>6. QED
  BY <1>1, <1>2, <1>3, <1>5

(* Full and Empty in terms of the distance. *)
LEMMA FullEmpty ==
  ASSUME RingTypeOK
  PROVE  (Full <=> Count = size - 1) /\ (Empty <=> Count = 0)
<1>1. head \in 0 .. size - 1 /\ tail \in 0 .. size - 1 /\ size \in Nat \ {0}
  BY RingAssumption DEF RingTypeOK, Indices
<1>2. Count = IF head >= tail THEN head - tail ELSE head - tail + size
  BY Distance DEF RingTypeOK, Count
<1>3. Full <=> tail = IF head + 1 = size THEN 0 ELSE head + 1
  BY NextCell DEF RingTypeOK, Full
<1>4. QED
  BY <1>1, <1>2, <1>3 DEF Empty

-----------------------------------------------------------------------------
(* What holds initially, and what a put and a read do to the contents.     *)
LEMMA RingStarts ==
  ASSUME RingInit
  PROVE  RInv /\ Contents = << >>
<1>1. RingTypeOK
  BY RingAssumption DEF RingInit, RingTypeOK, Indices
<1>2. Count = 0
  BY <1>1, FullEmpty DEF RingInit, Empty
<1>3. Contents = << >>
  BY <1>1, <1>2, ContentsShape, EmptySeq
<1>4. QED
  BY <1>1, <1>2, <1>3 DEF RInv, RingInit

LEMMA PutAppends ==
  ASSUME RInv, NEW data \in Item, ~Full, Stored(data)
  PROVE  RInv' /\ Contents' = Append(Contents, data)
<1> DEFINE old == Contents
           new == Contents'
<1>1. /\ head \in Indices /\ tail \in Indices /\ buffer \in [Indices -> Item]
      /\ RingTypeOK /\ num_elem = Count
  BY DEF RInv, RingTypeOK
<1>2. size \in Nat \ {0} /\ Indices = 0 .. size - 1
  BY RingAssumption DEF Indices
<1>3. Count \in 0 .. size - 2
  BY <1>1, <1>2, FullEmpty, ContentsShape
<1>4. /\ head' = IF head + 1 = size THEN 0 ELSE head + 1
      /\ head' \in Indices /\ tail' = tail
      /\ buffer' = [buffer EXCEPT ![head] = data] /\ buffer' \in [Indices -> Item]
  BY <1>1, <1>2, NextCell DEF Stored
<1>5. Count' = Count + 1
  <2>1. Count = IF head >= tail THEN head - tail ELSE head - tail + size
    BY <1>1, Distance DEF Count
  <2>2. Count' = IF head' >= tail THEN head' - tail ELSE head' - tail + size
    BY <1>1, <1>4, Distance DEF Count
  <2>3. QED
    BY <1>1, <1>2, <1>3, <1>4, <2>1, <2>2
<1>6. RInv'
  BY <1>1, <1>2, <1>3, <1>4, <1>5 DEF RInv, RingTypeOK, Stored
<1>7. /\ new \in Seq(Item) /\ Len(new) = Count + 1
      /\ \A i \in 1 .. Count + 1 : new[i] = buffer'[(tail + i - 1) % size]
  <2>1. new = [i \in 1 .. Count + 1 |-> buffer'[(tail + i - 1) % size]]
    BY <1>4, <1>5 DEF Contents, Count
  <2>2. Count + 1 \in 1 .. size - 1 /\ Count + 1 \in Nat
    BY <1>2, <1>3
  <2>3. \A i \in 1 .. Count + 1 : (tail + i - 1) % size \in Indices
    BY <1>1, <1>2, <2>2, CellAt
  <2>4. new \in [1 .. Count + 1 -> Item]
    BY <1>4, <2>1, <2>3
  <2>5. new \in Seq(Item) /\ Len(new) = Count + 1
    BY ONLY <2>2, <2>4, LenOf
  <2>6. QED
    BY <2>1, <2>5
<1>8. /\ old \in Seq(Item) /\ Len(old) = Count
      /\ \A i \in 1 .. Count : /\ (tail + i - 1) % size \in Indices
                               /\ old[i] = buffer[(tail + i - 1) % size]
  BY <1>1, ContentsShape
(* The new item is in the cell after the last one; no other cell changed.  *)
<1>9. /\ (tail + (Count + 1) - 1) % size = head
      /\ \A i \in 1 .. Count : (tail + i - 1) % size # head
  <2>1. Count = IF head >= tail THEN head - tail ELSE head - tail + size
    BY <1>1, Distance DEF Count
  <2>2. \A i \in 1 .. size : (tail + i - 1) % size
                               = IF tail + i - 1 < size THEN tail + i - 1 ELSE tail + i - 1 - size
    BY <1>1, CellAt
  <2>3. QED
    BY <1>1, <1>2, <1>3, <2>1, <2>2
<1>10. /\ Append(old, data) \in Seq(Item) /\ Len(Append(old, data)) = Count + 1
       /\ \A i \in 1 .. Count + 1 :
            Append(old, data)[i] = IF i = Count + 1 THEN data ELSE old[i]
  BY ONLY <1>3, <1>8, data \in Item
<1>11. \A i \in 1 .. Count + 1 : new[i] = Append(old, data)[i]
  BY <1>1, <1>3, <1>4, <1>7, <1>8, <1>9, <1>10
<1>12. new = Append(old, data)
  BY ONLY <1>7, <1>10, <1>11, SeqEqual
<1>13. QED
  BY <1>6, <1>12

LEMMA ReadRemoves ==
  ASSUME RInv, ~Empty,
         tail' = (tail + 1) % size, num_elem' = num_elem - 1,
         head' = head, buffer' = buffer
  PROVE  /\ RInv' /\ Contents # << >>
         /\ Contents' = Tail(Contents) /\ Head(Contents) = buffer[tail]
<1> DEFINE old == Contents
           new == Contents'
<1>1. /\ head \in Indices /\ tail \in Indices /\ buffer \in [Indices -> Item]
      /\ RingTypeOK /\ num_elem = Count
  BY DEF RInv, RingTypeOK
<1>2. size \in Nat \ {0} /\ Indices = 0 .. size - 1
  BY RingAssumption DEF Indices
<1>3. Count \in 1 .. size - 1
  BY <1>1, <1>2, FullEmpty, ContentsShape
<1>4. /\ tail' = IF tail + 1 = size THEN 0 ELSE tail + 1
      /\ tail' \in Indices /\ head' = head
  BY <1>1, <1>2, NextCell
<1>5. Count' = Count - 1
  <2>1. Count = IF head >= tail THEN head - tail ELSE head - tail + size
    BY <1>1, Distance DEF Count
  <2>2. Count' = IF head >= tail' THEN head - tail' ELSE head - tail' + size
    BY <1>1, <1>4, Distance DEF Count
  <2>3. QED
    BY <1>1, <1>2, <1>3, <1>4, <2>1, <2>2
<1>6. RInv'
  BY <1>1, <1>2, <1>3, <1>4, <1>5 DEF RInv, RingTypeOK
(* The i-th cell from the new tail on is the one after it from the old.    *)
<1>7. \A i \in 1 .. Count - 1 : (tail' + i - 1) % size = (tail + (i + 1) - 1) % size
  <2>1. TAKE i \in 1 .. Count - 1
  <2>2. i \in 1 .. size /\ i + 1 \in 1 .. size
    BY <1>2, <1>3
  <2>3. (tail' + i - 1) % size
          = IF tail' + i - 1 < size THEN tail' + i - 1 ELSE tail' + i - 1 - size
    BY <1>4, <2>2, CellAt
  <2>4. (tail + (i + 1) - 1) % size
          = IF tail + (i + 1) - 1 < size THEN tail + (i + 1) - 1
                                         ELSE tail + (i + 1) - 1 - size
    BY <1>1, <2>2, CellAt
  <2>5. QED
    BY <1>1, <1>2, <1>3, <1>4, <2>2, <2>3, <2>4
<1>8. /\ old \in Seq(Item) /\ Len(old) = Count
      /\ \A i \in 1 .. Count : /\ (tail + i - 1) % size \in Indices
                               /\ old[i] = buffer[(tail + i - 1) % size]
  BY <1>1, ContentsShape
<1>9. /\ new \in Seq(Item) /\ Len(new) = Count - 1
      /\ \A i \in 1 .. Count - 1 : new[i] = old[i + 1]
  <2>1. new = [i \in 1 .. Count - 1 |-> buffer[(tail' + i - 1) % size]]
    BY <1>4, <1>5 DEF Contents, Count
  <2>2. Count - 1 \in Nat /\ \A i \in 1 .. Count - 1 : i + 1 \in 1 .. Count
    BY <1>2, <1>3
  <2>3. \A i \in 1 .. Count - 1 :
          /\ (tail' + i - 1) % size \in Indices
          /\ buffer[(tail' + i - 1) % size] = old[i + 1]
    BY <1>7, <1>8, <2>2
  <2>4. new \in [1 .. Count - 1 -> Item]
    BY <1>1, <2>1, <2>3
  <2>5. new \in Seq(Item) /\ Len(new) = Count - 1
    BY ONLY <2>2, <2>4, LenOf
  <2>6. QED
    BY <2>1, <2>3, <2>5
<1>10. old # << >>
  BY <1>3, <1>8, EmptySeq
<1>11. /\ Tail(old) \in Seq(Item) /\ Len(Tail(old)) = Count - 1
       /\ \A i \in 1 .. Count - 1 : Tail(old)[i] = old[i + 1]
       /\ Head(old) = old[1]
  BY ONLY <1>3, <1>8, <1>10, HeadTailProperties
<1>12. new = Tail(old)
  BY ONLY <1>9, <1>11, SeqEqual
<1>13. Head(old) = buffer[tail]
  <2>1. (tail + 1 - 1) % size = tail
    BY <1>1, <1>2, CellAt
  <2>2. old[1] = buffer[(tail + 1 - 1) % size]
    BY <1>3, <1>8
  <2>3. QED
    BY <1>11, <2>1, <2>2
<1>14. QED
  BY <1>6, <1>10, <1>12, <1>13

-----------------------------------------------------------------------------
(* A step of the ring keeps the invariant and is a step of the FIFO. *)
LEMMA RingStep ==
  ASSUME RInv, RingNext
  PROVE  RInv' /\ Fifo!FifoNext
<1>1. Len(Contents) = Count /\ Count \in 0 .. size - 1 /\ size \in Nat
  BY ContentsShape, RingAssumption DEF RInv
<1>2. (Full <=> Count = size - 1) /\ (Empty <=> Count = 0)
  BY FullEmpty DEF RInv
<1>3. Empty => Contents = << >>
  BY <1>1, <1>2, ContentsShape, EmptySeq DEF RInv
<1>4. ASSUME UNCHANGED fields PROVE RInv' /\ Contents' = Contents
  BY <1>4 DEF RInv, RingTypeOK, Count, fields, Contents
<1>5. ASSUME NEW data \in Item, CircularBufPut(data) PROVE RInv' /\ Fifo!Put(data)
  <2>1. CASE ~Full /\ Stored(data) /\ done' = <<"put", data, 0>>
    <3>1. Len(Contents) < size - 1
      BY <1>1, <1>2, <2>1
    <3>2. RInv' /\ Contents' = Append(Contents, data)
      BY <2>1, PutAppends
    <3>3. QED
      BY <2>1, <3>1, <3>2 DEF Fifo!Put
  <2>2. CASE Full /\ done' = <<"put", data, -1>> /\ UNCHANGED fields
    <3>1. ~(Len(Contents) < size - 1)
      BY <1>1, <1>2, <2>2
    <3>2. QED
      BY <1>4, <2>2, <3>1 DEF Fifo!Put
  <2>3. QED
    BY <1>5, <2>1, <2>2 DEF CircularBufPut
<1>6. ASSUME CircularBufRead PROVE RInv' /\ Fifo!Read
  <2>1. CASE ~Empty /\ tail' = (tail + 1) % size /\ num_elem' = num_elem - 1
             /\ done' = <<"read", buffer[tail], 0>> /\ UNCHANGED <<head, buffer>>
    <3>1. /\ RInv' /\ Contents # << >>
          /\ Contents' = Tail(Contents) /\ Head(Contents) = buffer[tail]
      BY <2>1, ReadRemoves
    <3>2. QED
      BY <2>1, <3>1 DEF Fifo!Read
  <2>2. CASE Empty /\ done' = <<"read", -1>> /\ UNCHANGED fields
    BY <1>3, <1>4, <2>2 DEF Fifo!Read
  <2>3. QED
    BY <1>6, <2>1, <2>2 DEF CircularBufRead
<1>7. QED
  BY <1>5, <1>6 DEF RingNext, Fifo!FifoNext

LEMMA RingStutter ==
  ASSUME RInv, UNCHANGED ringVars
  PROVE  RInv' /\ UNCHANGED Fifo!fifoVars
BY DEF RInv, RingTypeOK, Count, Contents, ringVars, fields, Fifo!fifoVars

LEMMA RingInvariant == RingSpec => []RInv
<1>1. RingInit => RInv
  BY RingStarts
<1>2. RInv /\ [RingNext]_ringVars => RInv'
  BY RingStep, RingStutter
<1>3. QED
  BY <1>1, <1>2, PTL DEF RingSpec

(* The fields stay in range: no put or read touches memory outside the     *)
(* buffer (buffer[head] and buffer[tail], circular_buffer.c:39, 49).       *)
THEOREM RingTypeCorrect == RingSpec => []RingTypeOK
<1>1. RInv => RingTypeOK
  BY DEF RInv
<1>2. QED
  BY <1>1, RingInvariant, PTL

(* circular_buf_num_elems, circular_buf_empty and circular_buf_full never  *)
(* contradict each other, for every size and every history of calls.       *)
THEOREM CountsAlwaysAgree == RingSpec => []CountsAgree
<1>1. RInv => CountsAgree
  BY ContentsShape, FullEmpty DEF RInv, CountsAgree
<1>2. QED
  BY <1>1, RingInvariant, PTL

(* circular_buffer.c implements the bounded FIFO the keyboard driver       *)
(* relies on, for every size.                                              *)
THEOREM RingImplementsFifo == RingSpec => IsFifo
<1>1. RingInit => Fifo!FifoInit
  BY RingStarts DEF RingInit, Fifo!FifoInit, Fifo!NoCall
<1>2. RInv /\ [RingNext]_ringVars => [Fifo!FifoNext]_(Fifo!fifoVars)
  BY RingStep, RingStutter
<1>3. QED
  BY <1>1, <1>2, RingInvariant, PTL DEF RingSpec, IsFifo, Fifo!FifoSpec

-----------------------------------------------------------------------------
(* The linked lists.                                                       *)

Items == Nodes \cup {NULL}

(* From a round to h, over the cells of s: both chains lead along s.  The  *)
(* own fields of the cells in loose may hold anything.                     *)
Spells(nx, pv, a, s, h, loose) ==
  /\ pv[h] = IF Len(s) = 0 THEN a ELSE s[Len(s)]
  /\ a # NULL => nx[a] = IF Len(s) = 0 THEN h ELSE s[1]
  /\ \A i \in 1 .. Len(s) :
       s[i] \notin loose => /\ pv[s[i]] = IF i = 1 THEN a ELSE s[i - 1]
                            /\ nx[s[i]] = IF i = Len(s) THEN h ELSE s[i + 1]

(* f2 is f with v written to the cell x and then w to y.                   *)
Written(f2, f, x, v, y, w) == f2 = [f EXCEPT ![x] = v, ![y] = w]

Loose == IF bent THEN {NULL} ELSE {}

Typed ==
  /\ next \in [Cells -> Cells \cup {Vectors}] /\ prev \in [Cells -> Cells \cup {Vectors}]
  /\ content \in [Heads -> Seq(Items)]
  /\ initialised \subseteq Heads /\ stranded \subseteq Nodes
  /\ bent \in BOOLEAN /\ torn \in BOOLEAN

FirstAdded(x) == \E h \in Heads \ initialised : content[h] # << >> /\ x = Head(content[h])

(* NULL is a node of readyqueue only, and while it is not, its fields lead *)
(* to nothing that minds being written to: not to a list whose head has    *)
(* been initialised.  A node whose list was emptied is in no other.        *)
NullClear ==
  /\ \A h \in Heads : NULL \in Range(content[h]) => h = Ready /\ h \in initialised
  /\ \A n \in stranded : ~Linked(n)
  /\ ~Linked(NULL) =>
       /\ prev[NULL] \in {NULL, Vectors}
       /\ next[NULL] \in {NULL, Vectors} \cup stranded \/ FirstAdded(next[NULL])

LInv == Typed /\ LinksSpellLists /\ TornOnlySo /\ (~torn => NullClear)

Start(h) == IF h \in initialised THEN h ELSE NULL

-----------------------------------------------------------------------------
LEMMA CellsApart ==
  /\ \A h \in Heads : h \in Cells /\ h \notin Nodes /\ h # NULL /\ h \notin Items
  /\ \A n \in Nodes : n \in Cells /\ n \notin Heads /\ n # NULL /\ n \in Items
  /\ \A n \in Items : n \in Cells /\ n \notin Heads
  /\ NULL \in Cells /\ NULL \in Items /\ NULL \notin Heads
  /\ Vectors \notin Cells /\ Ready \in Heads
BY ListAssumption DEF Cells, Items

(* What the pointers of a circle are.                                      *)
LEMMA CircleSpells ==
  ASSUME NEW a, NEW s \in Seq(Items), NEW h, NEW nx, NEW pv, NEW loose, h \notin loose
  PROVE  LET C == <<a>> \o s \o <<h>>
         IN  (\A i \in 1 .. Len(s) + 1 :
                /\ C[i + 1] \notin loose => pv[C[i + 1]] = C[i]
                /\ (IF i = 1 THEN C[i] # NULL ELSE C[i] \notin loose) => nx[C[i]] = C[i + 1])
               <=> Spells(nx, pv, a, s, h, loose)
<1> DEFINE C == <<a>> \o s \o <<h>>
           n == Len(s)
           Arc(i) == /\ C[i + 1] \notin loose => pv[C[i + 1]] = C[i]
                     /\ (IF i = 1 THEN C[i] # NULL ELSE C[i] \notin loose) => nx[C[i]] = C[i + 1]
<1>1. n \in Nat
  OBVIOUS
<1>2. /\ C[1] = a /\ C[n + 2] = h
      /\ \A i \in 1 .. n : C[i + 1] = s[i]
  OBVIOUS
<1> HIDE DEF C, n
<1>4. ASSUME \A i \in 1 .. n + 1 : Arc(i) PROVE Spells(nx, pv, a, s, h, loose)
  <2>1. Arc(1) /\ Arc(n + 1)
    BY <1>1, <1>4
  <2>2. pv[h] = IF n = 0 THEN a ELSE s[n]
    BY <1>1, <1>2, <2>1
  <2>3. a # NULL => nx[a] = IF n = 0 THEN h ELSE s[1]
    BY <1>1, <1>2, <2>1
  <2>4. ASSUME NEW i \in 1 .. n, s[i] \notin loose
        PROVE  /\ pv[s[i]] = IF i = 1 THEN a ELSE s[i - 1]
               /\ nx[s[i]] = IF i = n THEN h ELSE s[i + 1]
    <3>1. Arc(i) /\ Arc(i + 1) /\ i + 1 # 1
      BY <1>1, <1>4
    <3>2. C[i + 1] = s[i] /\ C[i] = (IF i = 1 THEN a ELSE s[i - 1])
      <4>1. i # 1 => i - 1 \in 1 .. n /\ i - 1 + 1 = i
        BY <1>1
      <4> QED BY <1>2, <4>1
    <3>3. C[i + 1 + 1] = IF i = n THEN h ELSE s[i + 1]
      <4>1. i # n => i + 1 \in 1 .. n
        BY <1>1
      <4>2. n + 1 + 1 = n + 2
        BY <1>1
      <4> QED BY <1>2, <4>1, <4>2
    <3> QED BY <2>4, <3>1, <3>2, <3>3
  <2> QED BY <2>2, <2>3, <2>4 DEF Spells, n
<1>5. ASSUME Spells(nx, pv, a, s, h, loose), NEW i \in 1 .. n + 1 PROVE Arc(i)
  <2>1. C[i] = IF i = 1 THEN a ELSE s[i - 1]
    <3>1. i # 1 => i - 1 \in 1 .. n /\ i - 1 + 1 = i
      BY <1>1
    <3> QED BY <1>2, <3>1
  <2>2. C[i + 1] = IF i = n + 1 THEN h ELSE s[i]
    <3>1. i # n + 1 => i \in 1 .. n
      BY <1>1
    <3>2. n + 1 + 1 = n + 2
      BY <1>1
    <3> QED BY <1>2, <3>1, <3>2
  <2>3. /\ pv[h] = IF n = 0 THEN a ELSE s[n]
        /\ a # NULL => nx[a] = IF n = 0 THEN h ELSE s[1]
        /\ \A j \in 1 .. n :
             s[j] \notin loose => /\ pv[s[j]] = IF j = 1 THEN a ELSE s[j - 1]
                                  /\ nx[s[j]] = IF j = n THEN h ELSE s[j + 1]
    BY <1>5 DEF Spells, n
  <2>4. C[i + 1] \notin loose => pv[C[i + 1]] = C[i]
    <3>1. CASE i = n + 1
      <4>1. i - 1 = n /\ (n = 0 <=> i = 1)
        BY <1>1, <3>1
      <4> QED BY <2>1, <2>2, <2>3, <3>1, <4>1
    <3>2. CASE i # n + 1
      <4>1. i \in 1 .. n
        BY <1>1, <3>2
      <4> QED BY <2>1, <2>2, <2>3, <3>2, <4>1
    <3> QED BY <3>1, <3>2
  <2>5. (IF i = 1 THEN C[i] # NULL ELSE C[i] \notin loose) => nx[C[i]] = C[i + 1]
    <3>1. CASE i = 1
      <4>1. i = n + 1 <=> n = 0
        BY <1>1, <3>1
      <4> QED BY <2>1, <2>2, <2>3, <3>1, <4>1
    <3>2. CASE i # 1
      <4>1. i - 1 \in 1 .. n /\ (i - 1 = n <=> i = n + 1) /\ i - 1 + 1 = i
        BY <1>1, <3>2
      <4> QED BY <2>1, <2>2, <2>3, <3>2, <4>1
    <3> QED BY <3>1, <3>2
  <2> QED BY <2>4, <2>5
<1> QED BY <1>4, <1>5 DEF C, n

LEMMA SpelledIs ==
  ASSUME content \in [Heads -> Seq(Items)], NEW h \in Heads
  PROVE  Spelled(h) <=> /\ Spells(next, prev, Start(h), content[h], h, Loose)
                        /\ h \notin initialised => next[h] = NULL
<1> DEFINE a == Start(h)
           C == <<a>> \o content[h] \o <<h>>
           loose == Loose
<1>1. content[h] \in Seq(Items) /\ h \notin loose
  BY CellsApart DEF Loose
<1> HIDE DEF loose
<1>2. (\A i \in 1 .. Len(content[h]) + 1 :
         /\ C[i + 1] \notin loose => prev[C[i + 1]] = C[i]
         /\ (IF i = 1 THEN C[i] # NULL ELSE C[i] \notin loose) => next[C[i]] = C[i + 1])
        <=> Spells(next, prev, a, content[h], h, loose)
  BY ONLY <1>1, CircleSpells
<1>3. Circle(h) = C
  BY DEF Circle, Start
<1>4. \A c : c \in loose <=> c = NULL /\ bent
  BY DEF Loose, loose
<1> HIDE DEF C
<1> QED BY <1>2, <1>3, <1>4 DEF Spelled, loose

LEMMA SpelledNext ==
  ASSUME content' \in [Heads -> Seq(Items)], NEW h \in Heads
  PROVE  Spelled(h)' <=> /\ Spells(next', prev', Start(h)', content'[h], h, Loose')
                         /\ h \notin initialised' => next'[h] = NULL
<1> DEFINE a == Start(h)'
           C == <<a>> \o content'[h] \o <<h>>
           loose == Loose'
<1>1. content'[h] \in Seq(Items) /\ h \notin loose
  BY CellsApart DEF Loose
<1> HIDE DEF loose
<1>2. (\A i \in 1 .. Len(content'[h]) + 1 :
         /\ C[i + 1] \notin loose => prev'[C[i + 1]] = C[i]
         /\ (IF i = 1 THEN C[i] # NULL ELSE C[i] \notin loose) => next'[C[i]] = C[i + 1])
        <=> Spells(next', prev', a, content'[h], h, loose)
  BY ONLY <1>1, CircleSpells
<1>3. Circle(h)' = C
  BY DEF Circle, Start
<1>4. \A c : c \in loose <=> c = NULL /\ bent'
  BY DEF Loose, loose
<1> HIDE DEF C
<1> QED BY <1>2, <1>3, <1>4 DEF Spelled, loose

-----------------------------------------------------------------------------
(* A list none of whose cells is written keeps its pointers.               *)
LEMMA SpellsApart ==
  ASSUME NEW nx, NEW pv, NEW nx2, NEW pv2, NEW a, NEW h, NEW s \in Seq(Items),
         NEW loose, NEW loose2, a \in {h, NULL}, Spells(nx, pv, a, s, h, loose),
         nx2[h] = nx[h] \/ a = NULL, pv2[h] = pv[h],
         \A c \in Range(s) \ loose2 :
           c \notin loose /\ nx2[c] = nx[c] /\ pv2[c] = pv[c]
  PROVE  Spells(nx2, pv2, a, s, h, loose2)
<1>1. \A i \in 1 .. Len(s) : s[i] \in Range(s)
  BY DEF Range
<1> QED BY <1>1 DEF Spells

LEMMA EmptySpells ==
  ASSUME NEW nx, NEW pv, NEW h, NEW loose, nx[h] = h, pv[h] = h
  PROVE  Spells(nx, pv, h, << >>, h, loose)
BY DEF Spells

(* The writes of list_add_tail(n, h).                                      *)
Joined(nx2, pv2, nx, pv, h, n) ==
  LET last == pv[h]
  IN  Written(nx2, nx, n, h, last, n) /\ Written(pv2, pv, h, n, n, last)

(* The last cell of a list, its head when it is empty.                     *)
LEMMA SpellsAppend ==
  ASSUME NEW nx \in [Cells -> Cells \cup {Vectors}], NEW pv \in [Cells -> Cells \cup {Vectors}],
         NEW h \in Heads, NEW a \in {h, NULL}, NEW s \in Seq(Items), IsInjective(s),
         NEW n \in Items, n \notin Range(s), a = NULL => NULL \notin Range(s) /\ n # NULL,
         NEW loose \in SUBSET {NULL}, Spells(nx, pv, a, s, h, loose),
         NEW nx2, NEW pv2, Joined(nx2, pv2, nx, pv, h, n)
  PROVE  /\ pv[h] \in Range(s) \cup {h, NULL}
         /\ a = NULL => pv[h] # h
         /\ pv[h] = NULL => NULL \in Range(s) \/ (a = NULL /\ s = << >>)
         /\ Spells(nx2, pv2, a, Append(s, n), h, loose)
<1> USE CellsApart
<1> DEFINE k == Len(s)
           r == Append(s, n)
           last == pv[h]
<1>0. Written(nx2, nx, n, h, last, n) /\ Written(pv2, pv, h, n, n, last)
  BY DEF Joined
<1>1. k \in Nat /\ (k = 0 => s = << >>)
  OBVIOUS
<1>2. Len(r) = k + 1 /\ r[k + 1] = n /\ \A i \in 1 .. k : r[i] = s[i]
  OBVIOUS
<1>3. /\ \A i \in 1 .. k : s[i] \in Range(s) /\ s[i] \in Items /\ s[i] # n /\ s[i] # h
      /\ \A i, j \in 1 .. k : s[i] = s[j] => i = j
  BY DEF Range, IsInjective
<1> HIDE DEF k, r
<1>4. /\ last = IF k = 0 THEN a ELSE s[k]
      /\ a # NULL => nx[a] = IF k = 0 THEN h ELSE s[1]
      /\ \A i \in 1 .. k :
           s[i] \notin loose => /\ pv[s[i]] = IF i = 1 THEN a ELSE s[i - 1]
                                /\ nx[s[i]] = IF i = k THEN h ELSE s[i + 1]
  BY DEF Spells, k
<1>5. /\ last \in Range(s) \cup {h, NULL} /\ (a = NULL => last # h) /\ last # n
      /\ last = NULL => NULL \in Range(s) \/ (a = NULL /\ s = << >>)
  BY <1>1, <1>3, <1>4
<1>6. /\ nx2[n] = h /\ nx2[last] = n
      /\ \A c \in Cells \ {n, last} : nx2[c] = nx[c]
      /\ pv2[h] = n /\ pv2[n] = last
      /\ \A c \in Cells \ {h, n} : pv2[c] = pv[c]
  <2>1. last \in Cells
    BY <1>1, <1>3, <1>4
  <2> HIDE DEF last
  <2> QED BY <1>0, <1>5, <2>1 DEF Written
<1>7. \A i \in 1 .. k : s[i] = last <=> i = k
  <2>1. k # 0 => k \in 1 .. k
    BY <1>1
  <2> QED BY <1>1, <1>3, <1>4, <2>1
<1>8. pv2[h] = r[k + 1]
  BY <1>2, <1>6
<1>9. a # NULL => nx2[a] = r[1]
  <2>1. CASE k = 0
    BY <1>2, <1>4, <1>6, <2>1
  <2>2. CASE k # 0
    <3>1. 1 \in 1 .. k /\ k \in 1 .. k
      BY <1>1, <2>2
    <3>2. a # NULL => a = h /\ a # n /\ a # last /\ a \in Cells
      BY <1>3, <1>4, <2>2, <3>1
    <3> QED BY <1>2, <1>4, <1>6, <2>2, <3>1, <3>2
  <2> QED BY <2>1, <2>2
<1>10. ASSUME NEW i \in 1 .. k + 1, r[i] \notin loose
       PROVE  /\ pv2[r[i]] = IF i = 1 THEN a ELSE r[i - 1]
              /\ nx2[r[i]] = IF i = k + 1 THEN h ELSE r[i + 1]
  <2>1. CASE i = k + 1
    <3>1. k # 0 => k \in 1 .. k /\ i - 1 = k
      BY <1>1, <2>1
    <3> QED BY <1>1, <1>2, <1>4, <1>6, <2>1, <3>1
  <2>2. CASE i # k + 1
    <3>1. /\ i \in 1 .. k /\ (i # 1 => i - 1 \in 1 .. k)
          /\ (i = k => i + 1 = k + 1) /\ (i # k => i + 1 \in 1 .. k)
      BY <1>1, <2>2
    <3>2. r[i] = s[i] /\ s[i] \in Cells \ {h, n} /\ s[i] \notin loose
      BY <1>2, <1>3, <1>10, <3>1
    <3>3. pv2[r[i]] = IF i = 1 THEN a ELSE r[i - 1]
      <4>1. pv2[r[i]] = IF i = 1 THEN a ELSE s[i - 1]
        BY <1>4, <1>6, <3>1, <3>2
      <4> QED BY <1>2, <3>1, <4>1
    <3>4. nx2[r[i]] = IF i = k + 1 THEN h ELSE r[i + 1]
      <4>1. CASE i = k
        BY <1>1, <1>2, <1>6, <1>7, <2>2, <3>1, <3>2, <4>1
      <4>2. CASE i # k
        <5>1. nx2[r[i]] = s[i + 1]
          BY <1>3, <1>4, <1>6, <1>7, <3>1, <3>2, <4>2
        <5> QED BY <1>2, <2>2, <3>1, <4>2, <5>1
      <4> QED BY <4>1, <4>2
    <3> QED BY <3>3, <3>4
  <2> QED BY <2>1, <2>2
<1>11. Spells(nx2, pv2, a, r, h, loose)
  <2>1. Len(r) = k + 1 /\ Len(r) # 0
    BY <1>1, <1>2
  <2>2. pv2[h] = r[Len(r)] /\ (a # NULL => nx2[a] = r[1])
    BY ONLY <1>8, <1>9, <2>1
  <2>3. \A i \in 1 .. Len(r) :
          r[i] \notin loose => /\ pv2[r[i]] = IF i = 1 THEN a ELSE r[i - 1]
                               /\ nx2[r[i]] = IF i = Len(r) THEN h ELSE r[i + 1]
    BY ONLY <1>10, <2>1
  <2> QED BY ONLY <2>1, <2>2, <2>3 DEF Spells
<1> QED BY <1>5, <1>11 DEF r

(* The first cell of a list, its head when it is empty.                    *)
LEMMA SpellsPrepend ==
  ASSUME NEW nx \in [Cells -> Cells \cup {Vectors}], NEW pv \in [Cells -> Cells \cup {Vectors}],
         NEW h \in Heads, NEW s \in Seq(Items), IsInjective(s),
         NEW n \in Items, n \notin Range(s),
         NEW loose \in SUBSET {NULL}, Spells(nx, pv, h, s, h, loose),
         NEW first, first = nx[h],
         NEW nx2, Written(nx2, nx, n, first, h, n),
         NEW pv2, Written(pv2, pv, first, n, n, h)
  PROVE  first \in Range(s) \cup {h} /\ Spells(nx2, pv2, h, <<n>> \o s, h, loose)
<1> USE CellsApart
<1> DEFINE k == Len(s)
           r == <<n>> \o s
<1>1. k \in Nat
  OBVIOUS
<1>2. Len(r) = k + 1 /\ r[1] = n /\ \A i \in 1 .. k : r[i + 1] = s[i]
  OBVIOUS
<1>3. /\ \A i \in 1 .. k : s[i] \in Range(s) /\ s[i] \in Items /\ s[i] # n /\ s[i] # h
      /\ \A i, j \in 1 .. k : s[i] = s[j] => i = j
  BY DEF Range, IsInjective
<1> HIDE DEF k, r
<1>4. /\ pv[h] = IF k = 0 THEN h ELSE s[k]
      /\ first = IF k = 0 THEN h ELSE s[1]
      /\ \A i \in 1 .. k :
           s[i] \notin loose => /\ pv[s[i]] = IF i = 1 THEN h ELSE s[i - 1]
                                /\ nx[s[i]] = IF i = k THEN h ELSE s[i + 1]
  BY DEF Spells, k
<1>5. first \in Range(s) \cup {h} /\ first # n /\ first \in Cells
  <2>1. k # 0 => 1 \in 1 .. k
    BY <1>1
  <2> QED BY <1>3, <1>4, <2>1
<1>6. /\ nx2[n] = first /\ nx2[h] = n
      /\ \A c \in Cells \ {n, h} : nx2[c] = nx[c]
      /\ pv2[first] = n /\ pv2[n] = h
      /\ \A c \in Cells \ {first, n} : pv2[c] = pv[c]
  BY <1>5 DEF Written
<1>7. \A i \in 1 .. k : s[i] = first <=> i = 1
  BY <1>1, <1>3, <1>4
<1>8. pv2[h] = r[k + 1]
  <2>1. CASE k = 0
    BY <1>2, <1>4, <1>6, <2>1
  <2>2. CASE k # 0
    <3>1. 1 \in 1 .. k /\ k \in 1 .. k
      BY <1>1, <2>2
    <3> QED BY <1>2, <1>3, <1>4, <1>6, <2>2, <3>1
  <2> QED BY <2>1, <2>2
<1>9. nx2[h] = r[1]
  BY <1>2, <1>6
<1>10. ASSUME NEW i \in 1 .. k + 1, r[i] \notin loose
       PROVE  /\ pv2[r[i]] = IF i = 1 THEN h ELSE r[i - 1]
              /\ nx2[r[i]] = IF i = k + 1 THEN h ELSE r[i + 1]
  <2>1. CASE i = 1
    <3>1. /\ k # 0 => 1 \in 1 .. k /\ i + 1 = 1 + 1 /\ i # k + 1
          /\ k = 0 => i = k + 1
      BY <1>1, <2>1
    <3> QED BY <1>2, <1>4, <1>6, <2>1, <3>1
  <2>2. CASE i # 1
    <3> DEFINE j == i - 1
    <3>1. /\ j \in 1 .. k /\ i = j + 1 /\ (i = k + 1 <=> j = k)
          /\ (j # 1 => j - 1 \in 1 .. k /\ j = j - 1 + 1)
          /\ (j # k => j + 1 \in 1 .. k /\ i + 1 = j + 1 + 1)
      BY <1>1, <2>2
    <3> HIDE DEF j
    <3>2. r[i] = s[j] /\ s[j] \in Cells \ {h, n} /\ s[j] \notin loose
      BY <1>2, <1>3, <1>10, <3>1
    <3>3. pv2[r[i]] = IF i = 1 THEN h ELSE r[j]
      <4>1. CASE j = 1
        BY <1>2, <1>6, <1>7, <2>2, <3>1, <3>2, <4>1
      <4>2. CASE j # 1
        <5>1. pv2[r[i]] = s[j - 1]
          BY <1>4, <1>6, <1>7, <3>1, <3>2, <4>2
        <5>2. r[j] = s[j - 1]
          BY <1>2, <3>1, <4>2
        <5> QED BY <2>2, <5>1, <5>2
      <4> QED BY <4>1, <4>2
    <3>4. nx2[r[i]] = IF i = k + 1 THEN h ELSE r[i + 1]
      <4>1. nx2[r[i]] = IF j = k THEN h ELSE s[j + 1]
        BY <1>4, <1>6, <3>1, <3>2
      <4> QED BY <1>2, <3>1, <4>1
    <3> QED BY <3>3, <3>4 DEF j
  <2> QED BY <2>1, <2>2
<1>11. Spells(nx2, pv2, h, r, h, loose)
  <2>1. Len(r) = k + 1 /\ Len(r) # 0
    BY <1>1, <1>2
  <2>2. pv2[h] = r[Len(r)] /\ (nx2[h] = r[1])
    BY ONLY <1>8, <1>9, <2>1
  <2>3. \A i \in 1 .. Len(r) :
          r[i] \notin loose => /\ pv2[r[i]] = IF i = 1 THEN h ELSE r[i - 1]
                               /\ nx2[r[i]] = IF i = Len(r) THEN h ELSE r[i + 1]
    BY ONLY <1>10, <2>1
  <2> QED BY ONLY <2>1, <2>2, <2>3 DEF Spells
<1> QED BY <1>5, <1>11 DEF r

(* s without its i-th cell.                                                *)
Without(r, s, i) ==
  /\ Len(r) = Len(s) - 1
  /\ \A j \in 1 .. Len(s) - 1 : r[j] = IF j < i THEN s[j] ELSE s[j + 1]

(* The writes of list_del(c).                                              *)
Taken(nx2, pv2, nx, pv, c) ==
  LET behind == nx[c]
      before == pv[c]
  IN  /\ Written(nx2, nx, before, behind, c, NULL)
      /\ Written(pv2, pv, behind, before, c, NULL)

(* A cell whose own fields lead to its neighbours is taken out.            *)
LEMMA SpellsWithout ==
  ASSUME NEW nx \in [Cells -> Cells \cup {Vectors}], NEW pv \in [Cells -> Cells \cup {Vectors}],
         NEW h \in Heads, NEW s \in Seq(Items), IsInjective(s),
         NEW loose \in SUBSET {NULL}, Spells(nx, pv, h, s, h, loose),
         NEW i \in 1 .. Len(s),
         pv[s[i]] = IF i = 1 THEN h ELSE s[i - 1],
         nx[s[i]] = IF i = Len(s) THEN h ELSE s[i + 1],
         NEW nx2, NEW pv2, Taken(nx2, pv2, nx, pv, s[i]),
         NEW r \in Seq(Items), Without(r, s, i)
  PROVE  /\ pv[s[i]] \in (Range(s) \ {s[i]}) \cup {h}
         /\ nx[s[i]] \in (Range(s) \ {s[i]}) \cup {h}
         /\ Spells(nx2, pv2, h, r, h, loose)
<1> USE CellsApart
<1> DEFINE k == Len(s)
           c == s[i]
           behind == nx[c]
           before == pv[c]
<1>0. /\ Written(nx2, nx, before, behind, c, NULL)
      /\ Written(pv2, pv, behind, before, c, NULL)
  BY DEF Taken
<1>1. k \in Nat /\ i \in 1 .. k
  OBVIOUS
<1>2. Len(r) = k - 1 /\ \A j \in 1 .. k - 1 : r[j] = IF j < i THEN s[j] ELSE s[j + 1]
  BY DEF Without
<1>3. /\ \A j \in 1 .. k : s[j] \in Range(s) /\ s[j] \in Items /\ s[j] # h
      /\ \A j, l \in 1 .. k : s[j] = s[l] => j = l
  BY DEF Range, IsInjective
<1>4. /\ pv[h] = s[k] /\ nx[h] = s[1]
      /\ before = IF i = 1 THEN h ELSE s[i - 1]
      /\ behind = IF i = k THEN h ELSE s[i + 1]
      /\ \A j \in 1 .. k :
           s[j] \notin loose => /\ pv[s[j]] = IF j = 1 THEN h ELSE s[j - 1]
                                /\ nx[s[j]] = IF j = k THEN h ELSE s[j + 1]
  BY DEF Spells
<1> HIDE DEF k
<1>5. 1 \in 1 .. k /\ k \in 1 .. k /\ (i # 1 => i - 1 \in 1 .. k) /\ (i # k => i + 1 \in 1 .. k)
  BY <1>1
<1>6. /\ before \in (Range(s) \ {c}) \cup {h} /\ behind \in (Range(s) \ {c}) \cup {h}
      /\ c \in Cells /\ before \in Cells /\ behind \in Cells /\ c # before /\ c # behind
  <2>1. i # 1 => s[i - 1] # c /\ s[i - 1] \in Range(s) /\ s[i - 1] \in Cells
    BY <1>1, <1>3, <1>5
  <2>2. i # k => s[i + 1] # c /\ s[i + 1] \in Range(s) /\ s[i + 1] \in Cells
    BY <1>1, <1>3, <1>5
  <2> QED BY <1>1, <1>3, <1>4, <2>1, <2>2
<1> HIDE DEF c, behind, before
<1>7. /\ nx2[before] = behind
      /\ \A x \in Cells \ {before, c} : nx2[x] = nx[x]
      /\ pv2[behind] = before
      /\ \A x \in Cells \ {behind, c} : pv2[x] = pv[x]
  BY <1>0, <1>6 DEF Written
<1>8. \A j \in 1 .. k : /\ s[j] = c <=> j = i
                        /\ s[j] = before <=> j = i - 1
                        /\ s[j] = behind <=> j = i + 1
  <2> TAKE j \in 1 .. k
  <2>1. s[j] = c <=> j = i
    BY <1>1, <1>3 DEF c
  <2>2. s[j] = before <=> j = i - 1
    <3>1. i = 1 => j # i - 1
      BY <1>1
    <3> QED BY <1>3, <1>4, <1>5, <3>1
  <2>3. s[j] = behind <=> j = i + 1
    <3>1. i = k => j # i + 1
      BY <1>1
    <3> QED BY <1>3, <1>4, <1>5, <3>1
  <2> QED BY <2>1, <2>2, <2>3
<1>9. (before = h <=> i = 1) /\ (behind = h <=> i = k) /\ h \in Cells \ {c}
  BY <1>1, <1>3, <1>4, <1>5 DEF c
<1>10. pv2[h] = IF k - 1 = 0 THEN h ELSE r[k - 1]
  <2>1. CASE i = k
    <3>1. pv2[h] = IF k = 1 THEN h ELSE s[k - 1]
      BY <1>4, <1>7, <1>9, <2>1
    <3>2. k # 1 => k - 1 \in 1 .. k - 1 /\ k - 1 < i
      BY <1>1, <2>1
    <3> QED BY <1>1, <1>2, <3>1, <3>2
  <2>2. CASE i # k
    <3>1. pv2[h] = s[k]
      BY <1>4, <1>7, <1>9, <2>2
    <3>2. k - 1 # 0 /\ k - 1 \in 1 .. k - 1 /\ ~(k - 1 < i) /\ k - 1 + 1 = k
      BY <1>1, <2>2
    <3> QED BY <1>2, <3>1, <3>2
  <2> QED BY <2>1, <2>2
<1>11. nx2[h] = IF k - 1 = 0 THEN h ELSE r[1]
  <2>1. CASE i = 1
    <3>1. nx2[h] = IF k = 1 THEN h ELSE s[2]
      BY <1>4, <1>7, <1>9, <2>1
    <3>2. k # 1 => 1 \in 1 .. k - 1 /\ ~(1 < i) /\ 1 + 1 = 2
      BY <1>1, <2>1
    <3> QED BY <1>1, <1>2, <3>1, <3>2
  <2>2. CASE i # 1
    <3>1. nx2[h] = s[1]
      BY <1>4, <1>7, <1>9, <2>2
    <3>2. k - 1 # 0 /\ 1 \in 1 .. k - 1 /\ 1 < i
      BY <1>1, <2>2
    <3> QED BY <1>2, <3>1, <3>2
  <2> QED BY <2>1, <2>2
<1>12. ASSUME NEW j \in 1 .. k - 1, r[j] \notin loose
       PROVE  /\ pv2[r[j]] = IF j = 1 THEN h ELSE r[j - 1]
              /\ nx2[r[j]] = IF j = k - 1 THEN h ELSE r[j + 1]
  <2> DEFINE l == IF j < i THEN j ELSE j + 1
  <2>1. l \in 1 .. k /\ l # i /\ (j < i <=> l < i)
    BY <1>1
  <2>2. r[j] = s[l] /\ s[l] \in Cells \ {h, c} /\ s[l] \notin loose
    BY <1>2, <1>3, <1>8, <1>12, <2>1
  <2>3. /\ pv[s[l]] = IF l = 1 THEN h ELSE s[l - 1]
        /\ nx[s[l]] = IF l = k THEN h ELSE s[l + 1]
    BY <1>4, <2>1, <2>2
  <2>4. pv2[r[j]] = IF j = 1 THEN h ELSE r[j - 1]
    <3>1. CASE l = i + 1
      <4>1. j = i /\ (j # 1 => j - 1 \in 1 .. k - 1 /\ j - 1 < i)
        BY <1>1, <2>1, <3>1
      <4>2. pv2[r[j]] = before
        BY <1>7, <1>8, <2>1, <2>2, <3>1
      <4> QED BY <1>2, <1>4, <4>1, <4>2
    <3>2. CASE l # i + 1
      <4>1. pv2[r[j]] = IF l = 1 THEN h ELSE s[l - 1]
        BY <1>7, <1>8, <2>1, <2>2, <2>3, <3>2
      <4>2. l = 1 <=> j = 1
        BY <1>1, <3>2
      <4>3. j # 1 => j - 1 \in 1 .. k - 1 /\ l - 1 = IF j - 1 < i THEN j - 1 ELSE j - 1 + 1
        BY <1>1, <3>2
      <4>4. j # 1 => r[j - 1] = s[l - 1]
        BY <1>2, <4>3
      <4> QED BY <4>1, <4>2, <4>4
    <3> QED BY <3>1, <3>2
  <2>5. nx2[r[j]] = IF j = k - 1 THEN h ELSE r[j + 1]
    <3>1. CASE l = i - 1
      <4>1. j = i - 1 /\ (j = k - 1 <=> i = k)
            /\ (j # k - 1 => j + 1 \in 1 .. k - 1 /\ ~(j + 1 < i) /\ j + 1 + 1 = i + 1)
        BY <1>1, <2>1, <3>1
      <4>2. nx2[r[j]] = behind
        BY <1>7, <1>8, <2>1, <2>2, <3>1
      <4>3. j # k - 1 => r[j + 1] = s[i + 1]
        BY <1>2, <4>1
      <4> QED BY <1>4, <4>1, <4>2, <4>3
    <3>2. CASE l # i - 1
      <4>1. nx2[r[j]] = IF l = k THEN h ELSE s[l + 1]
        BY <1>7, <1>8, <2>1, <2>2, <2>3, <3>2
      <4>2. l = k <=> j = k - 1
        BY <1>1, <3>2
      <4>3. j # k - 1 => j + 1 \in 1 .. k - 1 /\ l + 1 = IF j + 1 < i THEN j + 1 ELSE j + 1 + 1
        BY <1>1, <3>2
      <4>4. j # k - 1 => r[j + 1] = s[l + 1]
        BY <1>2, <4>3
      <4> QED BY <4>1, <4>2, <4>4
    <3> QED BY <3>1, <3>2
  <2> QED BY <2>4, <2>5
<1>13. Spells(nx2, pv2, h, r, h, loose)
  <2>1. Len(r) = k - 1
    BY <1>2
  <2>2. /\ pv2[h] = IF Len(r) = 0 THEN h ELSE r[Len(r)]
        /\ nx2[h] = IF Len(r) = 0 THEN h ELSE r[1]
    BY ONLY <1>10, <1>11, <2>1
  <2>3. \A j \in 1 .. Len(r) :
          r[j] \notin loose => /\ pv2[r[j]] = IF j = 1 THEN h ELSE r[j - 1]
                               /\ nx2[r[j]] = IF j = Len(r) THEN h ELSE r[j + 1]
    BY ONLY <1>12, <2>1
  <2> QED BY ONLY <2>2, <2>3 DEF Spells
<1> QED BY <1>6, <1>13 DEF c, before, behind

-----------------------------------------------------------------------------
(* The members of the sequences the operations make.                       *)
LEMMA AppendMembers ==
  ASSUME NEW s \in Seq(Items), IsInjective(s), NEW n \in Items, n \notin Range(s)
  PROVE  /\ Append(s, n) \in Seq(Items) /\ IsInjective(Append(s, n))
         /\ Range(Append(s, n)) = Range(s) \cup {n}
         /\ Append(s, n) # << >> /\ Head(Append(s, n)) = IF s = << >> THEN n ELSE Head(s)
<1>1. DOMAIN Append(s, n) = 1 .. Len(s) + 1 /\ DOMAIN s = 1 .. Len(s) /\ Len(s) \in Nat
  OBVIOUS
<1>2. \A i \in 1 .. Len(s) + 1 : Append(s, n)[i] = IF i = Len(s) + 1 THEN n ELSE s[i]
  OBVIOUS
<1>3. Range(Append(s, n)) = Range(s) \cup {n}
  BY <1>1, <1>2 DEF Range
<1>4. IsInjective(Append(s, n))
  BY <1>1, <1>2 DEF Range, IsInjective
<1>5. Append(s, n) # << >> /\ Head(Append(s, n)) = IF s = << >> THEN n ELSE Head(s)
  <2>1. Append(s, n) # << >> /\ Head(Append(s, n)) = Append(s, n)[1]
    OBVIOUS
  <2>2. CASE s = << >>
    BY <1>1, <1>2, <2>1, <2>2
  <2>3. CASE s # << >>
    <3>1. Head(s) = s[1] /\ 1 \in 1 .. Len(s) + 1 /\ 1 # Len(s) + 1
      BY <1>1, <2>3
    <3> QED BY <1>2, <2>1, <2>3, <3>1
  <2> QED BY <2>2, <2>3
<1> QED BY <1>3, <1>4, <1>5

LEMMA PrependMembers ==
  ASSUME NEW s \in Seq(Items), IsInjective(s), NEW n \in Items, n \notin Range(s)
  PROVE  /\ <<n>> \o s \in Seq(Items) /\ IsInjective(<<n>> \o s)
         /\ Range(<<n>> \o s) = Range(s) \cup {n}
<1> DEFINE r == <<n>> \o s
<1>1. r \in Seq(Items) /\ DOMAIN r = 1 .. Len(s) + 1 /\ DOMAIN s = 1 .. Len(s) /\ Len(s) \in Nat
  OBVIOUS
<1>2. r[1] = n /\ \A i \in 1 .. Len(s) : r[i + 1] = s[i]
  OBVIOUS
<1> HIDE DEF r
<1>3. \A i \in 2 .. Len(s) + 1 : i - 1 \in 1 .. Len(s) /\ r[i] = s[i - 1]
  <2> SUFFICES ASSUME NEW i \in 2 .. Len(s) + 1 PROVE i - 1 \in 1 .. Len(s) /\ r[i] = s[i - 1]
    OBVIOUS
  <2>1. i - 1 \in 1 .. Len(s) /\ i - 1 + 1 = i
    BY <1>1
  <2> QED BY <1>2, <2>1
<1>4. Range(r) = Range(s) \cup {n}
  <2>1. ASSUME NEW x \in Range(r) PROVE x \in Range(s) \cup {n}
    <3>1. PICK i \in 1 .. Len(s) + 1 : x = r[i]
      BY <1>1 DEF Range
    <3>2. i = 1 \/ i \in 2 .. Len(s) + 1
      BY <1>1
    <3> QED BY <1>1, <1>2, <1>3, <3>1, <3>2 DEF Range
  <2>2. ASSUME NEW x \in Range(s) PROVE x \in Range(r)
    <3>1. PICK i \in 1 .. Len(s) : x = s[i]
      BY <1>1 DEF Range
    <3>2. i + 1 \in 1 .. Len(s) + 1
      BY <1>1
    <3> QED BY <1>1, <1>2, <3>1, <3>2 DEF Range
  <2>3. n \in Range(r)
    <3>1. 1 \in 1 .. Len(s) + 1
      BY <1>1
    <3> QED BY <1>1, <1>2, <3>1 DEF Range
  <2> QED BY <2>1, <2>2, <2>3
<1>5. IsInjective(r)
  <2>1. SUFFICES ASSUME NEW i \in 1 .. Len(s) + 1, NEW j \in 1 .. Len(s) + 1, r[i] = r[j]
                 PROVE  i = j
    BY <1>1 DEF IsInjective
  <2>2. \A k \in 2 .. Len(s) + 1 : r[k] \in Range(s) /\ r[k] # n
    BY <1>1, <1>3 DEF Range
  <2>3. (i = 1 \/ i \in 2 .. Len(s) + 1) /\ (j = 1 \/ j \in 2 .. Len(s) + 1)
    BY <1>1
  <2>4. CASE i # 1 /\ j # 1
    <3>1. s[i - 1] = s[j - 1] /\ i - 1 \in 1 .. Len(s) /\ j - 1 \in 1 .. Len(s)
      BY <1>3, <2>1, <2>3, <2>4
    <3>2. i - 1 = j - 1
      BY <1>1, <3>1 DEF IsInjective
    <3> QED BY <3>2
  <2> QED BY <1>2, <2>1, <2>2, <2>3, <2>4
<1> QED BY <1>1, <1>4, <1>5 DEF r

LEMMA WithoutMembers ==
  ASSUME NEW s \in Seq(Items), IsInjective(s), NEW i \in 1 .. Len(s),
         NEW r \in Seq(Items), Without(r, s, i)
  PROVE  IsInjective(r) /\ Range(r) = Range(s) \ {s[i]}
<1> DEFINE k == Len(s)
           Of(j) == IF j < i THEN j ELSE j + 1
<1>1. k \in Nat /\ DOMAIN s = 1 .. k /\ DOMAIN r = 1 .. k - 1
  BY DEF Without
<1>2. /\ \A j \in 1 .. k - 1 : Of(j) \in 1 .. k /\ Of(j) # i /\ r[j] = s[Of(j)]
      /\ \A j, l \in 1 .. k - 1 : Of(j) = Of(l) => j = l
  BY <1>1 DEF Without
<1>3. \A j, l \in 1 .. k : s[j] = s[l] => j = l
  BY <1>1 DEF IsInjective
<1> HIDE DEF Of, k
<1>4. IsInjective(r)
  BY <1>1, <1>2, <1>3 DEF IsInjective
<1>5. ASSUME NEW x \in Range(r) PROVE x \in Range(s) /\ x # s[i]
  <2>1. PICK j \in 1 .. k - 1 : x = r[j]
    BY <1>1, <1>5 DEF Range
  <2> QED BY <1>1, <1>2, <1>3, <2>1 DEF Range, k
<1>6. ASSUME NEW x \in Range(s), x # s[i] PROVE x \in Range(r)
  <2>1. PICK l \in 1 .. k : x = s[l]
    BY <1>1 DEF Range
  <2> DEFINE j == IF l < i THEN l ELSE l - 1
  <2>2. j \in 1 .. k - 1 /\ Of(j) = l
    BY <1>1, <1>6, <2>1 DEF Of, k
  <2> HIDE DEF j
  <2> QED BY <1>1, <1>2, <2>1, <2>2 DEF Range
<1> QED BY <1>4, <1>5, <1>6

(* Both ways the modules write it: the first cell, and any cell.           *)
LEMMA TailIsWithout ==
  ASSUME NEW s \in Seq(Items), s # << >>
  PROVE  1 \in 1 .. Len(s) /\ Head(s) = s[1] /\ Tail(s) \in Seq(Items) /\ Without(Tail(s), s, 1)
<1>1. /\ Len(s) \in Nat /\ Len(s) >= 1 /\ Head(s) = s[1] /\ Tail(s) \in Seq(Items)
      /\ Len(Tail(s)) = Len(s) - 1 /\ \A j \in 1 .. Len(s) - 1 : Tail(s)[j] = s[j + 1]
  OBVIOUS
<1>2. \A j \in 1 .. Len(s) - 1 : ~(j < 1)
  BY <1>1
<1> HIDE DEF Without
<1> QED BY <1>1, <1>2 DEF Without

LEMMA CutIsWithout ==
  ASSUME NEW s \in Seq(Items), NEW i \in 1 .. Len(s)
  PROVE  LET r == SubSeq(s, 1, i - 1) \o SubSeq(s, i + 1, Len(s))
         IN  r \in Seq(Items) /\ Without(r, s, i)
<1> DEFINE k == Len(s)
           p == SubSeq(s, 1, i - 1)
           q == SubSeq(s, i + 1, k)
           r == p \o q
<1>1. k \in Nat /\ \A j \in 1 .. k : s[j] \in Items
  OBVIOUS
<1>2. p \in Seq(Items) /\ Len(p) = i - 1 /\ \A j \in 1 .. i - 1 : p[j] = s[j]
  <2> DEFINE m == 1
             n == i - 1
  <2>1. m \in Int /\ n \in Int /\ \A j \in m .. n : s[j] \in Items
    BY <1>1
  <2> HIDE DEF m, n
  <2>2. /\ SubSeq(s, m, n) \in Seq(Items)
        /\ Len(SubSeq(s, m, n)) = IF m <= n THEN n - m + 1 ELSE 0
        /\ \A j \in 1 .. n - m + 1 : SubSeq(s, m, n)[j] = s[m + j - 1]
    BY ONLY <2>1, SubSeqProperties
  <2>3. n - m + 1 = i - 1 /\ (m <= n \/ i - 1 = 0) /\ \A j \in 1 .. i - 1 : m + j - 1 = j
    BY DEF m, n
  <2> QED BY <2>2, <2>3 DEF m, n
<1>3. q \in Seq(Items) /\ Len(q) = k - i /\ \A j \in 1 .. k - i : q[j] = s[i + j]
  <2> DEFINE m == i + 1
  <2>1. m \in Int /\ k \in Int /\ \A j \in m .. k : s[j] \in Items
    BY <1>1
  <2> HIDE DEF m
  <2>2. /\ SubSeq(s, m, k) \in Seq(Items)
        /\ Len(SubSeq(s, m, k)) = IF m <= k THEN k - m + 1 ELSE 0
        /\ \A j \in 1 .. k - m + 1 : SubSeq(s, m, k)[j] = s[m + j - 1]
    BY ONLY <2>1, SubSeqProperties
  <2>3. k - m + 1 = k - i /\ (m <= k \/ k - i = 0) /\ \A j \in 1 .. k - i : m + j - 1 = i + j
    BY <1>1 DEF m
  <2> QED BY <2>2, <2>3 DEF m
<1> HIDE DEF p, q
<1>4. /\ r \in Seq(Items) /\ Len(r) = i - 1 + (k - i)
      /\ \A j \in 1 .. i - 1 + (k - i) : r[j] = IF j <= i - 1 THEN p[j] ELSE q[j - (i - 1)]
  <2>1. p \in Seq(Items) /\ q \in Seq(Items)
    BY <1>2, <1>3
  <2>2. /\ p \o q \in Seq(Items) /\ Len(p \o q) = Len(p) + Len(q)
        /\ \A j \in 1 .. Len(p) + Len(q) :
             (p \o q)[j] = IF j <= Len(p) THEN p[j] ELSE q[j - Len(p)]
    BY ONLY <2>1, ConcatProperties
  <2>3. Len(p) = i - 1 /\ Len(q) = k - i
    BY <1>2, <1>3
  <2> QED BY <2>2, <2>3
<1>5. ASSUME NEW j \in 1 .. k - 1 PROVE r[j] = IF j < i THEN s[j] ELSE s[j + 1]
  <2>1. j \in 1 .. i - 1 + (k - i) /\ (j <= i - 1 <=> j < i)
    BY <1>1
  <2>2. CASE j < i
    <3>1. j \in 1 .. i - 1
      BY <2>2
    <3> QED BY <1>2, <1>4, <2>1, <2>2, <3>1
  <2>3. CASE ~(j < i)
    <3>1. j - (i - 1) \in 1 .. k - i /\ i + (j - (i - 1)) = j + 1
      BY <1>1, <2>3
    <3> QED BY <1>3, <1>4, <2>1, <2>3, <3>1
  <2> QED BY <2>2, <2>3
<1>6. Len(r) = k - 1
  BY <1>1, <1>4
<1> QED BY <1>4, <1>5, <1>6 DEF Without, p, q

-----------------------------------------------------------------------------
(* What is known while readyqueue is not torn, list by list.               *)
Good ==
  /\ \A h \in Heads :
       /\ Spells(next, prev, Start(h), content[h], h, Loose)
       /\ h \notin initialised => next[h] = NULL
       /\ IsInjective(content[h])
  /\ \A n \in Nodes : Free(n) => next[n] = NULL /\ prev[n] = NULL
  /\ \A g, h \in Heads : g # h => Range(content[g]) \cap Range(content[h]) = {}
  /\ NullClear

LEMMA LInvIs == LInv <=> Typed /\ TornOnlySo /\ (~torn => Good)
<1> SUFFICES ASSUME Typed PROVE (~torn => Good) <=> LinksSpellLists /\ (~torn => NullClear)
  BY DEF LInv
<1>1. content \in [Heads -> Seq(Items)]
  BY DEF Typed
<1>2. \A h \in Heads : Spelled(h) <=> /\ Spells(next, prev, Start(h), content[h], h, Loose)
                                      /\ h \notin initialised => next[h] = NULL
  BY <1>1, SpelledIs
<1> QED BY <1>2 DEF Good, LinksSpellLists

LEMMA LInvNext == Typed' /\ TornOnlySo' /\ (~torn' => Good') => LInv'
<1> SUFFICES ASSUME Typed', ~torn' => Good'
             PROVE  LinksSpellLists' /\ (~torn' => NullClear')
  BY DEF LInv
<1>1. content' \in [Heads -> Seq(Items)]
  BY DEF Typed
<1>2. \A h \in Heads : Spelled(h)' <=> /\ Spells(next', prev', Start(h)', content'[h], h, Loose')
                                       /\ h \notin initialised' => next'[h] = NULL
  BY <1>1, SpelledNext
<1> QED BY <1>2 DEF Good, LinksSpellLists

(* An operation on the list h that writes to the cells W: the rest stays   *)
(* as it was.  NULL's fields may be written while it is in another list,   *)
(* which is remembered in bent.                                            *)
LEMMA RestKept ==
  ASSUME Typed, Good, Typed', NEW h, NEW W, bent => bent' \/ h = Ready,
         \A c \in Cells \ W : next'[c] = next[c] /\ prev'[c] = prev[c],
         \A g \in Heads \ {h} :
           /\ content'[g] = content[g] /\ (g \in initialised' <=> g \in initialised)
           /\ g \notin W /\ Range(content[g]) \cap W \subseteq Loose',
         h \in Heads =>
           /\ Spells(next', prev', Start(h)', content'[h], h, Loose')
           /\ h \notin initialised' => next'[h] = NULL
           /\ IsInjective(content'[h])
           /\ \A g \in Heads \ {h} : Range(content[g]) \cap Range(content'[h]) = {},
         \A n \in Nodes : Free(n)' => \/ Free(n) /\ n \notin W
                                      \/ next'[n] = NULL /\ prev'[n] = NULL,
         NullClear'
  PROVE  Good'
<1> USE CellsApart
<1>1. content \in [Heads -> Seq(Items)]
  BY DEF Typed
<1>2. ASSUME NEW g \in Heads \ {h}
      PROVE  /\ Spells(next', prev', Start(g)', content'[g], g, Loose')
             /\ g \notin initialised' => next'[g] = NULL
             /\ IsInjective(content'[g])
  <2>1. content'[g] = content[g] /\ content[g] \in Seq(Items) /\ Start(g)' = Start(g)
    BY <1>1 DEF Start
  <2>2. /\ Spells(next, prev, Start(g), content[g], g, Loose)
        /\ g \notin initialised => next[g] = NULL
        /\ IsInjective(content[g])
    BY DEF Good
  <2>3. next'[g] = next[g] /\ prev'[g] = prev[g]
    OBVIOUS
  <2>4. ASSUME NEW c \in Range(content[g]) \ Loose'
        PROVE  c \notin Loose /\ next'[c] = next[c] /\ prev'[c] = prev[c]
    <3>1. c \in Items /\ c \notin W
      BY <2>1 DEF Range
    <3>2. c = NULL => g = Ready
      BY DEF Good, NullClear
    <3>3. c \notin Loose
      BY <2>4, <3>2 DEF Loose
    <3> QED BY <3>1, <3>3
  <2>5. Start(g) \in {g, NULL}
    BY DEF Start
  <2>6. Spells(next', prev', Start(g), content[g], g, Loose')
    <3> DEFINE l == Loose
               l2 == Loose'
    <3>1. /\ Spells(next, prev, Start(g), content[g], g, l)
          /\ \A c \in Range(content[g]) \ l2 : c \notin l /\ next'[c] = next[c] /\ prev'[c] = prev[c]
      BY <2>2, <2>4
    <3> HIDE DEF l, l2
    <3>2. Spells(next', prev', Start(g), content[g], g, l2)
      BY ONLY <2>1, <2>3, <2>5, <3>1, SpellsApart
    <3> QED BY <3>2 DEF l2
  <2> QED BY <2>1, <2>2, <2>3, <2>6
<1>3. ASSUME NEW n \in Nodes, Free(n)' PROVE next'[n] = NULL /\ prev'[n] = NULL
  <2>1. Free(n) => next[n] = NULL /\ prev[n] = NULL
    BY DEF Good
  <2>2. n \in Cells
    OBVIOUS
  <2> QED BY <1>3, <2>1, <2>2
<1>4. ASSUME NEW f \in Heads, NEW g \in Heads, f # g
      PROVE  Range(content'[f]) \cap Range(content'[g]) = {}
  <2>1. Range(content[f]) \cap Range(content[g]) = {}
    BY <1>4 DEF Good
  <2> QED BY <1>4, <2>1
<1> QED BY <1>2, <1>3, <1>4 DEF Good

-----------------------------------------------------------------------------
(* The operations.                                                         *)
LEMMA GoodGives ==
  ASSUME Typed, Good
  PROVE  /\ content \in [Heads -> Seq(Items)]
         /\ \A h \in Heads :
              /\ content[h] \in Seq(Items) /\ IsInjective(content[h])
              /\ Range(content[h]) \subseteq Items
              /\ Spells(next, prev, Start(h), content[h], h, Loose)
              /\ h \notin initialised => next[h] = NULL
              /\ NULL \in Range(content[h]) => h = Ready /\ h \in initialised
         /\ \A g, h \in Heads : g # h => Range(content[g]) \cap Range(content[h]) = {}
         /\ \A n \in Nodes : Free(n) => /\ next[n] = NULL /\ prev[n] = NULL
                                        /\ \A h \in Heads : n \notin Range(content[h])
<1>1. content \in [Heads -> Seq(Items)]
  BY DEF Typed
<1>2. ASSUME NEW h \in Heads PROVE content[h] \in Seq(Items) /\ Range(content[h]) \subseteq Items
  BY <1>1 DEF Range
<1> QED BY <1>1, <1>2 DEF Good, NullClear, Free, Linked

LEMMA InitHeadKeeps ==
  ASSUME Typed, Good, NEW h \in Heads, InitListHead(h) PROVE Typed' /\ Good'
<1> USE CellsApart
<1>1. /\ h = Ready => h \notin initialised
      /\ next' = [next EXCEPT ![h] = h] /\ prev' = [prev EXCEPT ![h] = h]
      /\ content' = [content EXCEPT ![h] = << >>] /\ initialised' = initialised \cup {h}
      /\ stranded' = stranded \cup Range(content[h])
      /\ bent' = bent /\ torn' = torn
  BY DEF InitListHead
<1>2. /\ next \in [Cells -> Cells \cup {Vectors}] /\ prev \in [Cells -> Cells \cup {Vectors}]
      /\ content \in [Heads -> Seq(Items)]
      /\ initialised \subseteq Heads /\ stranded \subseteq Nodes
      /\ bent \in BOOLEAN /\ torn \in BOOLEAN
  BY DEF Typed
<1>3. Range(content[h]) \subseteq Nodes /\ NULL \notin Range(content[h])
  BY <1>1, GoodGives DEF Items
<1>4. Typed'
  BY <1>1, <1>2, <1>3 DEF Typed
<1>5. content'[h] = << >> /\ Range(<< >>) = {} /\ IsInjective(<< >>)
  BY <1>1, <1>2 DEF Range, IsInjective
<1>6. /\ Spells(next', prev', Start(h)', content'[h], h, Loose') /\ h \in initialised'
  <2>1. Start(h)' = h /\ next'[h] = h /\ prev'[h] = h
    BY <1>1, <1>2 DEF Start
  <2> DEFINE l == Loose'
  <2> HIDE DEF l
  <2>2. Spells(next', prev', h, << >>, h, l)
    BY ONLY <2>1, EmptySpells
  <2>3. h \in initialised'
    BY <1>1
  <2> QED BY <1>5, <2>1, <2>2, <2>3 DEF l
<1>7. \A g \in Heads \ {h} : content'[g] = content[g] /\ (g \in initialised' <=> g \in initialised)
  BY <1>1, <1>2
<1>8. ASSUME NEW n \in Nodes, Free(n)' PROVE Free(n)
  <2>1. n \notin stranded /\ n \notin Range(content[h])
    BY <1>1, <1>8 DEF Free
  <2>2. \A g \in Heads \ {h} : n \notin Range(content[g])
    BY <1>7, <1>8 DEF Free, Linked
  <2> QED BY <2>1, <2>2 DEF Free, Linked
<1>9. NullClear'
  <2>1. \A g \in Heads : NULL \in Range(content'[g]) => g = Ready /\ g \in initialised'
    BY <1>5, <1>7, GoodGives
  <2>2. Linked(NULL)' <=> Linked(NULL)
    BY <1>3, <1>5, <1>7 DEF Linked
  <2>3. next'[NULL] = next[NULL] /\ prev'[NULL] = prev[NULL]
    BY <1>1, <1>2
  <2>4. ASSUME FirstAdded(next[NULL])
        PROVE  next[NULL] \in stranded' \/ FirstAdded(next[NULL])'
    <3>1. PICK g \in Heads \ initialised : content[g] # << >> /\ next[NULL] = Head(content[g])
      BY <2>4 DEF FirstAdded
    <3>2. CASE g = h
      <4>1. Head(content[g]) \in Range(content[g])
        <5>1. 1 \in 1 .. Len(content[g]) /\ Head(content[g]) = content[g][1]
          BY <3>1, GoodGives, TailIsWithout
        <5>2. content[g] \in Seq(Items)
          BY GoodGives
        <5> QED BY <5>1, <5>2 DEF Range
      <4> QED BY <1>1, <3>1, <3>2, <4>1
    <3>3. CASE g # h
      BY <1>1, <1>7, <2>3, <3>1, <3>3 DEF FirstAdded
    <3> QED BY <3>2, <3>3
  <2>5. stranded \subseteq stranded'
    BY <1>1
  <2>6. ASSUME NEW n \in stranded' PROVE ~Linked(n)'
    <3>1. ASSUME NEW g \in Heads \ {h} PROVE n \notin Range(content[g])
      <4>1. n \in stranded => n \notin Range(content[g])
        BY DEF Good, NullClear, Linked
      <4>2. Range(content[g]) \cap Range(content[h]) = {}
        BY GoodGives
      <4> QED BY <1>1, <2>6, <4>1, <4>2
    <3> QED BY <1>5, <1>7, <3>1 DEF Linked
  <2> QED BY <2>1, <2>2, <2>3, <2>4, <2>5, <2>6 DEF Good, NullClear
<1> DEFINE W == {h}
<1>10. \A c \in Cells \ W : next'[c] = next[c] /\ prev'[c] = prev[c]
  BY <1>1, <1>2
<1>11. \A g \in Heads \ {h} :
         /\ content'[g] = content[g] /\ (g \in initialised' <=> g \in initialised)
         /\ g \notin W /\ Range(content[g]) \cap W \subseteq Loose'
  BY <1>7, GoodGives
<1>12. \A n \in Nodes : Free(n)' => \/ Free(n) /\ n \notin W
                                    \/ next'[n] = NULL /\ prev'[n] = NULL
  BY <1>8
<1>13. /\ Spells(next', prev', Start(h)', content'[h], h, Loose')
       /\ h \notin initialised' => next'[h] = NULL
       /\ IsInjective(content'[h])
       /\ \A g \in Heads \ {h} : Range(content[g]) \cap Range(content'[h]) = {}
  BY <1>5, <1>6
<1>14. bent => bent' \/ h = Ready
  BY <1>1
<1> HIDE DEF W
<1> QED BY <1>4, <1>9, <1>10, <1>11, <1>12, <1>13, <1>14, RestKept

(* A node or NULL is added next to the cell w: everything but the pointers *)
(* of the list itself.                                                     *)
LEMMA AddKeeps ==
  ASSUME Typed, Good, NEW n \in Items, NEW h \in Heads, ~Linked(n), n \in Nodes => Free(n),
         n = NULL => h = Ready /\ h \in initialised,
         NEW s \in Seq(Items), NEW w \in Cells, w \in Range(content[h]) \cup {h, NULL},
         w = NULL => \/ NULL \in Range(content[h])
                     \/ /\ bent' /\ h \notin initialised /\ content[h] = << >>
                        /\ next'[NULL] = n /\ prev'[NULL] = prev[NULL],
         next' \in [Cells -> Cells \cup {Vectors}], prev' \in [Cells -> Cells \cup {Vectors}],
         \A c \in Cells \ {n, h, w} : next'[c] = next[c] /\ prev'[c] = prev[c],
         content' = [content EXCEPT ![h] = s], IsInjective(s), s # << >>,
         Head(s) = (IF content[h] = << >> THEN n ELSE Head(content[h])) \/ h \in initialised,
         Range(s) = Range(content[h]) \cup {n},
         UNCHANGED <<initialised, stranded, torn>>, bent' \in BOOLEAN, bent => bent' \/ h = Ready,
         Spells(next', prev', Start(h), s, h, Loose'), h \notin initialised => next'[h] = NULL
  PROVE  Typed' /\ Good'
<1> USE CellsApart
<1>1. /\ content \in [Heads -> Seq(Items)]
      /\ \A g \in Heads : Range(content[g]) \subseteq Items /\ n \notin Range(content[g])
      /\ \A g \in Heads \ {h} : Range(content[g]) \cap Range(content[h]) = {}
      /\ \A g \in Heads : NULL \in Range(content[g]) => g = Ready /\ g \in initialised
  BY GoodGives DEF Linked
<1>2. Typed' /\ content'[h] = s /\ \A g \in Heads \ {h} : content'[g] = content[g]
  BY <1>1 DEF Typed
<1>3. Start(h)' = Start(h)
  BY DEF Start
<1> DEFINE W == {n, h, w}
<1>4. ASSUME NEW g \in Heads \ {h}
      PROVE  /\ g \notin W /\ Range(content[g]) \cap W \subseteq Loose'
             /\ Range(content[g]) \cap Range(content'[h]) = {}
  <2>1. g \notin W
    BY <1>1
  <2>2. w \in Range(content[g]) => w = NULL
    BY <1>1
  <2>3. w = NULL /\ NULL \in Range(content[g]) => bent'
    BY <1>1
  <2> QED BY <1>1, <1>2, <2>1, <2>2, <2>3 DEF Loose
<1>5. ASSUME NEW m \in Nodes, Free(m)' PROVE Free(m) /\ m \notin W
  <2>1. \A g \in Heads : m \notin Range(content'[g])
    BY <1>5 DEF Free, Linked
  <2>2. m \notin Range(content[h]) /\ m # n
    BY <1>2, <2>1
  <2>3. \A g \in Heads : m \notin Range(content[g])
    BY <1>2, <2>1, <2>2
  <2>4. m \notin stranded
    BY <1>5 DEF Free
  <2> QED BY <2>2, <2>3, <2>4 DEF Free, Linked
<1>6. NullClear'
  <2>1. \A g \in Heads : NULL \in Range(content'[g]) => g = Ready /\ g \in initialised'
    BY <1>1, <1>2
  <2>0. ASSUME NEW m \in stranded' PROVE ~Linked(m)'
    <3>1. m \in stranded /\ ~Linked(m) /\ m # n
      <4>1. stranded \subseteq Nodes
        BY DEF Typed
      <4> QED BY <2>0, <4>1 DEF Good, NullClear, Free
    <3> QED BY <1>2, <3>1 DEF Linked
  <2>2. SUFFICES ASSUME ~Linked(NULL)'
                 PROVE  /\ prev'[NULL] \in {NULL, Vectors}
                        /\ \/ next'[NULL] \in {NULL, Vectors} \cup stranded'
                           \/ FirstAdded(next[NULL])'
    BY <2>0, <2>1 DEF NullClear
  <2>3. n # NULL /\ ~Linked(NULL) /\ NULL \notin Range(content[h])
    BY <1>2, <2>2 DEF Linked
  <2>4. /\ prev[NULL] \in {NULL, Vectors}
        /\ next[NULL] \in {NULL, Vectors} \cup stranded \/ FirstAdded(next[NULL])
    BY <2>3 DEF Good, NullClear
  <2>5. CASE w = NULL
    <3>1. /\ h \notin initialised /\ content[h] = << >>
          /\ next'[NULL] = n /\ prev'[NULL] = prev[NULL] /\ Head(s) = n
      BY <2>3, <2>5
    <3>2. FirstAdded(n)'
      BY <1>2, <3>1 DEF FirstAdded
    <3> QED BY <2>4, <3>1, <3>2
  <2>6. CASE w # NULL
    <3>1. next'[NULL] = next[NULL] /\ prev'[NULL] = prev[NULL]
      BY <2>3, <2>6
    <3>2. ASSUME FirstAdded(next[NULL]) PROVE FirstAdded(next[NULL])'
      <4>1. PICK g \in Heads \ initialised : content[g] # << >> /\ next[NULL] = Head(content[g])
        BY <3>2 DEF FirstAdded
      <4>2. content'[g] # << >> /\ Head(content'[g]) = Head(content[g])
        BY <1>2, <4>1
      <4> QED BY <3>1, <4>1, <4>2 DEF FirstAdded
    <3> QED BY <2>4, <3>1, <3>2
  <2> QED BY <2>5, <2>6
<1>7. \A c \in Cells \ W : next'[c] = next[c] /\ prev'[c] = prev[c]
  OBVIOUS
<1>8. \A g \in Heads \ {h} :
        /\ content'[g] = content[g] /\ (g \in initialised' <=> g \in initialised)
        /\ g \notin W /\ Range(content[g]) \cap W \subseteq Loose'
  BY <1>2, <1>4
<1>9. /\ Spells(next', prev', Start(h)', content'[h], h, Loose')
      /\ h \notin initialised' => next'[h] = NULL
      /\ IsInjective(content'[h])
      /\ \A g \in Heads \ {h} : Range(content[g]) \cap Range(content'[h]) = {}
  BY <1>2, <1>3, <1>4
<1>10. \A m \in Nodes : Free(m)' => \/ Free(m) /\ m \notin W
                                    \/ next'[m] = NULL /\ prev'[m] = NULL
  BY <1>5
<1>11. bent => bent' \/ h = Ready
  OBVIOUS
<1> HIDE DEF W
<1> QED BY ONLY Typed, Good, <1>2, <1>6, <1>7, <1>8, <1>9, <1>10, <1>11, RestKept

(* list_add_tail of a node, or of NULL.                                    *)
LEMMA AddLastKeeps ==
  ASSUME Typed, Good, NEW n \in Items, NEW h \in Heads, ~Linked(n), n \in Nodes => Free(n),
         h = Ready => h \in initialised, n = NULL => h = Ready,
         AddBetween(n, prev[h], h), content' = [content EXCEPT ![h] = Append(@, n)],
         bent' = IF n = NULL THEN FALSE ELSE bent \/ (prev[h] = NULL /\ h \notin initialised),
         UNCHANGED <<initialised, stranded, torn>>
  PROVE  Typed' /\ Good'
<1> USE CellsApart
<1> DEFINE last == prev[h]
           s == content[h]
           a == Start(h)
           l == Loose'
<1>1. /\ content' = [content EXCEPT ![h] = Append(s, n)]
      /\ prev' = [prev EXCEPT ![h] = n, ![n] = last]
      /\ next' = [next EXCEPT ![n] = h, ![last] = n]
  BY GoodGives DEF AddBetween
<1>2. /\ next \in [Cells -> Cells \cup {Vectors}] /\ prev \in [Cells -> Cells \cup {Vectors}]
      /\ bent \in BOOLEAN
      /\ s \in Seq(Items) /\ IsInjective(s) /\ n \notin Range(s)
      /\ Spells(next, prev, a, s, h, Loose) /\ a \in {h, NULL}
      /\ h \notin initialised => next[h] = NULL /\ a = NULL
      /\ a = NULL => NULL \notin Range(s) /\ n # NULL /\ h \notin initialised
  BY GoodGives DEF Typed, Start, Linked
<1>3. l \in SUBSET {NULL} /\ Spells(next, prev, a, s, h, l)
  <2>1. \A c \in Range(s) \ l : c \notin Loose
    BY <1>2 DEF Loose
  <2> DEFINE lo == Loose
  <2>2. Spells(next, prev, a, s, h, lo) /\ \A c \in Range(s) \ l : c \notin lo
    BY <1>2, <2>1
  <2>3. l \in SUBSET {NULL}
    BY DEF Loose
  <2> HIDE DEF l, lo, s, a
  <2> QED BY ONLY <1>2, <2>2, <2>3, SpellsApart
<1> HIDE DEF a, l
<1>4. /\ last \in Range(s) \cup {h, NULL} /\ (a = NULL => last # h)
      /\ last = NULL => NULL \in Range(s) \/ (a = NULL /\ s = << >>)
      /\ Spells(next', prev', a, Append(s, n), h, l)
  <2>1. Joined(next', prev', next, prev, h, n)
    BY <1>1 DEF Joined, Written
  <2>2. /\ next \in [Cells -> Cells \cup {Vectors}] /\ prev \in [Cells -> Cells \cup {Vectors}]
        /\ h \in Heads /\ a \in {h, NULL} /\ s \in Seq(Items) /\ IsInjective(s)
        /\ n \in Items /\ n \notin Range(s) /\ (a = NULL => NULL \notin Range(s) /\ n # NULL)
        /\ l \in SUBSET {NULL} /\ Spells(next, prev, a, s, h, l)
    BY <1>2, <1>3
  <2> HIDE DEF s
  <2> QED BY ONLY <2>1, <2>2, SpellsAppend
<1>5. /\ Append(s, n) \in Seq(Items) /\ IsInjective(Append(s, n))
      /\ Range(Append(s, n)) = Range(s) \cup {n}
      /\ Append(s, n) # << >> /\ Head(Append(s, n)) = IF s = << >> THEN n ELSE Head(s)
  BY ONLY <1>2, AppendMembers, n \in Items
<1>6. last \in Cells
  BY <1>2, <1>4 DEF Items, Cells, Range
<1>7. /\ next' \in [Cells -> Cells \cup {Vectors}] /\ prev' \in [Cells -> Cells \cup {Vectors}]
      /\ \A c \in Cells \ {n, h, last} : next'[c] = next[c] /\ prev'[c] = prev[c]
      /\ h \notin initialised => next'[h] = NULL
  BY <1>1, <1>2, <1>4, <1>6
<1>8. ASSUME last = NULL
      PROVE  \/ NULL \in Range(s)
             \/ /\ bent' /\ h \notin initialised /\ s = << >>
                /\ next'[NULL] = n /\ prev'[NULL] = prev[NULL]
  BY <1>1, <1>2, <1>4, <1>8
<1>9. bent' \in BOOLEAN /\ (bent => bent' \/ h = Ready) /\ (n = NULL => h = Ready /\ h \in initialised)
  OBVIOUS
<1> HIDE DEF last, s
<1>10. /\ content' = [content EXCEPT ![h] = Append(s, n)]
       /\ UNCHANGED <<initialised, stranded, torn>>
       /\ Range(Append(s, n)) = Range(content[h]) \cup {n}
       /\ last \in Range(content[h]) \cup {h, NULL}
       /\ Spells(next', prev', Start(h), Append(s, n), h, Loose')
       /\ \/ Head(Append(s, n)) = (IF content[h] = << >> THEN n ELSE Head(content[h]))
          \/ h \in initialised
  BY <1>1, <1>4, <1>5 DEF s, a, l
<1>11. last = NULL => \/ NULL \in Range(content[h])
                      \/ /\ bent' /\ h \notin initialised /\ content[h] = << >>
                         /\ next'[NULL] = n /\ prev'[NULL] = prev[NULL]
  BY <1>8 DEF s
<1> QED BY ONLY Typed, Good, n \in Items, h \in Heads, ~Linked(n), n \in Nodes => Free(n),
             <1>5, <1>6, <1>7, <1>9, <1>10, <1>11, AddKeeps

LEMMA AddTailKeeps ==
  ASSUME Typed, Good, NEW n \in Nodes, NEW h \in Heads, ListAddTail(n, h) PROVE Typed' /\ Good'
<1>1. /\ n \in Items /\ n # NULL /\ ~Linked(n) /\ Free(n)
      /\ bent' = (bent \/ (prev[h] = NULL /\ h \notin initialised))
      /\ h = Ready => h \in initialised
      /\ AddBetween(n, prev[h], h) /\ content' = [content EXCEPT ![h] = Append(@, n)]
      /\ UNCHANGED <<initialised, stranded, torn>>
  BY CellsApart DEF ListAddTail, Free
<1> QED BY ONLY Typed, Good, h \in Heads, <1>1, AddLastKeeps

LEMMA AddTailNullKeeps == ASSUME Typed, Good, ListAddTailNull PROVE Typed' /\ Good'
<1> DEFINE n == NULL
           h == Ready
<1>1. /\ n \in Items /\ n = NULL /\ ~Linked(n) /\ n \notin Nodes /\ h \in Heads
      /\ bent' = FALSE /\ h \in initialised /\ h = Ready
      /\ AddBetween(n, prev[h], h) /\ content' = [content EXCEPT ![h] = Append(@, n)]
      /\ UNCHANGED <<initialised, stranded, torn>>
  BY CellsApart DEF ListAddTailNull
<1> HIDE DEF n, h
<1> QED BY ONLY Typed, Good, <1>1, AddLastKeeps

LEMMA AddFrontKeeps ==
  ASSUME Typed, Good, NEW n \in Nodes, NEW h \in Heads, ListAdd(n, h) PROVE Typed' /\ Good'
<1> USE CellsApart
<1> DEFINE first == next[h]
           s == content[h]
           l == Loose
<1>1. /\ Free(n) /\ content' = [content EXCEPT ![h] = <<n>> \o s]
      /\ prev' = [prev EXCEPT ![first] = n, ![n] = h]
      /\ next' = [next EXCEPT ![n] = first, ![h] = n]
      /\ UNCHANGED <<initialised, stranded, bent, torn>> /\ h \in initialised
  BY GoodGives DEF ListAdd, AddBetween
<1>2. /\ next \in [Cells -> Cells \cup {Vectors}] /\ prev \in [Cells -> Cells \cup {Vectors}]
      /\ s \in Seq(Items) /\ IsInjective(s) /\ n \notin Range(s)
      /\ Spells(next, prev, h, s, h, l) /\ Start(h) = h /\ l \in SUBSET {NULL}
      /\ bent \in BOOLEAN
  BY <1>1, GoodGives DEF Typed, Start, Loose
<1> HIDE DEF l
<1>3. /\ first \in Range(s) \cup {h}
      /\ Spells(next', prev', h, <<n>> \o s, h, l)
  <2>1. /\ first = next[h] /\ n \in Items
        /\ Written(next', next, n, first, h, n) /\ Written(prev', prev, first, n, n, h)
    BY <1>1 DEF Written
  <2> HIDE DEF first, s
  <2> QED BY ONLY <1>2, <2>1, SpellsPrepend, h \in Heads
<1>4. /\ <<n>> \o s \in Seq(Items) /\ IsInjective(<<n>> \o s)
      /\ Range(<<n>> \o s) = Range(s) \cup {n} /\ n \in Items
  BY ONLY <1>2, CellsApart, PrependMembers, n \in Nodes
<1>5. first \in Cells
  BY <1>2, <1>3 DEF Items, Cells, Range
<1>6. /\ next' \in [Cells -> Cells \cup {Vectors}] /\ prev' \in [Cells -> Cells \cup {Vectors}]
      /\ \A c \in Cells \ {n, h, first} : next'[c] = next[c] /\ prev'[c] = prev[c]
      /\ first = NULL => NULL \in Range(s)
  BY <1>1, <1>2, <1>3, <1>5
<1>7. <<n>> \o s # << >> /\ n # NULL
  BY <1>2
<1> HIDE DEF first, s
<1>8. /\ content' = [content EXCEPT ![h] = <<n>> \o s] /\ Free(n) /\ ~Linked(n)
      /\ UNCHANGED <<initialised, stranded, torn>> /\ bent' = bent /\ bent' \in BOOLEAN
      /\ Range(<<n>> \o s) = Range(content[h]) \cup {n}
      /\ first \in Range(content[h]) \cup {h, NULL}
      /\ first = NULL => NULL \in Range(content[h])
      /\ Spells(next', prev', Start(h), <<n>> \o s, h, Loose')
      /\ h \in initialised
  BY <1>1, <1>2, <1>3, <1>4, <1>6 DEF s, l, Loose, Free
<1> DEFINE r == <<n>> \o s
<1>9. /\ n \in Items /\ ~Linked(n) /\ (n \in Nodes => Free(n))
      /\ n = NULL => h = Ready /\ h \in initialised
      /\ r \in Seq(Items) /\ IsInjective(r) /\ r # << >> /\ Range(r) = Range(content[h]) \cup {n}
      /\ \/ Head(r) = (IF content[h] = << >> THEN n ELSE Head(content[h]))
         \/ h \in initialised
      /\ first \in Cells /\ first \in Range(content[h]) \cup {h, NULL}
      /\ first = NULL => \/ NULL \in Range(content[h])
                         \/ /\ bent' /\ h \notin initialised /\ content[h] = << >>
                            /\ next'[NULL] = n /\ prev'[NULL] = prev[NULL]
      /\ next' \in [Cells -> Cells \cup {Vectors}] /\ prev' \in [Cells -> Cells \cup {Vectors}]
      /\ \A c \in Cells \ {n, h, first} : next'[c] = next[c] /\ prev'[c] = prev[c]
      /\ content' = [content EXCEPT ![h] = r]
      /\ UNCHANGED <<initialised, stranded, torn>>
      /\ bent' \in BOOLEAN /\ (bent => bent' \/ h = Ready)
      /\ Spells(next', prev', Start(h), r, h, Loose') /\ (h \notin initialised => next'[h] = NULL)
  BY <1>4, <1>5, <1>6, <1>7, <1>8
<1> HIDE DEF r
<1> QED BY ONLY Typed, Good, h \in Heads, <1>9, AddKeeps

(* list_empty() and list_first() see the list that is meant.               *)
LEMMA FirstIs ==
  ASSUME Typed, Good, NEW h \in initialised
  PROVE  /\ h \in Heads
         /\ list_empty(h) <=> content[h] = << >>
         /\ content[h] # << >> => list_first(h) = Head(content[h])
<1> DEFINE s == content[h]
<1>1. h \in Heads
  BY DEF Typed
<1>2. s \in Seq(Items) /\ Spells(next, prev, h, s, h, Loose)
  BY <1>1, GoodGives DEF Start
<1>3. h # NULL /\ h \notin Items
  BY <1>1, CellsApart
<1>4. CASE s = << >>
  <2>1. Len(s) = 0
    BY <1>4
  <2> QED BY <1>1, <1>2, <1>3, <1>4, <2>1 DEF Spells, list_empty
<1>5. CASE s # << >>
  <2>1. Len(s) # 0 /\ Head(s) = s[1] /\ s[1] \in Items
    BY <1>2, <1>5
  <2> QED BY <1>1, <1>2, <1>3, <1>5, <2>1 DEF Spells, list_empty, list_first
<1> QED BY <1>4, <1>5

(* list_del of the i-th cell of h, whose own fields are right.             *)
LEMMA DelKeeps ==
  ASSUME Typed, Good, NEW h \in initialised, NEW i \in 1 .. Len(content[h]),
         prev[content[h][i]] = IF i = 1 THEN h ELSE content[h][i - 1],
         next[content[h][i]] = IF i = Len(content[h]) THEN h ELSE content[h][i + 1],
         Unlinked(content[h][i]),
         NEW r \in Seq(Items), Without(r, content[h], i),
         content' = [content EXCEPT ![h] = r],
         UNCHANGED <<initialised, stranded, bent, torn>>
  PROVE  Typed' /\ Good'
<1> USE CellsApart
<1> DEFINE s == content[h]
           c == s[i]
           before == prev[c]
           behind == next[c]
           l == Loose
<1>1. h \in Heads /\ Start(h) = h
  BY DEF Typed, Start
<1>2. /\ next \in [Cells -> Cells \cup {Vectors}] /\ prev \in [Cells -> Cells \cup {Vectors}]
      /\ content \in [Heads -> Seq(Items)] /\ bent \in BOOLEAN
      /\ s \in Seq(Items) /\ IsInjective(s) /\ Range(s) \subseteq Items
      /\ Spells(next, prev, h, s, h, l) /\ l \in SUBSET {NULL}
  <2>1. /\ next \in [Cells -> Cells \cup {Vectors}] /\ prev \in [Cells -> Cells \cup {Vectors}]
        /\ content \in [Heads -> Seq(Items)] /\ bent \in BOOLEAN
    BY DEF Typed
  <2>2. /\ s \in Seq(Items) /\ IsInjective(s) /\ Range(s) \subseteq Items
        /\ Spells(next, prev, h, s, h, l)
    BY <1>1, GoodGives
  <2> QED BY <2>1, <2>2 DEF Loose
<1>3. /\ next' = [next EXCEPT ![before] = behind, ![c] = NULL]
      /\ prev' = [prev EXCEPT ![behind] = before, ![c] = NULL]
  BY DEF Unlinked
<1>4. c \in Range(s) /\ c \in Cells /\ c # h
  BY <1>1, <1>2 DEF Range
<1> HIDE DEF l
<1>5. /\ before \in (Range(s) \ {c}) \cup {h} /\ behind \in (Range(s) \ {c}) \cup {h}
      /\ Spells(next', prev', h, r, h, l)
  <2>1. Taken(next', prev', next, prev, s[i])
    BY <1>3 DEF Written, Taken
  <2>2. /\ prev[s[i]] = IF i = 1 THEN h ELSE s[i - 1]
        /\ next[s[i]] = IF i = Len(s) THEN h ELSE s[i + 1]
        /\ i \in 1 .. Len(s) /\ Without(r, s, i)
    OBVIOUS
  <2> HIDE DEF s
  <2>3. /\ prev[s[i]] \in (Range(s) \ {s[i]}) \cup {h} /\ next[s[i]] \in (Range(s) \ {s[i]}) \cup {h}
        /\ Spells(next', prev', h, r, h, l)
    BY ONLY <1>1, <1>2, <2>1, <2>2, r \in Seq(Items), SpellsWithout
  <2> QED BY <2>3
<1>6. IsInjective(r) /\ Range(r) = Range(s) \ {c}
  <2>1. i \in 1 .. Len(s) /\ Without(r, s, i)
    OBVIOUS
  <2> HIDE DEF s
  <2> QED BY ONLY <1>2, <2>1, r \in Seq(Items), WithoutMembers
<1> DEFINE W == {h, c, before, behind}
<1>7. before \in Cells /\ behind \in Cells /\ W \subseteq Range(s) \cup {h}
  BY <1>1, <1>2, <1>4, <1>5
<1> HIDE DEF before, behind
<1>8. /\ next' \in [Cells -> Cells \cup {Vectors}] /\ prev' \in [Cells -> Cells \cup {Vectors}]
      /\ \A x \in Cells \ W : next'[x] = next[x] /\ prev'[x] = prev[x]
      /\ next'[c] = NULL /\ prev'[c] = NULL
  BY <1>2, <1>3, <1>4, <1>5, <1>7
<1> HIDE DEF c, s
<1>9. /\ content'[h] = r /\ content' \in [Heads -> Seq(Items)]
      /\ \A g \in Heads \ {h} : content'[g] = content[g]
      /\ initialised' = initialised /\ stranded' = stranded /\ bent' = bent /\ torn' = torn
  BY <1>1, <1>2
<1>10. Typed'
  BY <1>8, <1>9 DEF Typed
<1>11. ASSUME NEW g \in Heads \ {h}
       PROVE  /\ g \notin W /\ Range(content[g]) \cap W \subseteq Loose'
              /\ Range(content[g]) \cap Range(content'[h]) = {}
  <2>1. Range(content[g]) \subseteq Items /\ Range(content[g]) \cap Range(s) = {}
    BY <1>1, GoodGives DEF s
  <2> QED BY <1>1, <1>2, <1>6, <1>7, <1>9, <2>1
<1>12. ASSUME NEW m \in Nodes, Free(m)', m # c PROVE Free(m) /\ m \notin W
  <2>1. m \notin stranded /\ \A g \in Heads : m \notin Range(content'[g])
    BY <1>9, <1>12 DEF Free, Linked
  <2>2. m \notin Range(s)
    BY <1>1, <1>6, <1>9, <1>12, <2>1
  <2>3. \A g \in Heads : m \notin Range(content[g])
    BY <1>9, <2>1, <2>2 DEF s
  <2> QED BY <1>1, <1>7, <2>1, <2>2, <2>3 DEF Free, Linked
<1>13. \A m \in Nodes : Free(m)' => \/ Free(m) /\ m \notin W
                                    \/ next'[m] = NULL /\ prev'[m] = NULL
  BY <1>8, <1>12
<1>14. NullClear'
  <2>1. \A g \in Heads : NULL \in Range(content'[g]) => g = Ready /\ g \in initialised'
    BY <1>1, <1>6, <1>9, GoodGives DEF s
  <2>0. ASSUME NEW m \in stranded' PROVE ~Linked(m)'
    <3>1. ~Linked(m)
      BY <1>9, <2>0 DEF Good, NullClear
    <3> QED BY <1>1, <1>6, <1>9, <3>1 DEF Linked, s
  <2>2. CASE c = NULL
    BY <1>8, <2>0, <2>1, <2>2 DEF NullClear
  <2>3. CASE c # NULL
    <3>1. SUFFICES ASSUME ~Linked(NULL)'
                   PROVE  /\ prev'[NULL] \in {NULL, Vectors}
                          /\ \/ next'[NULL] \in {NULL, Vectors} \cup stranded'
                             \/ FirstAdded(next[NULL])'
      BY <2>0, <2>1 DEF NullClear
    <3>2. ~Linked(NULL) /\ NULL \notin W
      BY <1>1, <1>6, <1>7, <1>9, <2>3, <3>1 DEF Linked, s
    <3>3. next'[NULL] = next[NULL] /\ prev'[NULL] = prev[NULL]
      BY <1>8, <3>2
    <3>4. FirstAdded(next[NULL]) => FirstAdded(next[NULL])'
      BY <1>9, <3>3 DEF FirstAdded
    <3> QED BY <1>9, <3>2, <3>3, <3>4 DEF Good, NullClear
  <2> QED BY <2>2, <2>3
<1>15. /\ Spells(next', prev', Start(h)', content'[h], h, Loose')
       /\ h \notin initialised' => next'[h] = NULL
       /\ IsInjective(content'[h])
  <2>1. Start(h)' = h /\ Loose' = l
    BY <1>1, <1>9 DEF Start, Loose, l
  <2> QED BY <1>5, <1>6, <1>9, <2>1
<1>16. /\ bent => bent' \/ h = Ready
       /\ \A g \in Heads \ {h} :
            /\ content'[g] = content[g] /\ (g \in initialised' <=> g \in initialised)
            /\ g \notin W /\ Range(content[g]) \cap W \subseteq Loose'
       /\ \A g \in Heads \ {h} : Range(content[g]) \cap Range(content'[h]) = {}
  BY <1>9, <1>11
<1> HIDE DEF W
<1> QED BY ONLY Typed, Good, <1>8, <1>10, <1>13, <1>14, <1>15, <1>16, RestKept

LEMMA DelFirstKeeps ==
  ASSUME Typed, Good, NEW h \in Heads, ListDelFirst(h) PROVE Typed' /\ Good'
<1> USE CellsApart
<1> DEFINE s == content[h]
           i == 1
           r == Tail(s)
<1>1. h \in initialised /\ s # << >> /\ list_first(h) = Head(s) /\ Head(s) # NULL
  BY FirstIs DEF ListDelFirst
<1>2. s \in Seq(Items) /\ Spells(next, prev, h, s, h, Loose)
  BY <1>1, GoodGives DEF Start
<1>3. i \in 1 .. Len(s) /\ Head(s) = s[i] /\ r \in Seq(Items) /\ Without(r, s, i)
  BY <1>1, <1>2, TailIsWithout
<1>4. /\ prev[s[i]] = IF i = 1 THEN h ELSE s[i - 1]
      /\ next[s[i]] = IF i = Len(s) THEN h ELSE s[i + 1]
  <2>1. s[i] \notin Loose
    BY <1>1, <1>3 DEF Loose
  <2> QED BY <1>2, <1>3, <2>1 DEF Spells
<1>5. /\ Unlinked(s[i]) /\ content' = [content EXCEPT ![h] = r]
      /\ UNCHANGED <<initialised, stranded, bent, torn>>
  BY <1>1, <1>3, GoodGives DEF ListDelFirst
<1> HIDE DEF i, r
<1> QED BY ONLY Typed, Good, <1>1, <1>3, <1>4, <1>5, DelKeeps

(* A node that is in no list holds NULL, so that nothing but NULL's own    *)
(* fields is written; NULL in no list is deleted to no effect either.      *)
LEMMA NoneKeeps ==
  ASSUME Typed, Good, UNCHANGED <<content, initialised, stranded>>,
         bent' \in BOOLEAN, bent => bent', torn' \in BOOLEAN, Linked(NULL) => bent',
         NEW W, NULL \in W, W \cap Heads = {}, \A c \in W \ {NULL} : ~Linked(c),
         \A c \in Cells \ W : next'[c] = next[c] /\ prev'[c] = prev[c],
         \A c \in W \cap Nodes : Free(c) => next'[c] = NULL /\ prev'[c] = NULL,
         next'[NULL] = NULL, prev'[NULL] = NULL,
         next' \in [Cells -> Cells \cup {Vectors}], prev' \in [Cells -> Cells \cup {Vectors}]
  PROVE  Typed' /\ Good'
<1> USE CellsApart
<1>1. Typed'
  BY DEF Typed
<1>2. \A m : (Free(m)' <=> Free(m)) /\ (Linked(m)' <=> Linked(m))
  BY DEF Free, Linked
<1>3. NullClear'
  BY <1>2 DEF Good, NullClear
<1>4. ASSUME NEW g \in Heads
      PROVE  /\ content'[g] = content[g] /\ (g \in initialised' <=> g \in initialised)
             /\ g \notin W /\ Range(content[g]) \cap W \subseteq Loose'
  BY DEF Linked, Loose
<1>5. \A m \in Nodes : Free(m)' => \/ Free(m) /\ m \notin W
                                   \/ next'[m] = NULL /\ prev'[m] = NULL
  BY <1>2
<1>6. /\ \A g \in Heads \ {NULL} :
           /\ content'[g] = content[g] /\ (g \in initialised' <=> g \in initialised)
           /\ g \notin W /\ Range(content[g]) \cap W \subseteq Loose'
      /\ NULL \notin Heads
      /\ bent => bent' \/ NULL = Ready
  BY <1>4
<1> QED BY ONLY Typed, Good, <1>1, <1>3, <1>5, <1>6, RestKept,
             \A c \in Cells \ W : next'[c] = next[c] /\ prev'[c] = prev[c]

LEMMA DelAgainKeeps ==
  ASSUME Typed, Good, NEW n \in Nodes, ListDelAgain(n) PROVE Typed' /\ Good'
<1> USE CellsApart
<1>1. /\ Free(n) /\ next[n] = NULL /\ prev[n] = NULL
      /\ next \in [Cells -> Cells \cup {Vectors}] /\ prev \in [Cells -> Cells \cup {Vectors}]
      /\ torn \in BOOLEAN
  BY GoodGives DEF ListDelAgain, Typed
<1>2. /\ prev' = [prev EXCEPT ![NULL] = NULL, ![n] = NULL]
      /\ next' = [next EXCEPT ![NULL] = NULL, ![n] = NULL]
      /\ content' = content /\ initialised' = initialised /\ stranded' = stranded
      /\ bent' = TRUE /\ torn' = torn
  BY <1>1 DEF ListDelAgain, Unlinked
<1> DEFINE W == {n, NULL}
<1>3. /\ next' \in [Cells -> Cells \cup {Vectors}] /\ prev' \in [Cells -> Cells \cup {Vectors}]
      /\ \A c \in Cells \ W : next'[c] = next[c] /\ prev'[c] = prev[c]
      /\ next'[n] = NULL /\ prev'[n] = NULL /\ next'[NULL] = NULL /\ prev'[NULL] = NULL
  BY <1>1, <1>2
<1>4. /\ NULL \in W /\ W \cap Heads = {} /\ \A c \in W \ {NULL} : ~Linked(c)
      /\ \A c \in W \cap Nodes : Free(c) => next'[c] = NULL /\ prev'[c] = NULL
  BY <1>1, <1>3 DEF Free
<1>5. /\ bent' \in BOOLEAN /\ (bent => bent') /\ torn' \in BOOLEAN /\ (Linked(NULL) => bent')
      /\ UNCHANGED <<content, initialised, stranded>>
  BY <1>1, <1>2
<1> HIDE DEF W
<1> QED BY ONLY Typed, Good, <1>3, <1>4, <1>5, NoneKeeps

LEMMA DelNullKeeps ==
  ASSUME Typed, Good, ~torn, ListDelNull
  PROVE  Typed' /\ (torn' => bent') /\ (~torn' => Good')
<1> USE CellsApart
<1> DEFINE s == content[Ready]
           before == prev[NULL]
           behind == next[NULL]
<1>1. /\ behind # Vectors /\ before # Vectors /\ Unlinked(NULL)
      /\ initialised' = initialised /\ stranded' = stranded /\ bent' = bent
  BY DEF ListDelNull
<1>2. /\ next \in [Cells -> Cells \cup {Vectors}] /\ prev \in [Cells -> Cells \cup {Vectors}]
      /\ content \in [Heads -> Seq(Items)] /\ s \in Seq(Items) /\ bent \in BOOLEAN
  BY DEF Typed
<1>3. /\ prev' = [prev EXCEPT ![behind] = before, ![NULL] = NULL]
      /\ next' = [next EXCEPT ![before] = behind, ![NULL] = NULL]
  BY <1>1 DEF Unlinked
<1>4. /\ next' \in [Cells -> Cells \cup {Vectors}] /\ prev' \in [Cells -> Cells \cup {Vectors}]
      /\ next'[NULL] = NULL /\ prev'[NULL] = NULL
  BY <1>2, <1>3
<1>5. CASE ~Linked(NULL) /\ content' = content /\ torn' = torn
  <2>1. before = NULL /\ (behind \in {NULL} \cup stranded \/ FirstAdded(behind))
    BY <1>1, <1>5 DEF Good, NullClear
  <2> DEFINE W == {NULL} \cup IF FirstAdded(behind) THEN {} ELSE {behind}
  <2>2. FirstAdded(behind) => prev[behind] = NULL
    <3>1. SUFFICES ASSUME FirstAdded(behind) PROVE prev[behind] = NULL
      OBVIOUS
    <3>2. PICK g \in Heads \ initialised : content[g] # << >> /\ behind = Head(content[g])
      BY <3>1 DEF FirstAdded
    <3>3. 1 \in 1 .. Len(content[g]) /\ Head(content[g]) = content[g][1]
      BY <3>2, GoodGives, TailIsWithout
    <3>4. NULL \notin Range(content[g]) /\ content[g] \in Seq(Items)
      BY GoodGives
    <3>5. content[g][1] # NULL
      BY <3>3, <3>4 DEF Range
    <3> QED BY <3>2, <3>3, <3>5, GoodGives DEF Spells, Start, Loose
  <2>3. \A c \in Cells \ W : next'[c] = next[c] /\ prev'[c] = prev[c]
    BY <1>2, <1>3, <2>1, <2>2
  <2>4. /\ NULL \in W /\ W \cap Heads = {} /\ \A c \in W \ {NULL} : ~Linked(c)
        /\ \A c \in W \cap Nodes : Free(c) => next'[c] = NULL /\ prev'[c] = NULL
    <3>1. stranded \subseteq Nodes /\ \A m \in stranded : ~Linked(m) /\ ~Free(m)
      BY DEF Typed, Good, NullClear, Free
    <3> QED BY <2>1, <3>1
  <2>5. /\ bent' \in BOOLEAN /\ (bent => bent') /\ torn' \in BOOLEAN /\ (Linked(NULL) => bent')
        /\ UNCHANGED <<content, initialised, stranded>> /\ torn' = FALSE
    <3>1. torn \in BOOLEAN
      BY DEF Typed
    <3> QED BY <1>1, <1>2, <1>5, <3>1
  <2>6. Typed' /\ Good'
    <3> HIDE DEF W
    <3> QED BY ONLY Typed, Good, <1>4, <2>3, <2>4, <2>5, NoneKeeps
  <2> QED BY <2>5, <2>6
<1>6. ASSUME NEW i \in DOMAIN s, s[i] = NULL,
             content' = [content EXCEPT ![Ready] = SubSeq(s, 1, i - 1) \o SubSeq(s, i + 1, Len(s))],
             torn' = (before # Before(s, i) \/ behind # After(s, i))
      PROVE  Typed' /\ (torn' => bent') /\ (~torn' => Good')
  <2> DEFINE r == SubSeq(s, 1, i - 1) \o SubSeq(s, i + 1, Len(s))
             h == Ready
  <2>1. i \in 1 .. Len(s) /\ r \in Seq(Items) /\ Without(r, s, i)
    BY <1>2, CutIsWithout
  <2> HIDE DEF r
  <2>2. content' = [content EXCEPT ![Ready] = r] /\ content' \in [Heads -> Seq(Items)]
    BY <1>2, <1>6, <2>1 DEF r
  <2>3. Typed'
    BY <1>1, <1>4, <1>6, <2>2 DEF Typed
  <2>4. Ready \in initialised
    BY <1>6, GoodGives DEF Range
  <2>5. torn' => bent'
    <3>1. SUFFICES ASSUME ~bent PROVE before = Before(s, i) /\ behind = After(s, i)
      BY <1>1, <1>6
    <3>2. Spells(next, prev, Ready, s, Ready, {})
      BY <2>4, <3>1, GoodGives DEF Start, Loose
    <3> QED BY <1>6, <2>1, <3>2 DEF Spells, Before, After
  <2>6. ASSUME ~torn' PROVE Good'
    <3>1. /\ prev[s[i]] = IF i = 1 THEN h ELSE s[i - 1]
          /\ next[s[i]] = IF i = Len(s) THEN h ELSE s[i + 1]
      BY <1>6, <2>6 DEF Before, After
    <3>2. UNCHANGED <<initialised, stranded, bent, torn>> /\ Unlinked(s[i])
      <4>1. torn \in BOOLEAN /\ torn' \in BOOLEAN
        BY <1>6 DEF Typed
      <4>2. torn' = torn
        BY <2>6, <4>1
      <4> QED BY <1>1, <1>6, <4>2
    <3>3. s = content[h] /\ h \in initialised /\ content' = [content EXCEPT ![h] = r]
      BY <2>2, <2>4
    <3> HIDE DEF h, s
    <3> QED BY ONLY Typed, Good, <2>1, <3>1, <3>2, <3>3, DelKeeps
  <2> QED BY <2>3, <2>5, <2>6
<1> QED BY <1>5, <1>6 DEF ListDelNull

-----------------------------------------------------------------------------
LEMMA ListsInitHolds == ListsInit => LInv
<1> SUFFICES ASSUME ListsInit PROVE LInv
  OBVIOUS
<1> USE CellsApart
<1>1. /\ next \in [Cells -> Cells \cup {Vectors}] /\ prev \in [Cells -> Cells \cup {Vectors}]
      /\ \A c \in Cells : c # NULL => next[c] = NULL /\ prev[c] = NULL
      /\ next[NULL] = Vectors /\ prev[NULL] = Vectors
      /\ content \in [Heads -> Seq(Items)] /\ \A h \in Heads : content[h] = << >>
      /\ initialised = {} /\ stranded = {} /\ bent = FALSE /\ torn = FALSE
  BY DEF ListsInit
<1>2. Range(<< >>) = {} /\ IsInjective(<< >>) /\ Len(<< >>) = 0
  BY DEF Range, IsInjective
<1>3. \A h \in Heads : Spells(next, prev, Start(h), content[h], h, Loose)
  BY <1>1, <1>2 DEF Spells, Start
<1>4. NullClear
  BY <1>1, <1>2 DEF NullClear
<1>5. Good
  BY <1>1, <1>2, <1>3, <1>4 DEF Good
<1> QED BY <1>1, <1>5, LInvIs DEF Typed, TornOnlySo

LEMMA ListsStepKeeps == LInv /\ [ListsNext]_listVars => LInv'
<1> SUFFICES ASSUME LInv, [ListsNext]_listVars PROVE LInv'
  OBVIOUS
<1>1. CASE UNCHANGED listVars
  BY <1>1 DEF listVars, LInv, Typed, LinksSpellLists, Spelled, Circle, Free, Linked,
     TornOnlySo, NullClear, FirstAdded
<1>2. CASE ListsNext
  <2>1. Typed /\ ~torn /\ Good
    BY <1>2, LInvIs DEF ListsNext
  <2>2. ASSUME NEW h \in Heads, InitListHead(h) \/ ListDelFirst(h)
        PROVE  Typed' /\ Good' /\ torn' = torn
    BY <2>1, <2>2, InitHeadKeeps, DelFirstKeeps DEF InitListHead, ListDelFirst
  <2>3. ASSUME NEW n \in Nodes, NEW h \in Heads, ListAdd(n, h) \/ ListAddTail(n, h)
        PROVE  Typed' /\ Good' /\ torn' = torn
    BY <2>1, <2>3, AddFrontKeeps, AddTailKeeps DEF ListAdd, ListAddTail
  <2>4. ASSUME NEW n \in Nodes, ListDelAgain(n) PROVE Typed' /\ Good' /\ torn' = torn
    BY <2>1, <2>4, DelAgainKeeps DEF ListDelAgain
  <2>5. \/ Typed' /\ Good' /\ torn' = torn
        \/ Typed' /\ (torn' => bent') /\ (~torn' => Good')
    BY <1>2, <2>1, <2>2, <2>3, <2>4, AddTailNullKeeps, DelNullKeeps
       DEF ListsNext, ListAddTailNull
  <2>6. Typed' /\ (torn' => bent') /\ (~torn' => Good')
    BY <2>1, <2>5
  <2> QED BY <2>6, LInvNext DEF TornOnlySo
<1> QED BY <1>1, <1>2

(* The types and what the pointers spell are inductive together, with what *)
(* NULL's own fields may hold.                                             *)
THEOREM ListsInvariant == ListsSpec => []LInv
BY ListsInitHolds, ListsStepKeeps, PTL DEF ListsSpec

(* The pointers of every list spell the sequence the other modules take it *)
(* for, whatever sem_init empties, sem_destroy deletes twice, sem_wait     *)
(* adds to a head nobody initialised, or sem_signal does to NULL, until    *)
(* readyqueue is torn.                                                     *)
THEOREM PointersSpellLists == ListsSpec => []LinksSpellLists
<1>1. LInv => LinksSpellLists
  BY DEF LInv
<1> QED BY <1>1, ListsInvariant, PTL

(* readyqueue is torn only when NULL was in it while a node was deleted    *)
(* twice or added to a head nobody initialised.                            *)
THEOREM TornOnlyByMisuse == ListsSpec => []TornOnlySo
<1>1. LInv => TornOnlySo
  BY DEF LInv
<1> QED BY <1>1, ListsInvariant, PTL

(* list_empty() and list_first() of an initialised head answer what the    *)
(* other modules ask of the sequence.                                      *)
THEOREM QuestionsAnswered ==
  ListsSpec => [](~torn => \A h \in initialised :
                    /\ list_empty(h) <=> content[h] = << >>
                    /\ content[h] # << >> => list_first(h) = Head(content[h]))
<1>1. LInv => (~torn => \A h \in initialised :
                 /\ list_empty(h) <=> content[h] = << >>
                 /\ content[h] # << >> => list_first(h) = Head(content[h]))
  BY FirstIs, LInvIs
<1> QED BY <1>1, ListsInvariant, PTL
==============================================================================
