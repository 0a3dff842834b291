---------------------------- MODULE MemoryProofs ----------------------------
(***************************************************************************)
(* What is where in memory, from the boot sector on.                       *)
(*                                                                         *)
(* Processes keep their memory to themselves, a child starts with its      *)
(* father's data, and sbrk keeps mapped what lies below the break, for any *)
(* number of pages and frames, any page size and any increments.  MInv     *)
(* adds to PInv that no frame is entered twice above the data pages of all *)
(* directories, used or not, and is nobody's data page; that neither is    *)
(* one of the frames that forked processes share, the kernel's and those   *)
(* of the code; and that a directory has more free pages than there are    *)
(* free frames.                                                            *)
(*                                                                         *)
(* Boot hands the image and the first two tasks over to user mode, for any *)
(* geometry of the disk and any sizes of image, segments and pages.  BInv  *)
(* says of every stage how far the loader has got, on the disk and in      *)
(* memory alike, where the bytes of the image are, and what main() has     *)
(* made so far.                                                            *)
(***************************************************************************)
EXTENDS Memory, Boot, ProcessProofs

FreePagesOf(d) == {p \in HeapPages : heap[d][p] = NoEntry}

MemTyped ==
  /\ contents \in [Frames -> Values \cup {0}]
  /\ heap \in [Dirs -> [HeapPages -> Frames]]
  /\ program_break \in [Tasks -> Int]
  /\ intact \in BOOLEAN

Shared == KernelFrames \cup CodeFrames

SharedApart ==
  /\ Shared \subseteq phys_mem
  /\ \A t \in Live : Range(data[dir[t]]) \cap Shared = {}
  /\ \A d \in Dirs, p \in HeapPages : heap[d][p] # NoEntry => heap[d][p] \notin Shared

HeapIsolation ==
  /\ \A d \in Dirs, p \in HeapPages : heap[d][p] # NoEntry => heap[d][p] \in phys_mem
  /\ \A d, e \in Dirs, p, q \in HeapPages :
       heap[d][p] = heap[e][q] /\ heap[d][p] # NoEntry => d = e /\ p = q
  /\ \A t \in Live, d \in Dirs, p \in HeapPages : heap[d][p] \notin Range(data[dir[t]])
  /\ SharedApart

PagesOutlast == \A d \in Dirs : Cardinality(FreePagesOf(d)) > Cardinality(FreeFrames(phys_mem))

MInv == PInv /\ MemTyped /\ HeapIsolation /\ PagesOutlast

PrivateStep ==
  \A t \in Live \cap Live' :
    dir[t] # dir[current] \/ contents' = contents \/ phys_mem' # phys_mem
      => /\ DataView(t)' = DataView(t)
         /\ \A p \in DOMAIN HeapView(t) :
              p \in DOMAIN HeapView(t)' /\ HeapView(t)'[p] = HeapView(t)[p]

InheritStep == \A t \in Live' \ Live : DataView(t)' = DataView(current)

CoverStep ==
  \A t \in Live' :
    Covered(t)' \/ IF t \in Live THEN ~Covered(t)
                   ELSE ~Covered(current) \/ dir'[t] # dir[current]

MemKeeps == MInv' /\ PrivateStep /\ InheritStep /\ CoverStep

-----------------------------------------------------------------------------
(* Division by the size of a page. *)
LEMMA DivMod ==
  ASSUME NEW P \in Nat \ {0}, NEW x \in Int
  PROVE  /\ x \div P \in Int /\ x % P \in 0 .. P - 1
         /\ x = P * (x \div P) + (x % P)
OBVIOUS

LEMMA DivMonotone ==
  ASSUME NEW P \in Nat \ {0}, NEW x \in Int, NEW y \in Int, x <= y
  PROVE  x \div P <= y \div P
<1>1. SUFFICES ASSUME y \div P < x \div P PROVE FALSE
  OBVIOUS
<1>2. \A a, b \in Int : a < b => P * a + P <= P * b
  OBVIOUS
<1>3. P * (y \div P) + P <= P * (x \div P)
  BY <1>1, <1>2, DivMod
<1> QED BY <1>1, <1>3, DivMod

LEMMA NoPageNeeded ==
  ASSUME NEW P \in Nat \ {0}, NEW b \in Int, NEW e \in Int, e \div P - (b - 1) \div P <= 0,
         NEW p \in Int, p <= (e - 1) \div P
  PROVE  p <= (b - 1) \div P
<1>1. (e - 1) \div P <= e \div P
  BY DivMonotone
<1>2. (e - 1) \div P \in Int /\ e \div P \in Int /\ (b - 1) \div P \in Int
  BY DivMod
<1> QED BY <1>1, <1>2

-----------------------------------------------------------------------------
(* Counting the elements of a set of integers from below. *)
RankIn(S, p) == Cardinality({q \in S : q <= p})

LEMMA RankOrders ==
  ASSUME NEW S \in SUBSET Int, IsFiniteSet(S), NEW p \in S, NEW q \in S
  PROVE  /\ RankIn(S, p) \in Nat /\ RankIn(S, p) >= 1
         /\ p < q => RankIn(S, p) < RankIn(S, q)
<1> DEFINE below(x) == {r \in S : r <= x}
<1>1. /\ IsFiniteSet(below(p)) /\ Cardinality(below(p)) \in Nat
      /\ IsFiniteSet(below(q)) /\ Cardinality(below(q)) \in Nat
  <2>1. below(p) \in SUBSET S /\ below(q) \in SUBSET S
    OBVIOUS
  <2>2. IsFiniteSet(below(p)) /\ IsFiniteSet(below(q))
    BY ONLY <2>1, IsFiniteSet(S), FS_Subset
  <2> QED BY ONLY <2>2, FS_CardinalityType
<1>2. p \in below(p) /\ q \in below(q)
  OBVIOUS
<1>3. Cardinality(below(p)) # 0
  BY <1>1, <1>2, FS_EmptySet
<1>4. ASSUME p < q PROVE Cardinality(below(p)) < Cardinality(below(q))
  <2>1. below(p) \in SUBSET below(q) /\ q \notin below(p)
    <3>1. p \in Int /\ q \in Int /\ \A r \in S : r \in Int
      OBVIOUS
    <3>2. (\A r \in S : r <= p => r <= q) /\ ~(q <= p)
      BY <1>4, <3>1
    <3> QED BY <3>2
  <2>2. below(p) # below(q)
    BY <1>2, <2>1
  <2> HIDE DEF below
  <2>3. /\ Cardinality(below(p)) <= Cardinality(below(q))
        /\ Cardinality(below(q)) = Cardinality(below(p)) => below(q) = below(p)
    BY ONLY <1>1, <2>1, FS_Subset
  <2> QED BY <1>1, <2>2, <2>3
<1>5. RankIn(S, p) = Cardinality(below(p)) /\ RankIn(S, q) = Cardinality(below(q))
  BY DEF RankIn
<1> HIDE DEF below
<1> QED BY <1>1, <1>3, <1>4, <1>5

LEMMA RankInjective ==
  ASSUME NEW S \in SUBSET Int, IsFiniteSet(S), NEW p \in S, NEW q \in S,
         RankIn(S, p) = RankIn(S, q)
  PROVE  p = q
<1>1. p < q => RankIn(S, p) < RankIn(S, q)
  BY RankOrders
<1>2. q < p => RankIn(S, q) < RankIn(S, p)
  BY RankOrders
<1>3. p \in Int /\ q \in Int /\ RankIn(S, p) \in Nat
  BY RankOrders
<1> QED BY <1>1, <1>2, <1>3

(* At most n elements have a rank up to n. *)
LEMMA FirstFew ==
  ASSUME NEW S \in SUBSET Int, IsFiniteSet(S), NEW n \in Nat
  PROVE  LET F == {p \in S : RankIn(S, p) <= n}
         IN  IsFiniteSet(F) /\ Cardinality(F) <= n
<1> DEFINE F == {p \in S : RankIn(S, p) <= n}
           f == [p \in F |-> RankIn(S, p)]
<1>1. \A p \in F : RankIn(S, p) \in 1 .. n
  BY RankOrders
<1>2. \A p, q \in F : RankIn(S, p) = RankIn(S, q) => p = q
  BY RankInjective
<1>3. f \in Injection(F, 1 .. n)
  BY <1>1, <1>2 DEF Injection, IsInjective
<1>4. IsFiniteSet(1 .. n) /\ Cardinality(1 .. n) = n
  BY FS_Interval
<1> HIDE DEF F, f
<1>5. IsFiniteSet(F) /\ Cardinality(F) <= n
  BY ONLY <1>3, <1>4, FS_Injection
<1> QED BY <1>5 DEF F

(* A sequence without repetitions has as many members as places. *)
LEMMA MembersCounted ==
  ASSUME NEW n \in Nat, NEW S, NEW s \in [1 .. n -> S], IsInjective(s)
  PROVE  IsFiniteSet(Range(s)) /\ Cardinality(Range(s)) = n
<1>1. s \in Bijection(1 .. n, Range(s))
  BY DEF Bijection, Injection, Surjection, Range
<1>2. IsFiniteSet(1 .. n) /\ Cardinality(1 .. n) = n
  BY FS_Interval
<1>3. ExistsBijection(1 .. n, Range(s))
  BY <1>1 DEF ExistsBijection
<1> QED BY ONLY <1>2, <1>3, FS_Bijection

-----------------------------------------------------------------------------
LEMMA MemConstants ==
  /\ NUM_PAG_KERNEL \in Nat \ {0} /\ NUM_PAG_DATA \in Nat \ {0}
  /\ TOTAL_PAGES \in Nat /\ PAGE_SIZE \in Nat \ {0}
  /\ UserPages \in Nat \ {0} /\ HeapBase = NUM_PAG_KERNEL + UserPages
  /\ NUM_PAG_KERNEL + 4 * UserPages <= TOTAL_PAGES
  /\ HeapPages \in SUBSET Int /\ IsFiniteSet(HeapPages)
  /\ IsFiniteSet(Allocatable)
<1>1. /\ NUM_PAG_KERNEL \in Nat \ {0} /\ NUM_PAG_DATA \in Nat \ {0}
      /\ TOTAL_PAGES \in Nat /\ PAGE_SIZE \in Nat \ {0}
      /\ UserPages \in Nat \ {0} /\ HeapBase = NUM_PAG_KERNEL + UserPages
      /\ NUM_PAG_KERNEL + 4 * UserPages <= TOTAL_PAGES
  BY ProcAssumption DEF UserPages, HeapBase
<1>2. HeapPages \in SUBSET Int /\ IsFiniteSet(HeapPages)
  BY <1>1, FS_Interval DEF HeapPages
<1>3. Allocatable \in SUBSET (NUM_PAG_KERNEL .. TOTAL_PAGES - 1)
  BY DEF Allocatable
<1>4. IsFiniteSet(NUM_PAG_KERNEL .. TOTAL_PAGES - 1)
  BY <1>1, FS_Interval
<1>5. IsFiniteSet(Allocatable)
  BY ONLY <1>3, <1>4, FS_Subset
<1> QED BY <1>1, <1>2, <1>5

LEMMA PagesFinite ==
  ASSUME NEW d
  PROVE  /\ FreePagesOf(d) \in SUBSET Int /\ IsFiniteSet(FreePagesOf(d))
         /\ Cardinality(FreePagesOf(d)) \in Nat
<1>1. FreePagesOf(d) \in SUBSET HeapPages
  BY DEF FreePagesOf
<1>2. IsFiniteSet(FreePagesOf(d))
  BY ONLY <1>1, MemConstants, FS_Subset
<1> QED BY <1>1, <1>2, MemConstants, FS_CardinalityType

LEMMA FramesFinite ==
  ASSUME NEW u
  PROVE  IsFiniteSet(FreeFrames(u)) /\ Cardinality(FreeFrames(u)) \in Nat
<1>1. FreeFrames(u) \in SUBSET Allocatable
  BY DEF FreeFrames
<1>2. IsFiniteSet(FreeFrames(u))
  BY ONLY <1>1, MemConstants, FS_Subset
<1> QED BY <1>2, FS_CardinalityType

LEMMA FewerFrames ==
  ASSUME NEW u, NEW v, u \subseteq v
  PROVE  Cardinality(FreeFrames(v)) <= Cardinality(FreeFrames(u))
<1>1. FreeFrames(v) \in SUBSET FreeFrames(u)
  BY DEF FreeFrames
<1> QED BY ONLY <1>1, FramesFinite, FS_Subset

(* The frames of the data pages and of the pages above are marked, and     *)
(* none of them is frame 0.                                                *)
LEMMA DataFrames ==
  ASSUME PInv, NEW t \in Live
  PROVE  /\ dir[t] \in Dirs
         /\ data[dir[t]] \in Seq(Frames) /\ Len(data[dir[t]]) = NUM_PAG_DATA
         /\ DOMAIN data[dir[t]] = 1 .. NUM_PAG_DATA
         /\ \A i \in 1 .. NUM_PAG_DATA :
              /\ data[dir[t]][i] \in phys_mem \cap Frames /\ data[dir[t]][i] # NoEntry
              /\ data[dir[t]][i] \in Range(data[dir[t]])
         /\ Range(data[dir[t]]) \subseteq phys_mem
<1>1. /\ dir[t] \in Dirs /\ data \in [Dirs -> Seq(Frames)]
      /\ Len(data[dir[t]]) = NUM_PAG_DATA
      /\ Range(data[dir[t]]) \subseteq phys_mem \cap NUM_PAG_KERNEL .. TOTAL_PAGES - 1
  BY DEF PInv, ProcTypeOK, RefCounts, FrameIsolation
<1>2. data[dir[t]] \in Seq(Frames) /\ DOMAIN data[dir[t]] = 1 .. NUM_PAG_DATA
  BY <1>1
<1>3. \A i \in 1 .. NUM_PAG_DATA : data[dir[t]][i] \in Range(data[dir[t]])
  BY <1>2 DEF Range
<1>4. \A f \in NUM_PAG_KERNEL .. TOTAL_PAGES - 1 : f \in Frames /\ f # NoEntry
  BY MemConstants DEF Frames, NoEntry
<1> QED BY <1>1, <1>2, <1>3, <1>4

(* A step of the processes that leaves the pages above the data alone.     *)
LEMMA HeapAlone ==
  ASSUME MInv, PInv', heap' = heap, phys_mem \subseteq phys_mem',
         \A t \in Live' : \/ \E u \in Live : data'[dir'[t]] = data[dir[u]]
                         \/ Range(data'[dir'[t]]) \cap (phys_mem \cup {NoEntry}) = {}
  PROVE  HeapIsolation' /\ PagesOutlast'
<1>1. HeapIsolation /\ PagesOutlast
  BY DEF MInv
<1>2. HeapIsolation'
  <2>1. SharedApart'
    BY <1>1 DEF HeapIsolation, SharedApart, Shared, KernelFrames, CodeFrames
  <2> QED BY <1>1, <2>1 DEF HeapIsolation
<1>3. \A d \in Dirs : FreePagesOf(d)' = FreePagesOf(d)
  BY DEF FreePagesOf
<1>4. Cardinality(FreeFrames(phys_mem')) <= Cardinality(FreeFrames(phys_mem))
  BY FewerFrames
<1>5. PagesOutlast'
  BY <1>1, <1>3, <1>4, PagesFinite, FramesFinite DEF PagesOutlast
<1> QED BY <1>2, <1>5

(* Steps that touch no memory, no break and no directory of a live task.   *)
LEMMA MemoryAlone ==
  ASSUME MInv, PInv', UNCHANGED memVars, phys_mem' = phys_mem, data' = data,
         Live' \subseteq Live, dir' = dir
  PROVE  MemKeeps
<1>1. UNCHANGED <<contents, heap, program_break, intact>>
  BY DEF memVars
<1>2. HeapIsolation' /\ PagesOutlast'
  BY <1>1, HeapAlone
<1>3. MemTyped'
  BY <1>1 DEF MInv, MemTyped
<1>4. \A t : DataView(t)' = DataView(t) /\ HeapView(t)' = HeapView(t) /\ (Covered(t)' <=> Covered(t))
  BY <1>1 DEF DataView, HeapView, Covered
<1>5. PrivateStep /\ InheritStep /\ CoverStep
  BY <1>4 DEF PrivateStep, InheritStep, CoverStep
<1> QED BY <1>2, <1>3, <1>5 DEF MInv, MemKeeps

LEMMA OtherCallKeeps == ASSUME MInv, OtherCall PROVE MemKeeps
<1>1. PInv /\ IInv /\ UNCHANGED memVars
  BY DEF MInv, PInv, OtherCall
<1>2. CASE ForkNoFrames \/ NoSlot
  <2>1. UNCHANGED vars
    BY <1>1, <1>2, ForkNoFramesNothing DEF NoSlot
  <2>2. PInv' /\ Live' = Live /\ UNCHANGED <<phys_mem, data, dir>>
    BY <1>1, <2>1, NothingMoves DEF vars, schedVars, procVars, Live
  <2> QED BY <1>1, <2>2, MemoryAlone
<1>3. CASE SysExit
  <2>1. PInv' /\ Exit /\ UNCHANGED <<phys_mem, data, dir>>
    BY <1>1, <1>3, ExitProc DEF SysExit
  <2>2. Live' \subseteq Live
    BY <1>1, <2>1, ExitPlaces DEF Live, Members
  <2> QED BY <1>1, <2>1, <2>2, MemoryAlone
<1>4. CASE Tick
  <2>1. PInv' /\ ClockInterrupt /\ UNCHANGED <<phys_mem, data, dir>>
    BY <1>1, <1>4, TickProc DEF Tick, OnlyScheduling
  <2>2. Live' = Live
    BY <1>1, <2>1, ClockPlaces, Constants DEF Live
  <2> QED BY <1>1, <2>1, <2>2, MemoryAlone
<1> QED BY <1>2, <1>3, <1>4 DEF OtherCall

LEMMA CloneKeeps == ASSUME MInv, CloneMemory PROVE MemKeeps
<1>1. /\ PInv /\ Clone /\ Spawn /\ PInv'
      /\ program_break' = [program_break EXCEPT ![Child] = program_break[current]]
      /\ UNCHANGED <<contents, heap, intact, phys_mem, data>>
      /\ dir' = [dir EXCEPT ![Child] = dir[current]]
  BY CloneProc DEF MInv, CloneMemory, Clone, InheritBreak
<1>2. /\ current \in Live /\ Live \subseteq Tasks
      /\ Child \in Tasks \ Live /\ Live' = Live \cup {Child}
  BY <1>1, SpawnLive DEF Live
<1>3. /\ MemTyped /\ dir \in [Tasks -> Dirs \cup {NoDir}]
  BY <1>1 DEF MInv, PInv, ProcTypeOK
<1>4. /\ dir'[Child] = dir[current] /\ \A t \in Live : dir'[t] = dir[t]
      /\ program_break'[Child] = program_break[current]
      /\ \A t \in Live : program_break'[t] = program_break[t]
      /\ program_break' \in [Tasks -> Int]
  BY <1>1, <1>2, <1>3 DEF MemTyped
<1>5. HeapIsolation' /\ PagesOutlast'
  <2>1. \A t \in Live' : \E u \in Live : data'[dir'[t]] = data[dir[u]]
    BY <1>1, <1>2, <1>4
  <2>2. heap' = heap /\ phys_mem \subseteq phys_mem'
    BY <1>1
  <2> QED BY <1>1, <2>1, <2>2, HeapAlone
<1>6. MemTyped'
  BY <1>1, <1>3, <1>4 DEF MemTyped
<1>7. \E c \in Tasks \ Live :
        /\ Live' = Live \cup {c} /\ DataView(c)' = DataView(current)
        /\ Covered(c)' <=> Covered(current)
  <2>1. PICK c \in Tasks \ Live : c = Child
    BY <1>2
  <2>2. Live' = Live \cup {c} /\ dir'[c] = dir[current] /\ program_break'[c] = program_break[current]
    BY <1>2, <1>4, <2>1
  <2>3. DataView(c)' = DataView(current)
    BY <1>1, <2>2 DEF DataView
  <2>4. Covered(c)' <=> Covered(current)
    BY <1>1, <2>2 DEF Covered
  <2> QED BY <2>2, <2>3, <2>4
<1>8. ASSUME NEW t \in Live
      PROVE  /\ DataView(t)' = DataView(t) /\ HeapView(t)' = HeapView(t)
             /\ Covered(t)' <=> Covered(t)
  <2>1. dir'[t] = dir[t] /\ program_break'[t] = program_break[t]
    BY <1>4
  <2>2. DataView(t)' = DataView(t)
    BY <1>1, <2>1 DEF DataView
  <2>3. HeapView(t)' = HeapView(t)
    BY <1>1, <2>1 DEF HeapView
  <2>4. Covered(t)' <=> Covered(t)
    BY <1>1, <2>1 DEF Covered
  <2> QED BY <2>2, <2>3, <2>4
<1>9. PrivateStep
  BY <1>8 DEF PrivateStep
<1>10. InheritStep
  BY <1>7 DEF InheritStep
<1>11. CoverStep
  BY <1>7, <1>8 DEF CoverStep
<1> QED BY <1>1, <1>5, <1>6, <1>9, <1>10, <1>11 DEF MInv, MemKeeps

LEMMA ForkKeeps == ASSUME MInv, ForkMemory PROVE MemKeeps
<1>1. /\ PInv /\ Fork /\ Spawn /\ PInv'
      /\ contents' = Copied(data[dir[current]], data'[AllocateDIR])
      /\ program_break' = [program_break EXCEPT ![Child] = program_break[current]]
      /\ heap' = heap /\ intact' = intact
  BY ForkProc DEF MInv, ForkMemory, Fork, InheritBreak, PInv, AddressSpaceLoaded
<1>2. /\ current \in Live /\ Live \subseteq Tasks
      /\ Child \in Tasks \ Live /\ Live' = Live \cup {Child}
  BY <1>1, SpawnLive DEF Live
<1>3. /\ MemTyped /\ HeapIsolation
  BY DEF MInv
<1>4. PICK to, c : to = data'[AllocateDIR] /\ c = Child
  OBVIOUS
<1>5. /\ c \in Tasks \ Live /\ Live' = Live \cup {c}
      /\ dir'[c] # dir[current] /\ data'[dir'[c]] = to
      /\ \A t \in Live : dir'[t] = dir[t] /\ data'[dir'[t]] = data[dir[t]]
      /\ to \in Seq(Frames) /\ Len(to) = NUM_PAG_DATA /\ IsInjective(to)
      /\ Range(to) \subseteq NUM_PAG_KERNEL .. TOTAL_PAGES - 1
      /\ Range(to) \cap phys_mem = {}
      /\ phys_mem \subseteq phys_mem'
  <2>1. /\ AllocateDIR \in Dirs
        /\ \A t \in Live : dir[t] # AllocateDIR /\ dir'[t] = dir[t]
        /\ dir'[Child] = AllocateDIR
        /\ data' \in [Dirs -> Seq(Frames)]
        /\ \A d \in Dirs \ {AllocateDIR} : data'[d] = data[d]
        /\ Len(data'[AllocateDIR]) = NUM_PAG_DATA
        /\ IsInjective(data'[AllocateDIR])
        /\ Range(data'[AllocateDIR]) \subseteq NUM_PAG_KERNEL .. TOTAL_PAGES - 1
        /\ Range(data'[AllocateDIR]) \cap phys_mem = {}
        /\ phys_mem' = phys_mem \cup Range(data'[AllocateDIR])
    BY <1>1, ForkMakes
  <2>2. \A t \in Live : dir[t] \in Dirs
    BY <1>1, DataFrames
  <2> QED BY <1>2, <1>4, <2>1, <2>2
<1>6. DOMAIN to = 1 .. NUM_PAG_DATA /\ NoEntry \notin Range(to)
  BY <1>5, MemConstants DEF NoEntry
<1>7. /\ \A f \in Frames \ Range(to) : contents'[f] = contents[f]
      /\ \A i \in 1 .. NUM_PAG_DATA : contents'[to[i]] = contents[data[dir[current]][i]]
      /\ contents' \in [Frames -> Values \cup {0}]
  <2>1. contents' = [f \in Frames |->
          IF f \in Range(to) THEN contents[data[dir[current]][CHOOSE i \in DOMAIN to : to[i] = f]]
                             ELSE contents[f]]
    BY <1>1, <1>4 DEF Copied
  <2>2. ASSUME NEW i \in 1 .. NUM_PAG_DATA
        PROVE  /\ to[i] \in Range(to) /\ to[i] \in Frames
               /\ (CHOOSE j \in DOMAIN to : to[j] = to[i]) = i
    <3>1. \A j \in DOMAIN to : to[j] = to[i] => j = i
      BY <1>5, <1>6 DEF IsInjective
    <3> QED BY <1>5, <1>6, <3>1 DEF Range
  <2>3. \A i \in 1 .. NUM_PAG_DATA : contents'[to[i]] = contents[data[dir[current]][i]]
    BY <2>1, <2>2
  <2>4. \A i \in 1 .. NUM_PAG_DATA : contents[data[dir[current]][i]] \in Values \cup {0}
    BY <1>1, <1>2, <1>3, DataFrames DEF MemTyped
  <2>5. \A f \in Frames \ Range(to) : contents'[f] = contents[f]
    BY <2>1
  <2>6. ASSUME NEW f \in Frames PROVE contents'[f] \in Values \cup {0}
    <3>1. CASE f \in Range(to)
      <4>1. PICK i \in 1 .. NUM_PAG_DATA : to[i] = f
        BY <1>6, <3>1 DEF Range
      <4> QED BY <2>3, <2>4, <4>1
    <3>2. CASE f \notin Range(to)
      BY <1>3, <2>5, <3>2 DEF MemTyped
    <3> QED BY <3>1, <3>2
  <2>7. contents' = [f \in Frames |-> contents'[f]]
    BY <2>1
  <2>8. contents' \in [Frames -> Values \cup {0}]
    BY <2>6, <2>7
  <2> QED BY <2>3, <2>5, <2>8
<1>8. /\ program_break' \in [Tasks -> Int]
      /\ \A t \in Live : program_break'[t] = program_break[t]
  BY <1>1, <1>2, <1>3 DEF MemTyped
<1>9. HeapIsolation' /\ PagesOutlast'
  <2>1. \A t \in Live' : \/ \E u \in Live : data'[dir'[t]] = data[dir[u]]
                         \/ Range(data'[dir'[t]]) \cap (phys_mem \cup {NoEntry}) = {}
    BY <1>5, <1>6
  <2> QED BY <1>1, <1>5, <2>1, HeapAlone
<1>10. MemTyped'
  BY <1>1, <1>3, <1>7, <1>8 DEF MemTyped
<1>11. ASSUME NEW t \in Live
       PROVE  /\ DataView(t)' = DataView(t) /\ HeapView(t)' = HeapView(t)
              /\ Covered(t)' <=> Covered(t)
  <2>1. /\ dir'[t] = dir[t] /\ program_break'[t] = program_break[t]
        /\ data'[dir'[t]] = data[dir[t]] /\ dir[t] \in Dirs
    BY <1>1, <1>5, <1>8, DataFrames
  <2>2. \A i \in 1 .. NUM_PAG_DATA : contents'[data[dir[t]][i]] = contents[data[dir[t]][i]]
    <3>1. \A i \in 1 .. NUM_PAG_DATA : data[dir[t]][i] \in phys_mem \cap Frames
      BY <1>1, DataFrames
    <3> QED BY <1>5, <1>7, <3>1
  <2>3. DataView(t)' = DataView(t)
    BY <2>1, <2>2 DEF DataView
  <2>4. \A p \in HeapPages : heap[dir[t]][p] # NoEntry => contents'[heap[dir[t]][p]] = contents[heap[dir[t]][p]]
    <3>1. \A p \in HeapPages : heap[dir[t]][p] # NoEntry => heap[dir[t]][p] \in phys_mem \cap Frames
      BY <1>3, <2>1 DEF HeapIsolation, MemTyped
    <3> QED BY <1>5, <1>7, <3>1
  <2>5. HeapView(t)' = HeapView(t)
    BY <1>1, <2>1, <2>4 DEF HeapView
  <2>6. Covered(t)' <=> Covered(t)
    BY <1>1, <2>1 DEF Covered
  <2> QED BY <2>3, <2>5, <2>6
<1>12. DataView(c)' = DataView(current)
  BY <1>5, <1>7 DEF DataView
<1>13. PrivateStep
  BY <1>11 DEF PrivateStep
<1>14. InheritStep
  BY <1>5, <1>12 DEF InheritStep
<1>15. CoverStep
  BY <1>5, <1>11 DEF CoverStep
<1> QED BY <1>1, <1>9, <1>10, <1>13, <1>14, <1>15 DEF MInv, MemKeeps

(* A program's own writes reach no other address space.                    *)
LEMMA WriteKeeps == ASSUME MInv, Write PROVE MemKeeps
<1>1. PICK f \in UserFrames(cr3), v \in Values :
        /\ contents' = [contents EXCEPT ![f] = v]
        /\ intact' = (f \notin KernelFrames)
  BY DEF Write
<1>2. UNCHANGED <<vars, heap, program_break>> /\ PInv /\ MemTyped /\ HeapIsolation
  BY DEF Write, MInv
<1>3. PInv' /\ UNCHANGED <<queue, current, PID, dir, data, phys_mem, cr3>>
  BY <1>2, NothingMoves DEF vars, schedVars, procVars
<1>4. IInv /\ current \in Live /\ cr3 = dir[current] /\ dir[current] \in Dirs
  BY <1>2, LiveTasks, DataFrames DEF PInv, AddressSpaceLoaded
<1>5. contents' \in [Frames -> Values \cup {0}]
  BY <1>1, <1>2 DEF MemTyped
<1>6. MemTyped'
  BY <1>1, <1>2, <1>5 DEF MemTyped
<1>7. Live' = Live
  BY <1>3 DEF Live
<1>8. HeapIsolation' /\ PagesOutlast'
  BY <1>2, <1>3, <1>7, HeapAlone
<1>9. ASSUME NEW t \in Live, dir[t] # dir[current]
      PROVE  /\ \A i \in 1 .. NUM_PAG_DATA : data[dir[t]][i] # f
             /\ \A p \in HeapPages : heap[dir[t]][p] = f => f = NoEntry
  <2>1. dir[t] \in Dirs /\ \A i \in 1 .. NUM_PAG_DATA : data[dir[t]][i] \in Range(data[dir[t]])
    BY <1>2, DataFrames
  <2>2. CASE f \in Range(data[dir[current]])
    <3>1. Range(data[dir[t]]) \cap Range(data[dir[current]]) = {}
      BY <1>2, <1>4, <1>9 DEF PInv, FrameIsolation
    <3>2. \A p \in HeapPages : heap[dir[t]][p] # f
      BY <1>2, <1>4, <2>1, <2>2 DEF HeapIsolation
    <3> QED BY <2>1, <2>2, <3>1, <3>2
  <2>3. CASE f \in Range(heap[dir[current]]) \ {NoEntry}
    <3>1. PICK q \in HeapPages : f = heap[dir[current]][q]
      BY <1>2, <1>4, <2>3 DEF MemTyped, Range
    <3>2. \A p \in HeapPages : heap[dir[t]][p] # f
      BY <1>2, <1>4, <1>9, <2>1, <2>3, <3>1 DEF HeapIsolation
    <3>3. f \notin Range(data[dir[t]])
      BY <1>2, <1>4, <3>1 DEF HeapIsolation
    <3> QED BY <2>1, <3>2, <3>3
  <2>4. CASE f \in Shared
    BY <1>2, <2>1, <2>4 DEF HeapIsolation, SharedApart
  <2> QED BY <1>1, <1>4, <2>2, <2>3, <2>4 DEF UserFrames, Shared
<1>10. PrivateStep
  <2>1. SUFFICES ASSUME NEW t \in Live, dir[t] # dir[current] \/ contents' = contents
                 PROVE  DataView(t)' = DataView(t) /\ HeapView(t)' = HeapView(t)
    BY <1>3 DEF PrivateStep
  <2>2. \A g \in Frames : g # f => contents'[g] = contents[g]
    BY <1>1, <1>2 DEF MemTyped
  <2>3. dir[t] \in Dirs /\ \A i \in 1 .. NUM_PAG_DATA : data[dir[t]][i] \in Frames
    BY <1>2, DataFrames
  <2>4. \A i \in 1 .. NUM_PAG_DATA : contents'[data[dir[t]][i]] = contents[data[dir[t]][i]]
    BY <1>9, <2>1, <2>2, <2>3
  <2>5. \A p \in HeapPages : heap[dir[t]][p] # NoEntry => contents'[heap[dir[t]][p]] = contents[heap[dir[t]][p]]
    BY <1>2, <1>9, <2>1, <2>2, <2>3 DEF MemTyped
  <2>6. DataView(t)' = DataView(t)
    BY <1>3, <2>4 DEF DataView
  <2>7. HeapView(t)' = HeapView(t)
    BY <1>2, <1>3, <2>5 DEF HeapView
  <2> QED BY <2>6, <2>7
<1>11. InheritStep
  BY <1>7 DEF InheritStep
<1>12. \A t : Covered(t)' <=> Covered(t)
  BY <1>2, <1>3 DEF Covered
<1>13. CoverStep
  BY <1>7, <1>12 DEF CoverStep
<1> QED BY <1>3, <1>6, <1>8, <1>10, <1>11, <1>13 DEF MInv, MemKeeps

-----------------------------------------------------------------------------
(* sbrk changes nothing of a process but the frames that are marked.       *)
LEMMA MarkedProc ==
  ASSUME PInv, phys_mem \subseteq phys_mem', phys_mem' \subseteq Frames,
         UNCHANGED <<schedVars, PID, nextPid, dir, dir_references, cr3, data, nullMapped>>
  PROVE  PInv'
<1>1. UNCHANGED <<queue, state, quantum, current, remaining_ticks>>
  BY DEF schedVars
<1>2. IInv'
  BY StepKeeps DEF PInv
<1>3. Live' = Live
  BY <1>1 DEF Live
<1>4. ProcTypeOK' /\ RefCounts' /\ AddressSpaceLoaded' /\ PidsDistinct'
  BY <1>1, <1>3 DEF PInv, ProcTypeOK, RefCounts, AddressSpaceLoaded, PidsDistinct
<1>5. FrameIsolation'
  BY <1>3 DEF PInv, FrameIsolation
<1> QED BY <1>2, <1>4, <1>5 DEF PInv

(* No page is needed: the new break is on a page that the old one covered. *)
LEMMA MovesKeeps ==
  ASSUME MInv, NEW increment \in Increments, SbrkMoves(increment) PROVE MemKeeps
<1>1. /\ current # IdleTask
      /\ UNCHANGED <<schedVars, PID, nextPid, dir, dir_references, cr3, data, nullMapped, contents, intact>>
      /\ UNCHANGED <<phys_mem, heap>>
      /\ PagesNeeded(program_break[current], increment) <= 0
      /\ program_break' = [program_break EXCEPT ![current] = @ + increment]
  BY DEF SbrkMoves, SbrkCall, MoveBreak
<1>2. PInv /\ MemTyped /\ IInv /\ phys_mem \subseteq Frames
  BY DEF MInv, PInv, ProcTypeOK
<1>3. PInv' /\ Live' = Live /\ current \in Live /\ Live \subseteq Tasks
  BY <1>1, <1>2, MarkedProc, LiveTasks DEF Live, schedVars
<1>4. HeapIsolation' /\ PagesOutlast'
  BY <1>1, <1>3, HeapAlone
<1>5. increment \in Int /\ PAGE_SIZE \in Nat \ {0}
  BY MemAssumption, ProcAssumption
<1>6. /\ program_break[current] \in Int
      /\ program_break'[current] = program_break[current] + increment
      /\ program_break' \in [Tasks -> Int]
      /\ \A t \in Live \ {current} : program_break'[t] = program_break[t]
  BY <1>1, <1>2, <1>3, <1>5 DEF MemTyped
<1>7. MemTyped'
  BY <1>1, <1>2, <1>6 DEF MemTyped
<1>8. ASSUME NEW t \in Live PROVE DataView(t)' = DataView(t) /\ HeapView(t)' = HeapView(t)
  BY <1>1 DEF DataView, HeapView
<1>9. PrivateStep /\ InheritStep
  BY <1>3, <1>8 DEF PrivateStep, InheritStep
<1>10. ASSUME NEW t \in Live \ {current} PROVE Covered(t)' <=> Covered(t)
  BY <1>1, <1>6 DEF Covered
<1>11. PICK c, b, e : c = current /\ b = program_break[c] /\ e = program_break'[c]
  OBVIOUS
<1>12. b \in Int /\ e \in Int /\ e = b + increment
  BY <1>6, <1>11
<1>13. Covered(c) => Covered(c)'
  <2>1. PagesNeeded(b, increment) <= 0
    BY <1>1, <1>11
  <2>2. e \div PAGE_SIZE - (b - 1) \div PAGE_SIZE <= 0
    BY <1>12, <2>1 DEF PagesNeeded
  <2>3. \A p \in HeapPages : p <= (e - 1) \div PAGE_SIZE => p <= (b - 1) \div PAGE_SIZE
    BY <1>5, <1>12, <2>2, NoPageNeeded, MemConstants
  <2>4. Covered(c) <=> \A p \in HeapPages : p <= (b - 1) \div PAGE_SIZE => heap[dir[c]][p] # NoEntry
    BY <1>11 DEF Covered
  <2>5. Covered(c)' <=> \A p \in HeapPages : p <= (e - 1) \div PAGE_SIZE => heap[dir[c]][p] # NoEntry
    BY <1>1, <1>11 DEF Covered
  <2> QED BY <2>3, <2>4, <2>5
<1>14. CoverStep
  <2>1. \A t \in Live : Covered(t) => Covered(t)'
    BY <1>10, <1>11, <1>13
  <2> QED BY <1>3, <2>1 DEF CoverStep
<1> QED BY <1>3, <1>4, <1>7, <1>9, <1>14 DEF MInv, MemKeeps

LEMMA NoFramesKeeps ==
  ASSUME MInv, NEW increment \in Increments, SbrkNoFrames(increment) PROVE MemKeeps
<1>1. /\ UNCHANGED <<schedVars, PID, nextPid, dir, dir_references, cr3, data, nullMapped, contents, intact>>
      /\ phys_mem' = Freed(phys_mem \cup FreeFrames(phys_mem), FreeFrames(phys_mem))
      /\ UNCHANGED <<heap, program_break>>
  BY DEF SbrkNoFrames, SbrkCall
<1>2. PInv
  BY DEF MInv
<1>3. \A f \in FreeFrames(phys_mem) : NUM_PAG_KERNEL < f /\ f < TOTAL_PAGES
  BY <1>2, ProcAssumption DEF PInv, FreeFrames, Allocatable
<1>4. phys_mem' = phys_mem
  BY <1>1, <1>3 DEF Freed, FreeFrames
<1>5. PInv' /\ Live' = Live
  BY <1>1, <1>2, <1>4, NothingMoves DEF vars, procVars, Live, schedVars
<1> QED BY <1>1, <1>4, <1>5, MemoryAlone DEF memVars

(* sbrk grows: what the new frames do to the running directory's table.    *)
LEMMA GrowMaps ==
  ASSUME MInv, NEW increment \in Increments, SbrkGrows(increment)
  PROVE  \E n \in Nat, d \in Dirs, cf \in Seq(Frames) :
           /\ n = PagesNeeded(program_break[current], increment)
           /\ Len(cf) = n /\ IsInjective(cf)
           /\ d = dir[current]
           /\ cf \in [1 .. n -> FreeFrames(phys_mem)]
           /\ Range(cf) \cap phys_mem = {} /\ NoEntry \notin Range(cf)
           /\ Range(cf) \subseteq Frames
           /\ phys_mem' = phys_mem \cup Range(cf)
           /\ heap' \in [Dirs -> [HeapPages -> Frames]]
           /\ \A e \in Dirs \ {d} : heap'[e] = heap[e]
           /\ \A p \in HeapPages :
                IF heap[d][p] = NoEntry /\ RankIn(FreePagesOf(d), p) <= n
                THEN /\ RankIn(FreePagesOf(d), p) \in 1 .. n
                     /\ heap'[d][p] = cf[RankIn(FreePagesOf(d), p)]
                ELSE heap'[d][p] = heap[d][p]
<1> DEFINE n == PagesNeeded(program_break[current], increment)
           d == dir[current]
<1>1. PInv /\ IInv /\ MemTyped /\ phys_mem \subseteq Frames
  BY DEF MInv, PInv, ProcTypeOK
<1>2. d \in Dirs /\ current \in Tasks
  BY <1>1, LiveTasks, DataFrames
<1>3. n \in Nat
  <2>1. program_break[current] \in Int /\ increment \in Int /\ PAGE_SIZE \in Nat \ {0}
    BY <1>1, <1>2, MemAssumption, ProcAssumption DEF MemTyped
  <2>2. n \in Int
    BY <2>1, DivMod DEF PagesNeeded
  <2>3. n > 0
    BY DEF SbrkGrows
  <2> QED BY <2>2, <2>3
<1>4. PICK cf \in Allocations(phys_mem, n) :
        /\ phys_mem' = phys_mem \cup Range(cf)
        /\ heap' = [heap EXCEPT ![d] = Mapped(heap[d], cf)]
  BY DEF SbrkGrows
<1> HIDE DEF n
<1>5. /\ cf \in Seq(Frames) /\ Len(cf) = n /\ IsInjective(cf)
      /\ Range(cf) \subseteq NUM_PAG_KERNEL .. TOTAL_PAGES - 1
      /\ Range(cf) \cap phys_mem = {}
  BY ONLY <1>3, AllocationsFresh
<1>6. cf \in [1 .. n -> FreeFrames(phys_mem)]
  BY DEF Allocations
<1>7. NoEntry \notin Range(cf) /\ Range(cf) \subseteq Frames
  BY <1>5, MemConstants DEF NoEntry, Frames
<1>8. FreePages = FreePagesOf(d)
  BY DEF FreePages, FreePagesOf
<1>9. Mapped(heap[d], cf) = [p \in HeapPages |->
         IF p \in FreePagesOf(d) /\ RankIn(FreePagesOf(d), p) <= n
         THEN cf[RankIn(FreePagesOf(d), p)] ELSE heap[d][p]]
  BY <1>5, <1>8 DEF Mapped, RankIn
<1>10. \A p \in FreePagesOf(d) : RankIn(FreePagesOf(d), p) <= n => RankIn(FreePagesOf(d), p) \in 1 .. n
  BY <1>3, PagesFinite, RankOrders
<1>11. \A i \in 1 .. n : cf[i] \in Frames
  BY <1>5
<1>12. Mapped(heap[d], cf) \in [HeapPages -> Frames]
  BY <1>1, <1>2, <1>9, <1>10, <1>11 DEF MemTyped
<1>13. /\ heap' \in [Dirs -> [HeapPages -> Frames]]
       /\ heap'[d] = Mapped(heap[d], cf)
       /\ \A e \in Dirs \ {d} : heap'[e] = heap[e]
  BY <1>1, <1>2, <1>4, <1>12 DEF MemTyped
<1>14. \A p \in HeapPages : p \in FreePagesOf(d) <=> heap[d][p] = NoEntry
  BY DEF FreePagesOf
<1>15. \A p \in HeapPages :
         IF heap[d][p] = NoEntry /\ RankIn(FreePagesOf(d), p) <= n
         THEN /\ RankIn(FreePagesOf(d), p) \in 1 .. n
              /\ heap'[d][p] = cf[RankIn(FreePagesOf(d), p)]
         ELSE heap'[d][p] = heap[d][p]
  BY <1>9, <1>10, <1>13, <1>14
<1>16. n = PagesNeeded(program_break[current], increment) /\ d = dir[current]
  BY DEF n
<1> HIDE DEF d
<1> USE <1>2, <1>3, <1>5
<1> WITNESS n \in Nat, d \in Dirs, cf \in Seq(Frames)
<1> QED BY ONLY <1>4, <1>5, <1>6, <1>7, <1>13, <1>15, <1>16

(* As many pages are asked for as may be missing below the new break.      *)
LEMMA RanksSuffice ==
  ASSUME NEW S \in SUBSET Int, NEW lo \in Int, NEW hi \in Int, \A q \in S : lo < q,
         NEW p \in S, p <= hi
  PROVE  RankIn(S, p) <= hi - lo
<1> DEFINE below == {q \in S : q <= p}
<1>1. p \in Int /\ lo < p /\ lo + 1 \in Int /\ lo + 1 <= hi
  OBVIOUS
<1>2. \A q \in below : q \in lo + 1 .. hi
  BY <1>1
<1>3. IsFiniteSet(lo + 1 .. hi) /\ Cardinality(lo + 1 .. hi) = hi - lo
  BY <1>1, FS_Interval
<1>4. below \in SUBSET (lo + 1 .. hi)
  BY ONLY <1>2
<1> HIDE DEF below
<1>5. Cardinality(below) <= hi - lo
  <2> DEFINE window == lo + 1 .. hi
  <2>1. IsFiniteSet(window) /\ Cardinality(window) = hi - lo /\ below \in SUBSET window
    BY ONLY <1>3, <1>4
  <2> HIDE DEF window
  <2>2. Cardinality(below) <= Cardinality(window)
    BY ONLY <2>1, FS_Subset
  <2> QED BY ONLY <2>1, <2>2
<1> QED BY <1>5 DEF below, RankIn

LEMMA GrowsIsolated ==
  ASSUME MInv, NEW increment \in Increments, SbrkGrows(increment), PInv', Live' = Live,
         UNCHANGED <<dir, data>>
  PROVE  HeapIsolation' /\ PagesOutlast'
<1>1. PICK n \in Nat, d \in Dirs, cf \in Seq(Frames) :
        /\ Len(cf) = n /\ IsInjective(cf)
        /\ cf \in [1 .. n -> FreeFrames(phys_mem)]
        /\ Range(cf) \cap phys_mem = {} /\ NoEntry \notin Range(cf)
        /\ phys_mem' = phys_mem \cup Range(cf)
        /\ \A e \in Dirs \ {d} : heap'[e] = heap[e]
        /\ \A p \in HeapPages :
             IF heap[d][p] = NoEntry /\ RankIn(FreePagesOf(d), p) <= n
             THEN /\ RankIn(FreePagesOf(d), p) \in 1 .. n
                  /\ heap'[d][p] = cf[RankIn(FreePagesOf(d), p)]
             ELSE heap'[d][p] = heap[d][p]
  <2>1. PICK n \in Nat, d \in Dirs, cf \in Seq(Frames) :
          /\ n = PagesNeeded(program_break[current], increment)
          /\ Len(cf) = n /\ IsInjective(cf)
          /\ d = dir[current]
          /\ cf \in [1 .. n -> FreeFrames(phys_mem)]
          /\ Range(cf) \cap phys_mem = {} /\ NoEntry \notin Range(cf)
          /\ Range(cf) \subseteq Frames
          /\ phys_mem' = phys_mem \cup Range(cf)
          /\ heap' \in [Dirs -> [HeapPages -> Frames]]
          /\ \A e \in Dirs \ {d} : heap'[e] = heap[e]
          /\ \A p \in HeapPages :
               IF heap[d][p] = NoEntry /\ RankIn(FreePagesOf(d), p) <= n
               THEN /\ RankIn(FreePagesOf(d), p) \in 1 .. n
                    /\ heap'[d][p] = cf[RankIn(FreePagesOf(d), p)]
               ELSE heap'[d][p] = heap[d][p]
    BY GrowMaps
  <2> QED BY ONLY <2>1
<1>2. PInv /\ HeapIsolation /\ PagesOutlast
  BY DEF MInv
<1> DEFINE new(p) == heap[d][p] = NoEntry /\ RankIn(FreePagesOf(d), p) <= n
<1>3. \A e \in Dirs, p \in HeapPages :
        IF e = d /\ new(p) THEN heap'[e][p] \in Range(cf) ELSE heap'[e][p] = heap[e][p]
  BY <1>1 DEF Range
<1>4. ASSUME NEW p \in HeapPages, NEW q \in HeapPages, new(p), new(q), heap'[d][p] = heap'[d][q]
      PROVE  p = q
  <2>1. RankIn(FreePagesOf(d), p) = RankIn(FreePagesOf(d), q)
    BY <1>1, <1>4 DEF IsInjective
  <2>2. p \in FreePagesOf(d) /\ q \in FreePagesOf(d)
    BY <1>4 DEF FreePagesOf
  <2> QED BY <2>1, <2>2, PagesFinite, RankInjective
<1>5. \A e \in Dirs, p \in HeapPages : heap'[e][p] # NoEntry => heap'[e][p] \in phys_mem'
  BY <1>1, <1>2, <1>3 DEF HeapIsolation
<1>6. ASSUME NEW e \in Dirs, NEW f \in Dirs, NEW p \in HeapPages, NEW q \in HeapPages,
             heap'[e][p] = heap'[f][q], heap'[e][p] # NoEntry
      PROVE  e = f /\ p = q
  <2> HIDE DEF new
  <2>1. CASE (e = d /\ new(p)) /\ (f = d /\ new(q))
    BY <1>4, <1>6, <2>1
  <2>2. CASE ~(e = d /\ new(p)) /\ ~(f = d /\ new(q))
    BY <1>2, <1>3, <1>6, <2>2 DEF HeapIsolation
  <2>3. CASE (e = d /\ new(p)) /\ ~(f = d /\ new(q))
    BY <1>1, <1>2, <1>3, <1>6, <2>3 DEF HeapIsolation
  <2>4. CASE ~(e = d /\ new(p)) /\ (f = d /\ new(q))
    BY <1>1, <1>2, <1>3, <1>6, <2>4 DEF HeapIsolation
  <2> QED BY <2>1, <2>2, <2>3, <2>4
<1>7. ASSUME NEW t \in Live, NEW e \in Dirs, NEW p \in HeapPages
      PROVE  heap'[e][p] \notin Range(data[dir[t]])
  <2>1. Range(data[dir[t]]) \subseteq phys_mem /\ heap[e][p] \notin Range(data[dir[t]])
    BY <1>2, DataFrames DEF HeapIsolation
  <2> QED BY <1>1, <1>3, <2>1
<1>8. HeapIsolation'
  <2>1. SharedApart /\ Shared' = Shared
    BY <1>2 DEF HeapIsolation, Shared, KernelFrames, CodeFrames
  <2>2. Shared \subseteq phys_mem'
    BY <1>1, <2>1 DEF SharedApart
  <2>3. \A t \in Live' : Range(data'[dir'[t]]) \cap Shared = {}
    BY <2>1 DEF SharedApart
  <2>4. \A e \in Dirs, p \in HeapPages : heap'[e][p] # NoEntry => heap'[e][p] \notin Shared
    BY <1>1, <1>3, <2>1 DEF SharedApart
  <2>5. SharedApart'
    BY <2>1, <2>2, <2>3, <2>4 DEF SharedApart
  <2> QED BY <1>5, <1>6, <1>7, <2>5 DEF HeapIsolation
<1>9. Cardinality(FreeFrames(phys_mem')) = Cardinality(FreeFrames(phys_mem)) - n
  <2>1. IsFiniteSet(Range(cf)) /\ Cardinality(Range(cf)) = n
    BY <1>1, MembersCounted
  <2>2. FreeFrames(phys_mem') = FreeFrames(phys_mem) \ Range(cf)
    BY <1>1 DEF FreeFrames
  <2>3. FreeFrames(phys_mem) \cap Range(cf) = Range(cf)
    BY <1>1 DEF Range
  <2>4. IsFiniteSet(FreeFrames(phys_mem))
    BY FramesFinite
  <2>5. Cardinality(FreeFrames(phys_mem) \ Range(cf))
          = Cardinality(FreeFrames(phys_mem)) - Cardinality(FreeFrames(phys_mem) \cap Range(cf))
    BY ONLY <2>4, FS_Difference
  <2> QED BY <2>1, <2>2, <2>3, <2>5
<1>10. Cardinality(FreePagesOf(d)') >= Cardinality(FreePagesOf(d)) - n
  <2> DEFINE F0 == {p \in FreePagesOf(d) : RankIn(FreePagesOf(d), p) <= n}
  <2>1. IsFiniteSet(F0) /\ Cardinality(F0) <= n
    BY <1>1, PagesFinite, FirstFew
  <2>2. FreePagesOf(d)' = FreePagesOf(d) \ F0
    BY <1>1, <1>3 DEF FreePagesOf
  <2>3. FreePagesOf(d) \cap F0 = F0
    OBVIOUS
  <2>4. IsFiniteSet(FreePagesOf(d)) /\ Cardinality(FreePagesOf(d)) \in Nat
    BY PagesFinite
  <2> HIDE DEF F0
  <2>5. Cardinality(FreePagesOf(d) \ F0)
          = Cardinality(FreePagesOf(d)) - Cardinality(FreePagesOf(d) \cap F0)
    BY ONLY <2>4, FS_Difference
  <2>6. Cardinality(F0) \in Nat
    BY ONLY <2>1, FS_CardinalityType
  <2>7. Cardinality(FreePagesOf(d)') = Cardinality(FreePagesOf(d)) - Cardinality(F0)
    BY ONLY <2>2, <2>3, <2>5, Zenon
  <2> QED BY ONLY <2>1, <2>4, <2>6, <2>7, n \in Nat
<1>11. \A e \in Dirs \ {d} : FreePagesOf(e)' = FreePagesOf(e)
  BY <1>1 DEF FreePagesOf
<1>12. ASSUME NEW e \in Dirs
       PROVE  Cardinality(FreePagesOf(e)') > Cardinality(FreeFrames(phys_mem'))
  <2>1. /\ Cardinality(FreeFrames(phys_mem)) \in Nat /\ Cardinality(FreePagesOf(e)) \in Nat
        /\ Cardinality(FreePagesOf(e)) > Cardinality(FreeFrames(phys_mem))
    BY <1>2, FramesFinite, PagesFinite DEF PagesOutlast
  <2>2. CASE e # d
    BY <1>1, <1>9, <1>11, <2>1, <2>2
  <2>3. CASE e = d
    <3>1. Cardinality(FreePagesOf(d)') \in Nat
      <4>1. FreePagesOf(d)' \in SUBSET HeapPages
        BY DEF FreePagesOf
      <4>2. IsFiniteSet(FreePagesOf(d)')
        BY ONLY <4>1, MemConstants, FS_Subset
      <4> QED BY ONLY <4>2, FS_CardinalityType
    <3> QED BY <1>1, <1>9, <1>10, <2>1, <2>3, <3>1
  <2> QED BY <2>2, <2>3
<1>13. PagesOutlast'
  BY <1>12 DEF PagesOutlast
<1> QED BY <1>8, <1>13

LEMMA GrowsKeeps ==
  ASSUME MInv, NEW increment \in Increments, SbrkGrows(increment) PROVE MemKeeps
<1>1. PICK n \in Nat, d \in Dirs, cf \in Seq(Frames) :
        /\ n = PagesNeeded(program_break[current], increment)
        /\ Len(cf) = n
        /\ d = dir[current]
        /\ NoEntry \notin Range(cf) /\ Range(cf) \subseteq Frames
        /\ phys_mem' = phys_mem \cup Range(cf)
        /\ heap' \in [Dirs -> [HeapPages -> Frames]]
        /\ \A e \in Dirs \ {d} : heap'[e] = heap[e]
        /\ \A p \in HeapPages :
             IF heap[d][p] = NoEntry /\ RankIn(FreePagesOf(d), p) <= n
             THEN /\ RankIn(FreePagesOf(d), p) \in 1 .. n
                  /\ heap'[d][p] = cf[RankIn(FreePagesOf(d), p)]
             ELSE heap'[d][p] = heap[d][p]
  BY GrowMaps
<1>2. /\ UNCHANGED <<schedVars, PID, nextPid, dir, dir_references, cr3, data, nullMapped, contents, intact>>
      /\ program_break' = [program_break EXCEPT ![current] = @ + increment]
  BY DEF SbrkGrows, SbrkCall, MoveBreak
<1>3. PInv /\ MemTyped /\ IInv /\ phys_mem \subseteq Frames
  BY DEF MInv, PInv, ProcTypeOK
<1>4. PInv' /\ Live' = Live /\ current \in Live /\ Live \subseteq Tasks /\ current' = current
  BY <1>1, <1>2, <1>3, MarkedProc, LiveTasks DEF Live, schedVars
<1>5. HeapIsolation' /\ PagesOutlast'
  BY <1>2, <1>4, GrowsIsolated
<1>6. increment \in Int /\ PAGE_SIZE \in Nat \ {0}
  BY MemAssumption, ProcAssumption
<1>7. /\ program_break[current] \in Int
      /\ program_break'[current] = program_break[current] + increment
      /\ program_break' \in [Tasks -> Int]
      /\ \A t \in Live \ {current} : program_break'[t] = program_break[t]
  BY <1>2, <1>3, <1>4, <1>6 DEF MemTyped
<1>8. MemTyped'
  BY <1>1, <1>2, <1>3, <1>7 DEF MemTyped
<1>9. ASSUME NEW e \in Dirs, NEW p \in HeapPages, heap[e][p] # NoEntry
      PROVE  heap'[e][p] = heap[e][p]
  BY <1>1, <1>9
<1>10. ASSUME NEW t \in Live
       PROVE  /\ DataView(t)' = DataView(t)
              /\ \A p \in DOMAIN HeapView(t) :
                   p \in DOMAIN HeapView(t)' /\ HeapView(t)'[p] = HeapView(t)[p]
  <2>1. dir[t] \in Dirs
    BY <1>3, DataFrames
  <2>2. DataView(t)' = DataView(t)
    BY <1>2 DEF DataView
  <2>3. ASSUME NEW p \in HeapPages, heap[dir[t]][p] # NoEntry
        PROVE  heap'[dir'[t]][p] # NoEntry /\ contents'[heap'[dir'[t]][p]] = contents[heap[dir[t]][p]]
    BY <1>2, <1>9, <2>1, <2>3
  <2>4. HeapView(t)' = [p \in {q \in HeapPages : heap'[dir'[t]][q] # NoEntry} |->
                          contents'[heap'[dir'[t]][p]]]
    BY DEF HeapView
  <2>5. \A p \in DOMAIN HeapView(t) :
          p \in DOMAIN HeapView(t)' /\ HeapView(t)'[p] = HeapView(t)[p]
    BY <2>3, <2>4 DEF HeapView
  <2> QED BY <2>2, <2>5
<1>11. PrivateStep /\ InheritStep
  BY <1>4, <1>10 DEF PrivateStep, InheritStep
<1>12. ASSUME NEW t \in Live \ {current}, Covered(t) PROVE Covered(t)'
  BY <1>2, <1>3, <1>7, <1>9, <1>12, DataFrames DEF Covered
<1>13. PICK c, b, e : c = current /\ b = program_break[c] /\ e = program_break'[c]
  OBVIOUS
<1>14. b \in Int /\ e \in Int /\ e = b + increment /\ dir[c] = d /\ dir'[c] = d
  BY <1>1, <1>2, <1>7, <1>13
<1>15. ASSUME Covered(c) PROVE Covered(c)'
  <2>1. n = e \div PAGE_SIZE - (b - 1) \div PAGE_SIZE
    BY <1>1, <1>13, <1>14 DEF PagesNeeded
  <2>2. /\ (b - 1) \div PAGE_SIZE \in Int /\ e \div PAGE_SIZE \in Int
        /\ (e - 1) \div PAGE_SIZE \in Int /\ (e - 1) \div PAGE_SIZE <= e \div PAGE_SIZE
    <3>1. b - 1 \in Int /\ e - 1 \in Int /\ e - 1 <= e
      BY <1>14
    <3>2. \A x \in Int : x \div PAGE_SIZE \in Int
      BY <1>6, DivMod
    <3>3. (e - 1) \div PAGE_SIZE <= e \div PAGE_SIZE
      BY ONLY <1>6, <1>14, <3>1, DivMonotone
    <3> QED BY <1>14, <3>1, <3>2, <3>3
  <2>3. \A q \in HeapPages : q <= (b - 1) \div PAGE_SIZE => heap[d][q] # NoEntry
    BY <1>13, <1>14, <1>15 DEF Covered
  <2>4. ASSUME NEW p \in HeapPages, p <= (e - 1) \div PAGE_SIZE PROVE heap'[d][p] # NoEntry
    <3>1. CASE heap[d][p] # NoEntry
      BY <1>9, <3>1
    <3>2. CASE heap[d][p] = NoEntry
      <4>1. /\ FreePagesOf(d) \in SUBSET Int /\ p \in FreePagesOf(d)
            /\ p <= e \div PAGE_SIZE
        BY <2>2, <2>4, <3>2, PagesFinite, MemConstants DEF FreePagesOf
      <4>2. \A q \in FreePagesOf(d) : (b - 1) \div PAGE_SIZE < q
        BY <2>2, <2>3, MemConstants DEF FreePagesOf
      <4>3. RankIn(FreePagesOf(d), p) <= e \div PAGE_SIZE - (b - 1) \div PAGE_SIZE
        BY ONLY <2>2, <4>1, <4>2, RanksSuffice
      <4>4. /\ RankIn(FreePagesOf(d), p) \in 1 .. n
            /\ heap'[d][p] = cf[RankIn(FreePagesOf(d), p)]
        BY <1>1, <2>1, <3>2, <4>3
      <4> QED BY <1>1, <4>4 DEF Range
    <3> QED BY <3>1, <3>2
  <2>5. Covered(c)' <=> \A p \in HeapPages : p <= (e - 1) \div PAGE_SIZE => heap'[d][p] # NoEntry
    BY <1>13, <1>14 DEF Covered
  <2> QED BY <2>4, <2>5
<1>16. CoverStep
  <2>1. \A t \in Live : Covered(t) => Covered(t)'
    BY <1>12, <1>13, <1>15
  <2> QED BY <1>4, <2>1 DEF CoverStep
<1> QED BY <1>4, <1>5, <1>8, <1>11, <1>16 DEF MInv, MemKeeps

LEMMA StutterKeeps == ASSUME MInv, UNCHANGED memoryVars PROVE MemKeeps
<1>1. UNCHANGED vars /\ UNCHANGED memVars /\ PInv
  BY DEF memoryVars, MInv
<1>2. PInv' /\ Live' = Live /\ UNCHANGED <<phys_mem, data, dir>>
  BY <1>1, NothingMoves DEF vars, schedVars, procVars, Live
<1> QED BY <1>1, <1>2, MemoryAlone

LEMMA MemStepKeeps == ASSUME MInv, [MemNext]_memoryVars PROVE MemKeeps
<1>1. CASE Sbrk
  <2>1. PICK increment \in Increments :
          SbrkMoves(increment) \/ SbrkGrows(increment) \/ SbrkNoFrames(increment)
    BY <1>1 DEF Sbrk
  <2> QED BY <2>1, MovesKeeps, GrowsKeeps, NoFramesKeeps
<1> QED BY <1>1, ForkKeeps, CloneKeeps, OtherCallKeeps, WriteKeeps, StutterKeeps DEF MemNext

-----------------------------------------------------------------------------
(* At boot task 1 gets its code frames between the two sets of data frames. *)
LEMMA BootSharedApart ==
  ASSUME ProcInit
  PROVE  /\ Shared \subseteq phys_mem
         /\ \A t \in Live : Range(data[dir[t]]) \cap Shared = {}
<1>1. /\ NUM_PAG_KERNEL \in Nat \ {0} /\ NUM_PAG_CODE \in Nat /\ NUM_PAG_DATA \in Nat \ {0}
      /\ UserPages = NUM_PAG_CODE + NUM_PAG_DATA
  BY ProcAssumption DEF UserPages
<1>2. phys_mem = BootUsed
  BY DEF ProcInit
<1>3. CodeFrames \subseteq BootUsed
  <2>1. SUFFICES ASSUME NEW i \in 1 .. NUM_PAG_CODE
                 PROVE  NUM_PAG_KERNEL + 2 * (UserPages + i - 1)
                          \in {NUM_PAG_KERNEL + 2 * j : j \in 0 .. 2 * UserPages - 1}
    BY DEF CodeFrames, BootUsed
  <2>2. UserPages + i - 1 \in 0 .. 2 * UserPages - 1
    BY <1>1
  <2> QED BY <2>2
<1>4. KernelFrames \subseteq BootUsed
  BY DEF KernelFrames, BootUsed
<1>5. ASSUME NEW t \in Live PROVE dir[t] \in {0, 1}
  <2>1. PInv /\ dir[t] \in Dirs
    BY ProcInitHolds, DataFrames
  <2>2. dir = [s \in Tasks |-> IF s = IdleTask THEN 0 ELSE IF s = Task1 THEN 1
                              ELSE IF s = 0 THEN 0 ELSE NoDir]
    BY DEF ProcInit
  <2>3. t \in Tasks /\ NoDir \notin Dirs
    BY ProcAssumption DEF Live, NoDir, Dirs
  <2> QED BY <2>1, <2>2, <2>3
<1>6. ASSUME NEW k \in {0, 1}, NEW i \in 1 .. NUM_PAG_DATA
      PROVE  BootFrame(k, i) \notin Shared
  <2>1. BootFrame(k, i) = NUM_PAG_KERNEL + 2 * (k * UserPages + NUM_PAG_CODE + i - 1)
    BY DEF BootFrame
  <2>2. k * UserPages \in Nat /\ (k = 0 => k * UserPages = 0) /\ (k = 1 => k * UserPages = UserPages)
    BY <1>1
  <2>3. BootFrame(k, i) \notin KernelFrames
    BY <1>1, <2>1, <2>2 DEF KernelFrames
  <2>4. ASSUME NEW j \in 1 .. NUM_PAG_CODE
        PROVE  BootFrame(k, i) # NUM_PAG_KERNEL + 2 * (UserPages + j - 1)
    <3>1. k * UserPages + NUM_PAG_CODE + i - 1 # UserPages + j - 1
      BY <1>1, <2>2
    <3> QED BY <1>1, <2>1, <2>2, <3>1
  <2> QED BY <2>3, <2>4 DEF Shared, CodeFrames
<1>7. ASSUME NEW t \in Live PROVE Range(data[dir[t]]) \cap Shared = {}
  <2>1. data = [d \in Dirs |-> IF d \in {0, 1}
                               THEN [i \in 1 .. NUM_PAG_DATA |-> BootFrame(d, i)]
                               ELSE << >>]
    BY DEF ProcInit
  <2>2. dir[t] \in Dirs
    BY ProcInitHolds, DataFrames
  <2>3. PICK k \in {0, 1} : k = dir[t]
    BY <1>5
  <2>4. data[k] = [i \in 1 .. NUM_PAG_DATA |-> BootFrame(k, i)]
    BY <2>1, <2>2, <2>3
  <2>5. Range(data[k]) \subseteq {BootFrame(k, i) : i \in 1 .. NUM_PAG_DATA}
    BY <2>4 DEF Range
  <2> QED BY <1>6, <2>3, <2>5
<1> QED BY <1>2, <1>3, <1>4, <1>7 DEF Shared

(* At boot no page above the data is mapped, and there are more of them    *)
(* than frames that alloc_frame() can return.                              *)
LEMMA MemInitHolds == ASSUME MemInit PROVE MInv
<1>1. PInv
  BY ProcInitHolds DEF MemInit
<1>2. heap = [d \in Dirs |-> [p \in HeapPages |-> NoEntry]]
  BY DEF MemInit
<1>3. MemTyped
  <2>1. NoEntry \in Frames
    BY MemConstants DEF NoEntry, Frames
  <2>2. heap \in [Dirs -> [HeapPages -> Frames]]
    BY <1>2, <2>1
  <2>3. contents \in [Frames -> Values \cup {0}]
    BY DEF MemInit
  <2>4. HeapBase * PAGE_SIZE \in Int
    BY MemConstants
  <2>5. program_break \in [Tasks -> Int]
    BY <2>4 DEF MemInit
  <2>6. intact \in BOOLEAN
    BY DEF MemInit
  <2> QED BY <2>2, <2>3, <2>5, <2>6 DEF MemTyped
<1>4. HeapIsolation
  <2>1. \A t \in Live : NoEntry \notin Range(data[dir[t]])
    <3>1. \A t \in Live : Range(data[dir[t]]) \subseteq NUM_PAG_KERNEL .. TOTAL_PAGES - 1
      BY <1>1 DEF PInv, FrameIsolation
    <3> QED BY <3>1, MemConstants DEF NoEntry
  <2>2. SharedApart
    BY <1>2, BootSharedApart DEF SharedApart, MemInit
  <2> QED BY <1>2, <2>1, <2>2 DEF HeapIsolation
<1>5. PagesOutlast
  <2>1. phys_mem = BootUsed
    BY DEF MemInit, ProcInit
  <2>2. FreeFrames(BootUsed) \in SUBSET (HeapPages \ {HeapBase})
    <3>1. SUFFICES ASSUME NEW f \in FreeFrames(BootUsed) PROVE f \in HeapPages \ {HeapBase}
      OBVIOUS
    <3>2. /\ f \in NUM_PAG_KERNEL .. TOTAL_PAGES - 1 /\ (f - NUM_PAG_KERNEL) % 2 = 0
          /\ f \notin BootUsed
      BY DEF FreeFrames, Allocatable
    <3>3. ASSUME f <= HeapBase PROVE FALSE
      <4>1. PICK i \in Nat : f - NUM_PAG_KERNEL = 2 * i
        <5>1. f - NUM_PAG_KERNEL \in Nat
          BY <3>2, MemConstants
        <5>2. PICK k \in Nat : k = f - NUM_PAG_KERNEL /\ k % 2 = 0
          BY <3>2, <5>1
        <5>3. k = 2 * (k \div 2) + (k % 2) /\ k \div 2 \in Nat
          BY <5>2
        <5> QED BY <5>2, <5>3
      <4>2. i \in 0 .. 2 * UserPages - 1 /\ f = NUM_PAG_KERNEL + 2 * i
        BY <3>2, <3>3, <4>1, MemConstants
      <4> QED BY <3>2, <4>2 DEF BootUsed
    <3> QED BY <3>2, <3>3, MemConstants DEF HeapPages
  <2>3. HeapBase \in HeapPages
    BY MemConstants DEF HeapPages
  <2>4. IsFiniteSet(HeapPages \ {HeapBase}) /\ Cardinality(HeapPages \ {HeapBase}) = Cardinality(HeapPages) - 1
    BY ONLY <2>3, MemConstants, FS_RemoveElement
  <2>5. Cardinality(FreeFrames(BootUsed)) <= Cardinality(HeapPages) - 1
    BY ONLY <2>2, <2>4, FS_Subset
  <2>6. \A d \in Dirs : FreePagesOf(d) = HeapPages
    BY <1>2 DEF FreePagesOf
  <2>7. Cardinality(HeapPages) \in Nat
    BY ONLY MemConstants, FS_CardinalityType
  <2> QED BY <2>1, <2>5, <2>6, <2>7, FramesFinite DEF PagesOutlast
<1> QED BY <1>1, <1>3, <1>4, <1>5 DEF MInv

-----------------------------------------------------------------------------
(* MInv is invariant: no frame is mapped twice, and a directory never runs *)
(* out of pages before the machine runs out of frames.                     *)
THEOREM MemInvariant == MemSafety => []MInv
<1>1. MemInit => MInv
  BY MemInitHolds
<1>2. MInv /\ [MemNext]_memoryVars => MInv'
  BY MemStepKeeps DEF MemKeeps
<1> QED BY <1>1, <1>2, PTL DEF MemSafety

(* sbrk never returns -EAGAIN, and fork always finds a page of the         *)
(* father's to map a frame of the child at.                                *)
THEOREM NeverOutOfPages == MemSafety => []PagesOutlastFrames
<1>1. MInv => PagesOutlastFrames
  <2>1. SUFFICES ASSUME MInv, NEW t \in Live
                 PROVE  Cardinality(FreePagesOf(dir[t])) > Cardinality(FreeFrames(phys_mem))
    BY DEF PagesOutlastFrames, FreePagesOf
  <2> QED BY <2>1, DataFrames DEF MInv, PagesOutlast
<1> QED BY <1>1, MemInvariant, PTL

(* No call and no other address space changes what a process has in memory. *)
THEOREM OthersLeaveMemory == MemSafety => MemoryPrivate
<1>1. MInv /\ [MemNext]_memoryVars => [PrivateStep]_memoryVars
  BY MemStepKeeps DEF MemKeeps
<1>2. MemSafety => [][PrivateStep]_memoryVars
  BY <1>1, MemInvariant, PTL DEF MemSafety
<1> QED BY <1>2 DEF MemoryPrivate, PrivateStep

(* A child of fork starts with a copy of its father's data, a thread with  *)
(* the data itself.                                                        *)
THEOREM ChildrenStartEqual == MemSafety => ChildInheritsData
<1>1. MInv /\ [MemNext]_memoryVars => [InheritStep]_memoryVars
  BY MemStepKeeps DEF MemKeeps
<1>2. MemSafety => [][InheritStep]_memoryVars
  BY <1>1, MemInvariant, PTL DEF MemSafety
<1> QED BY <1>2 DEF ChildInheritsData, InheritStep

(* sbrk keeps every page below the break mapped; only the child of a fork  *)
(* starts without.                                                         *)
THEOREM SbrkKeepsCovered == MemSafety => OnlyForkUncovers
<1>1. MInv /\ [MemNext]_memoryVars => [CoverStep]_memoryVars
  BY MemStepKeeps DEF MemKeeps
<1>2. MemSafety => [][CoverStep]_memoryVars
  BY <1>1, MemInvariant, PTL DEF MemSafety
<1> QED BY <1>2 DEF OnlyForkUncovers, CoverStep

-----------------------------------------------------------------------------
(* Boot.  The loader reads on where it has written to: a place on the disk *)
(* and a place in memory that go forward together.                         *)
Place   == (2 * track + head) * SEC_PISTA + sread - 1
Reached == es * SEGMENT + bx

InMemory(b) == KERNEL_START + b \in DOMAIN mem /\ mem[KERNEL_START + b] = b

LoaderInv ==
  /\ es \in Nat /\ track \in Nat /\ head \in {0, 1} /\ sread \in 0 .. SEC_PISTA - 1
  /\ \E b \in 0 .. SEGMENT \div SECTOR - 1 : bx = b * SECTOR
  /\ Reached = Place * SECTOR

Unbuilt   == {"make", "sector", "system", "copied", "died"}
Unentered == Unbuilt \cup {"built", "overwritten"}
Cold      == Unentered \cup {"main"}
Unready   == Cold \cup {"init_mm", "monoprocess", "init_sched", "init_idle"}
Uncopied  == Unready \cup {"init_task1", "fault"}
Stages    == Uncopied \cup {"copy_data", "enable_int", "ticked", "user"}

ImageInv ==
  /\ image \in [sys : Nat \ {0}, usr : Nat \ {0}, out : Nat, im_size : Nat]
  /\ stage \notin Unbuilt =>
       /\ image.out = SECTOR + ImageSize
       /\ image.im_size = ((ImageSize + PARAGRAPH - 1) \div PARAGRAPH) % Words
  /\ stage = "copied" => image.out = SECTOR + ImageSize

(* What is where in memory, before and after copy_data().                  *)
PlacedInv ==
  /\ stage \in Uncopied => \A b \in 0 .. ImageSize - 1 : b < Reached => InMemory(b)
  /\ stage \notin Unentered /\ Fits => ImageSize <= Reached
  /\ stage \notin Uncopied /\ Fits =>
       /\ \A b \in 0 .. image.sys - 1 : InMemory(b)
       /\ \A b \in 0 .. image.usr - 1 : mem[PhysicalUser(b)] = image.sys + b

(* The frames of the k-th set of user pages, and what is marked when n     *)
(* frames are taken.                                                       *)
UserFrame(k, i) == NUM_PAG_KERNEL + 2 * (k * UserPages + i - 1)
CodePages(k)    == [i \in 1 .. NUM_PAG_CODE |-> UserFrame(k, i)]
DataPages(k)    == [i \in 1 .. NUM_PAG_DATA |-> BootFrame(k, i)]
Marked(n)       == 0 .. NUM_PAG_KERNEL - 1 \cup {NUM_PAG_KERNEL + 2 * i : i \in 0 .. n - 1}

FreeSlots(n) ==
  queue = [l \in Queues |-> IF l = freequeue THEN [i \in 1 .. n |-> n - i] ELSE << >>]

(* The state main() has made after each of its calls.                      *)
MainInv ==
  /\ nullMapped = BootNullMapped /\ state = [t \in Tasks |-> ST_RUN]
  /\ stage # "user" => current = BootSlot
  /\ stage \in Unready =>
       /\ PID = [t \in Tasks |-> 0] /\ nextPid = 0
       /\ quantum = [t \in Tasks |-> 0] /\ remaining_ticks = 0
  /\ stage \in Cold =>
       dir = [t \in Tasks |-> NoDir] /\ dir_references = [d \in Dirs |-> 0]
  /\ stage \in {"init_mm", "monoprocess", "init_sched"} =>
       /\ dir = [t \in Tasks |-> IF t = 0 THEN 0 ELSE NoDir]
       /\ dir_references = [d \in Dirs |-> 0]
  /\ stage \in Cold \cup {"init_mm"} =>
       data = [d \in Dirs |-> << >>] /\ code = [d \in Dirs |-> << >>]
  /\ stage = "init_mm" => phys_mem = Marked(0)
  /\ stage \in {"monoprocess", "init_sched", "init_idle"} =>
       /\ phys_mem = Marked(UserPages)
       /\ data = [d \in Dirs |-> IF d = 0 THEN DataPages(0) ELSE << >>]
       /\ code = [d \in Dirs |-> IF d = 0 THEN CodePages(0) ELSE << >>]
  /\ stage = "init_sched" => FreeSlots(NR_TASKS)
  /\ stage = "init_idle" =>
       /\ FreeSlots(NR_TASKS - 1)
       /\ dir = [t \in Tasks |-> IF t \in {0, IdleTask} THEN 0 ELSE NoDir]
       /\ dir_references = [d \in Dirs |-> IF d = 0 THEN 1 ELSE 0]
  /\ stage \notin Unready =>
       /\ FreeSlots(NR_TASKS - 2)
       /\ PID = [t \in Tasks |-> IF t = Task1 THEN 1 ELSE 0] /\ nextPid = 13
       /\ quantum = [t \in Tasks |-> IF t = Task1 THEN QUANTUM ELSE 0]
       /\ remaining_ticks \in {QUANTUM - 1, QUANTUM}
       /\ stage \notin {"ticked", "user"} => remaining_ticks = QUANTUM
       /\ dir = [t \in Tasks |-> IF t = Task1 THEN 1
                                 ELSE IF t \in {0, IdleTask} THEN 0 ELSE NoDir]
       /\ dir_references = [d \in Dirs |-> IF d \in {0, 1} THEN 1 ELSE 0]
       /\ cr3 = 1 /\ esp0 = Task1
       /\ phys_mem = Marked(2 * UserPages)
       /\ data = [d \in Dirs |-> IF d \in {0, 1} THEN DataPages(d) ELSE << >>]
       /\ code = [d \in Dirs |-> IF d \in {0, 1} THEN CodePages(d) ELSE << >>]
  /\ stage = "user" => current = Task1

BInv == stage \in Stages /\ ImageInv /\ LoaderInv /\ PlacedInv /\ MainInv

-----------------------------------------------------------------------------
LEMMA TimesOrder ==
  ASSUME NEW S \in Nat \ {0}, NEW x \in Int, NEW y \in Int
  PROVE  /\ x * S \in Int /\ y * S \in Int /\ (x + y) * S = x * S + y * S
         /\ (x < y <=> x * S < y * S) /\ (x <= y <=> x * S <= y * S)
<1>1. \A a, b \in Int : a < b => a * S < b * S
  <2>1. ASSUME NEW a \in Int, NEW b \in Int, a < b PROVE a * S < b * S
    <3>1. PICK d \in Nat : b = a + 1 + d
      <4>1. b - a - 1 \in Nat /\ b = a + 1 + (b - a - 1)
        BY <2>1
      <4> QED BY ONLY <4>1
    <3>2. b * S = a * S + S + d * S
      BY <3>1
    <3>3. d * S >= 0 /\ d * S \in Int /\ a * S \in Int
      OBVIOUS
    <3> QED BY ONLY <3>2, <3>3, S \in Nat \ {0}
  <2> QED BY <2>1
<1>2. x * S \in Int /\ y * S \in Int /\ (x + y) * S = x * S + y * S
  OBVIOUS
<1>3. (x < y => x * S < y * S) /\ (y < x => y * S < x * S) /\ (x = y => x * S = y * S)
  BY <1>1
<1> QED BY <1>2, <1>3

LEMMA ExactDiv ==
  ASSUME NEW S \in Nat \ {0}, NEW q \in Int, NEW r \in 0 .. S - 1
  PROVE  (q * S + r) \div S = q /\ (q * S + r) % S = r
<1> DEFINE a == q * S + r
           x == a \div S
           e == a % S
<1>1. a \in Int /\ x \in Int /\ e \in 0 .. S - 1 /\ a = x * S + e /\ a = q * S + r
  <2>1. a \in Int
    OBVIOUS
  <2> HIDE DEF a
  <2>2. x \in Int /\ e \in 0 .. S - 1 /\ a = S * x + e
    BY <2>1, DivMod
  <2>3. S * x = x * S
    BY <2>2
  <2> QED BY <2>1, <2>2, <2>3 DEF a
<1> HIDE DEF x, e, a
<1>2. ASSUME NEW y \in Int, NEW z \in Int, y < z PROVE y * S + S <= z * S
  <2>1. (y + 1) * S <= z * S /\ (y + 1) * S = y * S + 1 * S /\ 1 * S = S
    BY <1>2, TimesOrder
  <2> QED BY <2>1
<1>3. ~(x < q) /\ ~(q < x)
  <2>1. x * S \in Int /\ q * S \in Int
    BY <1>1
  <2> QED BY <1>1, <1>2, <2>1
<1>4. x = q
  BY <1>1, <1>3
<1>5. x * S \in Int /\ x * S = q * S
  BY <1>1, <1>4
<1> QED BY <1>1, <1>4, <1>5 DEF x, e, a

SegmentSectors    == SEGMENT \div SECTOR
SegmentParagraphs == SEGMENT \div PARAGRAPH

LEMMA BootConstants ==
  /\ PARAGRAPH \in Nat \ {0} /\ SECTOR \in Nat \ {0} /\ SEC_PISTA \in Nat \ {0, 1}
  /\ SEGMENT \in Nat \ {0} /\ INITSEG \in Nat \ {0} /\ Words \in Nat \ {0}
  /\ SegmentSectors \in Nat \ {0} /\ SEGMENT = SegmentSectors * SECTOR
  /\ SegmentParagraphs \in Nat \ {0} /\ SEGMENT = SegmentParagraphs * PARAGRAPH
  /\ INITSEG * SegmentParagraphs <= Words
<1>1. /\ PARAGRAPH \in Nat \ {0} /\ SECTOR \in Nat \ {0} /\ SEC_PISTA \in Nat \ {0, 1}
      /\ SEGMENT \in Nat \ {0} /\ INITSEG \in Nat \ {0} /\ Words \in Nat \ {0}
      /\ SEGMENT % SECTOR = 0 /\ SEGMENT % PARAGRAPH = 0
      /\ INITSEG * (SEGMENT \div PARAGRAPH) <= Words
  BY BootAssumption
<1>2. ASSUME NEW S \in Nat \ {0}, SEGMENT % S = 0
      PROVE  SEGMENT \div S \in Nat \ {0} /\ SEGMENT = (SEGMENT \div S) * S
  <2> DEFINE k == SEGMENT \div S
  <2>1. k \in Int /\ SEGMENT = S * k + 0
    BY ONLY <1>1, <1>2, S \in Nat \ {0}, DivMod
  <2> HIDE DEF k
  <2>2. SEGMENT = k * S /\ k * S \in Int
    BY <2>1, <1>1
  <2>3. 0 * S < k * S /\ 0 * S = 0
    BY <1>1, <2>2
  <2>4. 0 < k
    BY ONLY <2>1, <2>3, TimesOrder, S \in Nat \ {0}, 0 \in Int
  <2> QED BY <2>1, <2>2, <2>4 DEF k
<1> QED BY <1>1, <1>2 DEF SegmentSectors, SegmentParagraphs

(* What read_it asks for is legal, and ends on a sector of the segment.    *)
LEMMA SectorsLegal ==
  ASSUME LoaderInv
  PROVE  /\ SectorsToRead \in Nat \ {0} /\ sread + SectorsToRead <= SEC_PISTA
         /\ bx + SectorsToRead * SECTOR <= SEGMENT
         /\ \E c \in 1 .. SegmentSectors : bx + SectorsToRead * SECTOR = c * SECTOR
<1> DEFINE S == SECTOR
           K == SegmentSectors
           n == SectorsToRead
           left == SEC_PISTA - sread
<1>1. PICK b \in 0 .. K - 1 : bx = b * S
  BY DEF LoaderInv, SegmentSectors
<1>2. /\ S \in Nat \ {0} /\ K \in Nat \ {0} /\ SEGMENT = K * S
      /\ left \in Nat \ {0} /\ sread \in Nat /\ SEC_PISTA \in Nat /\ sread + left = SEC_PISTA
  BY BootConstants DEF LoaderInv
<1>3. n = IF left * S + bx <= SEGMENT THEN left ELSE (SEGMENT - bx) \div S
  BY DEF SectorsToRead
<1> HIDE DEF S, K, n, left
<1>4. left * S + bx = (left + b) * S /\ SEGMENT - bx = (K - b) * S + 0 /\ b \in Int
  BY <1>1, <1>2
<1>5. left * S + bx <= SEGMENT <=> left + b <= K
  BY <1>1, <1>2, <1>4, TimesOrder
<1>6. CASE left + b <= K
  <2>1. n = left /\ bx + n * S = (left + b) * S
    <3>1. n = left
      BY <1>3, <1>5, <1>6
    <3> QED BY <1>1, <1>2, <3>1
  <2>2. left + b \in 1 .. K
    BY <1>1, <1>2, <1>6
  <2>3. (left + b) * S <= SEGMENT
    BY <1>1, <1>2, <1>6, <2>2, TimesOrder
  <2> QED BY <1>2, <2>1, <2>2, <2>3 DEF S, K, n
<1>7. CASE ~(left + b <= K)
  <2>1. K - b \in 1 .. K /\ K - b < left
    BY <1>1, <1>2, <1>7
  <2>2. ((K - b) * S + 0) \div S = K - b
    BY <1>2, <2>1, ExactDiv
  <2>3. n = K - b
    BY <1>3, <1>4, <1>5, <1>7, <2>2
  <2>4. bx + n * S = K * S
    BY <1>1, <1>2, <2>3
  <2> QED BY <1>2, <2>1, <2>3, <2>4 DEF S, K, n
<1> QED BY <1>6, <1>7

LEMMA LegalReads == LoaderInv => BiosReadsLegal
BY SectorsLegal DEF BiosReadsLegal

(* A read moves both places by the sectors read.                           *)
LEMMA ReadAdvances ==
  ASSUME LoaderInv, ReadTrack
  PROVE  /\ LoaderInv' /\ Reached' = Reached + SectorsToRead * SECTOR
         /\ Reached \in Nat /\ Place \in Int
<1> DEFINE n == SectorsToRead
           q == 2 * track + head
           P == SEC_PISTA
           S == SECTOR
           K == SegmentSectors
           end == bx + n * S
<1>1. /\ n \in Nat \ {0} /\ sread + n <= P /\ end <= SEGMENT
      /\ \E c \in 1 .. K : end = c * S
  BY SectorsLegal
<1>2. PICK c \in 1 .. K : end = c * S
  BY <1>1
<1>3. PICK b \in 0 .. K - 1 : bx = b * S
  BY DEF LoaderInv, SegmentSectors
<1>4. /\ P \in Nat \ {0, 1} /\ S \in Nat \ {0} /\ K \in Nat \ {0} /\ SEGMENT = K * S
      /\ es \in Nat /\ track \in Nat /\ head \in {0, 1} /\ sread \in 0 .. P - 1
      /\ bx \in Nat /\ q \in Nat
  BY <1>3, BootConstants DEF LoaderInv
<1>5. /\ sread' = (sread + n) % P
      /\ head' = IF sread + n = P THEN 1 - head ELSE head
      /\ track' = IF sread + n = P /\ head = 1 THEN track + 1 ELSE track
      /\ bx' = end % SEGMENT /\ es' = es + end \div SEGMENT
  BY DEF ReadTrack
<1>6. /\ sread' \in 0 .. P - 1 /\ head' \in {0, 1} /\ track' \in Nat
      /\ Place' = Place + n /\ Place \in Int
  <2> HIDE DEF n, P, end
  <2>1. CASE sread + n = P
    <3>1. P % P = 0
      <4>1. 0 \in 0 .. P - 1 /\ P = 1 * P + 0
        BY <1>4
      <4> QED BY <1>4, <4>1, ExactDiv
    <3>2. sread' = 0 /\ head' \in {0, 1} /\ track' \in Nat
      BY <1>4, <1>5, <2>1, <3>1
    <3>3. 2 * track' + head' = q + 1
      BY <1>4, <1>5, <2>1
    <3>4. (q + 1) * P = q * P + P /\ q * P \in Int
      BY <1>4
    <3>5. Place' = (q + 1) * P + 0 - 1 /\ Place = q * P + sread - 1
      BY <3>2, <3>3 DEF Place, P
    <3> HIDE DEF q
    <3> QED BY <1>1, <1>4, <2>1, <3>2, <3>4, <3>5
  <2>2. CASE sread + n < P
    <3>1. (sread + n) % P = sread + n
      BY <1>1, <1>4, <2>2
    <3>2. sread' = sread + n /\ head' = head /\ track' = track
      BY <1>1, <1>4, <1>5, <2>2, <3>1
    <3>3. Place' = q * P + sread' - 1 /\ Place = q * P + sread - 1 /\ q * P \in Int
      BY <1>4, <3>2 DEF Place, P
    <3> HIDE DEF q
    <3> QED BY <1>1, <1>4, <2>2, <3>2, <3>3
  <2> QED BY <1>1, <1>4, <2>1, <2>2
<1>7. /\ es' \in Nat /\ Reached' = Reached + n * S /\ Reached \in Nat /\ n * S \in Int
      /\ \E d \in 0 .. K - 1 : bx' = d * S
  <2>1. n * S \in Int /\ es * SEGMENT \in Nat /\ end \in Int /\ end = bx + n * S
    BY <1>1, <1>4
  <2>2. Reached = es * SEGMENT + bx /\ Reached' = es' * SEGMENT + bx'
    BY BootConstants DEF Reached
  <2> HIDE DEF n, end, P, q
  <2>3. CASE end = SEGMENT
    <3>1. SEGMENT \div SEGMENT = 1 /\ SEGMENT % SEGMENT = 0
      <4>1. 0 \in 0 .. SEGMENT - 1 /\ SEGMENT = 1 * SEGMENT + 0 /\ SEGMENT \in Nat \ {0}
        BY BootConstants
      <4> QED BY <4>1, ExactDiv
    <3>2. es' = es + 1 /\ bx' = 0 /\ 0 = 0 * S
      BY <1>4, <1>5, <2>3, <3>1
    <3>3. (es + 1) * SEGMENT = es * SEGMENT + SEGMENT
      BY <1>4, BootConstants
    <3> QED BY <1>4, <2>1, <2>2, <2>3, <3>2, <3>3
  <2>4. CASE end < SEGMENT
    <3>1. end \div SEGMENT = 0 /\ end % SEGMENT = end
      <4>1. end \in 0 .. SEGMENT - 1 /\ end = 0 * SEGMENT + end /\ SEGMENT \in Nat \ {0}
        BY <1>1, <1>2, <1>4, <2>1, <2>4, BootConstants
      <4> QED BY <4>1, ExactDiv
    <3>2. es' = es /\ bx' = end
      BY <1>4, <1>5, <3>1
    <3>3. c < K
      BY <1>2, <1>4, <2>4, TimesOrder
    <3>4. c \in 0 .. K - 1
      BY <1>2, <1>4, <3>3
    <3>5. /\ Reached = es * SEGMENT + bx /\ Reached' = es * SEGMENT + (bx + n * S)
          /\ es * SEGMENT \in Nat /\ bx \in Nat /\ n * S \in Int
      BY ONLY <1>4, <2>1, <2>2, <3>2
    <3>6. Reached \in Nat /\ Reached' = Reached + n * S
      BY ONLY <3>5
    <3>7. \E d \in 0 .. K - 1 : bx' = d * S
      BY ONLY <1>2, <3>2, <3>4
    <3> QED BY ONLY <1>4, <2>1, <3>2, <3>6, <3>7
  <2> QED BY <1>1, <1>4, <2>1, <2>3, <2>4, BootConstants
<1>8. Reached' = Place' * S
  <2>1. Reached = Place * S /\ (Place + n) * S = Place * S + n * S
    BY <1>1, <1>4, <1>6, TimesOrder DEF LoaderInv
  <2> QED BY <1>6, <1>7, <2>1
<1> QED BY <1>6, <1>7, <1>8 DEF LoaderInv, SegmentSectors

(* It brings the bytes of the image to where they belong, and leaves the   *)
(* others alone.                                                           *)
LEMMA ReadLoads ==
  ASSUME LoaderInv, ReadTrack, image.out = SECTOR + ImageSize, ImageSize \in Nat,
         \A b \in 0 .. ImageSize - 1 : b < Reached => InMemory(b)
  PROVE  \A b \in 0 .. ImageSize - 1 : b < Reached' => InMemory(b)'
<1> DEFINE n     == SectorsToRead
           first == Place * SECTOR
           last  == first + n * SECTOR
           to    == KERNEL_START + es * SEGMENT + bx
           new   == [p \in {to + b - first : b \in OnDisk(n)} |-> first + p - to]
<1>1. /\ n \in Nat \ {0} /\ n * SECTOR \in Int /\ first \in Nat /\ Reached = first
      /\ to = KERNEL_START + first /\ KERNEL_START \in Nat /\ Reached' = last /\ last \in Int
  <2>1. n \in Nat \ {0} /\ Reached' = Reached + n * SECTOR /\ Reached = first /\ Reached \in Nat
    BY ReadAdvances, SectorsLegal DEF LoaderInv
  <2>2. to = KERNEL_START + Reached /\ KERNEL_START \in Nat /\ n * SECTOR \in Int
    <3>1. bx \in Nat /\ es * SEGMENT \in Nat
      <4>1. PICK b \in 0 .. SegmentSectors - 1 : bx = b * SECTOR
        BY DEF LoaderInv, SegmentSectors
      <4> QED BY <4>1, BootConstants DEF LoaderInv
    <3> QED BY <2>1, <3>1, BootConstants DEF Reached, KERNEL_START
  <2> HIDE DEF n, first, to
  <2> QED BY <2>1, <2>2
<1>2. \A b : b \in OnDisk(n) <=> b \in first .. last - 1 /\ b < ImageSize
  <2>1. image.out - SECTOR = ImageSize
    BY BootConstants
  <2>2. OnDisk(n) = {b \in first .. first + n * SECTOR - 1 : b < image.out - SECTOR}
    <3> HIDE DEF n
    <3> QED BY DEF OnDisk, Place
  <2>3. first + n * SECTOR - 1 = last - 1
    <3> DEFINE m == n * SECTOR
    <3>1. m \in Int /\ first \in Int
      BY <1>1
    <3>2. last = first + m
      OBVIOUS
    <3> HIDE DEF m, first, last
    <3>3. first + m - 1 = last - 1
      BY <3>1, <3>2
    <3> QED BY <3>3 DEF m
  <2> HIDE DEF n, first, last
  <2> HIDE DEF n, first, last
  <2> QED BY <2>1, <2>2, <2>3
<1>3. mem' = Written(new) /\ image' = image
  BY DEF ReadTrack, Place
<1> HIDE DEF n, first, last, to
<1>4. ASSUME NEW b \in 0 .. ImageSize - 1, b < last
      PROVE  KERNEL_START + b \in DOMAIN mem' /\ mem'[KERNEL_START + b] = b
  <2>1. CASE b < first
    <3>1. KERNEL_START + b \in DOMAIN mem /\ mem[KERNEL_START + b] = b
      BY <1>1, <2>1 DEF InMemory
    <3>2. KERNEL_START + b \notin DOMAIN new
      BY <1>1, <1>2, <2>1
    <3> HIDE DEF new
    <3> QED BY <1>3, <3>1, <3>2 DEF Written
  <2>2. CASE first <= b
    <3>1. b \in OnDisk(n) /\ KERNEL_START + b = to + b - first
      BY <1>1, <1>2, <1>4, <2>2
    <3>2. KERNEL_START + b \in DOMAIN new /\ new[KERNEL_START + b] = b
      BY <1>1, <1>4, <2>2, <3>1
    <3> HIDE DEF new
    <3> QED BY <1>3, <3>2 DEF Written
  <2> QED BY <1>1, <2>1, <2>2
<1>5. ASSUME NEW b PROVE InMemory(b)' <=> KERNEL_START + b \in DOMAIN mem' /\ mem'[KERNEL_START + b] = b
  BY DEF InMemory, KERNEL_START
<1>6. ImageSize' = ImageSize
  BY <1>3 DEF ImageSize
<1> QED BY <1>1, <1>4, <1>5, <1>6

-----------------------------------------------------------------------------
(* The frames of a set of user pages are the next free ones, in order.     *)
LEMMA NextFrames ==
  ASSUME NEW m \in Nat, NEW n \in Nat, NEW cf \in Allocations(Marked(m), n)
  PROVE  \A i \in 1 .. n : cf[i] = NUM_PAG_KERNEL + 2 * (m + i - 1)
<1> DEFINE N == NUM_PAG_KERNEL
           free == FreeFrames(Marked(m))
           bad == {i \in 1 .. n : cf[i] # N + 2 * (m + i - 1)}
<1>1. N \in Nat /\ TOTAL_PAGES \in Nat
  BY ProcAssumption
<1>2. /\ cf \in [1 .. n -> free]
      /\ \A i, j \in 1 .. n : i < j => cf[i] < cf[j]
      /\ \A i \in 1 .. n, f \in free : f < cf[i] => \E j \in 1 .. n : cf[j] = f
  BY DEF Allocations, Range
<1>3. ASSUME NEW f \in free PROVE \E j \in Nat : f = N + 2 * j /\ j >= m
  <2>1. f \in N .. TOTAL_PAGES - 1 /\ (f - N) % 2 = 0 /\ f \notin Marked(m)
    BY DEF FreeFrames, Allocatable
  <2> DEFINE j == (f - N) \div 2
  <2>2. j \in Int /\ f - N = 2 * j
    <3> DEFINE x == f - N
    <3>1. x \in Int /\ x % 2 = 0
      BY <1>1, <2>1
    <3> HIDE DEF x
    <3>2. x \div 2 \in Int /\ x = 2 * (x \div 2)
      BY <3>1
    <3> QED BY <3>2 DEF x
  <2> HIDE DEF j
  <2>3. j \in Nat /\ f = N + 2 * j
    BY <1>1, <2>1, <2>2
  <2>4. ~(j < m)
    BY <2>1, <2>3 DEF Marked
  <2> QED BY <2>3, <2>4
<1>4. ASSUME NEW j \in Nat, j >= m, N + 2 * j < TOTAL_PAGES PROVE N + 2 * j \in free
  <2>1. ((N + 2 * j) - N) % 2 = 0 /\ N + 2 * j \in N .. TOTAL_PAGES - 1
    BY <1>1, <1>4
  <2>2. N + 2 * j \notin Marked(m)
    BY <1>1, <1>4 DEF Marked
  <2> QED BY <2>1, <2>2 DEF FreeFrames, Allocatable
<1> HIDE DEF free, N
<1>5. bad = {}
  <2>1. SUFFICES ASSUME bad # {} PROVE FALSE
    OBVIOUS
  <2>2. PICK i \in bad : \A k \in bad : i <= k
    <3>1. bad \in SUBSET Nat
      OBVIOUS
    <3> HIDE DEF bad
    <3> QED BY ONLY <2>1, <3>1, LeastElement
  <2> DEFINE f == N + 2 * (m + i - 1)
  <2>3. i \in 1 .. n /\ cf[i] # f /\ \A k \in 1 .. n : k < i => cf[k] = N + 2 * (m + k - 1)
    BY <2>2
  <2>4. PICK j \in Nat : cf[i] = N + 2 * j /\ j >= m
    BY <1>2, <1>3, <2>3
  <2>5. j >= m + i - 1
    <3>1. CASE i = 1
      BY <2>4, <3>1
    <3>2. CASE i # 1
      <4>1. i - 1 \in 1 .. n /\ i - 1 < i
        BY <2>3, <3>2
      <4>2. cf[i - 1] = N + 2 * (m + (i - 1) - 1) /\ cf[i - 1] < cf[i]
        BY <1>2, <2>3, <4>1
      <4> QED BY <1>1, <2>3, <2>4, <4>2
    <3> QED BY <3>1, <3>2
  <2>6. m + i - 1 \in Nat /\ m + i - 1 >= m /\ f < cf[i] /\ f \in Nat
    BY <1>1, <2>3, <2>4, <2>5
  <2>7. cf[i] < TOTAL_PAGES
    <3>1. cf[i] \in free
      BY <1>2, <2>3
    <3>2. cf[i] \in N .. TOTAL_PAGES - 1
      BY <3>1 DEF free, FreeFrames, Allocatable, N
    <3> QED BY <1>1, <3>2
  <2>8. f < TOTAL_PAGES
    BY <1>1, <2>4, <2>6, <2>7
  <2>9. f \in free
    BY <1>4, <2>6, <2>8
  <2>10. PICK k \in 1 .. n : cf[k] = f
    BY <1>2, <2>3, <2>6, <2>9
  <2>11. k < i
    <3>1. ~(i < k) /\ k # i
      BY <1>1, <1>2, <2>3, <2>4, <2>6, <2>10
    <3> QED BY <2>3, <3>1
  <2>12. cf[k] = N + 2 * (m + k - 1)
    BY <2>3, <2>11
  <2> QED BY <1>1, <2>3, <2>10, <2>11, <2>12
<1> QED BY <1>5 DEF N

LEMMA MarkedIs ==
  ASSUME NEW n \in Nat, NEW f
  PROVE  f \in Marked(n) <=> \/ f \in 0 .. NUM_PAG_KERNEL - 1
                             \/ \E j \in Nat : j < n /\ f = NUM_PAG_KERNEL + 2 * j
<1>1. \A j : j \in 0 .. n - 1 <=> j \in Nat /\ j < n
  OBVIOUS
<1> QED BY <1>1 DEF Marked

LEMMA SubSeqOf ==
  ASSUME NEW n \in Nat, NEW S, NEW f \in [1 .. n -> S], NEW a \in 1 .. n + 1, NEW b \in 0 .. n,
         a <= b + 1
  PROVE  SubSeq(f, a, b) = [i \in 1 .. b - a + 1 |-> f[a + i - 1]]
<1>1. f \in Seq(S) /\ Len(f) = n
  OBVIOUS
<1> QED BY <1>1

(* set_user_pages() with the frames of the k sets before it marked.        *)
LEMMA UserPagesSet ==
  ASSUME NEW k \in {0, 1}, NEW d, phys_mem = Marked(k * UserPages), SetUserPages(d)
  PROVE  /\ phys_mem' = Marked((k + 1) * UserPages)
         /\ code' = [code EXCEPT ![d] = CodePages(k)]
         /\ data' = [data EXCEPT ![d] = DataPages(k)]
<1>1. NUM_PAG_CODE \in Nat /\ NUM_PAG_DATA \in Nat \ {0} /\ NUM_PAG_KERNEL \in Nat
      /\ UserPages = NUM_PAG_CODE + NUM_PAG_DATA /\ UserPages \in Nat /\ k * UserPages \in Nat
      /\ (k + 1) * UserPages = k * UserPages + UserPages
  BY ProcAssumption DEF UserPages
<1>2. PICK cf \in Allocations(phys_mem, UserPages) :
        /\ phys_mem' = phys_mem \cup Range(cf)
        /\ code' = [code EXCEPT ![d] = SubSeq(cf, 1, NUM_PAG_CODE)]
        /\ data' = [data EXCEPT ![d] = SubSeq(cf, NUM_PAG_CODE + 1, UserPages)]
  BY DEF SetUserPages
<1>3. \A i \in 1 .. UserPages : cf[i] = UserFrame(k, i)
  <2>1. \A i \in 1 .. UserPages : cf[i] = NUM_PAG_KERNEL + 2 * (k * UserPages + i - 1)
    BY <1>1, <1>2, NextFrames
  <2> QED BY <2>1 DEF UserFrame
<1>4. cf \in [1 .. UserPages -> FreeFrames(phys_mem)]
  BY <1>2 DEF Allocations
<1>5. SubSeq(cf, 1, NUM_PAG_CODE) = CodePages(k)
  <2>1. SubSeq(cf, 1, NUM_PAG_CODE) = [i \in 1 .. NUM_PAG_CODE - 1 + 1 |-> cf[1 + i - 1]]
    BY <1>1, <1>4, SubSeqOf
  <2>2. NUM_PAG_CODE - 1 + 1 = NUM_PAG_CODE
        /\ \A i \in 1 .. NUM_PAG_CODE : cf[1 + i - 1] = UserFrame(k, i)
    BY <1>1, <1>3
  <2> QED BY <2>1, <2>2 DEF CodePages
<1>6. SubSeq(cf, NUM_PAG_CODE + 1, UserPages) = DataPages(k)
  <2>1. SubSeq(cf, NUM_PAG_CODE + 1, UserPages)
          = [i \in 1 .. UserPages - (NUM_PAG_CODE + 1) + 1 |-> cf[NUM_PAG_CODE + 1 + i - 1]]
    BY <1>1, <1>4, SubSeqOf
  <2>2. UserPages - (NUM_PAG_CODE + 1) + 1 = NUM_PAG_DATA
    BY <1>1
  <2>3. ASSUME NEW i \in 1 .. NUM_PAG_DATA
        PROVE  cf[NUM_PAG_CODE + 1 + i - 1] = BootFrame(k, i)
    <3>1. NUM_PAG_CODE + 1 + i - 1 = NUM_PAG_CODE + i /\ NUM_PAG_CODE + i \in 1 .. UserPages
      BY <1>1
    <3>2. cf[NUM_PAG_CODE + i] = UserFrame(k, NUM_PAG_CODE + i)
      BY <1>3, <3>1
    <3>3. UserFrame(k, NUM_PAG_CODE + i) = BootFrame(k, i)
      BY <1>1 DEF UserFrame, BootFrame
    <3> QED BY <3>1, <3>2, <3>3
  <2> QED BY <2>1, <2>2, <2>3 DEF DataPages
<1>7. phys_mem \cup Range(cf) = Marked((k + 1) * UserPages)
  <2> DEFINE m == k * UserPages
             N == NUM_PAG_KERNEL
  <2>1. m \in Nat /\ Marked((k + 1) * UserPages) = Marked(m + UserPages)
        /\ \A i \in 1 .. UserPages : cf[i] = N + 2 * (m + i - 1)
    BY <1>1, <1>3 DEF UserFrame
  <2>2. \A f : f \in Range(cf) <=> \E i \in 1 .. UserPages : f = cf[i]
    BY <1>4 DEF Range
  <2>3. phys_mem = Marked(m)
    BY DEF m
  <2> HIDE DEF m, N
  <2>4. ASSUME NEW f
        PROVE  f \in Range(cf) <=> \E j \in Nat : m <= j /\ j < m + UserPages /\ f = N + 2 * j
    <3>1. ASSUME NEW i \in 1 .. UserPages
          PROVE  m + i - 1 \in Nat /\ m <= m + i - 1 /\ m + i - 1 < m + UserPages
      BY <1>1, <2>1
    <3>2. ASSUME NEW j \in Nat, m <= j, j < m + UserPages
          PROVE  \E i \in 1 .. UserPages : m + i - 1 = j
      <4>1. j - m + 1 \in 1 .. UserPages /\ m + (j - m + 1) - 1 = j
        BY <1>1, <2>1, <3>2
      <4> QED BY <4>1
    <3> QED BY <2>1, <2>2, <3>1, <3>2
  <2>5. ASSUME NEW f PROVE f \in Marked(m) \cup Range(cf) <=> f \in Marked(m + UserPages)
    <3>1. f \in Marked(m) <=> f \in 0 .. N - 1 \/ \E j \in Nat : j < m /\ f = N + 2 * j
      BY <2>1, MarkedIs DEF N
    <3>2. f \in Marked(m + UserPages)
            <=> f \in 0 .. N - 1 \/ \E j \in Nat : j < m + UserPages /\ f = N + 2 * j
      BY <1>1, <2>1, MarkedIs DEF N
    <3>3. \A j \in Nat : j < m + UserPages <=> j < m \/ (m <= j /\ j < m + UserPages)
      BY <1>1, <2>1
    <3> QED BY <2>4, <3>1, <3>2, <3>3
  <2>6. Marked(m) \cup Range(cf) = Marked(m + UserPages)
    BY ONLY <2>5
  <2> QED BY <2>1, <2>3, <2>6
<1> QED BY <1>2, <1>5, <1>6, <1>7

LEMMA DownFrom ==
  ASSUME NEW n \in Nat \ {0}
  PROVE  /\ Head([i \in 1 .. n |-> n - i]) = n - 1
         /\ Tail([i \in 1 .. n |-> n - i]) = [i \in 1 .. n - 1 |-> (n - 1) - i]
<1> DEFINE f == [i \in 1 .. n |-> n - i]
<1>1. f \in Seq(Int) /\ Len(f) = n /\ f[1] = n - 1
  OBVIOUS
<1>2. Len(Tail(f)) = n - 1 /\ \A i \in 1 .. n - 1 : Tail(f)[i] = f[i + 1]
  BY <1>1
<1>3. \A i \in 1 .. n - 1 : f[i + 1] = (n - 1) - i
  OBVIOUS
<1>4. Tail(f) \in [1 .. n - 1 -> Int]
  <2> HIDE DEF f
  <2>1. f # << >>
    BY <1>1
  <2> DEFINE g == Tail(f)
  <2>2. g \in Seq(Int) /\ Len(g) = n - 1
    BY <1>1, <1>2, <2>1
  <2> HIDE DEF g
  <2>3. g \in [1 .. n - 1 -> Int]
    BY <2>2
  <2> QED BY <2>3 DEF g
<1>5. Head(f) = f[1]
  BY <1>1
<1> HIDE DEF f
<1> QED BY <1>1, <1>2, <1>3, <1>4, <1>5 DEF f

(* init_idle() and init_task1() take the highest slots.                    *)
LEMMA SlotTaken ==
  ASSUME NEW n \in Nat \ {0}, FreeSlots(n), NEW pid, TakeSlot(pid)
  PROVE  /\ Head(queue[freequeue]) = n - 1 /\ FreeSlots(n - 1)'
         /\ PID' = [PID EXCEPT ![n - 1] = pid]
         /\ dir' = [dir EXCEPT ![n - 1] = AllocateDIR]
         /\ dir_references' = [dir_references EXCEPT ![AllocateDIR] = @ + 1]
<1>1. freequeue \in Queues
  BY DEF Queues
<1>2. queue[freequeue] = [i \in 1 .. n |-> n - i] /\ queue \in [Queues -> {queue[l] : l \in Queues}]
  BY <1>1 DEF FreeSlots
<1>3. /\ Head(queue[freequeue]) = n - 1
      /\ Tail(queue[freequeue]) = [i \in 1 .. n - 1 |-> (n - 1) - i]
  BY <1>2, DownFrom
<1>4. queue' = [queue EXCEPT ![freequeue] = [i \in 1 .. n - 1 |-> (n - 1) - i]]
  BY <1>3 DEF TakeSlot
<1>5. FreeSlots(n - 1)'
  BY <1>1, <1>4 DEF FreeSlots
<1> QED BY <1>3, <1>5 DEF TakeSlot

LEMMA FirstDirectory ==
  ASSUME NEW d \in Dirs, dir_references[d] = 0, \A e \in Dirs : e < d => dir_references[e] # 0
  PROVE  AllocateDIR = d
<1> DEFINE Least(x) == dir_references[x] = 0 /\ \A e \in Dirs : dir_references[e] = 0 => x <= e
<1>1. \A x \in Dirs : x \in Int
  BY SchedAssumption DEF Dirs
<1>2. Least(d)
  BY <1>1
<1>3. \A x \in Dirs : Least(x) => x = d
  <2>1. ASSUME NEW x \in Dirs, Least(x) PROVE x = d
    <3>1. x <= d /\ ~(x < d)
      BY <2>1
    <3> QED BY <1>1, <3>1
  <2> QED BY <2>1
<1>4. AllocateDIR = CHOOSE x \in Dirs : Least(x)
  BY DEF AllocateDIR
<1> HIDE DEF Least
<1> QED BY <1>2, <1>3, <1>4

-----------------------------------------------------------------------------
LEMMA BootInitHolds == BootInit => BInv
<1> SUFFICES ASSUME BootInit PROVE BInv
  OBVIOUS
<1> USE DEF BootInit
<1>1. ImageInv
  <2>1. SysSizes \subseteq Nat \ {0} /\ UsrSizes \subseteq Nat \ {0}
    BY BootAssumption
  <2>2. image \in [sys : SysSizes, usr : UsrSizes, out : {0}, im_size : {0}] /\ stage = "make"
    OBVIOUS
  <2>3. image \in [sys : Nat \ {0}, usr : Nat \ {0}, out : Nat, im_size : Nat]
    <3>1. /\ image = [sys |-> image.sys, usr |-> image.usr, out |-> image.out, im_size |-> image.im_size]
          /\ image.sys \in SysSizes /\ image.usr \in UsrSizes
          /\ image.out = 0 /\ image.im_size = 0
      BY ONLY <2>2
    <3>2. image.sys \in Nat \ {0} /\ image.usr \in Nat \ {0}
      BY ONLY <2>1, <3>1
    <3> QED BY ONLY <3>1, <3>2
  <2> QED BY ONLY <2>2, <2>3 DEF ImageInv, Unbuilt
<1>2. LoaderInv
  <2>1. 0 = 0 * SECTOR /\ 0 \in 0 .. SegmentSectors - 1
    BY BootConstants
  <2>2. Reached = 0 /\ Place = 0
    BY BootConstants DEF Reached, Place
  <2> QED BY <2>1, <2>2, BootConstants DEF LoaderInv, SegmentSectors
<1>3. PlacedInv
  <2>1. Reached = 0
    BY BootConstants DEF Reached
  <2>2. ASSUME NEW b \in 0 .. ImageSize - 1 PROVE ~(b < Reached)
    BY <2>1
  <2> QED BY <2>2 DEF PlacedInv, Unbuilt, Unentered, Cold, Unready, Uncopied
<1>4. MainInv
  BY DEF MainInv, BootNullMapped, Unbuilt, Unentered, Cold, Unready
<1> QED BY <1>1, <1>2, <1>3, <1>4 DEF BInv, Stages, Uncopied, Unready, Cold, Unentered, Unbuilt

LEMMA LoaderStays == ASSUME LoaderInv, UNCHANGED diskVars PROVE LoaderInv' /\ Reached' = Reached
BY DEF LoaderInv, Reached, Place, diskVars

(* While the kernel has not begun, its state is as the machine's.          *)
LEMMA ColdStays ==
  ASSUME MainInv, UNCHANGED <<vars, code, esp0>>, stage \in Cold, stage' \in Cold
  PROVE  MainInv'
BY DEF MainInv, vars, schedVars, procVars, BootNullMapped, Cold, Unentered, Unbuilt, Unready

LEMMA BuildKeeps == ASSUME BInv, Build PROVE BInv'
<1>1. PICK next, out, im_size : Built(next, out, im_size)
  BY DEF Build, CopyBootSector, CopySystem, CopyUser, WriteSizes, Die
<1>2. /\ stage' = next /\ image' = [image EXCEPT !.out = out, !.im_size = im_size]
      /\ UNCHANGED <<vars, diskVars, mem, code, esp0>>
  BY <1>1 DEF Built
<1>3. /\ stage \in {"make", "sector", "system", "copied"}
      /\ stage' \in {"sector", "system", "copied", "built", "died"}
  BY DEF Build, CopyBootSector, CopySystem, CopyUser, WriteSizes, Die, Built
<1>4. /\ image \in [sys : Nat \ {0}, usr : Nat \ {0}, out : Nat, im_size : Nat]
      /\ ImageSize \in Nat /\ SECTOR \in Nat
  BY BootConstants DEF BInv, ImageInv, ImageSize
<1>5. /\ image' \in [sys : Nat \ {0}, usr : Nat \ {0}, out : Nat, im_size : Nat]
      /\ image'.sys = image.sys /\ image'.usr = image.usr
      /\ stage' = "copied" => image'.out = SECTOR + ImageSize
      /\ stage' = "built" => /\ image'.out = SECTOR + ImageSize
                             /\ image'.im_size = ((ImageSize + PARAGRAPH - 1) \div PARAGRAPH) % Words
  <2>1. \A o \in Nat, z \in Nat :
          LET r == [image EXCEPT !.out = o, !.im_size = z]
          IN  /\ r \in [sys : Nat \ {0}, usr : Nat \ {0}, out : Nat, im_size : Nat]
              /\ r.sys = image.sys /\ r.usr = image.usr /\ r.out = o /\ r.im_size = z
    BY <1>4
  <2>2. CASE CopyBootSector
    BY <1>4, <2>1, <2>2 DEF CopyBootSector, Built
  <2>3. CASE CopySystem
    <3>1. /\ SECTOR + image.sys \in Nat /\ 0 \in Nat /\ stage' = "system"
          /\ image' = [image EXCEPT !.out = SECTOR + image.sys, !.im_size = 0]
      BY <1>4, <2>3 DEF CopySystem, Built
    <3> QED BY <2>1, <3>1
  <2>4. CASE CopyUser
    <3>1. /\ SECTOR + ImageSize \in Nat /\ 0 \in Nat /\ stage' = "copied"
          /\ image' = [image EXCEPT !.out = SECTOR + ImageSize, !.im_size = 0]
      BY <1>4, <2>4 DEF CopyUser, Built
    <3> QED BY <2>1, <3>1
  <2>5. CASE WriteSizes
    <3> DEFINE z == ((ImageSize + PARAGRAPH - 1) \div PARAGRAPH) % Words
    <3>1. z \in Nat
      <4> DEFINE y == (ImageSize + PARAGRAPH - 1) \div PARAGRAPH
      <4>1. y \in Int
        BY <1>4, BootConstants
      <4> HIDE DEF y
      <4>2. y % Words \in Nat
        BY <4>1, BootConstants
      <4> QED BY <4>2 DEF y
    <3>2. stage = "copied" /\ stage' = "built" /\ image.out = SECTOR + ImageSize
          /\ image' = [image EXCEPT !.out = image.out, !.im_size = z]
      BY <2>5 DEF WriteSizes, Built, BInv, ImageInv
    <3> HIDE DEF z
    <3>3. image'.out = image.out /\ image'.im_size = z
          /\ image' \in [sys : Nat \ {0}, usr : Nat \ {0}, out : Nat, im_size : Nat]
          /\ image'.sys = image.sys /\ image'.usr = image.usr
      BY <1>4, <2>1, <3>1, <3>2
    <3> QED BY <3>2, <3>3 DEF z
  <2>6. CASE Die
    BY <1>4, <2>1, <2>6 DEF Die, Built
  <2> QED BY <2>2, <2>3, <2>4, <2>5, <2>6 DEF Build
<1>6. ImageSize' = ImageSize
  BY <1>5 DEF ImageSize
<1>7. ImageInv'
  BY <1>3, <1>5, <1>6 DEF ImageInv, Unbuilt
<1>8. LoaderInv' /\ Reached' = Reached
  BY <1>2, LoaderStays DEF BInv
<1>9. stage \in Unentered /\ stage' \in Unentered
  BY <1>3 DEF Unentered, Unbuilt
<1>10. PlacedInv'
  BY <1>2, <1>6, <1>8, <1>9 DEF BInv, PlacedInv, Unready, Cold, Uncopied, InMemory, KERNEL_START
<1>11. MainInv'
  BY <1>2, <1>9, ColdStays DEF BInv, Cold
<1> QED BY <1>7, <1>8, <1>9, <1>10, <1>11 DEF BInv, Stages, Uncopied, Unready, Cold

LEMMA ImageStays ==
  ASSUME ImageInv, UNCHANGED image, stage \notin Unbuilt, stage' \notin Unbuilt
  PROVE  ImageInv' /\ ImageSize' = ImageSize /\ (Fits <=> Fits')
<1>1. stage # "copied" /\ stage' # "copied"
  BY DEF Unbuilt
<1> QED BY <1>1 DEF ImageInv, ImageSize, Fits

LEMMA ReadKeeps == ASSUME BInv, ReadTrack PROVE BInv'
<1>1. /\ stage = "built" /\ stage' = "built" /\ UNCHANGED <<vars, image, code, esp0>>
  BY DEF ReadTrack, Loading
<1>2. stage \in Unentered /\ stage \notin Unbuilt /\ stage \in Cold /\ stage \in Uncopied /\ stage \in Stages
  BY <1>1 DEF Unbuilt, Unentered, Cold, Unready, Uncopied, Stages
<1>3. ImageInv' /\ image.out = SECTOR + ImageSize /\ ImageSize \in Nat
  BY <1>1, <1>2, ImageStays DEF BInv, ImageInv, ImageSize
<1>4. LoaderInv'
  BY ReadAdvances DEF BInv
<1>5. \A b \in 0 .. ImageSize - 1 : b < Reached => InMemory(b)
  BY <1>2 DEF BInv, PlacedInv
<1>6. \A b \in 0 .. ImageSize - 1 : b < Reached' => InMemory(b)'
  BY <1>3, <1>5, ReadLoads DEF BInv
<1>7. ImageSize' = ImageSize
  BY <1>1 DEF ImageSize
<1>8. PlacedInv'
  BY <1>1, <1>2, <1>6, <1>7 DEF PlacedInv
<1>9. MainInv'
  BY <1>1, <1>2, ColdStays DEF BInv
<1> QED BY <1>1, <1>2, <1>3, <1>4, <1>8, <1>9 DEF BInv

LEMMA OverwriteKeeps == ASSUME BInv, Overwrite PROVE BInv'
<1>1. /\ stage = "built" /\ stage' = "overwritten"
      /\ UNCHANGED <<vars, image, diskVars, mem, code, esp0>>
  BY DEF Overwrite, Loading
<1>2. /\ stage \in Unentered /\ stage \notin Unbuilt /\ stage \in Cold /\ stage \in Uncopied
      /\ stage' \in Unentered /\ stage' \notin Unbuilt /\ stage' \in Cold /\ stage' \in Uncopied
      /\ stage' \in Stages
  BY <1>1 DEF Unbuilt, Unentered, Cold, Unready, Uncopied, Stages
<1>3. ImageInv' /\ ImageSize' = ImageSize
  BY <1>1, <1>2, ImageStays DEF BInv
<1>4. LoaderInv' /\ Reached' = Reached
  BY <1>1, LoaderStays DEF BInv
<1>5. PlacedInv'
  BY <1>1, <1>2, <1>3, <1>4 DEF BInv, PlacedInv, InMemory, KERNEL_START
<1>6. MainInv'
  BY <1>1, <1>2, ColdStays DEF BInv
<1> QED BY <1>2, <1>3, <1>4, <1>5, <1>6 DEF BInv

(* The size the builder has written is the image's when the image fits,    *)
(* so the loader stops behind the image.                                   *)
LEMMA StopsBehind ==
  ASSUME BInv, stage = "built", ~Loading, Fits
  PROVE  ImageSize <= Reached
<1> DEFINE P == PARAGRAPH
           Q == SegmentParagraphs
           z == (ImageSize + P - 1) \div P
<1>1. /\ P \in Nat \ {0} /\ Q \in Nat \ {0} /\ Words \in Nat \ {0} /\ INITSEG \in Nat \ {0}
      /\ SEGMENT = Q * P /\ INITSEG * Q <= Words /\ ImageSize \in Nat /\ es \in Nat /\ bx \in Nat
  <2>1. PICK b \in 0 .. SegmentSectors - 1 : bx = b * SECTOR
    BY DEF BInv, LoaderInv, SegmentSectors
  <2>2. bx \in Nat
    BY <2>1, BootConstants
  <2> QED BY <2>2, BootConstants DEF BInv, ImageInv, LoaderInv, ImageSize
<1>2. z < INITSEG * Q /\ image.im_size = z % Words /\ ~(es * Q <= image.im_size)
  BY DEF Fits, Loading, BInv, ImageInv, Unbuilt, SegmentParagraphs
<1> HIDE DEF P, Q
<1>3. z \in Nat /\ ImageSize <= z * P
  <2>1. ImageSize + P - 1 \in Nat
    BY <1>1
  <2>2. /\ z \in Int /\ (ImageSize + P - 1) % P \in 0 .. P - 1
        /\ ImageSize + P - 1 = P * z + ((ImageSize + P - 1) % P)
    BY <1>1, <2>1, DivMod
  <2>3. P * z = z * P /\ z * P \in Int
    BY <1>1, <2>2
  <2> HIDE DEF z
  <2>4. ImageSize <= z * P
    BY <1>1, <2>1, <2>2, <2>3
  <2>5. 0 * P <= z * P /\ 0 * P = 0
    BY <1>1, <2>3, <2>4
  <2>6. 0 <= z
    BY <1>1, <2>2, <2>5, TimesOrder
  <2> QED BY <2>2, <2>4, <2>6
<1> HIDE DEF z
<1>4. z < Words /\ INITSEG * Q \in Int
  BY <1>1, <1>2, <1>3
<1>5. z % Words = z
  BY <1>1, <1>3, <1>4
<1>6. z < es * Q /\ es * Q \in Int
  BY <1>1, <1>2, <1>3, <1>5
<1>7. z * P < (es * Q) * P /\ z * P \in Int /\ (es * Q) * P \in Int
  BY <1>1, <1>3, <1>6, TimesOrder
<1>8. (es * Q) * P = es * SEGMENT
  BY <1>1
<1> QED BY <1>1, <1>3, <1>7, <1>8 DEF Reached

LEMMA EnterKeeps == ASSUME BInv, EnterMain PROVE BInv'
<1>1. /\ stage = "built" /\ stage' = "main" /\ ~Loading
      /\ UNCHANGED <<vars, image, diskVars, mem, code>>
  BY DEF EnterMain
<1>2. /\ stage \notin Unbuilt /\ stage \in Cold /\ stage \in Uncopied
      /\ stage' \notin Unbuilt /\ stage' \in Cold /\ stage' \in Uncopied /\ stage' \in Stages
  BY <1>1 DEF Unbuilt, Unentered, Cold, Unready, Uncopied, Stages
<1>3. ImageInv' /\ ImageSize' = ImageSize /\ (Fits <=> Fits')
  BY <1>1, <1>2, ImageStays DEF BInv
<1>4. LoaderInv' /\ Reached' = Reached
  BY <1>1, LoaderStays DEF BInv
<1>5. PlacedInv'
  BY <1>1, <1>2, <1>3, <1>4, StopsBehind DEF BInv, PlacedInv, InMemory, KERNEL_START
<1>6. MainInv'
  BY <1>1, <1>2 DEF BInv, MainInv, vars, schedVars, procVars, BootNullMapped, Cold, Unentered, Unbuilt, Unready
<1> QED BY <1>2, <1>3, <1>4, <1>5, <1>6 DEF BInv

(* Until copy_data() main() leaves what the loader has made alone.         *)
LEMMA MainStep ==
  ASSUME BInv, UNCHANGED <<image, diskVars, mem>>, MainInv', stage' \in Stages,
         stage \in Uncopied, stage \notin Unentered, stage' \in Uncopied, stage' \notin Unentered
  PROVE  BInv'
<1>1. stage \notin Unbuilt /\ stage' \notin Unbuilt
  BY DEF Unentered
<1>2. ImageInv' /\ ImageSize' = ImageSize /\ (Fits <=> Fits')
  BY <1>1, ImageStays DEF BInv
<1>3. LoaderInv' /\ Reached' = Reached
  BY LoaderStays DEF BInv
<1>4. PlacedInv'
  BY <1>2, <1>3 DEF BInv, PlacedInv, InMemory, KERNEL_START
<1> QED BY <1>2, <1>3, <1>4 DEF BInv

LEMMA Slots ==
  /\ NR_TASKS \in Nat /\ NR_TASKS >= 6 /\ Tasks = 0 .. NR_TASKS - 1 /\ Dirs = 0 .. NR_TASKS - 1
  /\ IdleTask = NR_TASKS - 1 /\ Task1 = NR_TASKS - 2 /\ 0 \in Dirs /\ 1 \in Dirs
  /\ {0, BootSlot, Task1, IdleTask} \subseteq Tasks
BY SchedAssumption, BootAssumption DEF Tasks, Dirs, IdleTask, Task1, BootSlot

LEMMA InitMMKeeps == ASSUME BInv, InitMM PROVE BInv'
<1>1. /\ stage = "main" /\ stage' = "init_mm" /\ nullMapped' = BootNullMapped
      /\ phys_mem' = 0 .. NUM_PAG_KERNEL - 1
      /\ dir' = [dir EXCEPT ![0] = AllocateDIR] /\ dir_references' = [d \in Dirs |-> 0]
      /\ UNCHANGED <<schedVars, PID, nextPid, data, image, diskVars, mem, code, esp0>>
  BY DEF InitMM
<1>2. /\ stage \in Uncopied /\ stage \notin Unentered /\ stage \in Cold /\ stage \in Unready
      /\ stage' \in Stages /\ stage' \in Uncopied /\ stage' \notin Unentered
      /\ stage' \notin Cold /\ stage' \in Unready
  BY <1>1 DEF Unbuilt, Unentered, Cold, Unready, Uncopied, Stages
<1>3. /\ dir = [t \in Tasks |-> NoDir] /\ dir_references = [d \in Dirs |-> 0]
      /\ data = [d \in Dirs |-> << >>] /\ code = [d \in Dirs |-> << >>]
      /\ state = [t \in Tasks |-> ST_RUN] /\ current = BootSlot
      /\ PID = [t \in Tasks |-> 0] /\ nextPid = 0
      /\ quantum = [t \in Tasks |-> 0] /\ remaining_ticks = 0
  BY <1>1, <1>2 DEF BInv, MainInv
<1>4. AllocateDIR = 0
  BY <1>3, Slots, FirstDirectory
<1>5. dir' = [t \in Tasks |-> IF t = 0 THEN 0 ELSE NoDir]
  BY <1>1, <1>3, <1>4, Slots
<1>6. phys_mem' = Marked(0)
  <2>1. \A f : f \in Marked(0) <=> f \in 0 .. NUM_PAG_KERNEL - 1
    <3>1. \A j \in Nat : ~(j < 0)
      OBVIOUS
    <3> QED BY <3>1, MarkedIs
  <2> QED BY <1>1, <2>1
<1>7. MainInv'
  BY <1>1, <1>2, <1>3, <1>5, <1>6 DEF MainInv, schedVars, BootNullMapped, Marked, UserPages
<1> QED BY <1>1, <1>2, <1>7, MainStep

LEMMA MonoprocessKeeps == ASSUME BInv, monoprocess_init_addr_space PROVE BInv'
<1>1. /\ stage = "init_mm" /\ stage' = "monoprocess" /\ SetUserPages(dir[0])
      /\ UNCHANGED <<schedVars, PID, nextPid, dir, dir_references, nullMapped,
                     image, diskVars, mem, esp0>>
  BY DEF monoprocess_init_addr_space
<1>2. /\ stage \in Uncopied /\ stage \notin Unentered /\ stage \in Unready
      /\ stage' \in Stages /\ stage' \in Uncopied /\ stage' \notin Unentered
      /\ stage' \notin Cold /\ stage' \in Unready
  BY <1>1 DEF Unbuilt, Unentered, Cold, Unready, Uncopied, Stages
<1>3. /\ dir = [t \in Tasks |-> IF t = 0 THEN 0 ELSE NoDir] /\ dir_references = [d \in Dirs |-> 0]
      /\ data = [d \in Dirs |-> << >>] /\ code = [d \in Dirs |-> << >>] /\ phys_mem = Marked(0)
      /\ state = [t \in Tasks |-> ST_RUN] /\ current = BootSlot /\ nullMapped = BootNullMapped
      /\ PID = [t \in Tasks |-> 0] /\ nextPid = 0
      /\ quantum = [t \in Tasks |-> 0] /\ remaining_ticks = 0
  BY <1>1, <1>2 DEF BInv, MainInv
<1>4. /\ phys_mem' = Marked(UserPages)
      /\ code' = [code EXCEPT ![0] = CodePages(0)] /\ data' = [data EXCEPT ![0] = DataPages(0)]
  <2>1. UserPages \in Nat /\ 0 * UserPages = 0 /\ (0 + 1) * UserPages = UserPages
    BY ProcAssumption DEF UserPages
  <2>2. dir[0] = 0 /\ phys_mem = Marked(0 * UserPages) /\ 0 \in {0, 1}
    BY <1>3, <2>1, Slots
  <2>3. SetUserPages(0)
    BY <1>1, <2>2
  <2>4. /\ phys_mem' = Marked((0 + 1) * UserPages)
        /\ code' = [code EXCEPT ![0] = CodePages(0)] /\ data' = [data EXCEPT ![0] = DataPages(0)]
    BY <2>2, <2>3, UserPagesSet
  <2> QED BY <2>1, <2>4
<1>5. /\ data' = [d \in Dirs |-> IF d = 0 THEN DataPages(0) ELSE << >>]
      /\ code' = [d \in Dirs |-> IF d = 0 THEN CodePages(0) ELSE << >>]
  BY <1>3, <1>4, Slots
<1>6. MainInv'
  BY <1>1, <1>2, <1>3, <1>4, <1>5
     DEF MainInv, schedVars, BootNullMapped, Marked, UserPages, DataPages, CodePages, BootFrame, UserFrame
<1> QED BY <1>1, <1>2, <1>6, MainStep

LEMMA InitSchedKeeps == ASSUME BInv, InitSched PROVE BInv'
<1>1. /\ stage = "monoprocess" /\ stage' = "init_sched" /\ FreeSlots(NR_TASKS)'
      /\ UNCHANGED <<state, quantum, current, remaining_ticks, procVars,
                     image, diskVars, mem, code, esp0>>
  BY DEF InitSched, FreeSlots, Queues
<1>2. /\ stage \in Uncopied /\ stage \notin Unentered /\ stage \in Unready
      /\ stage' \in Stages /\ stage' \in Uncopied /\ stage' \notin Unentered
      /\ stage' \notin Cold /\ stage' \in Unready
  BY <1>1 DEF Unbuilt, Unentered, Cold, Unready, Uncopied, Stages
<1>3. MainInv'
  BY <1>1, <1>2 DEF BInv, MainInv, procVars, BootNullMapped, FreeSlots, Queues, Marked, UserPages,
                    DataPages, CodePages, BootFrame, UserFrame
<1> QED BY <1>1, <1>2, <1>3, MainStep

LEMMA InitIdleKeeps == ASSUME BInv, InitIdle PROVE BInv'
<1>1. /\ stage = "init_sched" /\ stage' = "init_idle" /\ TakeSlot(0)
      /\ UNCHANGED <<state, quantum, current, remaining_ticks, nextPid, cr3, phys_mem,
                     data, nullMapped, image, diskVars, mem, code, esp0>>
  BY DEF InitIdle
<1>2. /\ stage \in Uncopied /\ stage \notin Unentered /\ stage \in Unready
      /\ stage' \in Stages /\ stage' \in Uncopied /\ stage' \notin Unentered
      /\ stage' \notin Cold /\ stage' \in Unready
  BY <1>1 DEF Unbuilt, Unentered, Cold, Unready, Uncopied, Stages
<1>3. /\ dir = [t \in Tasks |-> IF t = 0 THEN 0 ELSE NoDir] /\ dir_references = [d \in Dirs |-> 0]
      /\ data = [d \in Dirs |-> IF d = 0 THEN DataPages(0) ELSE << >>]
      /\ code = [d \in Dirs |-> IF d = 0 THEN CodePages(0) ELSE << >>]
      /\ phys_mem = Marked(UserPages) /\ FreeSlots(NR_TASKS)
      /\ state = [t \in Tasks |-> ST_RUN] /\ current = BootSlot /\ nullMapped = BootNullMapped
      /\ PID = [t \in Tasks |-> 0] /\ nextPid = 0
      /\ quantum = [t \in Tasks |-> 0] /\ remaining_ticks = 0
  BY <1>1, <1>2 DEF BInv, MainInv
<1>4. AllocateDIR = 0
  BY <1>3, Slots, FirstDirectory
<1>5. /\ FreeSlots(NR_TASKS - 1)' /\ PID' = [PID EXCEPT ![NR_TASKS - 1] = 0]
      /\ dir' = [dir EXCEPT ![NR_TASKS - 1] = 0]
      /\ dir_references' = [dir_references EXCEPT ![0] = @ + 1]
  <2>1. NR_TASKS \in Nat \ {0}
    BY Slots
  <2> QED BY <1>1, <1>3, <1>4, <2>1, SlotTaken
<1>6. /\ PID' = [t \in Tasks |-> 0]
      /\ dir' = [t \in Tasks |-> IF t \in {0, IdleTask} THEN 0 ELSE NoDir]
      /\ dir_references' = [d \in Dirs |-> IF d = 0 THEN 1 ELSE 0]
  <2>1. PID' = [t \in Tasks |-> 0]
    BY <1>3, <1>5
  <2>2. dir' = [t \in Tasks |-> IF t \in {0, IdleTask} THEN 0 ELSE NoDir]
    BY <1>3, <1>5, Slots
  <2>3. dir_references' = [d \in Dirs |-> IF d = 0 THEN 1 ELSE 0]
    <3>1. dir_references[0] + 1 = 1
      BY <1>3, Slots
    <3>2. dir_references' = [dir_references EXCEPT ![0] = 1]
      BY <1>5, <3>1
    <3> QED BY <1>3, <3>2
  <2> QED BY <2>1, <2>2, <2>3
<1>7. MainInv'
  BY <1>1, <1>2, <1>3, <1>5, <1>6 DEF MainInv, BootNullMapped, FreeSlots, Queues, Marked, UserPages,
                    DataPages, CodePages, BootFrame, UserFrame
<1> QED BY <1>1, <1>2, <1>7, MainStep

LEMMA InitTask1Keeps == ASSUME BInv, InitTask1 PROVE BInv'
<1> DEFINE h == Head(queue[freequeue])
<1>1. /\ stage = "init_idle" /\ stage' = "init_task1" /\ TakeSlot(1) /\ nextPid' = 13
      /\ quantum' = [quantum EXCEPT ![h] = QUANTUM] /\ state' = [state EXCEPT ![h] = ST_RUN]
      /\ SetUserPages(AllocateDIR) /\ cr3' = AllocateDIR /\ esp0' = h
      /\ remaining_ticks' = QUANTUM
      /\ UNCHANGED <<current, nullMapped, image, diskVars, mem>>
  BY DEF InitTask1
<1> HIDE DEF h
<1>2. /\ stage \in Uncopied /\ stage \notin Unentered /\ stage \in Unready
      /\ stage' \in Stages /\ stage' \in Uncopied /\ stage' \notin Unentered
      /\ stage' \notin Cold /\ stage' \notin Unready
  BY <1>1 DEF Unbuilt, Unentered, Cold, Unready, Uncopied, Stages
<1>3. /\ dir = [t \in Tasks |-> IF t \in {0, IdleTask} THEN 0 ELSE NoDir]
      /\ dir_references = [d \in Dirs |-> IF d = 0 THEN 1 ELSE 0]
      /\ data = [d \in Dirs |-> IF d = 0 THEN DataPages(0) ELSE << >>]
      /\ code = [d \in Dirs |-> IF d = 0 THEN CodePages(0) ELSE << >>]
      /\ phys_mem = Marked(UserPages) /\ FreeSlots(NR_TASKS - 1)
      /\ state = [t \in Tasks |-> ST_RUN] /\ current = BootSlot /\ nullMapped = BootNullMapped
      /\ PID = [t \in Tasks |-> 0] /\ nextPid = 0
      /\ quantum = [t \in Tasks |-> 0] /\ remaining_ticks = 0
  BY <1>1, <1>2 DEF BInv, MainInv
<1>4. AllocateDIR = 1
  <2>1. \A e \in Dirs : e < 1 => e = 0
    BY Slots
  <2> QED BY <1>3, <2>1, Slots, FirstDirectory
<1>5. /\ h = Task1 /\ FreeSlots(NR_TASKS - 2)' /\ PID' = [PID EXCEPT ![Task1] = 1]
      /\ dir' = [dir EXCEPT ![Task1] = 1]
      /\ dir_references' = [dir_references EXCEPT ![1] = @ + 1]
  <2>1. NR_TASKS - 1 \in Nat \ {0} /\ NR_TASKS - 1 - 1 = Task1 /\ NR_TASKS - 1 - 1 = NR_TASKS - 2
    BY Slots
  <2>2. /\ h = NR_TASKS - 1 - 1 /\ FreeSlots(NR_TASKS - 1 - 1)'
        /\ PID' = [PID EXCEPT ![NR_TASKS - 1 - 1] = 1]
        /\ dir' = [dir EXCEPT ![NR_TASKS - 1 - 1] = 1]
        /\ dir_references' = [dir_references EXCEPT ![1] = @ + 1]
    BY <1>1, <1>3, <1>4, <2>1, SlotTaken DEF h
  <2> QED BY <2>1, <2>2
<1>6. /\ phys_mem' = Marked(2 * UserPages)
      /\ code' = [code EXCEPT ![1] = CodePages(1)] /\ data' = [data EXCEPT ![1] = DataPages(1)]
  <2>1. UserPages \in Nat /\ 1 * UserPages = UserPages /\ (1 + 1) * UserPages = 2 * UserPages
    BY ProcAssumption DEF UserPages
  <2>2. phys_mem = Marked(1 * UserPages) /\ 1 \in {0, 1} /\ SetUserPages(1)
    BY <1>1, <1>3, <1>4, <2>1
  <2>3. /\ phys_mem' = Marked((1 + 1) * UserPages)
        /\ code' = [code EXCEPT ![1] = CodePages(1)] /\ data' = [data EXCEPT ![1] = DataPages(1)]
    BY <2>2, UserPagesSet
  <2> QED BY <2>1, <2>3
<1>7. /\ PID' = [t \in Tasks |-> IF t = Task1 THEN 1 ELSE 0]
      /\ quantum' = [t \in Tasks |-> IF t = Task1 THEN QUANTUM ELSE 0]
      /\ state' = [t \in Tasks |-> ST_RUN]
      /\ dir' = [t \in Tasks |-> IF t = Task1 THEN 1
                                 ELSE IF t \in {0, IdleTask} THEN 0 ELSE NoDir]
  BY <1>1, <1>3, <1>5, Slots
<1>8. /\ dir_references' = [d \in Dirs |-> IF d \in {0, 1} THEN 1 ELSE 0]
      /\ data' = [d \in Dirs |-> IF d \in {0, 1} THEN DataPages(d) ELSE << >>]
      /\ code' = [d \in Dirs |-> IF d \in {0, 1} THEN CodePages(d) ELSE << >>]
  <2>1. dir_references' = [d \in Dirs |-> IF d \in {0, 1} THEN 1 ELSE 0]
    <3>1. dir_references[1] + 1 = 1
      BY <1>3, Slots
    <3>2. dir_references' = [dir_references EXCEPT ![1] = 1]
      BY <1>5, <3>1
    <3> QED BY <1>3, <3>2
  <2>2. data' = [d \in Dirs |-> IF d \in {0, 1} THEN DataPages(d) ELSE << >>]
    BY <1>3, <1>6
  <2>3. code' = [d \in Dirs |-> IF d \in {0, 1} THEN CodePages(d) ELSE << >>]
    BY <1>3, <1>6
  <2> QED BY <2>1, <2>2, <2>3
<1>9. remaining_ticks' \in {QUANTUM - 1, QUANTUM} /\ esp0' = Task1 /\ cr3' = 1
  BY <1>1, <1>4, <1>5
<1>10. MainInv'
  BY <1>1, <1>2, <1>3, <1>5, <1>6, <1>7, <1>8, <1>9
     DEF MainInv, BootNullMapped, FreeSlots, Queues, Marked, UserPages,
         DataPages, CodePages, BootFrame, UserFrame
<1> QED BY <1>1, <1>2, <1>10, MainStep

-----------------------------------------------------------------------------
(* The user pages of task 1 lie side by side in every second frame.        *)
UserPlace(b) == (NUM_PAG_KERNEL + 2 * (UserPages + b \div PAGE_SIZE)) * PAGE_SIZE + (b % PAGE_SIZE)

LEMMA UserPlaces ==
  ASSUME code[cr3] = CodePages(1), data[cr3] = DataPages(1),
         NEW b \in Nat, b < UserPages * PAGE_SIZE
  PROVE  PhysicalUser(b) = UserPlace(b)
<1> DEFINE P == PAGE_SIZE
           x == b \div P
           frames == code[cr3] \o data[cr3]
           NC == NUM_PAG_CODE
           ND == NUM_PAG_DATA
<1>1. /\ P \in Nat \ {0} /\ NC \in Nat /\ ND \in Nat /\ UserPages = NC + ND
      /\ NUM_PAG_KERNEL \in Nat
  BY ProcAssumption DEF UserPages
<1>2. x \in Nat /\ x < UserPages
  <2>1. x \in Int /\ b % P \in 0 .. P - 1 /\ b = P * x + (b % P)
    BY <1>1, DivMod
  <2> HIDE DEF x, P
  <2>2. P * x = x * P /\ x * P \in Int
    BY <1>1, <2>1
  <2>3. 0 * P < (x + 1) * P /\ (x + 1) * P = x * P + 1 * P /\ 0 * P = 0 /\ 1 * P = P
    BY <1>1, <2>1, <2>2, TimesOrder
  <2>4. 0 < x + 1
    BY <1>1, <2>1, <2>3, TimesOrder
  <2>5. x * P < UserPages * P /\ UserPages \in Int
    BY <1>1, <2>1, <2>2 DEF P
  <2> QED BY <1>1, <2>1, <2>4, <2>5, TimesOrder
<1>3. PhysicalUser(b) = frames[1 + x] * P + (b % P)
  BY DEF PhysicalUser
<1> HIDE DEF x, P
<1>4. frames[1 + x] = NUM_PAG_KERNEL + 2 * (UserPages + x)
  <2>1. /\ code[cr3] \in Seq(Int) /\ Len(code[cr3]) = NC
        /\ data[cr3] \in Seq(Int) /\ Len(data[cr3]) = ND
    <3>1. \A i \in 1 .. NC : UserFrame(1, i) \in Int
      BY <1>1 DEF UserFrame
    <3>2. \A i \in 1 .. ND : BootFrame(1, i) \in Int
      BY <1>1 DEF BootFrame
    <3> HIDE DEF NC, ND
    <3>3. CodePages(1) = [i \in 1 .. NC |-> UserFrame(1, i)] /\ DataPages(1) = [i \in 1 .. ND |-> BootFrame(1, i)]
      BY DEF CodePages, DataPages, NC, ND
    <3> QED BY <1>1, <3>1, <3>2, <3>3
  <2>2. CASE 1 + x <= NC
    <3>1. frames[1 + x] = code[cr3][1 + x] /\ 1 + x \in 1 .. NC
      BY <1>1, <1>2, <2>1, <2>2
    <3>2. code[cr3][1 + x] = UserFrame(1, 1 + x)
      BY <3>1 DEF CodePages
    <3>3. UserFrame(1, 1 + x) = NUM_PAG_KERNEL + 2 * (UserPages + x)
      BY <1>1, <1>2 DEF UserFrame
    <3> QED BY ONLY <3>1, <3>2, <3>3
  <2>3. CASE ~(1 + x <= NC)
    <3>1. frames[1 + x] = data[cr3][1 + x - NC] /\ 1 + x - NC \in 1 .. ND
      BY <1>1, <1>2, <2>1, <2>3
    <3>2. data[cr3][1 + x - NC] = BootFrame(1, 1 + x - NC)
      BY <3>1 DEF DataPages
    <3>3. BootFrame(1, 1 + x - NC) = NUM_PAG_KERNEL + 2 * (UserPages + x)
      BY <1>1, <1>2 DEF BootFrame
    <3> QED BY ONLY <3>1, <3>2, <3>3
  <2> QED BY <2>2, <2>3
<1> QED BY <1>3, <1>4 DEF UserPlace, x, P

LEMMA UserPlacesApart ==
  ASSUME NEW a \in Nat, NEW b \in Nat
  PROVE  /\ UserPlace(a) \in Nat /\ UserPlace(a) >= NUM_PAG_KERNEL * PAGE_SIZE
         /\ UserPlace(a) = UserPlace(b) => a = b
<1> DEFINE P == PAGE_SIZE
           U == UserPages
           N == NUM_PAG_KERNEL
           F(c) == N + 2 * (U + c \div P)
<1>1. P \in Nat \ {0} /\ U \in Nat /\ N \in Nat
  BY ProcAssumption DEF UserPages
<1> HIDE DEF P, U, N
<1>2. ASSUME NEW c \in Nat
      PROVE  /\ c \div P \in Nat /\ c % P \in 0 .. P - 1 /\ c = P * (c \div P) + (c % P)
             /\ F(c) \in Nat /\ F(c) >= N /\ UserPlace(c) = F(c) * P + (c % P)
  <2>1. c \div P \in Nat /\ c % P \in 0 .. P - 1 /\ c = P * (c \div P) + (c % P)
    <3>1. (0 * P + 0) \div P = 0 /\ 0 * P + 0 = 0
      <4>1. 0 \in Int /\ 0 \in 0 .. P - 1
        BY <1>1
      <4> QED BY <1>1, <4>1, ExactDiv
    <3>2. 0 \div P <= c \div P
      BY <1>1, DivMonotone
    <3>3. c \div P \in Int /\ c % P \in 0 .. P - 1 /\ c = P * (c \div P) + (c % P)
      BY <1>1, DivMod
    <3> QED BY <3>1, <3>2, <3>3
  <2> QED BY <1>1, <2>1 DEF UserPlace, P, U, N
<1> HIDE DEF F
<1>3. UserPlace(a) \in Nat /\ UserPlace(a) >= N * P
  <2>1. F(a) * P \in Int /\ N * P \in Int /\ N * P <= F(a) * P /\ N * P >= 0
    <3>1. F(a) \in Int /\ N \in Int /\ N <= F(a) /\ N >= 0
      BY <1>1, <1>2
    <3> QED BY <1>1, <3>1, TimesOrder
  <2> QED BY <1>1, <1>2, <2>1
<1>4. ASSUME UserPlace(a) = UserPlace(b) PROVE a = b
  <2>1. F(a) = F(b) /\ a % P = b % P
    <3>1. /\ (F(a) * P + (a % P)) \div P = F(a) /\ (F(a) * P + (a % P)) % P = a % P
          /\ (F(b) * P + (b % P)) \div P = F(b) /\ (F(b) * P + (b % P)) % P = b % P
      <4>1. F(a) \in Int /\ F(b) \in Int /\ a % P \in 0 .. P - 1 /\ b % P \in 0 .. P - 1
        BY <1>2
      <4> QED BY ONLY <1>1, <4>1, ExactDiv
    <3>2. F(a) * P + (a % P) = F(b) * P + (b % P)
      BY <1>2, <1>4
    <3> QED BY ONLY <3>1, <3>2
  <2>2. a \div P = b \div P
    <3>1. a \div P \in Nat /\ b \div P \in Nat
      BY <1>2
    <3> QED BY <1>1, <2>1, <3>1 DEF F
  <2> QED BY <1>2, <2>1, <2>2
<1> QED BY <1>3, <1>4 DEF N, P

(* An image that fits ends below the pages of processes.                   *)
LEMMA FitsBelow ==
  ASSUME ImageInv, Fits
  PROVE  KERNEL_START + ImageSize <= NUM_PAG_KERNEL * PAGE_SIZE
<1> DEFINE P == PARAGRAPH
           Q == SegmentParagraphs
           I == INITSEG
           z == (ImageSize + P - 1) \div P
<1>1. /\ P \in Nat \ {0} /\ Q \in Nat \ {0} /\ I \in Nat \ {0} /\ SEGMENT = Q * P
      /\ ImageSize \in Nat
  BY BootConstants DEF ImageInv, ImageSize
<1>2. z < I * Q
  BY DEF Fits, SegmentParagraphs
<1> HIDE DEF P, Q, I
<1>3. z \in Int /\ ImageSize <= z * P
  <2>1. ImageSize + P - 1 \in Nat
    BY <1>1
  <2>2. /\ z \in Int /\ (ImageSize + P - 1) % P \in 0 .. P - 1
        /\ ImageSize + P - 1 = P * z + ((ImageSize + P - 1) % P)
    BY <1>1, <2>1, DivMod
  <2>3. P * z = z * P /\ z * P \in Int
    BY <1>1, <2>2
  <2> HIDE DEF z
  <2> QED BY <1>1, <2>1, <2>2, <2>3
<1> HIDE DEF z
<1>4. z * P < (I * Q) * P /\ z * P \in Int /\ (I * Q) * P \in Int
  BY <1>1, <1>2, <1>3, TimesOrder
<1>5. (I * Q) * P = I * SEGMENT /\ (1 + I) * SEGMENT = SEGMENT + I * SEGMENT /\ SEGMENT \in Int
  BY <1>1
<1>6. NUM_PAG_KERNEL * PAGE_SIZE >= (1 + I) * SEGMENT /\ NUM_PAG_KERNEL * PAGE_SIZE \in Int
  BY BootAssumption, ProcAssumption DEF I
<1> QED BY <1>1, <1>3, <1>4, <1>5, <1>6 DEF KERNEL_START

(* copy_data() puts the user image into task 1's pages, and nothing of it  *)
(* or of the system is lost.                                               *)
LEMMA CopyPlaces ==
  ASSUME BInv, CopyData, Fits
  PROVE  /\ \A b \in 0 .. image.sys - 1 : KERNEL_START + b \in DOMAIN mem' /\ mem'[KERNEL_START + b] = b
         /\ \A b \in 0 .. image.usr - 1 : mem'[PhysicalUser(b)] = image.sys + b
<1> DEFINE sys  == image.sys
           usr  == image.usr
           from == KERNEL_START + sys
           held == {b \in 0 .. usr - 1 : from + b \in DOMAIN mem}
           at(p) == CHOOSE b \in held : PhysicalUser(b) = p
           new  == [p \in {PhysicalUser(b) : b \in held} |-> mem[from + at(p)]]
<1>1. mem' = Written(new) /\ stage = "init_task1"
  BY DEF CopyData
<1>2. /\ code[cr3] = CodePages(1) /\ data[cr3] = DataPages(1)
      /\ \A b \in 0 .. ImageSize - 1 : InMemory(b)
  <2>1. stage \in Uncopied /\ stage \notin Unready /\ stage \notin Unentered
    BY <1>1 DEF Unbuilt, Unentered, Cold, Unready, Uncopied
  <2>2. cr3 = 1 /\ code[1] = CodePages(1) /\ data[1] = DataPages(1)
    <3>1. /\ cr3 = 1
          /\ data = [d \in Dirs |-> IF d \in {0, 1} THEN DataPages(d) ELSE << >>]
          /\ code = [d \in Dirs |-> IF d \in {0, 1} THEN CodePages(d) ELSE << >>]
      BY <2>1 DEF BInv, MainInv
    <3> QED BY <3>1, Slots
  <2>3. ImageSize <= Reached /\ \A b \in 0 .. ImageSize - 1 : b < Reached => InMemory(b)
    BY <2>1 DEF BInv, PlacedInv
  <2>4. ImageSize \in Int /\ Reached \in Int
    <3>1. PICK b \in 0 .. SegmentSectors - 1 : bx = b * SECTOR
      BY DEF BInv, LoaderInv, SegmentSectors
    <3> QED BY <3>1, BootConstants DEF BInv, LoaderInv, Reached, ImageInv, ImageSize
  <2> QED BY <2>2, <2>3, <2>4
<1>3. /\ sys \in Nat /\ usr \in Nat /\ ImageSize = sys + usr /\ KERNEL_START \in Nat
      /\ usr <= UserPages * PAGE_SIZE /\ UserPages * PAGE_SIZE \in Nat
  BY BootConstants, ProcAssumption DEF BInv, ImageInv, ImageSize, KERNEL_START, Fits, UserPages
<1> HIDE DEF sys, usr
<1>4. ASSUME NEW b \in 0 .. usr - 1
      PROVE  /\ from + b \in DOMAIN mem /\ mem[from + b] = sys + b
             /\ PhysicalUser(b) = UserPlace(b)
  <2>1. sys + b \in 0 .. ImageSize - 1 /\ from + b = KERNEL_START + (sys + b)
    BY <1>3
  <2>2. InMemory(sys + b)
    BY <1>2, <2>1
  <2>3. b \in Nat /\ b < UserPages * PAGE_SIZE
    BY <1>3
  <2> QED BY <1>2, <2>1, <2>2, <2>3, UserPlaces DEF InMemory
<1>5. held = 0 .. usr - 1
  BY <1>4
<1>6. ASSUME NEW b \in 0 .. usr - 1
      PROVE  PhysicalUser(b) \in DOMAIN new /\ new[PhysicalUser(b)] = sys + b
  <2>1. \A c \in 0 .. usr - 1 : PhysicalUser(c) = PhysicalUser(b) => c = b
    <3>1. ASSUME NEW c \in 0 .. usr - 1, PhysicalUser(c) = PhysicalUser(b) PROVE c = b
      <4>1. UserPlace(c) = UserPlace(b) /\ c \in Nat /\ b \in Nat
        BY <1>4, <3>1
      <4> QED BY ONLY <4>1, UserPlacesApart
    <3> QED BY <3>1
  <2> HIDE DEF held, from
  <2>2. at(PhysicalUser(b)) = b
    BY <1>5, <2>1
  <2>3. PhysicalUser(b) \in {PhysicalUser(c) : c \in held}
    BY <1>5
  <2> HIDE DEF at
  <2>4. new[PhysicalUser(b)] = mem[from + at(PhysicalUser(b))]
    BY <2>3
  <2> QED BY <1>4, <2>2, <2>3, <2>4
<1>7. ASSUME NEW b \in 0 .. sys - 1
      PROVE  KERNEL_START + b \notin DOMAIN new
  <2>1. KERNEL_START + b < NUM_PAG_KERNEL * PAGE_SIZE /\ KERNEL_START + b \in Int
    <3>1. KERNEL_START + ImageSize <= NUM_PAG_KERNEL * PAGE_SIZE
          /\ NUM_PAG_KERNEL * PAGE_SIZE \in Int
      BY FitsBelow, ProcAssumption DEF BInv
    <3> QED BY <1>3, <3>1
  <2>2. ASSUME NEW c \in 0 .. usr - 1 PROVE PhysicalUser(c) # KERNEL_START + b
    <3>1. PhysicalUser(c) \in Nat /\ PhysicalUser(c) >= NUM_PAG_KERNEL * PAGE_SIZE
      <4>1. c \in Nat /\ PhysicalUser(c) = UserPlace(c)
        BY <1>4
      <4> QED BY ONLY <4>1, UserPlacesApart
    <3>2. NUM_PAG_KERNEL * PAGE_SIZE \in Int
      BY ProcAssumption
    <3> QED BY <2>1, <3>1, <3>2
  <2> HIDE DEF held
  <2>3. DOMAIN new = {PhysicalUser(c) : c \in held}
    OBVIOUS
  <2> QED BY <1>5, <2>2, <2>3
<1> HIDE DEF new
<1>8. ASSUME NEW b \in 0 .. sys - 1
      PROVE  KERNEL_START + b \in DOMAIN mem' /\ mem'[KERNEL_START + b] = b
  <2>1. KERNEL_START + b \in DOMAIN mem /\ mem[KERNEL_START + b] = b
    <3>1. b \in 0 .. ImageSize - 1
      BY <1>3
    <3> QED BY <1>2, <3>1 DEF InMemory
  <2> QED BY <1>1, <1>7, <2>1 DEF Written
<1>9. ASSUME NEW b \in 0 .. usr - 1 PROVE mem'[PhysicalUser(b)] = sys + b
  BY <1>1, <1>6 DEF Written
<1> QED BY <1>8, <1>9 DEF sys, usr

LEMMA CopyKeeps == ASSUME BInv, CopyData PROVE BInv'
<1>1. /\ stage = "init_task1" /\ stage' = "copy_data"
      /\ UNCHANGED <<vars, image, diskVars, code, esp0>>
  BY DEF CopyData
<1>2. /\ stage \in Uncopied /\ stage \notin Unbuilt /\ stage \notin Unready
      /\ stage' \in Stages /\ stage' \notin Uncopied /\ stage' \notin Unentered
      /\ stage' \notin Unbuilt /\ stage \notin Unentered /\ stage' \notin Unready
  BY <1>1 DEF Unbuilt, Unentered, Cold, Unready, Uncopied, Stages
<1>3. ImageInv' /\ ImageSize' = ImageSize /\ (Fits <=> Fits')
  BY <1>1, <1>2, ImageStays DEF BInv
<1>4. LoaderInv' /\ Reached' = Reached
  BY <1>1, LoaderStays DEF BInv
<1>5. PlacedInv'
  <2>1. Fits' => ImageSize' <= Reached'
    BY <1>2, <1>3, <1>4 DEF BInv, PlacedInv
  <2>2. ASSUME Fits'
        PROVE  /\ \A b \in 0 .. image'.sys - 1 : InMemory(b)'
               /\ \A b \in 0 .. image'.usr - 1 : mem'[PhysicalUser(b)'] = image'.sys + b
    <3>1. \A b : PhysicalUser(b)' = PhysicalUser(b)
      BY <1>1 DEF PhysicalUser, vars, procVars
    <3>2. Fits
      BY <1>3, <2>2
    <3> QED BY <1>1, <3>1, <3>2, CopyPlaces DEF InMemory, KERNEL_START
  <2> QED BY <1>2, <2>1, <2>2 DEF PlacedInv
<1>6. MainInv'
  BY <1>1, <1>2 DEF BInv, MainInv, vars, schedVars, procVars, BootNullMapped, FreeSlots, Queues,
                    Marked, UserPages, DataPages, CodePages, BootFrame, UserFrame,
                    Cold, Unready
<1> QED BY <1>2, <1>3, <1>4, <1>5, <1>6 DEF BInv

LEMMA CopyFaultsKeeps == ASSUME BInv, CopyFaults PROVE BInv'
<1>1. /\ stage = "init_task1" /\ stage' = "fault"
      /\ UNCHANGED <<vars, image, diskVars, mem, code, esp0>>
  BY DEF CopyFaults
<1>2. /\ stage \in Uncopied /\ stage \notin Unentered /\ stage \notin Unready
      /\ stage' \in Stages /\ stage' \in Uncopied /\ stage' \notin Unentered /\ stage' \notin Unready
  BY <1>1 DEF Unbuilt, Unentered, Cold, Unready, Uncopied, Stages
<1>3. MainInv'
  BY <1>1, <1>2 DEF BInv, MainInv, vars, schedVars, procVars, BootNullMapped, FreeSlots, Queues,
                    Marked, UserPages, DataPages, CodePages, BootFrame, UserFrame,
                    Cold, Unready
<1> QED BY <1>1, <1>2, <1>3, MainStep

(* After copy_data() only the scheduler's numbers change.                  *)
Late == {"copy_data", "enable_int", "ticked", "user"}

LEMMA LateStep ==
  ASSUME BInv, stage \in Late, stage' \in Late,
         UNCHANGED <<queue, state, quantum, procVars, image, diskVars, mem, code, esp0>>,
         remaining_ticks' \in {QUANTUM - 1, QUANTUM},
         stage' \notin {"ticked", "user"} => remaining_ticks' = QUANTUM,
         current' = IF stage' = "user" THEN Task1 ELSE BootSlot
  PROVE  BInv'
<1>1. /\ stage \notin Uncopied /\ stage \notin Unbuilt /\ stage \notin Unready
      /\ stage' \in Stages /\ stage' \notin Uncopied /\ stage' \notin Unentered
      /\ stage' \notin Unbuilt /\ stage \notin Unentered /\ stage' \notin Unready
  BY DEF Unbuilt, Unentered, Cold, Unready, Uncopied, Stages, Late
<1>2. ImageInv' /\ ImageSize' = ImageSize /\ (Fits <=> Fits')
  BY <1>1, ImageStays DEF BInv
<1>3. LoaderInv' /\ Reached' = Reached
  BY LoaderStays DEF BInv
<1>4. PlacedInv'
  <2>1. \A b : PhysicalUser(b)' = PhysicalUser(b)
    BY DEF PhysicalUser, procVars
  <2>2. image' = image /\ mem' = mem
    OBVIOUS
  <2> QED BY <1>1, <1>2, <1>3, <2>1, <2>2 DEF BInv, PlacedInv, InMemory, KERNEL_START
<1>5. MainInv'
  BY <1>1 DEF BInv, MainInv, procVars, BootNullMapped, FreeSlots, Queues, Marked, UserPages,
              DataPages, CodePages, BootFrame, UserFrame, Cold, Unready
<1> QED BY <1>1, <1>2, <1>3, <1>4, <1>5 DEF BInv

LEMMA EnableKeeps == ASSUME BInv, EnableInt PROVE BInv'
<1>1. /\ stage = "copy_data" /\ stage' = "enable_int"
      /\ UNCHANGED <<vars, image, diskVars, mem, code, esp0>>
  BY DEF EnableInt
<1>2. current = BootSlot /\ remaining_ticks = QUANTUM /\ stage \in Late /\ stage' \in Late
  BY <1>1 DEF BInv, MainInv, Late, Unbuilt, Unentered, Cold, Unready
<1> QED BY <1>1, <1>2, LateStep DEF vars, schedVars

(* A tick that is pending when interrupts are enabled charges task 1 one   *)
(* of its QUANTUM ticks, and nothing else.                                 *)
LEMMA PendingKeeps == ASSUME BInv, PendingTick PROVE BInv'
<1>1. /\ stage = "enable_int" /\ stage' = "ticked" /\ ClockInterrupt
      /\ UNCHANGED <<procVars, image, diskVars, mem, code, esp0>>
  BY DEF PendingTick
<1>2. current = BootSlot /\ remaining_ticks = QUANTUM /\ stage \in Late /\ stage' \in Late
  BY <1>1 DEF BInv, MainInv, Late, Unbuilt, Unentered, Cold, Unready
<1>3. QUANTUM \in Nat /\ QUANTUM > 1
  BY SchedAssumption, BootAssumption
<1>4. remaining_ticks' = QUANTUM - 1 /\ UNCHANGED <<queue, state, quantum, current>>
  <2>1. Decremented(remaining_ticks) = QUANTUM - 1
    BY <1>2, <1>3 DEF Decremented
  <2>2. ~(QUANTUM - 1 <= 0) /\ QUANTUM - 1 # 0
    BY <1>3
  <2> QED BY <1>1, <2>1, <2>2 DEF ClockInterrupt, NeedsSchedRR
<1> QED BY <1>1, <1>2, <1>4, LateStep

LEMMA ReturnKeeps == ASSUME BInv, ReturnGate PROVE BInv'
<1>1. /\ stage \in {"enable_int", "ticked"} /\ stage' = "user" /\ current' = esp0
      /\ UNCHANGED <<queue, state, quantum, remaining_ticks, procVars,
                     image, diskVars, mem, code, esp0>>
  BY DEF ReturnGate
<1>2. /\ esp0 = Task1 /\ remaining_ticks \in {QUANTUM - 1, QUANTUM}
      /\ stage \in Late /\ stage' \in Late
  BY <1>1 DEF BInv, MainInv, Late, Unbuilt, Unentered, Cold, Unready
<1> QED BY <1>1, <1>2, LateStep

LEMMA BootStutters == ASSUME BInv, UNCHANGED bootVars PROVE BInv'
<1>1. UNCHANGED <<vars, stage, image, diskVars, mem, code, esp0>>
  BY DEF bootVars
<1>2. LoaderInv' /\ Reached' = Reached
  BY <1>1, LoaderStays DEF BInv
<1>3. ImageInv' /\ ImageSize' = ImageSize /\ (Fits <=> Fits')
  BY <1>1 DEF BInv, ImageInv, ImageSize, Fits
<1>4. PlacedInv'
  <2>1. \A b : PhysicalUser(b)' = PhysicalUser(b)
    BY <1>1 DEF PhysicalUser, vars, procVars
  <2> QED BY <1>1, <1>2, <1>3, <2>1 DEF BInv, PlacedInv, InMemory, KERNEL_START
<1>5. MainInv'
  BY <1>1 DEF BInv, MainInv, vars, schedVars, procVars, BootNullMapped, FreeSlots, Queues,
              Marked, UserPages, DataPages, CodePages, BootFrame, UserFrame
<1> QED BY <1>1, <1>2, <1>3, <1>4, <1>5 DEF BInv

LEMMA BootStepKeeps == BInv /\ [BootNext]_bootVars => BInv'
<1> SUFFICES ASSUME BInv, [BootNext]_bootVars PROVE BInv'
  OBVIOUS
<1>1. CASE Build
  BY <1>1, BuildKeeps
<1>2. CASE Loader
  BY <1>2, ReadKeeps, OverwriteKeeps, EnterKeeps DEF Loader
<1>3. CASE Main
  BY <1>3, InitMMKeeps, MonoprocessKeeps, InitSchedKeeps, InitIdleKeeps, InitTask1Keeps,
     CopyKeeps, CopyFaultsKeeps, EnableKeeps, PendingKeeps, ReturnKeeps DEF Main
<1>4. CASE UNCHANGED bootVars
  BY <1>4, BootStutters
<1> QED BY <1>1, <1>2, <1>3, <1>4 DEF BootNext

-----------------------------------------------------------------------------
LEMMA BInvMakesProcInit == ASSUME BInv, stage = "user" PROVE ProcInit
<1>1. stage \notin Unready
  BY DEF Unbuilt, Unentered, Cold, Unready
<1>2. /\ nullMapped = BootNullMapped /\ state = [t \in Tasks |-> ST_RUN] /\ current = Task1
      /\ FreeSlots(NR_TASKS - 2)
      /\ PID = [t \in Tasks |-> IF t = Task1 THEN 1 ELSE 0] /\ nextPid = 13
      /\ quantum = [t \in Tasks |-> IF t = Task1 THEN QUANTUM ELSE 0]
      /\ remaining_ticks \in {QUANTUM - 1, QUANTUM}
      /\ dir = [t \in Tasks |-> IF t = Task1 THEN 1
                                ELSE IF t \in {0, IdleTask} THEN 0 ELSE NoDir]
      /\ dir_references = [d \in Dirs |-> IF d \in {0, 1} THEN 1 ELSE 0]
      /\ cr3 = 1 /\ phys_mem = Marked(2 * UserPages)
      /\ data = [d \in Dirs |-> IF d \in {0, 1} THEN DataPages(d) ELSE << >>]
  BY <1>1 DEF BInv, MainInv
<1>3. SchedInit
  <2>1. remaining_ticks \in {QUANTUM - 1, QUANTUM} \ {0}
    BY <1>2, SchedAssumption, BootAssumption
  <2> QED BY <1>2, <2>1 DEF SchedInit, FreeSlots
<1>4. phys_mem = BootUsed
  <2>1. 0 .. NUM_PAG_KERNEL - 1 = {f \in Frames : f < NUM_PAG_KERNEL}
    BY ProcAssumption DEF Frames
  <2> QED BY <1>2, <2>1 DEF BootUsed, Marked
<1>5. dir = [t \in Tasks |-> IF t = IdleTask THEN 0 ELSE IF t = Task1 THEN 1
                             ELSE IF t = 0 THEN 0 ELSE NoDir]
  <2>1. Task1 \notin {0, IdleTask}
    BY Slots
  <2> QED BY <1>2, <2>1
<1>6. data = [d \in Dirs |-> IF d \in {0, 1}
                             THEN [i \in 1 .. NUM_PAG_DATA |-> BootFrame(d, i)]
                             ELSE << >>]
  BY <1>2 DEF DataPages
<1> QED BY <1>2, <1>3, <1>4, <1>5, <1>6 DEF ProcInit

LEMMA BInvHandsOver == BInv => HandsOver
<1> SUFFICES ASSUME BInv, stage = "user", Fits
             PROVE  /\ \A b \in 0 .. image.sys - 1 : mem[KERNEL_START + b] = b
                    /\ \A b \in 0 .. image.usr - 1 : mem[PhysicalUser(b)] = image.sys + b
                    /\ ProcInit
  BY DEF HandsOver
<1>1. stage \notin Uncopied
  BY DEF Unbuilt, Unentered, Cold, Unready, Uncopied
<1> QED BY <1>1, BInvMakesProcInit DEF BInv, PlacedInv, InMemory

-----------------------------------------------------------------------------
(* What boot keeps: the numbers of builder, loader and main(), and where   *)
(* each byte of the image is, at every stage.                              *)
THEOREM BootInvariant == BootSpec => []BInv
BY BootInitHolds, BootStepKeeps, PTL DEF BootSpec

(* Every read of the loader is one the BIOS carries out: it asks for at    *)
(* least one sector and crosses neither a track nor a 64 KB boundary       *)
(* (read_it), whatever the sizes of tracks and segments.                   *)
THEOREM ReadsAreLegal == BootSpec => []BiosReadsLegal
<1>1. BInv => BiosReadsLegal
  BY LegalReads DEF BInv
<1> QED BY <1>1, BootInvariant, PTL

(* An image of any size that fits is whole in memory when user mode is     *)
(* entered: the system where it was linked, the user part in task 1's      *)
(* pages, which overlap nothing; and main() has made the state the other   *)
(* modules start from, with or without a tick pending at enable_int().     *)
THEOREM BootHandsOver == BootSpec => []HandsOver
BY BInvHandsOver, BootInvariant, PTL

(* What boot hands over is a state the processes' invariant holds in.      *)
THEOREM BootStartsProcesses == BootSpec => [](stage = "user" => PInv)
<1>1. BInv => (stage = "user" => PInv)
  BY BInvMakesProcInit, ProcInitHolds
<1> QED BY <1>1, BootInvariant, PTL
=============================================================================
