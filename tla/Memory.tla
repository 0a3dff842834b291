------------------------------- MODULE Memory -------------------------------
(***************************************************************************)
(* What processes keep in memory: the contents of frames, fork's copy of   *)
(* the data pages through a temporary mapping (sys.c), the pages above     *)
(* them that sbrk maps, and the program break each PCB carries (sys.c).    *)
(*                                                                         *)
(* Addresses count bytes in pages of PAGE_SIZE.  A frame's contents are    *)
(* one value: enough to tell whose writes reach it.  A program that        *)
(* touches an unmapped page stops the kernel (the page-fault handler       *)
(* loops), which adds nothing here: only mapped pages are written.  A      *)
(* forked process has the kernel's pages mapped for writing too, the page  *)
(* tables and page 0 among them: the model ends with such a store, after   *)
(* which the program can be in any state.                                  *)
(***************************************************************************)
EXTENDS Processes

CONSTANTS
  Increments,   \* bound: what sbrk is called with, zero aside
  MinBreak,     \* bound: the break is not moved below this address
  Values        \* bound: what programs write

ASSUME MemAssumption ==
  /\ Increments \subseteq Int \ {0}
  /\ MinBreak \in Nat /\ Values \subseteq Nat

(* The first page above the data pages, PAG_LOG_INIT_DATA + NUM_PAG_DATA;  *)
(* user pages begin where the kernel's end.                                *)
HeapBase  == NUM_PAG_KERNEL + UserPages
HeapPages == HeapBase .. TOTAL_PAGES - 1
NoEntry   == 0

VARIABLES
  contents,        \* frame -> what is in it
  heap,            \* directory -> page -> its frame, or NoEntry
  program_break,   \* slot -> the program_break field of its PCB
  intact           \* no program has stored into a page of the kernel

memVars    == <<contents, heap, program_break, intact>>
memoryVars == <<vars, memVars>>

MemInit ==
  /\ ProcInit
  /\ contents = [f \in Frames |-> 0]
  /\ heap = [d \in Dirs |-> [p \in HeapPages |-> NoEntry]]
  /\ program_break = [t \in Tasks |-> IF t = Task1 THEN HeapBase * PAGE_SIZE ELSE 0]
  /\ intact = TRUE

-----------------------------------------------------------------------------
(* The child's PCB is a copy of the father's. *)
InheritBreak == program_break' = [program_break EXCEPT ![Child] = program_break[current]]

(* Mutant: the translation of the temporary page is not flushed, so every  *)
(* page is copied into the first frame.                                    *)
Copied_NoFlush(from, to) ==
  [contents EXCEPT ![to[1]] = contents[from[NUM_PAG_DATA]]]

(* The contents after copying the frames `from' into the frames `to'.      *)
Copied(from, to) ==
  [f \in Frames |->
     IF f \in Range(to) THEN contents[from[CHOOSE i \in DOMAIN to : to[i] = f]]
                        ELSE contents[f]]

(* sys_fork: each frame of the child is mapped at a free page of the       *)
(* father's, filled and unmapped.  The father's pages are read through the *)
(* loaded directory.  Heap pages are not given to the child: its table     *)
(* keeps what an earlier process left above the data pages.                *)
ForkMemory ==
  /\ Fork
  /\ contents' = Copied(data[cr3], data'[AllocateDIR])
  /\ InheritBreak
  /\ UNCHANGED <<heap, intact>>

(* sys_clone: a break of its own in a shared address space. *)
CloneMemory == Clone /\ InheritBreak /\ UNCHANGED <<contents, heap, intact>>

OtherCall ==
  /\ ForkNoFrames \/ NoSlot \/ SysExit \/ Tick
  /\ UNCHANGED memVars

-----------------------------------------------------------------------------
(* Mutant: the page of the break itself, not of the last byte below it. *)
PagesNeeded_FromBreak(break, increment) ==
  (break + increment) \div PAGE_SIZE - break \div PAGE_SIZE

(* pages_needed of sys_sbrk *)
PagesNeeded(break, increment) ==
  (break + increment) \div PAGE_SIZE - (break - 1) \div PAGE_SIZE

(* The pages the running process has no entry for. *)
FreePages == {p \in HeapPages : heap[dir[current]][p] = NoEntry}

(* The table h with the frames entered at the first free pages, in order. *)
Mapped(h, frames) ==
  [p \in HeapPages |->
     LET rank == Cardinality({q \in FreePages : q <= p})
     IN  IF p \in FreePages /\ rank <= Len(frames) THEN frames[rank] ELSE h[p]]

MoveBreak(increment) ==
  program_break' = [program_break EXCEPT ![current] = @ + increment]

SbrkCall(increment) ==
  /\ current # IdleTask
  /\ program_break[current] + increment >= MinBreak
  /\ UNCHANGED <<schedVars, PID, nextPid, dir, dir_references, cr3, data, nullMapped, contents,
                 intact>>

(* sys_sbrk when no page is needed; pages below the old break stay mapped. *)
SbrkMoves(increment) ==
  /\ SbrkCall(increment)
  /\ PagesNeeded(program_break[current], increment) <= 0
  /\ MoveBreak(increment)
  /\ UNCHANGED <<phys_mem, heap>>

(* Mutant: the new frames are not marked. *)
SbrkGrows_NotMarked(increment) ==
  LET needed == PagesNeeded(program_break[current], increment)
  IN  /\ SbrkCall(increment)
      /\ needed > 0
      /\ \E new_frames \in Allocations(phys_mem, needed) :
           heap' = [heap EXCEPT ![dir[current]] = Mapped(@, new_frames)]
      /\ MoveBreak(increment)
      /\ UNCHANGED phys_mem

(* sys_sbrk with frames for the pages it needs *)
SbrkGrows(increment) ==
  LET needed == PagesNeeded(program_break[current], increment)
  IN  /\ SbrkCall(increment)
      /\ needed > 0
      /\ \E new_frames \in Allocations(phys_mem, needed) :
           /\ phys_mem' = phys_mem \cup Range(new_frames)
           /\ heap' = [heap EXCEPT ![dir[current]] = Mapped(@, new_frames)]
      /\ MoveBreak(increment)

(* sys_sbrk out of frames: -ENOMEM, the ones it got are given back.  (For  *)
(* -EAGAIN, out of pages, see PagesOutlastFrames.)                         *)
SbrkNoFrames(increment) ==
  /\ SbrkCall(increment)
  /\ PagesNeeded(program_break[current], increment) > Cardinality(FreeFrames(phys_mem))
  /\ phys_mem' = Freed(phys_mem \cup FreeFrames(phys_mem), FreeFrames(phys_mem))
  /\ UNCHANGED <<heap, program_break>>

Sbrk == \E increment \in Increments :
          SbrkMoves(increment) \/ SbrkGrows(increment) \/ SbrkNoFrames(increment)

-----------------------------------------------------------------------------
(* The kernel's frames, and those of task 1's code pages: set_user_pages() *)
(* gives code frames to task 1, which all its descendants share.           *)
KernelFrames == {f \in Frames : f < NUM_PAG_KERNEL}
CodeFrames   == {NUM_PAG_KERNEL + 2 * (UserPages + i - 1) : i \in 1 .. NUM_PAG_CODE}

(* The frames a task can write to, through the table of directory d.       *)
(* fork enters every page below the data with set_ss_pag(), which makes it *)
(* the user's to write; until then code pages can only be read.            *)
UserFrames(d) ==
  Range(data[d]) \cup (Range(heap[d]) \ {NoEntry})
    \cup (IF nullMapped[d] THEN KernelFrames \cup CodeFrames ELSE {})

(* The running process writes to one of its pages. *)
Write ==
  /\ current # IdleTask
  /\ \E f \in UserFrames(cr3), v \in Values :
       /\ contents' = [contents EXCEPT ![f] = v]
       /\ intact' = (f \notin KernelFrames)
  /\ UNCHANGED <<vars, heap, program_break>>

MemNext == intact /\ (ForkMemory \/ CloneMemory \/ OtherCall \/ Sbrk \/ Write)

MemSafety == MemInit /\ [][MemNext]_memoryVars

-----------------------------------------------------------------------------
(* What task t reads in its pages. *)
DataView(t) == [i \in 1 .. NUM_PAG_DATA |-> contents[data[dir[t]][i]]]
HeapView(t) == [p \in {q \in HeapPages : heap[dir[t]][q] # NoEntry} |->
                  contents[heap[dir[t]][p]]]

(* As long as no process writes over the kernel, what a process has in its *)
(* data and heap pages changes only by its own address space's writes: not *)
(* by another's, nor by any fork, clone, exit or sbrk, which may only add  *)
(* pages to it.  The code pages are not among them.                        *)
MemoryPrivate ==
  [][\A t \in Live \cap Live' :
       dir[t] # dir[current] \/ contents' = contents \/ phys_mem' # phys_mem
         => /\ DataView(t)' = DataView(t)
            /\ \A p \in DOMAIN HeapView(t) :
                 p \in DOMAIN HeapView(t)' /\ HeapView(t)'[p] = HeapView(t)[p]]_memoryVars

(* README_E2.txt, tests 13 and 14: a child starts with a copy of its       *)
(* father's data; a thread sees the data itself.                           *)
ChildInheritsData ==
  [][\A t \in Live' \ Live : DataView(t)' = DataView(current)]_memoryVars

(* The pages from the first above the data up to the break of t are there. *)
Covered(t) ==
  \A p \in HeapPages :
    p <= (program_break[t] - 1) \div PAGE_SIZE => heap[dir[t]][p] # NoEntry

(* sbrk keeps every page below the break mapped, through shrinking and     *)
(* growing again and whatever other threads do: only the child of a fork,  *)
(* which inherits a break without the pages, starts with holes.            *)
OnlyForkUncovers ==
  [][\A t \in Live' :
       Covered(t)' \/ IF t \in Live THEN ~Covered(t)
                      ELSE ~Covered(current) \/ dir'[t] # dir[current]]_memoryVars

(* However it was used, a live directory has more free pages than there    *)
(* are free frames.  So sbrk never runs out of pages (-EAGAIN, sys.c:338)  *)
(* and fork always finds one for its temporary mapping (sys.c:112).        *)
PagesOutlastFrames ==
  \A t \in Live :
    Cardinality({p \in HeapPages : heap[dir[t]][p] = NoEntry})
      > Cardinality(FreeFrames(phys_mem))
=============================================================================
