------------------------------ MODULE Processes ------------------------------
(***************************************************************************)
(* Processes and threads: fork, clone and exit (sys.c), PIDs, page         *)
(* directories and their reference counts (sched.c, mm.c), and the bytemap *)
(* of physical frames (mm.c).                                              *)
(*                                                                         *)
(* A directory is one of NR_TASKS slots; its page table is reduced to the  *)
(* frames of the data pages and to whether page 0 and the guard pages are  *)
(* mapped.  Frames are never looked into here: what is copied into them is *)
(* another matter.                                                         *)
(***************************************************************************)
EXTENDS Sched, FiniteSets

CONSTANTS
  NUM_PAG_KERNEL,   \* frames below this one are the kernel's
  TOTAL_PAGES,      \* number of frames
  NUM_PAG_CODE,     \* code pages of a process
  NUM_PAG_DATA,     \* data and stack pages of a process
  PAGE_SIZE,        \* bytes in a page
  MaxPid            \* bound: no process is created after this PID

ASSUME ProcAssumption ==
  /\ NUM_PAG_KERNEL \in Nat \ {0} /\ TOTAL_PAGES \in Nat
  /\ NUM_PAG_CODE \in Nat /\ NUM_PAG_DATA \in Nat \ {0}
  /\ PAGE_SIZE \in Nat \ {0}
  /\ NUM_PAG_KERNEL + 4 * (NUM_PAG_CODE + NUM_PAG_DATA) <= TOTAL_PAGES
  /\ MaxPid \in Nat /\ MaxPid >= 13

Dirs   == 0 .. NR_TASKS - 1
Frames == 0 .. TOTAL_PAGES - 1
NoDir  == -1

VARIABLES
  PID,              \* slot -> PID field; -1 after exit, 0 before the first use
  nextPid,          \* last PID given out
  dir,              \* slot -> its directory (dir_pages_baseAddr)
  dir_references,   \* directory -> how many tasks use it
  cr3,              \* the directory the processor translates with
  phys_mem,         \* the frames marked USED_FRAME
  data,             \* directory -> the frames of its data pages, in page order
  nullMapped        \* directory -> page 0 and the guard pages are mapped

procVars == <<PID, nextPid, dir, dir_references, cr3, phys_mem, data, nullMapped>>
vars     == <<schedVars, procVars>>

Live == Tasks \ Range(queue[freequeue])

-----------------------------------------------------------------------------
(* alloc_frame() looks at every second frame from NUM_PAG_KERNEL up and    *)
(* takes the first free one.                                               *)
Allocatable   == {f \in NUM_PAG_KERNEL .. TOTAL_PAGES - 1 : (f - NUM_PAG_KERNEL) % 2 = 0}

(* Mutant: the bytemap is not looked at. *)
FreeFrames_Any(u) == Allocatable

FreeFrames(u) == Allocatable \ u

(* What n calls of alloc_frame() return, the used frames being u. *)
Allocations(u, n) ==
  {cf \in [1 .. n -> FreeFrames(u)] :
     /\ \A i, j \in 1 .. n : i < j => cf[i] < cf[j]
     /\ \A i \in 1 .. n, f \in FreeFrames(u) : f < cf[i] => f \in Range(cf)}

(* Mutant: the frames are not given back. *)
Freed_Not(u, S) == u

(* free_frame() of every frame in S *)
Freed(u, S) == u \ {f \in S : NUM_PAG_KERNEL < f /\ f < TOTAL_PAGES}

(* allocate_DIR(): the first directory nobody refers to; past the array    *)
(* when there is none.                                                     *)
AllocateDIR ==
  IF \E d \in Dirs : dir_references[d] = 0
  THEN CHOOSE d \in Dirs : /\ dir_references[d] = 0
                           /\ \A e \in Dirs : dir_references[e] = 0 => d <= e
  ELSE NR_TASKS

-----------------------------------------------------------------------------
(* Boot: monoprocess_init_addr_space() gives directory 0 a set of user     *)
(* pages before the reference counts are cleared, so init_idle() takes     *)
(* directory 0 with those pages, and init_task1() directory 1 with pages   *)
(* of its own.                                                             *)
UserPages  == NUM_PAG_CODE + NUM_PAG_DATA
BootFrame(k, i) == NUM_PAG_KERNEL + 2 * (k * UserPages + NUM_PAG_CODE + i - 1)

(* init_frames() marks the frames of the kernel; two sets of pages follow. *)
BootUsed ==
  {f \in Frames : f < NUM_PAG_KERNEL}
    \cup {NUM_PAG_KERNEL + 2 * i : i \in 0 .. 2 * UserPages - 1}

(* init_table_pages() *)
BootNullMapped == [d \in Dirs |-> FALSE]

ProcInit ==
  /\ SchedInit
  /\ PID = [t \in Tasks |-> IF t = Task1 THEN 1 ELSE 0]
  /\ nextPid = 13
  /\ dir = [t \in Tasks |-> IF t = IdleTask THEN 0 ELSE IF t = Task1 THEN 1
                            ELSE IF t = 0 THEN 0 ELSE NoDir]
  /\ dir_references = [d \in Dirs |-> IF d \in {0, 1} THEN 1 ELSE 0]
  /\ cr3 = 1
  /\ phys_mem = BootUsed
  /\ data = [d \in Dirs |-> IF d \in {0, 1}
                            THEN [i \in 1 .. NUM_PAG_DATA |-> BootFrame(d, i)]
                            ELSE << >>]
  /\ nullMapped = BootNullMapped

-----------------------------------------------------------------------------
(* Mutant: cr3 is never reloaded. *)
SwitchSpace_Never == cr3' = cr3

(* inner_task_switch() reloads cr3 when the new task has another directory *)
(* than the old one.                                                       *)
SwitchSpace == cr3' = IF dir'[current'] # dir'[current] THEN dir'[current'] ELSE cr3

(* sys_fork with a free slot and enough frames.  All pages below the data  *)
(* pages are entered into the child's table, the ones the father has not   *)
(* got included; flushing the TLB reloads the father's directory.          *)
Fork ==
  /\ nextPid < MaxPid
  /\ Spawn
  /\ \E child_frames \in Allocations(phys_mem, NUM_PAG_DATA) :
       /\ phys_mem' = phys_mem \cup Range(child_frames)
       /\ data' = [data EXCEPT ![AllocateDIR] = child_frames]
  /\ dir' = [dir EXCEPT ![Child] = AllocateDIR]
  /\ dir_references' = [dir_references EXCEPT ![AllocateDIR] = @ + 1]
  /\ nullMapped' = [nullMapped EXCEPT ![AllocateDIR] = TRUE]
  /\ cr3' = dir[current]
  /\ nextPid' = nextPid + 1
  /\ PID' = [PID EXCEPT ![Child] = nextPid + 1]

(* sys_fork out of frames: the ones it got are given back. *)
ForkNoFrames ==
  /\ current # IdleTask
  /\ queue[freequeue] # << >>
  /\ Cardinality(FreeFrames(phys_mem)) < NUM_PAG_DATA
  /\ phys_mem' = Freed(phys_mem \cup FreeFrames(phys_mem), FreeFrames(phys_mem))
  /\ UNCHANGED <<schedVars, PID, nextPid, dir, dir_references, cr3, data, nullMapped>>

(* sys_fork and sys_clone out of slots: -ENOMEM, nothing touched. *)
NoSlot ==
  /\ current # IdleTask
  /\ queue[freequeue] = << >>
  /\ UNCHANGED vars

(* Mutant: the shared directory is not counted. *)
Clone_NoReference ==
  /\ nextPid < MaxPid
  /\ Spawn
  /\ dir' = [dir EXCEPT ![Child] = dir[current]]
  /\ nextPid' = nextPid + 1
  /\ PID' = [PID EXCEPT ![Child] = nextPid + 1]
  /\ UNCHANGED <<dir_references, cr3, phys_mem, data, nullMapped>>

(* sys_clone with a free slot and arguments access_ok() accepts. *)
Clone ==
  /\ nextPid < MaxPid
  /\ Spawn
  /\ dir' = [dir EXCEPT ![Child] = dir[current]]
  /\ dir_references' = [dir_references EXCEPT ![dir[current]] = @ + 1]
  /\ nextPid' = nextPid + 1
  /\ PID' = [PID EXCEPT ![Child] = nextPid + 1]
  /\ UNCHANGED <<cr3, phys_mem, data, nullMapped>>

(* Mutants: the directory stays referred to; the dead process keeps its    *)
(* PID.                                                                    *)
SysExit_KeepsReference ==
  /\ Exit
  /\ PID' = [PID EXCEPT ![current] = -1]
  /\ UNCHANGED <<nextPid, dir, dir_references, phys_mem, data, nullMapped>>
  /\ SwitchSpace

SysExit_KeepsPid ==
  /\ Exit
  /\ dir_references' = [dir_references EXCEPT ![dir[current]] = @ - 1]
  /\ UNCHANGED <<PID, nextPid, dir, phys_mem, data, nullMapped>>
  /\ SwitchSpace

(* sys_exit: `dir_references == 0' compares the array's address, so        *)
(* free_user_pages() is never called.                                      *)
SysExit ==
  /\ Exit
  /\ dir_references' = [dir_references EXCEPT ![dir[current]] = @ - 1]
  /\ PID' = [PID EXCEPT ![current] = -1]
  /\ UNCHANGED <<nextPid, dir, phys_mem, data, nullMapped>>
  /\ SwitchSpace

(* The timer and the calls that block or wake touch nothing of a process   *)
(* but its place, and switch the address space when they dispatch.         *)
OnlyScheduling ==
  /\ UNCHANGED <<PID, nextPid, dir, dir_references, phys_mem, data, nullMapped>>
  /\ SwitchSpace

Tick == ClockInterrupt /\ OnlyScheduling

ProcessCall == Fork \/ ForkNoFrames \/ NoSlot \/ Clone \/ SysExit

ProcNext ==
  \/ ProcessCall
  \/ Tick
  \/ \E l \in WaitQueues : (Block(l) \/ Wake(l)) /\ OnlyScheduling

ProcSafety == ProcInit /\ [][ProcNext]_vars

(* sys_get_stats(p): the slot it reports on, none when it returns -1.  It  *)
(* looks at the caller first, then at every slot, the free ones included.  *)
LookupPid(p) ==
  LET found == {t \in Tasks : PID[t] = p}
  IN  IF PID[current] = p THEN {current}
      ELSE {t \in found : \A u \in found : t <= u}

-----------------------------------------------------------------------------
(* Type invariant.  A directory past the array would show here.            *)
ProcTypeOK ==
  /\ PID \in [Tasks -> {-1, 0, 1} \cup 14 .. MaxPid]
  /\ nextPid \in 13 .. MaxPid
  /\ dir \in [Tasks -> Dirs \cup {NoDir}]
  /\ dir_references \in [Dirs -> 0 .. NR_TASKS]
  /\ cr3 \in Dirs
  /\ phys_mem \subseteq Frames
  /\ data \in [Dirs -> Seq(Frames)]
  /\ nullMapped \in [Dirs -> BOOLEAN]

(* A directory is referred to as often as it has live tasks, so it is      *)
(* taken again exactly when its last task is gone (allocate_DIR).          *)
RefCounts ==
  /\ \A t \in Live : dir[t] \in Dirs
  /\ \A d \in Dirs : dir_references[d] = Cardinality({t \in Live : dir[t] = d})

(* The processor translates with the directory of the task it runs.        *)
AddressSpaceLoaded == cr3 = dir[current]

(* The data pages of two processes never share a frame, and no live        *)
(* process has a data page without a frame of its own.                     *)
FrameIsolation ==
  \A t, u \in Live :
    /\ Len(data[dir[t]]) = NUM_PAG_DATA /\ IsInjective(data[dir[t]])
    /\ Range(data[dir[t]]) \subseteq phys_mem \cap NUM_PAG_KERNEL .. TOTAL_PAGES - 1
    /\ dir[t] # dir[u] => Range(data[dir[t]]) \cap Range(data[dir[u]]) = {}

(* get_stats() resolves every PID ever given to a process: to the one live *)
(* task that has it, to nothing once that task is dead.                    *)
PidsResolve ==
  \A p \in {1} \cup 14 .. nextPid : LookupPid(p) = {t \in Live : PID[t] = p}

(* A call that creates no process keeps no frame, wherever it fails: new   *)
(* frames are always exactly those of the data pages of a new directory.   *)
FramesOnlyForChildren ==
  [][phys_mem' # phys_mem =>
       \E t \in Live' \ Live :
          /\ Range(data'[dir'[t]]) = phys_mem' \ phys_mem
          /\ dir_references[dir'[t]] = 0]_vars

(* README_E2.txt, test 16, "EXIT FREES DATA FRAMES": with the last task of *)
(* an address space its data frames are free again.                        *)
ExitFreesFrames ==
  [][\A d \in Dirs :
       dir_references[d] = 1 /\ dir_references'[d] = 0
         => Range(data[d]) \cap phys_mem' = {}]_vars

==============================================================================
