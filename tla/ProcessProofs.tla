---------------------------- MODULE ProcessProofs ----------------------------
(***************************************************************************)
(* Proofs that fork, clone and exit keep the PIDs, the directories, their  *)
(* reference counts and the frames in order, for any number of slots and   *)
(* pages and whatever the scheduler does in between.                       *)
(*                                                                         *)
(* PInv is inductive.  It holds the scheduler's IInv, because a directory  *)
(* is free only if the slots on freequeue are no process's, and            *)
(* PidsDistinct, without which get_stats() could find two slots.           *)
(***************************************************************************)
EXTENDS Processes, SchedProofs, FiniteSetTheorems

(* PIDs tell the live tasks apart, and a free slot has none of theirs.     *)
PidsDistinct ==
  /\ PID[IdleTask] = 0
  /\ \A t \in Live \ {IdleTask} : PID[t] \in {1} \cup 14 .. nextPid
  /\ \A t, u \in Live : PID[t] = PID[u] => t = u
  /\ \A t \in Tasks \ Live : PID[t] \in {-1, 0}

PInv ==
  /\ IInv /\ ProcTypeOK
  /\ RefCounts /\ AddressSpaceLoaded /\ FrameIsolation /\ PidsDistinct
  /\ NUM_PAG_KERNEL \in phys_mem

Users(d) == {t \in Live : dir[t] = d}

-----------------------------------------------------------------------------
(* Every nonempty set of naturals has a least element: induction, in the   *)
(* form the provers can use.                                               *)
LEMMA LeastElement ==
  ASSUME NEW T \in SUBSET Nat, T # {}
  PROVE  \E x \in T : \A y \in T : x <= y
<1>1. \E R : IsWellFoundedOn(R, Nat) /\ \A x, y \in Nat : x < y => <<x, y>> \in R
  <2>1. \A x, y \in Nat : x < y => <<x, y>> \in OpToRel(<, Nat)
    BY Zenon DEF OpToRel
  <2> QED BY <2>1, NatLessThanWellFounded, Zenon
<1>2. PICK R : IsWellFoundedOn(R, Nat) /\ \A x, y \in Nat : x < y => <<x, y>> \in R
  BY <1>1
<1>3. T \subseteq Nat
  OBVIOUS
<1>4. IsWellFoundedOn(R, Nat)
  BY <1>2
<1>5. \E x \in T : \A y \in T : <<y, x>> \notin R
  BY <1>3, <1>4, WFMin
<1>6. PICK x \in T : \A y \in T : <<y, x>> \notin R
  BY <1>5
<1>7. ASSUME NEW y \in T PROVE ~(y < x)
  <2>1. x \in Nat /\ y \in Nat
    BY <1>3
  <2>2. y < x => <<y, x>> \in R
    BY <1>2, <2>1
  <2> QED BY <1>6, <2>2, Zenon
<1>8. \A y \in T : x <= y
  BY <1>3, <1>7
<1> QED BY <1>8

LEMMA SlotsFinite ==
  /\ IsFiniteSet(Tasks) /\ Cardinality(Tasks) = NR_TASKS
  /\ IsFiniteSet(Dirs) /\ Cardinality(Dirs) = NR_TASKS
  /\ Tasks \subseteq Nat /\ Dirs \subseteq Nat
  /\ 0 \in Dirs /\ 1 \in Dirs
BY SchedAssumption, FS_Interval DEF Tasks, Dirs

LEMMA UsersFinite ==
  ASSUME NEW d
  PROVE  /\ IsFiniteSet(Users(d)) /\ Cardinality(Users(d)) \in 0 .. NR_TASKS
         /\ Cardinality(Users(d)) = 0 <=> Users(d) = {}
<1>1. Users(d) \in SUBSET Tasks
  BY DEF Users, Live
<1>2. IsFiniteSet(Users(d)) /\ Cardinality(Users(d)) <= NR_TASKS
  BY ONLY <1>1, SlotsFinite, FS_Subset
<1>3. Cardinality(Users(d)) \in Nat
  BY ONLY <1>2, FS_CardinalityType
<1> QED BY <1>2, <1>3, FS_EmptySet, SchedAssumption

LEMMA LiveTasks ==
  ASSUME IInv
  PROVE  current \in Live /\ IdleTask \in Live /\ Live \subseteq Tasks
BY IInvShape, Constants DEF Consistent, Running, IdleApart, Live

(* There is a directory for every slot: while a slot is free, allocate_DIR *)
(* finds a directory nobody refers to, and never runs past the array.      *)
LEMMA FreeDirectory ==
  ASSUME IInv, RefCounts, ProcTypeOK, queue[freequeue] # << >>
  PROVE  /\ AllocateDIR \in Dirs /\ dir_references[AllocateDIR] = 0
         /\ \A t \in Live : dir[t] # AllocateDIR
<1>1. queue[freequeue] \in Seq(Tasks)
  BY IInvShape, Constants DEF Consistent
<1>2. Child \in Tasks /\ Child \in Range(queue[freequeue])
  BY ONLY <1>1, queue[freequeue] # << >> DEF Child, Range
<1>3. \E d \in Dirs : dir_references[d] = 0
  <2>1. SUFFICES ASSUME \A d \in Dirs : dir_references[d] # 0 PROVE FALSE
    OBVIOUS
  <2> DEFINE f == [t \in Live |-> dir[t]]
  <2>2. f \in [Live -> Dirs]
    BY DEF RefCounts
  <2>3. ASSUME NEW d \in Dirs PROVE \E t \in Live : f[t] = d
    <3>1. Users(d) # {}
      BY <2>1, UsersFinite DEF RefCounts, Users
    <3> QED BY <3>1 DEF Users
  <2>4. f \in Surjection(Live, Dirs)
    BY <2>2, <2>3 DEF Surjection
  <2>5. Live \in SUBSET (Tasks \ {Child})
    BY <1>2 DEF Live
  <2>6. IsFiniteSet(Tasks \ {Child}) /\ Cardinality(Tasks \ {Child}) = NR_TASKS - 1
    BY ONLY <1>2, SlotsFinite, FS_RemoveElement
  <2>7. IsFiniteSet(Live) /\ Cardinality(Live) <= NR_TASKS - 1
    BY ONLY <2>5, <2>6, FS_Subset
  <2> HIDE DEF f
  <2>8. Cardinality(Dirs) <= Cardinality(Live)
    BY ONLY <2>4, <2>7, FS_Surjection
  <2>9. Cardinality(Live) \in Nat
    BY ONLY <2>7, FS_CardinalityType
  <2> QED BY <2>7, <2>8, <2>9, SlotsFinite, SchedAssumption
<1> DEFINE free == {d \in Dirs : dir_references[d] = 0}
<1>4. \E d \in free : \A e \in free : d <= e
  BY <1>3, SlotsFinite, LeastElement
<1>5. /\ AllocateDIR \in Dirs /\ dir_references[AllocateDIR] = 0
  BY <1>3, <1>4 DEF AllocateDIR
<1>6. Users(AllocateDIR) = {}
  BY <1>5, UsersFinite DEF RefCounts, Users
<1> QED BY <1>5, <1>6 DEF Users

(* What alloc_frame() returns is nobody's, and no frame comes twice.       *)
LEMMA AllocationsFresh ==
  ASSUME NEW u, NEW n \in Nat, NEW cf \in Allocations(u, n)
  PROVE  /\ cf \in Seq(Frames) /\ Len(cf) = n /\ IsInjective(cf)
         /\ Range(cf) \subseteq NUM_PAG_KERNEL .. TOTAL_PAGES - 1
         /\ Range(cf) \cap u = {}
<1>1. /\ cf \in [1 .. n -> FreeFrames(u)]
      /\ \A i, j \in 1 .. n : i < j => cf[i] < cf[j]
  BY DEF Allocations
<1>2. /\ FreeFrames(u) \subseteq NUM_PAG_KERNEL .. TOTAL_PAGES - 1
      /\ FreeFrames(u) \cap u = {}
      /\ FreeFrames(u) \subseteq Frames
  BY ProcAssumption DEF FreeFrames, Allocatable, Frames
<1>3. cf \in Seq(FreeFrames(u)) /\ Len(cf) = n
  BY <1>1
<1>4. Range(cf) \subseteq FreeFrames(u)
  BY <1>1 DEF Range
<1>5. IsInjective(cf)
  <2>1. ASSUME NEW i \in 1 .. n, NEW j \in 1 .. n, cf[i] = cf[j] PROVE i = j
    <3>1. cf[i] \in Int /\ cf[j] \in Int
      BY <1>1, <1>2, ProcAssumption DEF Frames
    <3> QED BY <1>1, <2>1, <3>1
  <2> QED BY <1>1, <2>1 DEF IsInjective
<1>6. cf \in Seq(Frames)
  BY <1>1, <1>2, <1>3
<1> QED BY <1>2, <1>3, <1>4, <1>5, <1>6

-----------------------------------------------------------------------------
(* How the counts follow the tasks that come and go.                       *)
LEMMA TaskComes ==
  ASSUME RefCounts, ProcTypeOK, NEW c \in Tasks \ Live, NEW d \in Dirs,
         Live' = Live \cup {c},
         dir' = [dir EXCEPT ![c] = d],
         dir_references' = [dir_references EXCEPT ![d] = @ + 1]
  PROVE  /\ RefCounts' /\ dir' \in [Tasks -> Dirs \cup {NoDir}]
         /\ dir_references' \in [Dirs -> 0 .. NR_TASKS]
<1>1. dir \in [Tasks -> Dirs \cup {NoDir}] /\ dir_references \in [Dirs -> 0 .. NR_TASKS]
  BY DEF ProcTypeOK
<1>2. /\ dir' \in [Tasks -> Dirs \cup {NoDir}] /\ dir'[c] = d
      /\ \A t \in Live : dir'[t] = dir[t]
  BY <1>1 DEF Live
<1>3. \A t \in Live' : dir'[t] \in Dirs
  BY <1>2 DEF RefCounts
<1>4. Users(d)' = Users(d) \cup {c} /\ c \notin Users(d)
  BY <1>2 DEF Users
<1>5. \A e \in Dirs \ {d} : Users(e)' = Users(e)
  BY <1>2 DEF Users
<1>6. Cardinality(Users(d) \cup {c}) = Cardinality(Users(d)) + 1
  BY ONLY <1>4, UsersFinite, FS_AddElement
<1>7. \A e \in Dirs : dir_references'[e] = Cardinality(Users(e)')
  BY <1>1, <1>4, <1>5, <1>6 DEF RefCounts, Users
<1>8. Live' \subseteq Tasks
  BY DEF Live
<1>9. ASSUME NEW e \in Dirs PROVE Cardinality(Users(e)') \in 0 .. NR_TASKS
  <2>1. Users(e)' \in SUBSET Tasks
    BY <1>8 DEF Users
  <2>2. IsFiniteSet(Users(e)') /\ Cardinality(Users(e)') <= NR_TASKS
    BY ONLY <2>1, SlotsFinite, FS_Subset
  <2>3. Cardinality(Users(e)') \in Nat
    BY ONLY <2>2, FS_CardinalityType
  <2> QED BY <2>2, <2>3, SchedAssumption
<1>10. dir_references' \in [Dirs -> 0 .. NR_TASKS]
  BY <1>1, <1>7, <1>9
<1> QED BY <1>2, <1>3, <1>7, <1>10 DEF RefCounts, Users

LEMMA TaskGoes ==
  ASSUME RefCounts, ProcTypeOK, NEW c \in Live,
         Live' = Live \ {c}, dir' = dir,
         dir_references' = [dir_references EXCEPT ![dir[c]] = @ - 1]
  PROVE  RefCounts' /\ dir_references' \in [Dirs -> 0 .. NR_TASKS]
<1>1. dir_references \in [Dirs -> 0 .. NR_TASKS] /\ dir[c] \in Dirs
  BY DEF ProcTypeOK, RefCounts
<1>2. Users(dir[c])' = Users(dir[c]) \ {c} /\ c \in Users(dir[c])
  BY DEF Users
<1>3. \A e \in Dirs \ {dir[c]} : Users(e)' = Users(e)
  BY DEF Users
<1>4. Cardinality(Users(dir[c]) \ {c}) = Cardinality(Users(dir[c])) - 1
  BY ONLY <1>2, UsersFinite, FS_RemoveElement
<1>5. \A e \in Dirs : dir_references'[e] = Cardinality(Users(e)')
  BY <1>1, <1>2, <1>3, <1>4 DEF RefCounts, Users
<1>6. Cardinality(Users(dir[c])) # 0
  BY <1>2, UsersFinite
<1>7. dir_references[dir[c]] # 0
  BY <1>1, <1>6 DEF RefCounts, Users
<1>8. dir_references' \in [Dirs -> 0 .. NR_TASKS]
  BY <1>1, <1>7, SchedAssumption
<1> QED BY <1>5, <1>8 DEF RefCounts, Users

(* A step that moves tasks between lists, but none from or to freequeue,   *)
(* and leaves what a process has alone.                                    *)
LEMMA PlacesMove ==
  ASSUME PInv, IInv', queue'[freequeue] = queue[freequeue], OnlyScheduling
  PROVE  PInv'
<1>1. Live' = Live
  BY DEF Live
<1>2. UNCHANGED <<PID, nextPid, dir, dir_references, phys_mem, data, nullMapped>>
  BY DEF OnlyScheduling
<1>3. cr3' = dir'[current']
  BY <1>2 DEF OnlyScheduling, SwitchSpace, PInv, AddressSpaceLoaded
<1>4. RefCounts' /\ FrameIsolation' /\ PidsDistinct'
  BY <1>1, <1>2 DEF PInv, RefCounts, FrameIsolation, PidsDistinct
<1>5. cr3' \in Dirs
  <2>1. current' \in Live
    BY <1>1, IInvShapeNext, Constants DEF Consistent, Running, Live
  <2> QED BY <1>2, <1>3, <2>1 DEF PInv, RefCounts
<1>6. ProcTypeOK'
  BY <1>2, <1>5 DEF PInv, ProcTypeOK
<1> QED BY <1>2, <1>3, <1>4, <1>6 DEF PInv, AddressSpaceLoaded

LEMMA NothingMoves ==
  ASSUME PInv, UNCHANGED vars PROVE PInv'
<1>1. IInv'
  BY StepKeeps DEF PInv, vars
<1>2. UNCHANGED <<queue, state, quantum, current, remaining_ticks>> /\ UNCHANGED procVars
  BY DEF vars, schedVars
<1>3. OnlyScheduling
  BY <1>2 DEF procVars, OnlyScheduling, SwitchSpace
<1> QED BY <1>1, <1>2, <1>3, PlacesMove

LEMMA TickProc ==
  ASSUME PInv, Tick PROVE PInv'
<1>1. IInv /\ ClockInterrupt /\ OnlyScheduling
  BY DEF PInv, Tick
<1> QED BY <1>1, ClockKeeps, ClockPlaces, PlacesMove, Constants

LEMMA BlockProc ==
  ASSUME PInv, NEW l \in WaitQueues, Block(l), OnlyScheduling PROVE PInv'
<1>1. IInv
  BY DEF PInv
<1> QED BY <1>1, BlockKeeps, BlockPlaces, PlacesMove, Constants

LEMMA WakeProc ==
  ASSUME PInv, NEW l \in WaitQueues, Wake(l), OnlyScheduling PROVE PInv'
<1>1. IInv
  BY DEF PInv
<1> QED BY <1>1, WakeKeeps, WakePlaces, PlacesMove, Constants

LEMMA WakeAllProc ==
  ASSUME PInv, NEW l \in WaitQueues, WakeAll(l), OnlyScheduling PROVE PInv'
<1>1. IInv
  BY DEF PInv
<1> QED BY <1>1, WakeAllKeeps, WakeAllPlaces, PlacesMove, Constants

LEMMA ResetProc ==
  ASSUME PInv, NEW l \in WaitQueues, ResetQueue(l), UNCHANGED procVars PROVE PInv'
<1>1. IInv
  BY DEF PInv
<1>2. current' = current
  BY DEF ResetQueue
<1>3. OnlyScheduling
  BY <1>2 DEF procVars, OnlyScheduling, SwitchSpace
<1> QED BY <1>1, <1>3, ResetKeeps, ResetPlaces, PlacesMove, Constants

-----------------------------------------------------------------------------
(* fork and clone: one task more, with a PID nobody has.                   *)
LEMMA SpawnLive ==
  ASSUME PInv, Spawn
  PROVE  /\ IInv' /\ current' = current /\ current \in Live
         /\ Child \in Tasks \ Live /\ Live' = Live \cup {Child}
         /\ Child # IdleTask
<1>1. IInv
  BY DEF PInv
<1>2. /\ IInv' /\ current' = current
      /\ Child \in Tasks /\ Child \in Range(queue[freequeue])
      /\ \A u \in Tasks : u \in Range(queue'[freequeue])
                           <=> u \in Range(queue[freequeue]) /\ u # Child
  BY <1>1, SpawnKeeps, SpawnPlaces DEF Members
<1>3. Child \in Tasks \ Live /\ Live' = Live \cup {Child}
  BY <1>2 DEF Live
<1> QED BY <1>1, <1>2, <1>3, LiveTasks

LEMMA NewPid ==
  ASSUME PInv, Spawn, nextPid < MaxPid, nextPid' = nextPid + 1,
         PID' = [PID EXCEPT ![Child] = nextPid + 1]
  PROVE  /\ PidsDistinct'
         /\ PID' \in [Tasks -> {-1, 0, 1} \cup 14 .. MaxPid]
         /\ nextPid' \in 13 .. MaxPid
<1>1. /\ PID \in [Tasks -> {-1, 0, 1} \cup 14 .. MaxPid]
      /\ nextPid \in 13 .. MaxPid /\ MaxPid \in Nat
  BY ProcAssumption DEF PInv, ProcTypeOK
<1>2. /\ PidsDistinct /\ Live \subseteq Tasks /\ IdleTask \in Tasks
      /\ Child \in Tasks \ Live /\ Live' = Live \cup {Child} /\ Child # IdleTask
  BY SpawnLive, Constants DEF PInv, Live
<1>3. /\ PID'[Child] = nextPid + 1 /\ nextPid + 1 \in 14 .. MaxPid
      /\ \A t \in Tasks \ {Child} : PID'[t] = PID[t]
  BY <1>1, <1>2
<1>4. PID'[IdleTask] = 0
  BY <1>2, <1>3 DEF PidsDistinct
<1>5. \A t \in Live' \ {IdleTask} : PID'[t] \in {1} \cup 14 .. nextPid'
  BY <1>1, <1>2, <1>3 DEF PidsDistinct
<1>6. \A t \in Live : PID[t] # nextPid + 1
  BY <1>1, <1>2 DEF PidsDistinct
<1>7. \A t, u \in Live' : PID'[t] = PID'[u] => t = u
  BY <1>2, <1>3, <1>6 DEF PidsDistinct
<1>8. \A t \in Tasks \ Live' : PID'[t] \in {-1, 0}
  BY <1>2, <1>3 DEF PidsDistinct
<1>9. PID' \in [Tasks -> {-1, 0, 1} \cup 14 .. MaxPid]
  <2> DEFINE Pids == {-1, 0, 1} \cup 14 .. MaxPid
  <2>1. nextPid + 1 \in Pids
    BY <1>3
  <2> HIDE DEF Pids
  <2>2. PID \in [Tasks -> Pids]
    BY <1>1 DEF Pids
  <2>3. PID' \in [Tasks -> Pids]
    BY <2>1, <2>2
  <2> QED BY <2>3 DEF Pids
<1>10. nextPid' \in 13 .. MaxPid
  BY <1>1
<1> QED BY <1>4, <1>5, <1>7, <1>8, <1>9, <1>10 DEF PidsDistinct

LEMMA CloneProc == ASSUME PInv, Clone PROVE PInv'
<1>1. /\ Spawn /\ nextPid < MaxPid /\ nextPid' = nextPid + 1
      /\ PID' = [PID EXCEPT ![Child] = nextPid + 1]
      /\ dir' = [dir EXCEPT ![Child] = dir[current]]
      /\ dir_references' = [dir_references EXCEPT ![dir[current]] = @ + 1]
      /\ UNCHANGED <<cr3, phys_mem, data, nullMapped>>
  BY DEF Clone
<1>2. /\ IInv' /\ current' = current /\ current \in Live /\ Live \subseteq Tasks
      /\ Child \in Tasks \ Live /\ Live' = Live \cup {Child}
  BY <1>1, SpawnLive DEF Live
<1>3. /\ ProcTypeOK /\ RefCounts /\ FrameIsolation /\ cr3 = dir[current]
      /\ dir \in [Tasks -> Dirs \cup {NoDir}]
      /\ dir[current] \in Dirs /\ NUM_PAG_KERNEL \in phys_mem
  BY <1>2 DEF PInv, ProcTypeOK, RefCounts, AddressSpaceLoaded
<1>4. /\ RefCounts' /\ dir' \in [Tasks -> Dirs \cup {NoDir}]
      /\ dir_references' \in [Dirs -> 0 .. NR_TASKS]
  BY ONLY <1>1, <1>2, <1>3, TaskComes
<1>5. /\ PidsDistinct' /\ PID' \in [Tasks -> {-1, 0, 1} \cup 14 .. MaxPid]
      /\ nextPid' \in 13 .. MaxPid
  BY <1>1, NewPid
<1>6. /\ dir'[Child] = dir[current]
      /\ \A t \in Live : dir'[t] = dir[t]
  BY <1>1, <1>2, <1>3
<1>7. FrameIsolation'
  <2>1. \A t \in Live' : \E v \in Live : dir'[t] = dir[v]
    BY <1>2, <1>6
  <2> QED BY <1>1, <1>3, <2>1 DEF FrameIsolation
<1>8. AddressSpaceLoaded'
  BY <1>1, <1>2, <1>3, <1>6 DEF AddressSpaceLoaded
<1>9. ProcTypeOK'
  BY <1>1, <1>3, <1>4, <1>5 DEF ProcTypeOK
<1> QED BY <1>1, <1>2, <1>3, <1>4, <1>5, <1>7, <1>8, <1>9 DEF PInv

(* What fork makes: a directory nobody used, with frames nobody had.       *)
LEMMA ForkMakes ==
  ASSUME PInv, Fork
  PROVE  /\ AllocateDIR \in Dirs /\ dir_references[AllocateDIR] = 0
         /\ \A t \in Live : dir[t] # AllocateDIR /\ dir'[t] = dir[t]
         /\ dir'[Child] = AllocateDIR
         /\ data' \in [Dirs -> Seq(Frames)]
         /\ \A d \in Dirs \ {AllocateDIR} : data'[d] = data[d]
         /\ Len(data'[AllocateDIR]) = NUM_PAG_DATA
         /\ IsInjective(data'[AllocateDIR])
         /\ Range(data'[AllocateDIR]) \subseteq NUM_PAG_KERNEL .. TOTAL_PAGES - 1
         /\ Range(data'[AllocateDIR]) \cap phys_mem = {}
         /\ phys_mem' = phys_mem \cup Range(data'[AllocateDIR])
<1>1. PICK child_frames \in Allocations(phys_mem, NUM_PAG_DATA) :
        /\ phys_mem' = phys_mem \cup Range(child_frames)
        /\ data' = [data EXCEPT ![AllocateDIR] = child_frames]
  BY DEF Fork
<1>2. /\ Spawn /\ queue[freequeue] # << >>
      /\ dir' = [dir EXCEPT ![Child] = AllocateDIR]
  BY DEF Fork, Spawn
<1>3. /\ IInv /\ ProcTypeOK /\ RefCounts
      /\ dir \in [Tasks -> Dirs \cup {NoDir}] /\ data \in [Dirs -> Seq(Frames)]
  BY DEF PInv, ProcTypeOK
<1>4. /\ AllocateDIR \in Dirs /\ dir_references[AllocateDIR] = 0
      /\ \A t \in Live : dir[t] # AllocateDIR
  BY ONLY <1>2, <1>3, FreeDirectory
<1>5. NUM_PAG_DATA \in Nat
  BY ProcAssumption
<1>6. /\ child_frames \in Seq(Frames) /\ Len(child_frames) = NUM_PAG_DATA
      /\ IsInjective(child_frames)
      /\ Range(child_frames) \subseteq NUM_PAG_KERNEL .. TOTAL_PAGES - 1
      /\ Range(child_frames) \cap phys_mem = {}
  BY ONLY <1>5, AllocationsFresh
<1>7. /\ data' \in [Dirs -> Seq(Frames)] /\ data'[AllocateDIR] = child_frames
      /\ \A d \in Dirs \ {AllocateDIR} : data'[d] = data[d]
  BY ONLY <1>1, <1>3, <1>4, <1>6
<1>8. Child \in Tasks \ Live /\ Live \subseteq Tasks
  BY <1>2, SpawnLive DEF Live
<1>9. dir'[Child] = AllocateDIR /\ \A t \in Live : dir'[t] = dir[t]
  BY ONLY <1>2, <1>3, <1>4, <1>8
<1> QED BY ONLY <1>1, <1>4, <1>6, <1>7, <1>9

LEMMA ForkProc == ASSUME PInv, Fork PROVE PInv'
<1>1. /\ Spawn /\ nextPid < MaxPid /\ nextPid' = nextPid + 1
      /\ PID' = [PID EXCEPT ![Child] = nextPid + 1]
      /\ dir' = [dir EXCEPT ![Child] = AllocateDIR]
      /\ dir_references' = [dir_references EXCEPT ![AllocateDIR] = @ + 1]
      /\ nullMapped' = [nullMapped EXCEPT ![AllocateDIR] = TRUE]
      /\ cr3' = dir[current]
  BY DEF Fork
<1>2. /\ IInv' /\ current' = current /\ current \in Live /\ Live \subseteq Tasks
      /\ Child \in Tasks \ Live /\ Live' = Live \cup {Child}
  BY <1>1, SpawnLive DEF Live
<1>3. /\ ProcTypeOK /\ RefCounts /\ FrameIsolation /\ cr3 = dir[current]
      /\ dir[current] \in Dirs /\ NUM_PAG_KERNEL \in phys_mem
      /\ phys_mem \subseteq Frames /\ nullMapped \in [Dirs -> BOOLEAN]
  BY <1>2 DEF PInv, ProcTypeOK, RefCounts, AddressSpaceLoaded
<1>4. /\ AllocateDIR \in Dirs
      /\ \A t \in Live : dir[t] # AllocateDIR /\ dir'[t] = dir[t]
      /\ dir'[Child] = AllocateDIR
      /\ data' \in [Dirs -> Seq(Frames)]
      /\ \A d \in Dirs \ {AllocateDIR} : data'[d] = data[d]
      /\ Len(data'[AllocateDIR]) = NUM_PAG_DATA
      /\ IsInjective(data'[AllocateDIR])
      /\ Range(data'[AllocateDIR]) \subseteq NUM_PAG_KERNEL .. TOTAL_PAGES - 1
      /\ Range(data'[AllocateDIR]) \cap phys_mem = {}
      /\ phys_mem' = phys_mem \cup Range(data'[AllocateDIR])
  BY ForkMakes
<1>5. /\ RefCounts' /\ dir' \in [Tasks -> Dirs \cup {NoDir}]
      /\ dir_references' \in [Dirs -> 0 .. NR_TASKS]
  BY ONLY <1>1, <1>2, <1>3, <1>4, TaskComes
<1>6. /\ PidsDistinct' /\ PID' \in [Tasks -> {-1, 0, 1} \cup 14 .. MaxPid]
      /\ nextPid' \in 13 .. MaxPid
  BY <1>1, NewPid
<1>7. FrameIsolation'
  <2>1. \A t \in Live : /\ dir[t] \in Dirs \ {AllocateDIR} /\ dir'[t] = dir[t]
                         /\ data'[dir'[t]] = data[dir[t]]
    BY <1>3, <1>4 DEF RefCounts
  <2>2. ASSUME NEW t \in Live'
        PROVE  /\ Len(data'[dir'[t]]) = NUM_PAG_DATA /\ IsInjective(data'[dir'[t]])
               /\ Range(data'[dir'[t]]) \subseteq phys_mem' \cap NUM_PAG_KERNEL .. TOTAL_PAGES - 1
    <3>1. CASE t = Child
      BY <1>4, <3>1
    <3>2. CASE t \in Live
      BY <1>3, <1>4, <2>1, <3>2 DEF FrameIsolation
    <3> QED BY <1>2, <3>1, <3>2
  <2>3. \A t \in Live : Range(data'[dir'[t]]) \subseteq phys_mem
    BY <1>3, <2>1 DEF FrameIsolation
  <2>4. ASSUME NEW t \in Live', NEW u \in Live', dir'[t] # dir'[u]
        PROVE  Range(data'[dir'[t]]) \cap Range(data'[dir'[u]]) = {}
    <3>1. CASE t \in Live /\ u \in Live
      BY <1>3, <2>1, <2>4, <3>1 DEF FrameIsolation
    <3>2. CASE t = Child /\ u \in Live
      BY <1>4, <2>3, <3>2
    <3>3. CASE t \in Live /\ u = Child
      BY <1>4, <2>3, <3>3
    <3> QED BY <1>2, <2>4, <3>1, <3>2, <3>3
  <2> QED BY <2>2, <2>4 DEF FrameIsolation
<1>8. AddressSpaceLoaded'
  BY <1>1, <1>2, <1>4 DEF AddressSpaceLoaded
<1>9. phys_mem' \subseteq Frames
  <2>1. NUM_PAG_KERNEL .. TOTAL_PAGES - 1 \subseteq Frames
    BY ProcAssumption DEF Frames
  <2> QED BY <1>3, <1>4, <2>1
<1>10. ProcTypeOK'
  BY <1>1, <1>3, <1>4, <1>5, <1>6, <1>9 DEF ProcTypeOK
<1> QED BY <1>2, <1>3, <1>4, <1>5, <1>6, <1>7, <1>8, <1>10 DEF PInv

(* A fork that runs out of frames gives back exactly what it took: the one *)
(* frame free_frame() would not give back is never free.                   *)
LEMMA ForkNoFramesNothing ==
  ASSUME PInv, ForkNoFrames PROVE UNCHANGED vars
<1>1. /\ phys_mem' = Freed(phys_mem \cup FreeFrames(phys_mem), FreeFrames(phys_mem))
      /\ UNCHANGED <<schedVars, PID, nextPid, dir, dir_references, cr3, data, nullMapped>>
  BY DEF ForkNoFrames
<1>2. \A f \in FreeFrames(phys_mem) : NUM_PAG_KERNEL < f /\ f < TOTAL_PAGES
  BY ProcAssumption DEF PInv, FreeFrames, Allocatable
<1>3. FreeFrames(phys_mem) \cap phys_mem = {}
  BY DEF FreeFrames
<1>4. phys_mem' = phys_mem
  BY <1>1, <1>2, <1>3 DEF Freed
<1> QED BY <1>1, <1>4 DEF vars, procVars

LEMMA ExitProc == ASSUME PInv, SysExit PROVE PInv'
<1>1. /\ Exit
      /\ dir_references' = [dir_references EXCEPT ![dir[current]] = @ - 1]
      /\ PID' = [PID EXCEPT ![current] = -1]
      /\ UNCHANGED <<nextPid, dir, phys_mem, data, nullMapped>>
      /\ cr3' = IF dir'[current'] # dir'[current] THEN dir'[current'] ELSE cr3
  BY DEF SysExit, SwitchSpace
<1>2. /\ IInv /\ ProcTypeOK /\ RefCounts /\ FrameIsolation /\ PidsDistinct
      /\ cr3 = dir[current] /\ NUM_PAG_KERNEL \in phys_mem
  BY DEF PInv, AddressSpaceLoaded
<1>3. IInv' /\ current # IdleTask /\ Live' = Live \ {current}
  <2>1. IInv' /\ current # IdleTask
    BY ONLY <1>1, <1>2, ExitKeeps, ExitPlaces
  <2>2. \A u \in Tasks : u \in Members(freequeue)' <=> u \in Members(freequeue) \cup {current}
    BY ONLY <1>1, <1>2, ExitPlaces
  <2> QED BY <2>1, <2>2 DEF Live, Members
<1>4. current \in Live /\ current' \in Live' /\ Live \subseteq Tasks
  BY <1>2, <1>3, LiveTasks, IInvShapeNext, Constants DEF Consistent, Running, Live
<1>5. RefCounts' /\ dir_references' \in [Dirs -> 0 .. NR_TASKS]
  <2>1. dir' = dir
    BY <1>1
  <2> QED BY ONLY <1>1, <1>2, <1>3, <1>4, <2>1, TaskGoes
<1>6. FrameIsolation'
  BY <1>1, <1>2, <1>3 DEF FrameIsolation
<1>7. cr3' = dir'[current'] /\ cr3' \in Dirs
  BY <1>1, <1>2, <1>4, <1>5 DEF RefCounts
<1>8. PID \in [Tasks -> {-1, 0, 1} \cup 14 .. MaxPid]
  BY <1>2 DEF ProcTypeOK
<1>9. PidsDistinct'
  BY <1>1, <1>2, <1>3, <1>4, <1>8 DEF PidsDistinct
<1>10. ProcTypeOK'
  BY <1>1, <1>2, <1>5, <1>7, <1>8 DEF ProcTypeOK
<1> QED BY <1>1, <1>2, <1>3, <1>5, <1>6, <1>7, <1>9, <1>10 DEF PInv, AddressSpaceLoaded

-----------------------------------------------------------------------------
(* Boot leaves two tasks, each with a directory and frames of its own.     *)
LEMMA BootFrames ==
  /\ \A k \in {0, 1}, i \in 1 .. NUM_PAG_DATA :
       BootFrame(k, i) \in BootUsed \cap NUM_PAG_KERNEL .. TOTAL_PAGES - 1
  /\ \A k, m \in {0, 1}, i, j \in 1 .. NUM_PAG_DATA :
       BootFrame(k, i) = BootFrame(m, j) => k = m /\ i = j
  /\ BootUsed \subseteq Frames
  /\ NUM_PAG_KERNEL \in BootUsed
<1> USE ProcAssumption DEF UserPages
<1>1. /\ UserPages \in Nat /\ UserPages >= 1
      /\ NUM_PAG_KERNEL + 4 * UserPages <= TOTAL_PAGES
  OBVIOUS
<1>2. ASSUME NEW i \in 1 .. NUM_PAG_DATA
      PROVE  /\ NUM_PAG_CODE + i - 1 \in 0 .. UserPages - 1
             /\ BootFrame(0, i) = NUM_PAG_KERNEL + 2 * (NUM_PAG_CODE + i - 1)
             /\ BootFrame(1, i) = NUM_PAG_KERNEL + 2 * (UserPages + NUM_PAG_CODE + i - 1)
  BY DEF BootFrame
<1> HIDE DEF UserPages
<1>3. \A j \in 0 .. 2 * UserPages - 1 :
        NUM_PAG_KERNEL + 2 * j \in BootUsed \cap NUM_PAG_KERNEL .. TOTAL_PAGES - 1
  BY <1>1 DEF BootUsed
<1>4. BootUsed \subseteq Frames
  BY <1>1 DEF BootUsed, Frames
<1>5. NUM_PAG_KERNEL \in BootUsed
  BY <1>1 DEF BootUsed
<1>6. \A k \in {0, 1}, i \in 1 .. NUM_PAG_DATA :
        BootFrame(k, i) \in BootUsed \cap NUM_PAG_KERNEL .. TOTAL_PAGES - 1
  <2>1. ASSUME NEW i \in 1 .. NUM_PAG_DATA
        PROVE  /\ NUM_PAG_CODE + i - 1 \in 0 .. 2 * UserPages - 1
               /\ UserPages + NUM_PAG_CODE + i - 1 \in 0 .. 2 * UserPages - 1
    BY <1>1, <1>2
  <2> QED BY <1>2, <1>3, <2>1
<1>7. \A k, m \in {0, 1}, i, j \in 1 .. NUM_PAG_DATA :
        BootFrame(k, i) = BootFrame(m, j) => k = m /\ i = j
  BY <1>1, <1>2
<1> QED BY <1>4, <1>5, <1>6, <1>7

LEMMA ProcInitHolds == ProcInit => PInv
<1> SUFFICES ASSUME ProcInit PROVE PInv
  OBVIOUS
<1> USE Constants
<1>1. IInv /\ current = Task1 /\ Live = {IdleTask, Task1}
  <2>1. SchedInit
    BY DEF ProcInit
  <2>2. IInv /\ current = Task1
    BY <2>1, InitHolds DEF SchedInit
  <2>3. queue[freequeue] = [i \in 1 .. NR_TASKS - 2 |-> NR_TASKS - 2 - i]
    BY <2>1 DEF SchedInit
  <2>4. ASSUME NEW t \in Tasks, t # IdleTask, t # Task1 PROVE t \in Range(queue[freequeue])
    <3>1. /\ NR_TASKS - 2 - t \in 1 .. NR_TASKS - 2
          /\ NR_TASKS - 2 - (NR_TASKS - 2 - t) = t
      BY <2>4, SchedAssumption DEF Tasks, IdleTask, Task1
    <3> QED BY <2>3, <3>1 DEF Range
  <2> QED BY <2>2, <2>4, LiveTasks DEF Live
<1>2. /\ PID \in [Tasks -> {-1, 0, 1} \cup 14 .. MaxPid]
      /\ nextPid \in 13 .. MaxPid
      /\ \A t \in Tasks : PID[t] = IF t = Task1 THEN 1 ELSE 0
  BY ProcAssumption DEF ProcInit
<1>3. PidsDistinct
  BY <1>1, <1>2 DEF PidsDistinct
<1>4. /\ dir \in [Tasks -> Dirs \cup {NoDir}]
      /\ dir[IdleTask] = 0 /\ dir[Task1] = 1
      /\ cr3 = 1 /\ cr3 \in Dirs
  BY SlotsFinite DEF ProcInit
<1>5. /\ dir_references \in [Dirs -> 0 .. NR_TASKS]
      /\ \A d \in Dirs : dir_references[d] = IF d \in {0, 1} THEN 1 ELSE 0
  BY SlotsFinite, SchedAssumption DEF ProcInit
<1>6. RefCounts
  <2>1. Users(0) = {IdleTask} /\ Users(1) = {Task1}
    BY <1>1, <1>4 DEF Users
  <2>2. \A d \in Dirs \ {0, 1} : Users(d) = {}
    BY <1>1, <1>4 DEF Users
  <2>3. /\ Cardinality(Users(0)) = 1 /\ Cardinality(Users(1)) = 1
        /\ \A d \in Dirs \ {0, 1} : Cardinality(Users(d)) = 0
    BY ONLY <2>1, <2>2, FS_Singleton, FS_EmptySet
  <2> QED BY <1>1, <1>4, <1>5, <2>3, SlotsFinite DEF RefCounts, Users
<1>7. /\ phys_mem = BootUsed /\ phys_mem \subseteq Frames
      /\ NUM_PAG_KERNEL \in phys_mem
  BY BootFrames DEF ProcInit
<1>8. data = [d \in Dirs |-> IF d \in {0, 1}
                             THEN [i \in 1 .. NUM_PAG_DATA |-> BootFrame(d, i)]
                             ELSE << >>]
  BY DEF ProcInit
<1>9. ASSUME NEW d \in {0, 1}
      PROVE  /\ data[d] = [i \in 1 .. NUM_PAG_DATA |-> BootFrame(d, i)]
             /\ data[d] \in Seq(Frames) /\ Len(data[d]) = NUM_PAG_DATA
             /\ IsInjective(data[d])
             /\ Range(data[d]) \subseteq phys_mem \cap NUM_PAG_KERNEL .. TOTAL_PAGES - 1
  <2>1. data[d] = [i \in 1 .. NUM_PAG_DATA |-> BootFrame(d, i)]
    BY <1>8, SlotsFinite
  <2>2. \A i \in 1 .. NUM_PAG_DATA :
          BootFrame(d, i) \in Frames \cap phys_mem \cap NUM_PAG_KERNEL .. TOTAL_PAGES - 1
    BY <1>7, BootFrames
  <2>3. data[d] \in Seq(Frames) /\ Len(data[d]) = NUM_PAG_DATA
    BY <2>1, <2>2, ProcAssumption
  <2>4. IsInjective(data[d])
    BY <2>1, BootFrames DEF IsInjective
  <2>5. Range(data[d]) \subseteq phys_mem \cap NUM_PAG_KERNEL .. TOTAL_PAGES - 1
    BY <2>1, <2>2 DEF Range
  <2> QED BY <2>1, <2>3, <2>4, <2>5
<1>10. Range(data[0]) \cap Range(data[1]) = {}
  <2>1. /\ data[0] = [i \in 1 .. NUM_PAG_DATA |-> BootFrame(0, i)]
        /\ data[1] = [i \in 1 .. NUM_PAG_DATA |-> BootFrame(1, i)]
    BY ONLY <1>9
  <2>2. \A i, j \in 1 .. NUM_PAG_DATA : BootFrame(0, i) # BootFrame(1, j)
    BY ONLY BootFrames
  <2>3. /\ \A f \in Range(data[0]) : \E i \in 1 .. NUM_PAG_DATA : f = BootFrame(0, i)
        /\ \A f \in Range(data[1]) : \E i \in 1 .. NUM_PAG_DATA : f = BootFrame(1, i)
    BY ONLY <2>1 DEF Range
  <2> QED BY ONLY <2>2, <2>3
<1>11. FrameIsolation
  BY <1>1, <1>4, <1>9, <1>10 DEF FrameIsolation
<1>12. data \in [Dirs -> Seq(Frames)]
  <2>1. << >> \in Seq(Frames)
    OBVIOUS
  <2>2. \A d \in Dirs \ {0, 1} : data[d] = << >>
    BY <1>8
  <2>3. \A d \in Dirs : data[d] \in Seq(Frames)
    BY <1>9, <2>1, <2>2
  <2>4. data = [d \in Dirs |-> data[d]]
    BY <1>8
  <2> QED BY <2>3, <2>4
<1>13. nullMapped \in [Dirs -> BOOLEAN]
  BY DEF ProcInit, BootNullMapped
<1>14. ProcTypeOK
  BY <1>2, <1>4, <1>5, <1>7, <1>12, <1>13 DEF ProcTypeOK
<1>15. AddressSpaceLoaded
  BY <1>1, <1>4 DEF AddressSpaceLoaded
<1> QED BY <1>1, <1>3, <1>6, <1>7, <1>11, <1>14, <1>15 DEF PInv

LEMMA ProcStepKeeps == PInv /\ [ProcNext]_vars => PInv'
<1> SUFFICES ASSUME PInv, [ProcNext]_vars PROVE PInv'
  OBVIOUS
<1>1. CASE Fork
  BY <1>1, ForkProc
<1>2. CASE ForkNoFrames
  BY <1>2, ForkNoFramesNothing, NothingMoves
<1>3. CASE NoSlot
  BY <1>3, NothingMoves DEF NoSlot
<1>4. CASE Clone
  BY <1>4, CloneProc
<1>5. CASE SysExit
  BY <1>5, ExitProc
<1>6. CASE Tick
  BY <1>6, TickProc
<1>7. ASSUME NEW l \in WaitQueues, (Block(l) \/ Wake(l)) /\ OnlyScheduling PROVE PInv'
  BY <1>7, BlockProc, WakeProc
<1>8. CASE UNCHANGED vars
  BY <1>8, NothingMoves
<1> QED BY <1>1, <1>2, <1>3, <1>4, <1>5, <1>6, <1>7, <1>8 DEF ProcNext, ProcessCall

(* New frames belong to the data pages of a new process.                   *)
LEMMA FramesStep ==
  ASSUME PInv, phys_mem' # phys_mem, ProcNext
  PROVE  \E t \in Live' \ Live :
           /\ Range(data'[dir'[t]]) = phys_mem' \ phys_mem
           /\ dir_references[dir'[t]] = 0
<1>1. ~ForkNoFrames
  BY ForkNoFramesNothing DEF vars, procVars
<1>2. Fork
  BY <1>1 DEF ProcNext, ProcessCall, NoSlot, Clone, SysExit, Tick, OnlyScheduling, vars, procVars
<1>3. Child \in Live' \ Live
  <2>1. Spawn
    BY <1>2 DEF Fork
  <2> QED BY <2>1, SpawnLive DEF Live
<1>4. /\ dir'[Child] = AllocateDIR /\ dir_references[AllocateDIR] = 0
      /\ Range(data'[AllocateDIR]) \cap phys_mem = {}
      /\ phys_mem' = phys_mem \cup Range(data'[AllocateDIR])
  BY <1>2, ForkMakes
<1>5. Range(data'[AllocateDIR]) = phys_mem' \ phys_mem
  BY <1>4
<1> QED BY <1>3, <1>4, <1>5

(* get_stats() finds the one live task with the PID, or none.              *)
LEMMA PInvResolves == PInv => PidsResolve
<1> SUFFICES ASSUME PInv, NEW p \in {1} \cup 14 .. nextPid
             PROVE  LookupPid(p) = {t \in Live : PID[t] = p}
  BY DEF PidsResolve
<1> DEFINE found == {t \in Tasks : PID[t] = p}
<1>1. IInv /\ PidsDistinct
  BY DEF PInv
<1>2. current \in Live /\ Live \subseteq Tasks /\ Tasks \subseteq Nat
  BY <1>1, LiveTasks, SlotsFinite
<1>3. found = {t \in Live : PID[t] = p}
  <2>1. p \notin {-1, 0}
    BY ProcAssumption DEF PInv, ProcTypeOK
  <2>2. \A t \in Tasks \ Live : PID[t] # p
    BY <1>1, <2>1 DEF PidsDistinct
  <2> QED BY <1>2, <2>2
<1>4. \A t, u \in found : t = u
  BY <1>1, <1>3 DEF PidsDistinct
<1>5. LookupPid(p) = IF PID[current] = p THEN {current}
                     ELSE {t \in found : \A u \in found : t <= u}
  BY DEF LookupPid
<1>6. PID[current] = p => found = {current}
  BY <1>2, <1>4
<1>7. \A t \in found : \A u \in found : t <= u
  BY <1>2, <1>4
<1> HIDE DEF found
<1> QED BY <1>3, <1>5, <1>6, <1>7

(* The inductive invariant holds in every reachable state.                 *)
THEOREM ProcInvariant == ProcSafety => []PInv
BY ProcInitHolds, ProcStepKeeps, PTL DEF ProcSafety

(* Every process variable keeps its type: allocate_DIR never runs past the *)
(* array of directories.                                                   *)
THEOREM ProcTypeCorrect == ProcSafety => []ProcTypeOK
<1>1. PInv => ProcTypeOK
  BY DEF PInv
<1> QED BY <1>1, ProcInvariant, PTL

(* The reference count of a directory is the number of its live tasks.     *)
THEOREM ReferencesCounted == ProcSafety => []RefCounts
<1>1. PInv => RefCounts
  BY DEF PInv
<1> QED BY <1>1, ProcInvariant, PTL

(* The processor always translates with the running task's directory.      *)
THEOREM RightSpaceLoaded == ProcSafety => []AddressSpaceLoaded
<1>1. PInv => AddressSpaceLoaded
  BY DEF PInv
<1> QED BY <1>1, ProcInvariant, PTL

(* Two address spaces never share a data frame.                            *)
THEOREM FramesIsolated == ProcSafety => []FrameIsolation
<1>1. PInv => FrameIsolation
  BY DEF PInv
<1> QED BY <1>1, ProcInvariant, PTL

(* get_stats() resolves a PID to the live task that has it.                *)
THEOREM EveryPidResolves == ProcSafety => []PidsResolve
BY PInvResolves, ProcInvariant, PTL

(* No call but a fork that creates a process takes frames for good.        *)
THEOREM FramesGoToChildren == ProcSafety => FramesOnlyForChildren
<1>1. PInv /\ [ProcNext]_vars =>
        [phys_mem' # phys_mem =>
           \E t \in Live' \ Live :
              /\ Range(data'[dir'[t]]) = phys_mem' \ phys_mem
              /\ dir_references[dir'[t]] = 0]_vars
  BY FramesStep
<1> QED BY <1>1, ProcInvariant, PTL DEF ProcSafety, FramesOnlyForChildren

=============================================================================
