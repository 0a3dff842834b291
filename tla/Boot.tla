-------------------------------- MODULE Boot --------------------------------
(***************************************************************************)
(* From the files the image is built of to the first user instruction: the *)
(* image builder (build.c), the loader in the boot sector (bootsect.S) and *)
(* main() of the kernel (system.c), which sets up the state every other    *)
(* module starts from.                                                     *)
(*                                                                         *)
(* Memory is a function of physical addresses; a cell holds the number of  *)
(* the byte of system and user image, one after the other, that was put    *)
(* there.  Registers of the processor and of devices are left out, but for *)
(* cr3 and the stack pointer.                                              *)
(***************************************************************************)
EXTENDS Processes

CONSTANTS
  SysSizes, UsrSizes,  \* bound: the sizes of the linked system and user images
  PARAGRAPH,           \* bytes in a paragraph, the unit of im_size
  SECTOR,              \* bytes in a sector
  SEC_PISTA,           \* sectors in a track
  SEGMENT,             \* bytes the loader's bx runs through: 64 KB
  INITSEG,             \* segments between SYSSEG and the loader itself
  Words                \* number of values of a 16-bit word

(* The stack of main() lies in protected_tasks[4], which is task[3].       *)
BootSlot == 3

ASSUME BootAssumption ==
  /\ SysSizes \cup UsrSizes \subseteq Nat \ {0}
  /\ {PARAGRAPH, SECTOR, SEC_PISTA, SEGMENT, INITSEG, Words} \subseteq Nat \ {0}
  /\ SEGMENT % SECTOR = 0 /\ SEGMENT % PARAGRAPH = 0
  /\ SEC_PISTA > 1 /\ SEC_PISTA * SECTOR <= SEGMENT
  /\ INITSEG * (SEGMENT \div PARAGRAPH) <= Words
  /\ NUM_PAG_KERNEL * PAGE_SIZE >= (1 + INITSEG) * SEGMENT
  /\ QUANTUM > 1 /\ BootSlot < Task1

VARIABLES
  stage,    \* what was done last
  image,    \* the two files, and how much of them and of the sizes is written
  es, bx,   \* the loader's pointer: segments above SYSSEG, offset
  sread, head, track,   \* the loader's place on the disk
  mem,      \* physical address -> the byte of the image there
  code,     \* directory -> the frames of its code pages
  esp0      \* the slot whose stack the TSS names

diskVars == <<es, bx, sread, head, track>>
bootVars == <<vars, stage, image, diskVars, mem, code, esp0>>

KERNEL_START  == SEGMENT
PH_USER_START == NUM_PAG_KERNEL * PAGE_SIZE
ImageSize     == image.sys + image.usr

BootInit ==
  /\ queue = [l \in Queues |-> << >>]
  /\ state = [t \in Tasks |-> ST_RUN]
  /\ quantum = [t \in Tasks |-> 0]
  /\ current = BootSlot
  /\ remaining_ticks = 0
  /\ PID = [t \in Tasks |-> 0]
  /\ nextPid = 0
  /\ dir = [t \in Tasks |-> NoDir]
  /\ dir_references = [d \in Dirs |-> 0]
  /\ cr3 = NoDir
  /\ phys_mem = {}
  /\ data = [d \in Dirs |-> << >>]
  /\ nullMapped = [d \in Dirs |-> FALSE]
  /\ stage = "make"
  /\ image \in [sys : SysSizes, usr : UsrSizes, out : {0}, im_size : {0}]
  /\ es = 0 /\ bx = 0 /\ head = 0 /\ track = 0
  /\ sread = 1
  /\ mem = << >>
  /\ code = [d \in Dirs |-> << >>]
  /\ esp0 = 0

-----------------------------------------------------------------------------
(* build: the boot sector, the system and the user image one after the     *)
(* other, and then the sizes, written over bytes of the first two sectors. *)
(* A file that is missing, short or of another format ends it anywhere.    *)
Built(next, out, im_size) ==
  /\ stage' = next
  /\ image' = [image EXCEPT !.out = out, !.im_size = im_size]
  /\ UNCHANGED <<vars, diskVars, mem, code, esp0>>

CopyBootSector == stage = "make" /\ Built("sector", SECTOR, 0)
CopySystem     == stage = "sector" /\ Built("system", SECTOR + image.sys, 0)
CopyUser       == stage = "system" /\ Built("copied", SECTOR + ImageSize, 0)

(* Mutant: the size is not converted to paragraphs. *)
WriteSizes_Bytes ==
  stage = "copied" /\ Built("built", image.out, ImageSize % Words)

WriteSizes ==
  /\ stage = "copied"
  /\ Built("built", image.out,
           ((ImageSize + PARAGRAPH - 1) \div PARAGRAPH) % Words)

Die ==
  /\ stage \in {"make", "sector", "system", "copied"}
  /\ Built("died", image.out, image.im_size)

Build == CopyBootSector \/ CopySystem \/ CopyUser \/ WriteSizes \/ Die

-----------------------------------------------------------------------------
(* read_it: as much of the track as fits into the segment, until all of a  *)
(* segment lies behind the size of the image.                              *)
Loading == stage = "built" /\ es * (SEGMENT \div PARAGRAPH) <= image.im_size

(* Mutant: 64 KB boundaries are crossed. *)
SectorsToRead_Track == SEC_PISTA - sread

SectorsToRead ==
  IF (SEC_PISTA - sread) * SECTOR + bx <= SEGMENT
  THEN SEC_PISTA - sread
  ELSE (SEGMENT - bx) \div SECTOR

(* The bytes of the image in n sectors from the loader's place on; the     *)
(* disk goes on behind the image, with bytes that are nobody's.            *)
OnDisk(n) ==
  LET first == ((2 * track + head) * SEC_PISTA + sread - 1) * SECTOR
  IN  {b \in first .. first + n * SECTOR - 1 : b < image.out - SECTOR}

(* Memory with the cells of new written over. *)
Written(new) ==
  [p \in DOMAIN new \cup DOMAIN mem |-> IF p \in DOMAIN new THEN new[p] ELSE mem[p]]

(* read_track, int 0x13: the sectors go to es:bx. *)
ReadTrack ==
  LET n     == SectorsToRead
      first == ((2 * track + head) * SEC_PISTA + sread - 1) * SECTOR
      to    == KERNEL_START + es * SEGMENT + bx
      end   == bx + n * SECTOR
  IN  /\ Loading /\ es < INITSEG
      /\ mem' = Written([p \in {to + b - first : b \in OnDisk(n)} |-> first + p - to])
      /\ sread' = (sread + n) % SEC_PISTA
      /\ head' = IF sread + n = SEC_PISTA THEN 1 - head ELSE head
      /\ track' = IF sread + n = SEC_PISTA /\ head = 1 THEN track + 1 ELSE track
      /\ bx' = end % SEGMENT
      /\ es' = es + end \div SEGMENT
      /\ UNCHANGED <<vars, stage, image, code, esp0>>

(* The next segment is the one the loader runs in. *)
Overwrite ==
  /\ Loading /\ es >= INITSEG
  /\ stage' = "overwritten"
  /\ UNCHANGED <<vars, image, diskVars, mem, code, esp0>>

(* Protected mode, and the jump to main(), which moves to its own stack    *)
(* and sets up the segments, the interrupt table and the TSS.              *)
EnterMain ==
  /\ stage = "built" /\ ~Loading
  /\ stage' = "main"
  /\ esp0' = 1
  /\ UNCHANGED <<vars, image, diskVars, mem, code>>

-----------------------------------------------------------------------------
(* init_mm(): directory 0 is given to slot 0 to have something to load     *)
(* into cr3, and then all directories are free again.                      *)
InitMM ==
  /\ stage = "main"
  /\ stage' = "init_mm"
  /\ nullMapped' = BootNullMapped
  /\ phys_mem' = 0 .. NUM_PAG_KERNEL - 1
  /\ dir' = [dir EXCEPT ![0] = AllocateDIR]
  /\ cr3' = AllocateDIR
  /\ dir_references' = [d \in Dirs |-> 0]
  /\ UNCHANGED <<schedVars, PID, nextPid, data, image, diskVars, mem, code, esp0>>

(* set_user_pages() of a task with directory d: code first, then data. *)
SetUserPages(d) ==
  \E new_ph_pag \in Allocations(phys_mem, UserPages) :
    /\ phys_mem' = phys_mem \cup Range(new_ph_pag)
    /\ code' = [code EXCEPT ![d] = SubSeq(new_ph_pag, 1, NUM_PAG_CODE)]
    /\ data' = [data EXCEPT ![d] = SubSeq(new_ph_pag, NUM_PAG_CODE + 1, UserPages)]

(* From libzeos.a: a set of user pages for slot 0, and its directory. *)
monoprocess_init_addr_space ==
  /\ stage = "init_mm"
  /\ stage' = "monoprocess"
  /\ SetUserPages(dir[0])
  /\ cr3' = dir[0]
  /\ UNCHANGED <<schedVars, PID, nextPid, dir, dir_references, nullMapped,
                 image, diskVars, mem, esp0>>

(* init_sched(): every slot is pushed at the front of freequeue. *)
InitSched ==
  /\ stage = "monoprocess"
  /\ stage' = "init_sched"
  /\ queue' = [l \in Queues |-> IF l = freequeue
                                THEN [i \in 1 .. NR_TASKS |-> NR_TASKS - i]
                                ELSE << >>]
  /\ UNCHANGED <<state, quantum, current, remaining_ticks, procVars,
                 image, diskVars, mem, code, esp0>>

(* The first free slot, with a PID and a directory. *)
TakeSlot(pid) ==
  LET t == Head(queue[freequeue])
  IN  /\ queue' = [queue EXCEPT ![freequeue] = Tail(@)]
      /\ PID' = [PID EXCEPT ![t] = pid]
      /\ dir' = [dir EXCEPT ![t] = AllocateDIR]
      /\ dir_references' = [dir_references EXCEPT ![AllocateDIR] = @ + 1]

InitIdle ==
  /\ stage = "init_sched"
  /\ stage' = "init_idle"
  /\ TakeSlot(0)
  /\ UNCHANGED <<state, quantum, current, remaining_ticks, nextPid, cr3, phys_mem,
                 data, nullMapped, image, diskVars, mem, code, esp0>>

(* Mutant: the address space of task 1 is not loaded. *)
InitTask1_KeepsSpace ==
  /\ stage = "init_idle"
  /\ stage' = "init_task1"
  /\ TakeSlot(1)
  /\ nextPid' = 13
  /\ quantum' = [quantum EXCEPT ![Head(queue[freequeue])] = QUANTUM]
  /\ state' = [state EXCEPT ![Head(queue[freequeue])] = ST_RUN]
  /\ SetUserPages(AllocateDIR)
  /\ esp0' = Head(queue[freequeue])
  /\ remaining_ticks' = QUANTUM
  /\ UNCHANGED <<cr3, current, nullMapped, image, diskVars, mem>>

InitTask1 ==
  /\ stage = "init_idle"
  /\ stage' = "init_task1"
  /\ TakeSlot(1)
  /\ nextPid' = 13
  /\ quantum' = [quantum EXCEPT ![Head(queue[freequeue])] = QUANTUM]
  /\ state' = [state EXCEPT ![Head(queue[freequeue])] = ST_RUN]
  /\ SetUserPages(AllocateDIR)
  /\ cr3' = AllocateDIR
  /\ esp0' = Head(queue[freequeue])
  /\ remaining_ticks' = QUANTUM
  /\ UNCHANGED <<current, nullMapped, image, diskVars, mem>>

-----------------------------------------------------------------------------
(* Where the loaded directory translates byte b of the user space to. *)
PhysicalUser(b) ==
  LET frames == code[cr3] \o data[cr3]
  IN  frames[1 + b \div PAGE_SIZE] * PAGE_SIZE + (b % PAGE_SIZE)

(* copy_data() moves the user image, which lies behind the system's, to    *)
(* the user pages of the loaded directory.                                 *)
CopyData ==
  /\ stage = "init_task1"
  /\ image.usr <= UserPages * PAGE_SIZE
  /\ stage' = "copy_data"
  /\ LET from == KERNEL_START + image.sys
         held == {b \in 0 .. image.usr - 1 : from + b \in DOMAIN mem}
         at(p) == CHOOSE b \in held : PhysicalUser(b) = p
     IN  mem' = Written([p \in {PhysicalUser(b) : b \in held} |-> mem[from + at(p)]])
  /\ UNCHANGED <<vars, image, diskVars, code, esp0>>

(* No page is mapped behind the data pages: the copy is a page fault, and  *)
(* its handler does not return.                                            *)
CopyFaults ==
  /\ stage = "init_task1"
  /\ image.usr > UserPages * PAGE_SIZE
  /\ stage' = "fault"
  /\ UNCHANGED <<vars, image, diskVars, mem, code, esp0>>

(* enable_int() opens the interrupts while main() is still on its stack,   *)
(* so a tick that is pending finds current() to be a slot nobody uses.     *)
EnableInt ==
  /\ stage = "copy_data"
  /\ stage' = "enable_int"
  /\ UNCHANGED <<vars, image, diskVars, mem, code, esp0>>

PendingTick ==
  /\ stage = "enable_int"
  /\ stage' = "ticked"
  /\ ClockInterrupt
  /\ UNCHANGED <<procVars, image, diskVars, mem, code, esp0>>

(* The far return to user mode: the next entry to the kernel is on the     *)
(* stack the TSS names.                                                    *)
ReturnGate ==
  /\ stage \in {"enable_int", "ticked"}
  /\ stage' = "user"
  /\ current' = esp0
  /\ UNCHANGED <<queue, state, quantum, remaining_ticks, procVars,
                 image, diskVars, mem, code, esp0>>

Loader == ReadTrack \/ Overwrite \/ EnterMain
Main   == InitMM \/ monoprocess_init_addr_space \/ InitSched \/ InitIdle \/ InitTask1
            \/ CopyData \/ CopyFaults \/ EnableInt \/ PendingTick \/ ReturnGate

BootNext == Build \/ Loader \/ Main

(* The machine does not stop between two instructions; a build may. *)
BootSpec == BootInit /\ [][BootNext]_bootVars /\ WF_bootVars(Loader \/ Main)

-----------------------------------------------------------------------------
(* The sizes the memory map of the kernel has room for. *)
Fits ==
  /\ (ImageSize + PARAGRAPH - 1) \div PARAGRAPH < INITSEG * (SEGMENT \div PARAGRAPH)
  /\ image.usr <= UserPages * PAGE_SIZE

(* What the BIOS asks of a read: at least one sector, all in one track and *)
(* in one 64 KB segment (read_it keeps both however track and segment      *)
(* ends fall).                                                             *)
BiosReadsLegal ==
  Loading => /\ SectorsToRead >= 1
             /\ sread + SectorsToRead <= SEC_PISTA
             /\ bx + SectorsToRead * SECTOR <= SEGMENT

(* An image that fits is whole in memory when user mode is entered, its    *)
(* system part where it was linked and its user part in task 1's pages;    *)
(* and main() has made the state the other modules start from.             *)
HandsOver ==
  stage = "user" /\ Fits =>
    /\ \A b \in 0 .. image.sys - 1 : mem[KERNEL_START + b] = b
    /\ \A b \in 0 .. image.usr - 1 : mem[PhysicalUser(b)] = image.sys + b
    /\ ProcInit

(* Every image that was built and fits gets to user mode.                  *)
ReachesUser == (stage = "built" /\ Fits) ~> stage = "user"
==============================================================================
