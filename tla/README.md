# A verification development for ZeOS (so2FibEdition2)

ZeOS is a small teaching kernel for 32-bit x86: processes and threads with a
round-robin scheduler, paging with a frame allocator, counting semaphores, a
keyboard driver with a circular buffer, a text screen, `sbrk`, per-process
statistics, and the way from the image on a disk to the first user instruction.
This directory holds TLA+ models of it, the TLC configurations that check them, and proofs that TLAPS checks. Paths below are relative to `src/`.

- [Inventory](#inventory)
- [How the code becomes steps](#how-the-code-becomes-steps)
- [Modules](#modules)
- [Runs and bounds](#runs-and-bounds)
- [Fairness](#fairness)
- [Proofs](#proofs)
- [What disagrees with the documentation](#what-disagrees-with-the-documentation)
- [What is not modelled](#what-is-not-modelled)
- [Plan](#plan)

## Inventory

| Component | State | Operations | Hard behaviour | What makes it correct |
|---|---|---|---|---|
| Scheduler (`sched.c`) | `freequeue`, `readyqueue`, the lists tasks block on, `state` and `quantum` of each PCB, `remaining_ticks`, the running stack | `update_sched_data_rr`, `needs_sched_rr`, `update_process_state_rr`, `sched_next_rr` | ticks, wake-ups, forks and exits touch the same lists in any order; the tick count crosses zero; the idle task has quantum 0 | a PCB in one list at most, the state field agreeing with it; round robin; every ready task runs |
| Lists (`list.c`) | links in PCBs and heads | `list_add`, `list_add_tail`, `list_del`, `INIT_LIST_HEAD` | `list_del` leaves NULL links; lists emptied under their nodes, nodes deleted twice, heads never initialised, NULL added as a node | the pointers spell the sequences everybody assumes |
| Processes (`sys.c`, `sched.c`) | PIDs, directories, `dir_references`, `cr3` | `sys_fork`, `sys_clone`, `sys_exit`, `allocate_DIR`, `inner_task_switch` | slots and directories reused, threads sharing a directory, fork failing half way | reference counts exact, the right directory loaded, PIDs resolving to live tasks |
| Frames (`mm.c`) | `phys_mem` | `alloc_frame`, `free_frame`, `init_frames` | running out in the middle of a call | no frame in two processes; a failed call keeps none |
| Memory of processes (`sys.c`) | page table entries, frame contents, `program_break` | the copy in `sys_fork`, `sys_sbrk` | temporary mapping and TLB; kernel and code pages shared with a child that can write to them; break and pages kept apart; threads with separate breaks | isolation, faithful copies, pages below the break mapped |
| Semaphores (`sys.c`) | `counter`, `queue`, `owner` | `sys_sem_init/wait/signal/destroy` | waiters in the middle of a call while others destroy and re-initialise; NULL links | no credit beside waiters; who can release whom and what the released are told; nobody lost |
| Circular buffer (`circular_buffer.c`) | `head`, `tail`, `num_elem`, `buffer` | put, read, empty, full, count | wrap-around; two ways of counting | a bounded FIFO |
| Keyboard (`interrupt.c`, `devices.c`) | the buffer, `keyboardqueue`, `kb_data` of blocked readers | `keyboard_interrupt`, `sys_read_keyboard` | several readers, reads larger than the buffer, keys lost when it is full | what read returns and delivers; no lost wake-up |
| Statistics (`sched.c`, `sys.c`) | `task_stats` | `update_stats` at every entry, exit and switch; `sys_get_stats` | bookings on both sides of a stack switch | each tick in the sum that says what it was |
| Entry and gates (`interrupt.c`, `entry.S`, `sys_call_table.S`) | IDT, saved registers | three handlers, dispatch by number | whether interrupts nest | decides what is one step, see below; a wrapper's number leads to its handler |
| Write and console (`sys.c`, `devices.c`, `io.c`) | the cursor `x`, `y`, the screen | `sys_write`, `printc`, `printc_xy` | the screen wraps without clearing; keys are echoed and the clock is drawn while processes write; the chunk loop | what is written is shown, whole and in order |
| User pointer checks (`utils.c`) | | `access_ok`, `copy_from_user` | page arithmetic, wrap-around, the page after the last | no buffer a program passes stops the kernel |
| User library (`libc.c`, `errno.h`) | `errno`, one per address space | the wrappers, `perror` | threads share `errno` | the error reported is the caller's |
| Image builder (`build.c`, `Makefile`) | the image file | copy three files, write three sizes | 16-bit size, nothing checked; dying half way | the loader finds the sizes of what is there |
| Boot (`bootsect.S`, `system.c`, `mm.c`, `hardware.c`) | place on the disk, pointer in memory; then all kernel state | load the image, `main` | reads that may cross neither track nor 64 KB segment; the order of initialisation; interrupts open before the first task runs | the image arrives whole; the state handed over is `Init` of everything else |
| User program, other hardware access, binary libraries | | | | not modelled |

The components interact by calls and shared lists. Every blocking call
(`sem_wait`, a read) ends in `update_process_state_rr` and `sched_next_rr`;
every wake-up (a key, `sem_destroy`) in `update_process_state_rr(t,
&readyqueue)`; fork, clone and exit move slots between `freequeue` and
`readyqueue`; a dispatch reloads `cr3` from the new task's directory. Processes and
the keyboard handler share the screen, threads the `errno` of their address space.

`PROJECT.json` lists under `hazards` what is hard to test here, at its line,
with the properties that cover it.

## How the code becomes steps

All three handlers are entered through interrupt gates (`setInterruptHandler`
and `setTrapHandler` both set type 1110), so IF is 0 from the entry of a
handler to its `iret` or to the return of the next task from its own handler.
There is one processor. A handler is therefore one step, up to the point where
it gives the processor away; what it does when it is dispatched again
(`sem_wait` after its `sched_next_rr`, a reader back in its loop) is a step of
its own that nothing can interrupt. Code in user mode may make any call at any
time: the models constrain programs in nothing, except by the bounds named below.
Only `Output` looks into user code, at the instructions of the library around a trap:
there another thread may run between any two.

A page fault ends in the handler of `libzeos.a`, which prints and loops with
interrupts disabled: the kernel stops. `Semaphores`, `Output` and `Boot` have this
outcome as `fault`.

A model ends where the program can be in any state afterwards: where `sem_signal` unlinks NULL along links
that mislead (`fault = "torn"` in `Semaphores`, `torn` in `Lists`), where a string overruns the buffer on the kernel's stack
(`kernel = "overrun"` in `Output`), and where a program stores into the kernel's pages (`intact` in `Memory`). The properties
speak of what comes before, and of when this can happen.

`main()` turns interrupts on two instructions before it enters user mode, on a stack
that lies in the free slot `task[3]`. A pending tick that is taken there counts for
task 1, which is why `SchedInit` allows one tick less in `remaining_ticks`; `Boot` shows that it
does nothing else.

## Modules

```
Sched ─┬─ Processes ─┬─ Semaphores      BoundedFifo ── RingBuffer
       │             ├─ Memory          Console ── Output
       │             └─ Boot            Lists
       ├─ Keyboard
       └─ Stats                         MC* : instances for TLC

SchedProofs ─┬─ ProcessProofs ─┬─ SemaphoreProofs      StructureProofs : RingBuffer, Lists
             │                 └─ MemoryProofs         OutputProofs : Output
             ├─ KeyboardProofs
             └─ StatsProofs
```

**Sched.** `queue[l]` is the list `l` as a sequence of slots, `current` the slot
whose kernel stack is in use. Each action is a call pattern of the whole
kernel: `ClockInterrupt`, `Block(l)`, `Wake(l)`, `WakeAll(l)`, `Spawn`, `Exit`,
`ResetQueue(l)`, and `Strand(l)`, the `sem_signal` that unlinks a waiter and makes nobody ready. `Relinked` is
`update_process_state_rr` with its test of the state field, so a wrong state does have its effect on the lists. Other modules
conjoin their own changes to these actions, so what is proved of `Sched` holds in them. The lists hold tasks only: what a NULL in
`readyqueue` does to the processor is in `Semaphores`, and so `ReadyRuns`, which says nothing of it, is there
`ReadyRunsOrFault`.

**Lists** is `list.c` pointer by pointer, with the sequence each list stands for as the
history variable `content`. The kernel calls it in ways it was not made for: `sem_init`
empties a list under its nodes, `sem_destroy` deletes a node twice, `sem_wait` adds to a
head of zeroes, and `sem_signal` deletes NULL and adds it to `readyqueue`. Where page 0 is mapped, NULL is just one more cell;
it first holds interrupt vectors, which lead nowhere. `LinksSpellLists` says that no list's pointers are bent by any of this,
save NULL's own; `bent` remembers whether a call that writes to those came while NULL was in `readyqueue`, and only
then can deleting NULL tear the list (`TornOnlySo`).

**Processes** adds PIDs, directories, reference counts, `cr3`, and the frames.
`Fork` has its three outcomes (`Fork`, `ForkNoFrames`, `NoSlot`). `SysExit`
keeps the frames marked, as the code does: `dir_references == 0` compares an
array with 0. `nullMapped` records that `sys_fork` enters page 0 and the guard
pages into the child's table.

**Memory** adds what is in the frames, the pages above the data pages, and
`program_break`. `ForkMemory` copies through the directory that is loaded;
`SbrkMoves`, `SbrkGrows` and `SbrkNoFrames` are the three reachable outcomes of
`sys_sbrk`. `Write` is any store of a program to a page it may write to (`UserFrames`): data and heap, and in descendants
of a fork also the code pages and the kernel's, which `sys_fork` enters in the child's table with `set_ss_pag` (`sys.c:99`).
`intact` ends the model with the first store into the kernel, since page tables and PCBs are there. That the fourth
outcome (`-EAGAIN`, which would leak) cannot be reached is the invariant
`PagesOutlastFrames`.

**Semaphores** has the waiting lists as the lists of `Sched` (`WaitQueues` =
semaphore numbers) and a step for each outcome of each call. `linked[n]` says
the list head was initialised. The calls that use an unlinked node go through NULL. In task 1, its threads and the idle task
page 0 is not mapped and they fault. In descendants of a fork it is (`Mapped`):

- `sem_destroy` with waiters goes through, and its second `list_del` of each overwrites the words at 0 and 4 with
  NULL (`zeroed`);
- `sem_wait` on a head that was never initialised stores the first waiter's node at NULL (`StoresAtNull`); from then on the
  head's `prev` is a node and anybody can block there;
- `sem_signal` with a waiter, or on a head that was never initialised, follows what is at 0 and 4. That are interrupt
  vectors of the BIOS until a `sem_destroy` overwrote them, and it faults. Afterwards it returns 0: the waiter is
  unlinked and lost, and NULL is put at the end of `readyqueue` (`SemSignalLoses`).

`nullAt` counts the tasks before NULL in `readyqueue`. A task that joins behind NULL, or whose dispatch makes NULL the first, writes
to NULL's links, and faults where page 0 is not mapped (`JoinFaults`, `DispatchFaults`). The dispatch of NULL itself always
faults: the `dir_pages_baseAddr` of a PCB around address 0 is at 0xFFFFFFF8. A `sem_destroy`, or a `sem_wait` that stores at NULL, may leave NULL's links
misleading (`stale`); the next `sem_signal` then tears `readyqueue`. Of the machine this takes for granted that the words at
0 and 4 lead to a page fault when they are taken for pointers, and that the word at 0xC, where `state` of that PCB is, is not 0
(`ST_RUN`): the first vectors of the BIOS are neither. User programs that store to page 0 themselves are in `Memory`, not here.

`SemWaitReturns` is the end of a blocked `sem_wait`, which returns `WaitResult`; the history variable
`renewed` remembers whose semaphore has been destroyed and initialised again since.

**BoundedFifo, RingBuffer.** The abstract FIFO with the return values of its
calls, and `circular_buffer.c` field by field. `RingBuffer` implements
`BoundedFifo` with `fifo <- Contents`, the items from `tail` up to `head`.

**Keyboard** uses the abstract FIFO for the key buffer and follows the loop of
`sys_read_keyboard` step by step: `ReadTakes`, `ReadDrains`, `ReadBlocks`,
`ReadReturns`. A key is its number in the sequence of stored keys.

**Stats** has `task_stats` with every booking, and beside it the history
variable `spent`, the time each task really spends running, in the kernel,
waiting and blocked; the properties compare the two. `get_ticks` reads the processor's cycle counter, so time
passes also before the first clock interrupt: task 1 may have waited some of it when it enters user mode.

**Console, Output.** `Console` has the screen as a record and `printc` as an operator on it, and beside it the
same text on an endless paper. `Output` has threads in the user library: the trap of a wrapper with the whole of `sys_write`
in one step (`WriteRefused`, `WriteShows`, `WriteFaults`, `WriteOverruns`), the store to `errno` (`WrapperReturns`), the two halves of
`perror`, the echo of keys, and the clock that `clock_interrupt` draws at its end (`ClockShown`; `zeos_show_clock` is in
`libzeos.a` and writes its columns of row 0 directly). The chunk loop of `sys_write` is never entered, since `ret` is 0 before
it: a long string goes whole through the 256 bytes on the kernel's stack and over what lies behind them. Some of it is printed, and the model
ends there (`overrun`), though a string that is only a little longer may do no harm with some layouts of the stack.

**Boot** follows an image from its files to user mode: `build.c` step by step, the loader of `bootsect.S` read by
read, and `main()` with one action per call. Memory is a function from physical addresses to the bytes of the image.
`HandsOver` says that the last step leaves `ProcInit`, the initial state of `Processes` and of all that build on it,
and the whole image where it belongs. Images that do not fit are built and loaded too: they overwrite the loader
(`Overwrite`) or fault when their user part is copied (`CopyFaults`).

**The modules named \*Proofs** extend the modules they are about and hold the theorems, see [Proofs](#proofs).
`MemoryProofs` is about `Memory` and about `Boot`.

Names ending in `_Something` after an underscore (`Full_NoGap`) are mutants:
definitions that stand for a plausible mistake and are used only to test that
the properties notice it.

## Runs and bounds

| Run | Asks | Instance |
|---|---|---|
| `sched` | lists, states, ticks, round robin, lost tasks, liveness of ready tasks | 5 slots, quantum 2, two lists |
| `processes` | reference counts, loaded address space, frame isolation, PIDs, failed forks | 4 slots, 2 data pages, frames for 3 forks, PIDs to 17 |
| `semaphores` | credit and waiters, who loses and who releases whom and what they are told, liveness | 4 slots, 2 semaphores, initial values -1 and 1, counter to 1, PIDs to 15 |
| `memory` | isolation, copies, break and pages | 3 slots, a code page, 2 data pages, 5 spare frames, pages of 3 bytes, `sbrk` by -3 and 4 |
| `keyboard` | what reads return and deliver, no lost wake-up | 4 slots, buffer of 2, reads of 1, 2 and 3 |
| `stats` | bookings against time spent | 3 slots, 3 ticks, delays of 0 and 1 |
| `structures` | the ring implements the FIFO; pointers against sequences, and when NULL tears them | 4 cells, 3 items; 3 heads, 4 nodes and NULL |
| `output` | screen, what stops the kernel, `errno` | 2 threads, 2 rows of 3 columns, one of them the clock's, buffer of 2, pages of 4 bytes |
| `boot` | legal reads, the image whole, `ProcInit` reached | 6 slots; segments of 8 sectors, tracks of 3; 109 system and 6 user sizes |
| `exit_frees_frames`, `unlinked_nodes`, `blocked_ticks` | a statement of the documentation that the code contradicts | as the component's |

Bounds, by name, and why they suffice:

- `NR_TASKS`: idle and task 1 take two slots. With two or three more there can
  be a running, a ready and a blocked process at once, slots that are reused,
  and a `fork` that finds none. The scheduler's safety holds for any number (proved).
- `MaxPid` limits how many processes are ever created. Slots, and directories, are
  reused from the third on at the latest.
- `TOTAL_PAGES`, `NUM_PAG_DATA`: chosen so that a fork finds some frames but not enough.
  `alloc_frame` takes every second frame only, which is why the numbers look large.
- `Increments`, `MinBreak`, `PAGE_SIZE`: the break meets each position within a page, both on
  growing and after shrinking; one call may need no, one or two pages. A break below the data pages is not
  explored; no page is mapped or unmapped there.
- `InitValues`: -1 stands for unsigned values of 2^31 and more, stored in an
  `int`. `MaxCounter` stops signalling at the highest initial value: a credit is
  given, taken, and given again.
- `Counts`, `Capacity`, `Serials`: reads below, at and above the capacity, where the last is not
  a multiple of it; serials repeat after three keys, one more than are ever in the buffer.
- `Delays`, `MaxTicks`: a life with a tick in each of running, blocked and waiting.
- `Addresses`, `Strings`, `MaxTyped`: NULL, an address below the user space, blocks within the data, reaching the page after it,
  and wrapping at the end of memory; strings shorter than, as long as and longer than the buffer, with and without newline.
  Four characters, lines of three at most, fill both rows and come back to the first, under the clock.
- `Faces`: one is enough, since the clock's cells are read by nobody; what matters is that it is drawn between any two steps.
- `Nodes`, `Heads`: the longest list has NULL between two nodes on either side, or has two of them behind it, while another list holds nodes or is not initialised.
- `SysSizes`, `UsrSizes`, `SECTOR`, `SEC_PISTA`, `SEGMENT`: every length of the system from a byte to past the three segments
  that can be loaded, so that the image ends at each place of a paragraph, sector, track and segment, and lengths at which `im_size` wraps.
  A track of three sectors ends at each place of a segment of eight, as one of 18 does in one of 128.
- `Decremented` collapses the negative tick counts of the idle task into -1: they are
  only ever compared with 0.

`CHECK_DEADLOCK FALSE` is used where the kernel or the model stops: for `semaphores` and `output` (a fault or an overrun; `MaxTyped`
also stops the writers), `structures` (torn), `memory` (a store into the kernel), and `boot`, which ends.

What the passing runs show beyond their names:

- `NoOvertaking`: whoever becomes ready goes behind all who are, and only the first leaves, to the processor.
- `LostForGood`: a blocked task that has dropped out of the lists never comes back into any, and its PCB is never used again.
- `LostOnlySo`: a waiter is lost in two ways. A `sem_init` takes the number it waits on, after a destroy or because it never was
  initialised; or a descendant of a fork signals after some `sem_destroy` has released waiters. `sem_signal` wakes nobody in any case.
- `ReleaseOnlyByForkedOwner`: the only way out of a blocked `sem_wait` is a `sem_destroy` by
  an owner that descends from a fork; in task 1 the same call faults.
- `ReadyRunsOrFault`: while the kernel runs, every ready task does, also with NULL in `readyqueue`; NULL's turn stops the kernel.
- `CreditXorWaiters`: a counter above zero and waiters exclude each other, also over destroy and re-init.
- `SuccessOnlyIfRenewed`: since no signal ever wakes a waiter, a blocked `sem_wait` returns 0 only when its semaphore was
  destroyed and the number taken again before the waiter ran: whoever is told 0 was let through by nobody.
- `ReadReturnsCount`: a read that fits the buffer returns its count, a longer one the next multiple of the capacity.
- `SoleReaderServed`: a reader left alone is served. Two readers that stay can send each other back for ever.
- `OnlyForkUncovers`: `sbrk` keeps every page below the break mapped, also with
  threads that each have a break; the child of a fork starts with a break and no heap pages.
- `MemoryPrivate`: as long as nobody has written over the kernel, data and heap pages change by their own address space's stores
  only. The code pages are not among them.
- `LinksSpellLists`, `TornOnlySo`: the second `list_del` of a node goes through NULL and touches NULL's own links only; a list whose head was
  never initialised has correct `prev` links and a NULL `next`; and NULL can be a node like any other, until one of these two
  writes to its links while it is in `readyqueue`.
- `ScreenShowsPaper`: neither the echo of keys nor the clock disturbs the text, outside their own cells.
- `StopsOnlySo`: `access_ok` accepts one page too many, the one after the data, so that a `write` from there stops the kernel
  unless `sbrk` has mapped it (the fault also needs an empty heap). On the other hand no buffer further up in the heap can be written from.
- `PerrorTellsOwn`: a thread's `perror` may report the error of another thread of its address space, and of no other.
- `ReachesUser`: every size that fits gets to user mode, in particular when it ends exactly at the end of a segment, where the
  loader reads one more segment of what is not there.
- `TimeBookedAs`: ticks spent blocked are booked as user ticks, ticks spent waiting as system ticks, none as ready ticks.

## Fairness

- `SchedSpec`: weak fairness of `ClockInterrupt`. The timer keeps interrupting, user code runs with interrupts
  enabled and cannot disable them. No process is assumed ever to make a call.
- `SemSpec`: the same for the timer, whose tick may also be the end (`Interrupted` faults when it dispatches NULL), and for the rest of a
  `sem_wait` that was dispatched: kernel code runs on.
- `KbSpec`: weak fairness of the reader's code; strong fairness of the timer and of the keyboard, because an
  interrupt raised while a handler runs stays pending and is taken on return to user mode, so that a process that
  makes one call after another cannot keep it out. That somebody goes on typing is an assumption about the user.

- `BootSpec`: weak fairness of the loader and of `main()` together: the processor goes on to the next instruction.
  Nothing is assumed of the build, which may die at any point.

`Processes`, `Memory`, `Stats`, `Lists`, `Output` and `RingBuffer` have safety properties only and no fairness.

## Proofs

TLC checks one instance of each component; the theorems hold for every value of the constants that the `ASSUME`s allow.
Every inductive invariant was an invariant of a TLC run, on the instance of the table above, before it was proved.

What is assumed of the constants, and what in the code stands behind it:

| Assumption | Says |
|---|---|
| `SchedAssumption` | two slots at least (idle and task 1), a positive quantum, distinct lists |
| `ProcAssumption` | the kernel has a page, processes have data pages, pages have a size, and there are frames enough for boot, which takes them unasked |
| `BootAssumption` | images and units of the disk have a size; a segment is whole sectors and paragraphs and holds a track; a track has sectors beside the boot sector; the paragraphs that may be loaded fit the word `im_size` (8 segments of 4096 against 65536) and lie below the kernel's last page; a quantum of two ticks at least; `main()`'s stack is in none of the slots it gives away |
| `SemAssumption` | the waiting lists are the semaphores' |
| `MemAssumption`, `StatsAssumption`, `ListAssumption`, `RingAssumption`, `ConsoleAssumption` | types; a size of one at least; heads, nodes and NULL are different cells |
| `KeyboardAssumption` | the counts are positive (`sys_read` refuses negative ones, and with 0 returns at once, having done nothing); a key number comes back only after the buffer has been full of others (serials are the model's, not the code's) |
| `OutputAssumption` | characters and keys are numbers, addresses are words, sizes ints and so less than half the address space, which has two pages at least |
| `CallsReturn` | the calls besides `write` that threads make do return, and their errors are numbers |

Bounds of a run such as `MaxPid`, `MaxTicks`, `MaxTyped` and `MaxCounter` are constants too: what is proved holds for every value.

### Scheduler: SchedProofs

`IInv` is the conjunction of `TypeOK`, `OnePlace`, `StateMatchesPlace` and `TicksMatchTask`; none of
the last three is inductive alone. That a task is unlinked exactly when it is linked needs the state field to be right;
the state field stays right only because a PCB is in one list; and the running process has ticks left because whatever
is dispatched is in no free slot. Handlers first rearrange the lists and then dispatch, so the lemmas speak of
`Consistent(q, s, u)`, which holds of the lists also between the two, and of `Running`. Each action is one
lemma; `sched_next_rr` is proved once.

| Theorem | States |
|---|---|
| `SchedInvariant` | `SchedSafety => []IInv` |
| `SchedTypeCorrect`, `TaskInOnePlace`, `StateFieldTrusted`, `TicksBounded` | the four invariants of the run `sched` |
| `BlockedLostForGood` | `LostForGood` |
| `RoundRobinOrder` | `NoOvertaking` |

### Processes and frames: ProcessProofs

`PInv` adds to the properties themselves `IInv`, `PidsDistinct` and the kernel's last frame being in use. The scheduler's invariant is
needed because a directory is free only if the tasks on `freequeue` are nobody: a slot that was linked twice could be
taken while it runs. A count is right because `allocate_DIR` returns a directory whose count is 0, which no live task
can use; that it returns one within the array, though it never looks at the end, is a counting argument: there is a live
task less than there are slots, and each takes one directory at most. "The first directory with count 0" is
`LeastElement`, the one place where induction over the naturals is needed; it is had
from the library's theorem that `<` on the naturals is well founded, which speaks of sets and takes no operator. Allocation is `Allocations`, whose lemmas say that
a request takes exactly as many new frames as it asks for, or none.

| Theorem | States |
|---|---|
| `ProcInvariant` | `ProcSafety => []PInv` |
| `ProcTypeCorrect`, `ReferencesCounted`, `RightSpaceLoaded`, `FramesIsolated`, `EveryPidResolves` | the invariants of the run `processes` |
| `FramesGoToChildren` | `FramesOnlyForChildren` |

### Semaphores: SemaphoreProofs

`SInv` is `PInv` with the three invariants of the run, `NullTypes` (the type of what is kept of NULL), and `RenewedOrFree`: for a waiter that is on its way out, the owner field is
-1 unless the number was taken again since. `WaitersConsistent` is what ties a task inside a `sem_wait` to one place
(linked, dispatched or about to be, or lost); without it, nothing would say that a
destroyed semaphore's tasks are those that were linked. Each call has one lemma that proves the invariant and the
action properties together, since all of them depend on where waiters go.

| Theorem | States |
|---|---|
| `SemInvariant` | `SemSafety => []SInv` |
| `SemTypeCorrect`, `NoCreditWhileWaiting`, `WaitersAccountedFor` | the invariants of the run `semaphores` |
| `WaitersLostOnlySo` | `LostOnlySo` |
| `OnlyOwnerReleases`, `SuccessMeansRenewed` | `ReleaseOnlyByForkedOwner`, `SuccessOnlyIfRenewed` |

### Memory of processes: MemoryProofs

`PagesOutlastFrames` speaks of live tasks' directories. It is kept only because no frame is ever entered twice
(`HeapIsolation`) and because the difference is counted for every directory, used or not (`PagesOutlast`): an exit
leaves the directory's heap entries where they are, and the next process that is given the directory inherits them.
A page that `sbrk` enters costs a frame that was free, so free pages and free frames fall together. `MemoryPrivate`
rests on the same two facts, and, since descendants of a fork can write to code pages, on data and heap frames being none of
the kernel's or the code's (`Shared`, which are in use from boot on: `SharedApart`, `BootSharedApart`).

| Theorem | States |
|---|---|
| `MemInvariant` | `MemSafety => []MInv` |
| `NeverOutOfPages` | `PagesOutlastFrames` |
| `OthersLeaveMemory`, `ChildrenStartEqual`, `SbrkKeepsCovered` | `MemoryPrivate`, `ChildInheritsData`, `OnlyForkUncovers` |

### Boot: MemoryProofs

`BInv` has four parts. `LoaderInv`: the loader has written in memory as far as it has read on the disk
(`Reached = Place * SECTOR`), and stands at a whole number of sectors in both. That alone makes every read legal
(`LegalReads`): whatever is left of the track, and whatever is left of the segment, is at least one sector. It is also
why the next read goes where it belongs (`ReadAdvances`, `ReadLoads`), so that `PlacedInv` can say which bytes of the image are in
memory: those below `Reached`, and after `copy_data()` all of them. `ImageInv` ties `im_size` to the image; for one that fits the 16 bits
have not wrapped, so the loader stops behind it (`StopsBehind`). `MainInv` writes down what `main()` has made after each of its calls.
For it `NextFrames` shows that `alloc_frame` hands out every second frame from the kernel's end on, `DownFrom` that the
free list counts down, and `FirstDirectory` which directory `allocate_DIR` finds. The user pages end up side by side in every second
frame, so `PhysicalUser` is one-to-one (`UserPlacesApart`) and above the image (`FitsBelow`): `copy_data()` overwrites nothing it
still has to copy, and nothing of the system.

| Theorem | States |
|---|---|
| `BootInvariant` | `BootSpec => []BInv` |
| `ReadsAreLegal`, `BootHandsOver` | `BiosReadsLegal`, `HandsOver` |
| `BootStartsProcesses` | `PInv` holds when user mode is entered: the proofs about processes start from what boot really leaves |

### Statistics: StatsProofs

`TimeBookedAs` speaks of the running task only, at the time of its last booking. `TInv` says for every task where the ticks since its last
booking will go: to `system_ticks` if it waits, else to `user_ticks` (`TaskAccounted`). The lemmas follow a handler through its
two or three bookings, on both sides of the switch, and each action is shown to be one such handler.

| Theorem | States |
|---|---|
| `StatsInvariant` | `StatsSpec => []TInv` |
| `SumsMeanThis` | `TimeBookedAs` |

### Keyboard: KeyboardProofs

`KInv` has the loop invariant of `sys_read_keyboard`: what was read and what is left make up the count, and a read that
the buffer is too small for has read whole buffers, each but the last leaving something to read. Which multiple of the capacity
that comes to is `RoundedUp`. That a second reader never gets in between the keys of a first follows from `InSequence`, which says
that the buffer holds consecutive keys, up to the next one to be typed.

| Theorem | States |
|---|---|
| `KbInvariant` | `KbSafety => []KInv` |
| `ReadsReturnCounts`, `ReadsAreConsecutive` | `ReadReturnsCount`, `KeysConsecutive` |

### Circular buffer and lists: StructureProofs

`RInv` adds to the types that `num_elem` is the distance from `tail` to `head` modulo `size`. The
lemmas replace each modulo by a case distinction and describe `Contents` as a sequence of that length; `PutAppends` and
`ReadRemoves` say what a call does to it.

For `list.c` the types, `LinksSpellLists`, `TornOnlySo` and `NullClear` (while NULL is in no list, its links lead nowhere that
deleting it would change) are inductive together. An operation writes the cell it moves, the head and a neighbour;
`Spells` says what one list asks of its own cells, `SpellsApart` that writes to cells of other lists leave that alone, and one lemma per
operation what becomes of the list it is meant for. NULL's links are held to nothing once `bent`.

| Theorem | States |
|---|---|
| `RingTypeCorrect` | the fields stay in range, for every size |
| `CountsAlwaysAgree` | `num_elem`, `Full` and `Empty` agree |
| `RingImplementsFifo` | `RingSpec => Fifo!FifoSpec` |
| `ListsInvariant`, `PointersSpellLists` | `LinksSpellLists`, for lists of any length |
| `TornOnlyByMisuse` | `TornOnlySo` |
| `QuestionsAnswered` | `list_empty` and `list_first` answer what `Sched` and `Semaphores` ask of the sequence |

### Output: OutputProofs

`OInv` has the types, `StopsOnlySo` and `PerrorTellsOwn`, with what the last leans on: the `errno` of a thread's address space is
its own last error until another thread fails (`ErrnoIsOwn`). The
lemmas on addresses say that a block which `access_ok` lets through does not wrap (`BlockDoesNotWrap`) and ends at most one page
behind the data (`FaultOnlySo`).

The screen has an induction of its own. `Alike` relates a screen to the paper with the same text on it: the cursor stands behind
the last line, and each cell but those of the key echo and the clock shows the last line that was printed on its row and reaches its column. A character, a line feed and a
wrap keep it (`LineFeed`, `CharacterPut`, `PrintCAlike`), hence a string of any length does. What a string does is a recursive function on the
number of its characters; that it is `Alike` up to each of them is argued by the least number for which it would not be (`UpTo`), which takes the
place of an induction rule.

| Theorem | States |
|---|---|
| `OutputInvariant` | `OutputSpec => []OInv` |
| `ScreenIsPaper` | `ScreenShowsPaper`: the screen shows all that was written, for every size of screen and every text |
| `KernelStopsOnlySo`, `PerrorReportsOwn` | `StopsOnlySo`, `PerrorTellsOwn` |

### Only model-checked

Everything under fairness (`ReadyRuns`, `ReadyRunsOrFault`, `SoleReaderServed`, `ReachesUser`): liveness under fairness, and the
`ENABLED` in it, are out of this prover's reach. Every invariant and action property of the passing runs is proved.

## What disagrees with the documentation

Three runs that TLC must find violated; `PROJECT.json` quotes the lines.

- `ExitFreesFrames`: `README_E2.txt` lists a test that exit frees data frames; `sys.c:151` never does.
- `UnlinkedNodesUnused`: `list.c` says a deleted entry is in an undefined state; `sem_signal` follows its links (`sys.c:282`).
- `BlockedTicksCounted`: `README_E2.txt:23` lists a test that the ticks of blocked processes increase, and `stats.h` has a field for them;
  nothing adds to it.

More of the kind, without a run:

- `README_E1.txt:12` lists a test that writes a very large string, of several kilobytes; `sys_write` never takes a string in chunks, for `ret`
  is 0 at its loop (`sys.c:169`), and copies it whole into 256 bytes of stack (`WriteOverruns`).
- `utils.c:76` supposes no support for code that modifies itself, and task 1's code pages are mapped without `rw`; a fork maps
  them, and the kernel's pages, for writing in the child (`sys.c:99`; `UserFrames`).
- `README_E2.txt` lists statistics tests that the code cannot pass as their names have it: `testAccountCS` and `testAccountCSwoBlock` (Tests 4 and 5),
  since nothing counts `total_trans`, which `stats.h:12` describes; `testTicsAccountingRemaining` (Test 6), since `remaining_ticks` keeps
  the time of creation for ever. Of Tests 25 and 26 (`GET_STATS` of a ready and of a blocked process): a waiting process's ticks go to
  `system_ticks` and a blocked one's to `user_ticks` when it runs again, and `ready_ticks` and `blocked_ticks` stay 0 (`TimeBookedAs`).
- `mm.c:72` leaves page 0 inaccessible "to comply with NULL convention", and every fork maps it in the child (`sys.c:99`; `nullMapped` in
  `Processes`); likewise the invalid pages around the task array (`mm.c:79`).

## What is not modelled

- The number one past `semaphores[]` that three calls accept, call number 36, which `entry.S:93` accepts though the table
  ends at 35, kernel stack overflow other than in `sys_write`, and the key
  buffer's memory. `circular_buffer_init` hands out a local array, which after boot lies under the
  task slots 2 and 3 (the boot stack starts at `protected_tasks[5]`). What these reach is
  decided by compiler and linker; the models take the key buffer's memory to be its own.
- Saved contexts, privilege levels and the code that switches stacks: `current` changes as a whole.
- What happens after `sem_signal` has torn `readyqueue`, after a string has overrun the kernel's stack, and after a program has stored into
  the kernel's pages: in each case the model ends.
- Overflow of PIDs and of tick sums, which no run of the machine reaches.
- Errors of the BIOS, which the loader does not look at: `BiosReadsLegal` is what the BIOS can hold against it. And what becomes
  of the partial `zeos.bin` that a build leaves when it dies: the `Makefile` does not delete it.
- Segment descriptors, the TSS but for `esp0`, the interrupt table: written once during boot, one step of `Boot`.
- `itoa` and `strlen`, the user program (the models let every process make any call at any time), port access, the debug
  output on port 0xe9, and the libraries without source, but for `monoprocess_init_addr_space`, the page fault handler and the clock display.

## Plan

Done: the scheduler, which everything else rests on; processes, semaphores, the buffer and keyboard, memory, statistics; the
pointers of the lists, what a semaphore call returns, output, and boot; and the proofs of all their safety properties. What would come next:

1. Saved contexts: `task_switch` and the frames `sys_fork` and `sys_clone` build on the child's stack, so that where a child
   starts becomes a property.
2. The memory of the key buffer, once the memory map of the linked kernel is part of the model.
