-------------------------------- MODULE Output --------------------------------
(***************************************************************************)
(* write() from the user library to the screen: the wrappers of libc.c     *)
(* with their shared errno, the dispatch by number (entry.S,               *)
(* sys_call_table.S), sys_write with its checks (sys.c, utils.c), and what *)
(* the handlers of keyboard and timer draw on the same screen              *)
(* (interrupt.c).                                                          *)
(*                                                                         *)
(* A handler is one step; threads interleave between the instructions of   *)
(* the library: the trap, the store to errno, and the two halves of        *)
(* perror.                                                                 *)
(***************************************************************************)
EXTENDS Console

CONSTANTS
  Thread,
  BUFFER_SIZE, PAGE_SIZE, USER_FIRST_PAGE, NUM_PAG_CODE, NUM_PAG_DATA,
  AddressSpace,   \* 2^32: addresses wrap here
  OtherCalls,     \* bound: the wrappers the threads use besides write
  Addresses,      \* bound: the buffers they pass to write; 0 is NULL
  Strings,        \* bound: what is in the buffers
  Keys,           \* bound: the characters the keyboard echoes
  Faces,          \* bound: what the clock shows of the time
  MaxTyped        \* bound: no call writes past so many characters

(* Addresses are unsigned words and sizes are ints, of half their range.   *)
ASSUME OutputAssumption ==
  /\ PAGE_SIZE \in Nat \ {0} /\ USER_FIRST_PAGE \in Nat
  /\ NUM_PAG_CODE \in Nat /\ NUM_PAG_DATA \in Nat \ {0}
  /\ AddressSpace \in Nat /\ 2 * PAGE_SIZE <= AddressSpace
  /\ Addresses \subseteq 0 .. AddressSpace - 1
  /\ Strings \subseteq Seq(Nat)
  /\ \A str \in Strings : 2 * Len(str) < AddressSpace
  /\ Keys \subseteq Nat /\ Faces \subseteq [ClockColumns -> Nat]

(* errno.h *)
EPERM   == 1
EBADF   == 9
ENOMEM  == 12
EFAULT  == 14
EINVAL  == 22
ENOSYS  == 38
ENAVAIL == 119

VARIABLES
  screen,
  kernel,      \* "runs", or why it stopped: "fault", "overrun"
  space,       \* thread -> the thread that has its address space
  heap,        \* pages sbrk has mapped after the data, before we begin
  errno,       \* address space -> errno
  pc,          \* thread -> "user", "trapped" in a wrapper, or in "perror"
  ret,         \* thread -> eax after the trap
  message,     \* thread -> the errno whose message perror has fetched
  typed,       \* history: the characters printed at the cursor
  lastError,   \* history: thread -> what its own last failed call stored
  disturbed,   \* history: threads whose errno another has overwritten
  blame        \* history: buffer and size of the write that stopped the kernel

history    == <<lastError, disturbed, blame>>
outputVars == <<screen, kernel, space, heap, errno, pc, ret, message, typed, history>>

Own(t) == space[t]

OutputInit ==
  /\ screen = BlankScreen /\ typed = << >> /\ kernel = "runs"
  /\ space \in [Thread -> Thread]
  /\ \A t \in Thread : space[space[t]] = space[t] /\ space[t] <= t
  /\ heap \in 0 .. 1
  /\ errno = [t \in Thread |-> 0] /\ lastError = [t \in Thread |-> 0]
  /\ pc = [t \in Thread |-> "user"]
  /\ ret = [t \in Thread |-> 0] /\ message = [t \in Thread |-> 0]
  /\ disturbed = {} /\ blame = [buffer |-> 0, size |-> 0]

-----------------------------------------------------------------------------
(* The numbers the wrappers of libc.c put in eax ... *)
Number ==
  [exit |-> 1, fork |-> 2, write |-> 4, read |-> 5, gettime |-> 10, sbrk |-> 13,
   clone |-> 19, getpid |-> 20, sem_init |-> 21, sem_wait |-> 22,
   sem_signal |-> 23, sem_destroy |-> 24, get_stats |-> 35]

(* ... and the handler sys_call_table has there. *)
sys_call_table ==
  1 :> "exit" @@ 2 :> "fork" @@ 4 :> "write" @@ 5 :> "read" @@ 10 :> "gettime"
  @@ 13 :> "sbrk" @@ 19 :> "clone" @@ 20 :> "getpid" @@ 21 :> "sem_init"
  @@ 22 :> "sem_wait" @@ 23 :> "sem_signal" @@ 24 :> "sem_destroy"
  @@ 35 :> "get_stats"

Handler(call) ==
  IF Number[call] \in DOMAIN sys_call_table
  THEN sys_call_table[Number[call]] ELSE "ni_syscall"

(* The errors a handler returns; get_stats() returns a bare -1. *)
Errors ==
  [fork |-> {ENOMEM}, clone |-> {ENOMEM, EFAULT}, sbrk |-> {ENOMEM},
   read |-> {EBADF, EFAULT, EINVAL}, gettime |-> {}, getpid |-> {},
   sem_init |-> {ENAVAIL}, sem_wait |-> {ENAVAIL}, sem_signal |-> {ENAVAIL},
   sem_destroy |-> {ENAVAIL}, get_stats |-> {EPERM}, ni_syscall |-> {ENOSYS}]

(* The other calls return: exit() does not, and has no errors above. *)
ASSUME CallsReturn ==
  \A call \in OtherCalls :
    Handler(call) \in DOMAIN Errors /\ Errors[Handler(call)] \subseteq Nat

-----------------------------------------------------------------------------
Page(a) == a \div PAGE_SIZE
EndPage == USER_FIRST_PAGE + NUM_PAG_CODE + NUM_PAG_DATA

(* Mutant: the end of the block is not looked at. *)
access_ok_Start(addr, size) ==
  LET addr_ini == Page(addr)
      addr_fin == Page(addr)
  IN  USER_FIRST_PAGE <= addr_ini /\ addr_ini <= addr_fin /\ addr_fin <= EndPage

(* access_ok(VERIFY_READ, addr, size).  VERIFY_WRITE adds nothing: where   *)
(* its own test fails it falls into this one.  The page after the last one *)
(* of the data is accepted, and no other page of the heap.                 *)
access_ok(addr, size) ==
  LET addr_ini == Page(addr)
      addr_fin == Page((addr + size) % AddressSpace)
  IN  USER_FIRST_PAGE <= addr_ini /\ addr_ini <= addr_fin /\ addr_fin <= EndPage

(* What sys_write returns before it copies anything; 0 when it goes on. *)
WriteCheck(fd, buffer, size) ==
  CASE fd # 1 -> -EBADF
    [] fd = 1 /\ buffer = 0 -> -EFAULT
    [] fd = 1 /\ buffer # 0 /\ size < 0 -> -EINVAL
    [] OTHER -> IF access_ok(buffer, size) THEN 0 ELSE -EFAULT

(* copy_from_user() reads the whole block, in words and then in bytes. *)
Readable(buffer, size) ==
  \A a \in buffer .. buffer + size - 1 :
    Page(a) \in USER_FIRST_PAGE .. EndPage - 1 + heap

Returns(t, value) ==
  /\ ret' = [ret EXCEPT ![t] = value]
  /\ pc' = [pc EXCEPT ![t] = "trapped"]

(* sys_write.  ret is 0 at the loop that writes chunks of BUFFER_SIZE, so  *)
(* it is never entered and the whole string goes through a buffer of       *)
(* BUFFER_SIZE on the kernel's stack.                                      *)
WriteRefused(t, fd, buffer, size) ==
  /\ WriteCheck(fd, buffer, size) # 0
  /\ Returns(t, WriteCheck(fd, buffer, size))
  /\ UNCHANGED <<screen, kernel, typed, blame>>

Prints(str) == screen' = PrintAll(screen, str) /\ typed' = typed \o str

WriteShows(t, fd, buffer, size, str) ==
  /\ WriteCheck(fd, buffer, size) = 0 /\ Readable(buffer, size)
  /\ size <= BUFFER_SIZE
  /\ Prints(str)
  /\ Returns(t, size)
  /\ UNCHANGED <<kernel, blame>>

(* The kernel stops while it copies, at a page that is not there. *)
WriteFaults(t, fd, buffer, size) ==
  /\ WriteCheck(fd, buffer, size) = 0 /\ ~Readable(buffer, size)
  /\ kernel' = "fault"
  /\ blame' = [buffer |-> buffer, size |-> size]
  /\ UNCHANGED <<screen, typed, ret, pc>>

(* A longer string overwrites what lies behind the buffer, the size of the *)
(* block and the way back among it.  Some of it is printed, as the size    *)
(* has become; where the call then returns to, nothing here says.          *)
WriteOverruns(t, fd, buffer, size, str) ==
  /\ WriteCheck(fd, buffer, size) = 0 /\ Readable(buffer, size)
  /\ size > BUFFER_SIZE
  /\ \E shown \in Prefixes(str) : Prints(shown)
  /\ kernel' = "overrun"
  /\ blame' = [buffer |-> buffer, size |-> size]
  /\ UNCHANGED <<ret, pc>>

SysWrite(t, fd, buffer, size, str) ==
  \/ WriteRefused(t, fd, buffer, size)
  \/ WriteShows(t, fd, buffer, size, str)
  \/ WriteFaults(t, fd, buffer, size)
  \/ WriteOverruns(t, fd, buffer, size, str)

-----------------------------------------------------------------------------
(* A call of write(), and of any other wrapper. *)
Write(t) ==
  /\ pc[t] = "user" /\ Handler("write") = "write"
  /\ \E fd \in {0, 1}, buffer \in Addresses, str \in Strings :
       /\ Len(typed) + Len(str) <= MaxTyped
       /\ \/ SysWrite(t, fd, buffer, Len(str), str)
          \/ SysWrite(t, fd, buffer, -1, << >>)
  /\ UNCHANGED <<space, heap, errno, message, lastError, disturbed>>

OtherCall(t) ==
  /\ pc[t] = "user"
  /\ \E call \in OtherCalls : \E e \in {0} \cup Errors[Handler(call)] : Returns(t, -e)
  /\ UNCHANGED <<screen, kernel, space, heap, errno, message, typed, history>>

(* Mutant: errno is set by every call. *)
WrapperReturns_Always(t) ==
  /\ pc[t] = "trapped"
  /\ pc' = [pc EXCEPT ![t] = "user"]
  /\ errno' = [errno EXCEPT ![Own(t)] = IF ret[t] < 0 THEN -ret[t] ELSE 0]
  /\ lastError' = [lastError EXCEPT ![t] = IF ret[t] < 0 THEN -ret[t] ELSE @]
  /\ disturbed' = IF ret[t] >= 0 THEN disturbed
                  ELSE (disturbed \cup {u \in Thread : Own(u) = Own(t)}) \ {t}
  /\ ret' = [ret EXCEPT ![t] = 0]
  /\ message' = [message EXCEPT ![t] = 0]
  /\ UNCHANGED <<screen, kernel, space, heap, typed, blame>>

(* The end of every wrapper: a negative value goes to errno. *)
WrapperReturns(t) ==
  /\ pc[t] = "trapped"
  /\ pc' = [pc EXCEPT ![t] = "user"]
  /\ IF ret[t] < 0
     THEN /\ errno' = [errno EXCEPT ![Own(t)] = -ret[t]]
          /\ lastError' = [lastError EXCEPT ![t] = -ret[t]]
          /\ disturbed' = (disturbed \cup {u \in Thread : Own(u) = Own(t)}) \ {t}
     ELSE UNCHANGED <<errno, lastError, disturbed>>
  /\ ret' = [ret EXCEPT ![t] = 0]
  /\ message' = [message EXCEPT ![t] = 0]
  /\ UNCHANGED <<screen, kernel, space, heap, typed, blame>>

(* perror fetches sys_errlist[errno], and writes it in a call of its own.  *)
(* Every message is one and the same character here: it is not NULL, not   *)
(* longer than BUFFER_SIZE, and among the data.                            *)
PerrorFetches(t) ==
  /\ pc[t] = "user"
  /\ message' = [message EXCEPT ![t] = errno[Own(t)]]
  /\ pc' = [pc EXCEPT ![t] = "perror"]
  /\ UNCHANGED <<screen, kernel, space, heap, errno, ret, typed, history>>

Message == <<1000>>

PerrorWrites(t) ==
  /\ pc[t] = "perror"
  /\ Len(typed) < MaxTyped
  /\ SysWrite(t, 1, (EndPage - 1) * PAGE_SIZE, 1, Message)
  /\ UNCHANGED <<space, heap, errno, message, lastError, disturbed>>

(* keyboard_interrupt echoes every key in the corner. *)
KeyEcho(k) ==
  /\ screen' = PrintCXY(screen, 0, 0, k)
  /\ UNCHANGED <<kernel, space, heap, errno, pc, ret, message, typed, history>>

(* clock_interrupt draws the clock before it returns. *)
ClockShown(face) ==
  /\ screen' = ShowClock(screen, face)
  /\ UNCHANGED <<kernel, space, heap, errno, pc, ret, message, typed, history>>

OutputNext ==
  /\ kernel = "runs"
  /\ \/ \E t \in Thread : \/ Write(t) \/ OtherCall(t) \/ WrapperReturns(t)
                          \/ PerrorFetches(t) \/ PerrorWrites(t)
     \/ \E k \in Keys : KeyEcho(k)
     \/ \E face \in Faces : ClockShown(face)

OutputSpec == OutputInit /\ [][OutputNext]_outputVars

-----------------------------------------------------------------------------
(* The screen is the last rows of an endless paper, and where it wraps a   *)
(* new line is written over an old one, which shows behind its end: the    *)
(* cursor and every cell but the corner of the echo and those of the clock *)
(* follow from the characters written, whatever the lines' lengths and     *)
(* whenever a key is echoed or the time drawn.                             *)
ScreenShowsPaper ==
  LET lines == Paper(typed) IN
  /\ screen.x = Len(Last(lines)) /\ screen.y = RowOf(Len(lines))
  /\ \A r \in Rows, c \in Columns :
       <<r, c>> \notin {<<0, 0>>} \cup ClockCells =>
         screen.cell[<<r, c>>] = Shows(lines, r, c)

(* access_ok lets a block that is not there through in one way only: it    *)
(* reaches the page after the data, which sbrk has not mapped.             *)
StopsOnlySo ==
  kernel = "fault" =>
    /\ heap = 0
    /\ Page(blame.buffer) >= USER_FIRST_PAGE
    /\ Page(blame.buffer + blame.size - 1) = EndPage

(* perror reports the thread's own last error, unless another thread of    *)
(* its address space has failed since: errno is one variable for them all. *)
PerrorTellsOwn ==
  \A t \in Thread :
    pc[t] = "perror" => message[t] = lastError[t] \/ t \in disturbed
==============================================================================
