# A TLA+ verification of the Nachos kernel

The repository is a course version of Nachos: a MIPS machine simulator
(`src/nachos/machine`) and, linked into the same host process, a small kernel
(`kernel`, `drivers`, `vm`, `filesys`, `utility`). The student parts
(`ETUDIANTS_TP`) are filled in and compiled: the model is of that build.
The directories `tp1` .. `tp10` hold exercises for the host system.

## 1. Inventory

| part | state | operations | interacts with |
|---|---|---|---|
| Threads, scheduler (`thread.cc`, `scheduler.cc`) | current thread, ready list, `g_alive`, `g_thread_to_be_destroyed`, saved contexts | Start, Finish, Yield, Sleep, Join, SwitchTo | everything that blocks; deletes threads and processes while it switches |
| Processes (`process.cc`) | address space, `numThreads` | created by Exec and main, deleted by the last `~Thread` | threads, address spaces |
| Semaphores, locks, conditions (`synch.cc`) | value/queue, free/owner/sleepqueue, waitqueue | P, V, Acquire, Release, Wait, Signal, Broadcast, create, destroy | ready list; interrupt handlers call V |
| System calls (`exception.cc`) | object ids | one case per call | all parts |
| Interrupts (`interrupt.cc`) | pending list, level, clock | Schedule, CheckIfDue, Idle, Halt | devices call Schedule, handlers call V |
| Disk and its driver (`disk.cc`, `drvDisk.cc`) | `active`; a lock and a semaphore | ReadSector, WriteSector, RequestDone | file system, swap |
| Console, serial line and their drivers | one-character registers, buffers, semaphores | PutString, GetString, TtySend, TtyReceive | interrupts |
| MIPS simulator (`mipssim.cc`, `machine.cc`, `mmu.cc`) | registers, delayed load, memory, condition code | OneInstruction, RaiseException, ReadMem, WriteMem | page faults and interrupts, which switch threads within and between instructions |
| Virtual memory (`physMem.cc`, `pagefaultmanager.cc`, `swapManager.cc`, `mmu.cc`, `addrspace.cc`) | page table bits, free list, clock hand, swap bitmap | PageFault, EvictPage, Mmap, Translate | swap disk, open files, Yield |
| Files (`oftable.cc`, `openfile.cc`, `filesys.cc`, `filehdr.cc`, `directory.cc`) | table of open files, free map and directories on disk | Open, Close, Remove, Create, Mkdir, Rmdir, ReadAt, WriteAt | disk driver, one lock per open file |
| Lists, bitmaps, ids (`list.h`, `bitmap.cc`, `objid.h`) | linked list, words, map | Append, Remove, SortedInsert, RemoveItem, Mark, Find | all parts |

What is hard here. The machine has one processor and no time slices (no
`Timer` is ever created), so there are no races at the level of instructions.
Everything interesting happens at the places where a thread leaves the CPU in
the middle of an operation: a thread that was *made ready* has not *run* yet,
and others act in between (semaphores, locks, page faults, file operations);
interrupts come at any tick; the thread that continues after a switch has to
delete the thread that finished; and all of it must keep working when every
thread is asleep. `PROJECT.json` lists these hazards at their lines.

What makes the parts correct: no thread is lost or in two lists; a process lives
exactly as long as its threads; locks exclude and are handed on; no wake-up is
lost; ready threads run; a disk request is answered to the thread that made it;
a page read returns what was last written to it, no frame has two owners and no
swap sector two pages; no sector belongs to two files and the free map is right;
a file reads as the bytes that were written; console and line neither mix nor
lose characters; interrupts are delivered in order and in time; a program
computes what it would compute alone on the machine.

## 2. Modules

| module | models |
|---|---|
| `Threads` | threads, processes, scheduler, idle and halt: state and operations, no specification of its own |
| `Synch` | extends `Threads` with semaphores, locks and conditions and composes both into `Spec`: the kernel under arbitrary user programs |
| `MCSynch` | instances of `Synch` (symmetry) |
| `SynchProofs` | types of `Synch`, lemmas on lists, the inductive invariant, mutual exclusion, hand-over; its strengthening for wake-ups, processes and carcasses |
| `DiskService` | abstract: what the disk driver promises |
| `DiskDriver` | extends `Synch` with the driver, the simulated disk and its interrupt; implements `DiskService` |
| `DiskProofs` | the driver's inductive invariant, the hand-shake, the refinement of `DiskService` |
| `VirtMem` | demand paging: page faults, clock eviction, swap area, address translation, mapped files, the end of an address space |
| `MCVirtMem` | instances of `VirtMem` |
| `VirtMemProofs` | the inductive invariants of page faults and evictions (io bits, frames and tables), of the swap area and of the contents of pages |
| `FileSystem` | create, open, close, remove, mkdir, rmdir and growth of files, the open file table, directories and the free map, cut at every disk access |
| `FileTableProofs` | types of `FileSystem` and the inductive invariant of the open file table and its counts |
| `FileDiskProofs` | the invariant of sectors, names and the free map, and what each kind of change leaves true of it |
| `FileSystemProofs` | the steps keep that invariant, and the safety properties of `FileSystem` |
| `FileData` | the bytes of one file: file headers and their format on the disk, reads and writes of partial sectors, growth, several handles |
| `Console`, `Serial` | the two character devices with their drivers |
| `CharDevices` | both together, with the configuration that chooses between them |
| `CharDeviceProofs` | the console, and reception on the serial line, in `CharDevices` |
| `Interrupts` | simulated time: pending interrupts, the clock, the idle loop, the timer |
| `InterruptProofs` | the sorted list and `Interrupts` for any devices, delays and ticks |
| `Mips` | every instruction of the simulator as an operator on a machine |
| `Processor` | extends `Mips`: threads, page faults within instructions, interrupts and switches |
| `MCFileSystem`, `MCFileData`, `MCCharDevices`, `MCProcessor` | their instances |

### How state and actions correspond to the code

An action is what the current thread executes between two points where the CPU
may change hands. A primitive that can block is therefore two actions: `P` runs
up to `Sleep`, `ReturnP` is the rest once `Sleep` returns; likewise `Acquire`
and `ReturnAcquire`, `Yield` and `ResumeYield`, the turns of the loop of `Join`.
`status[t]` says inside which primitive the saved context of `t` is,
`blockedOn[t]` on which object.

`SwitchTo` has two halves. The first runs on the old stack and installs the next
thread (`cpu = "switched"`). The second, which deletes the carcass
(`Resumed`), runs on the stack of the new thread, unless that thread is fresh:
then it begins in `StartThreadExecution` and the second half is skipped (see
section 6 for what follows from this).

`Sleep` with an empty ready list leaves `g_current_thread` as it is, in the idle
loop (`cpu = "idle"`); an interrupt that makes a thread ready is followed by
`IdleSwitch`. `Halt` deletes the current thread (`Cleanup`), and a failed
`ASSERT` stops everything (`Abort`).

A user program is arbitrary: a running thread makes any system call with any
argument. A call with an id that names no live object of the right type only
returns an error, which is a stuttering step. `inside[l]` is a history variable:
the threads that have returned from `Acquire` of `l` and not called `Release`.

Abstractions. An object is never created twice, so that the reuse of freed
memory is outside the model. `g_alive` is a set, as only membership is asked.
`Exec` is atomic although it reads the executable from the disk (the driver has
its own module). Conditions, locks and semaphores of user programs are in
`Synch`, the driver's own pair is in `DiskDriver`. `ReadSector` and
`WriteSector` are one operation, as they differ only in the direction of the
copy, which the simulated disk makes at once. Simulated time is dropped
everywhere but in `Interrupts`: an interrupt that is pending may fire at any
point where interrupts are enabled, which includes every time the clock can
choose.

### Virtual memory

`VirtMem` is a module of its own: it needs of threads only where one leaves the
CPU, and of the swap disk only that it answers later. It cuts `PageFault` and
`EvictPage` at each Yield and each disk access. `pc[t]` says where thread `t` is,
and `page`, `buffer`, `frame`, `turns`, `victim` and `disk` are its local
variables there. At a cut `g_current_thread` is NULL and any thread may go on,
which includes every order the ready list can produce; between two cuts it is
the thread that must go on, so that its next step is not interleaved.

| code | action |
|---|---|
| `MMU::Translate`, `ReadMem`, `WriteMem` | `Touch` (the page is valid), otherwise the fault below |
| `PageFault` up to the disk access | `AwaitIo` (io bit set), `BeginFault` |
| the disk read, with the wait for a sector | `Loaded` |
| `AddPhysicalToVirtualMapping`, `FindFreePage` | `Alloc` |
| loop of `EvictPage` | `Clock`, one turn each |
| `EvictPage` to the write, the write, the rest | `EvictStart`, `Written`, `EvictEnd` |
| end of `PageFault`, `UnlockPage`, the access | `Install` |
| `Mmap` with `Alloc` | `Mmap` |
| `~AddrSpace`, run by the thread that deletes the last thread of the process | `DeleteSpace`, then `FlushStart`, `FlushDone`, `ReleasePage` for the pages in order, `DeleteTable` |

The bits of the translation tables are sets of pages. The contents of a page are
one value, and a write to any byte gives a new one. `last` is a history variable,
the value last written to each page. A table that is used after its deletion
makes the machine "wild", a failed `ASSERT` or a `Halt` "aborted"; no behaviour
goes on from there and `FramesAgree` says that neither happens.

Left out: accesses without permission or outside the mapped pages, which stop
the machine, except those just below address 0 when page 0 is mapped (section 6),
so that what this module says of memory presumes page 0 unmapped or no such
access; stacks allocated after the start; a file mapped twice or in part.
`Leaving` and `Mapping` choose the processes that may exit and map files, so that
a run can ask about one thing where the code is known to fail at another
(section 6). The passing runs map one file,
behind all other pages, since `findMappedFile` ends a mapping one page too late
and would give the first page of a second mapping to the first file.

### Files

`FileSystem` has one variable per shared structure: the sectors of the disk, the
table of open files with `nbentry`, `createLock`, and the open files of programs
(`files`). Everything on the disk is read into a local copy, changed there and
written back, and a thread leaves the CPU at each disk access. `op[t]` is the
call that thread `t` is in: `pc` names the disk access that comes next, the other
fields are the local variables of the C++ function.

| code | actions |
|---|---|
| `SC_CREATE` .. `SC_RMDIR` up to the disk | `SysCreate`, `AcquireCreate`, `SysOpen`, `SysClose`, `SysPath`, `SysGrow` |
| `FindDir` | `FetchRoot`, `FetchSubHeader`, `FetchSub` |
| the directory of the name, the lookup | `OpenDirFile`, `Fetch`, `FetchHeader` |
| `OpenFileTable::Open`, insertion | `NewFile` |
| `Rmdir`, the directory to remove | `OpenVictim`, `FetchVictim` |
| allocation and release of sectors | `FetchMap` |
| write-backs, in the order of each call | `WriteHeader`, `WriteDir`, `WriteMap`, `WriteData`, `OpenNewDir`, `WriteNewDir` |

A header, a directory and the free map take one sector each. A call that reads a
sector and finds something else there than the code takes it for has crashed, as
has one that fails an `ASSERT`. `lost` is a history variable: sectors that two
known leaks (below) keep marked.

`FileData` is about one file and its bytes, each call in one step: the header
with its arrays, their layout over header sectors, `Allocate`, `reAllocate`,
`Deallocate`, `ReadAt` and `WriteAt`. `content` is the reference: the bytes that
a plain array would hold. Header sectors have room for one and for two sector
numbers, so that a file of four sectors needs three header sectors.

### Console and serial line

In `Console` the steps of a thread end where interrupts are enabled again. A
lock is its queue, a semaphore its value, since only the owner of the lock waits
for it. `polls` counts the pending `ConsoleReadPoll`. `written` and `got` are
histories. `Serial` has the semaphores of `Synch` in full, because two threads
may pass `P` together, and the ACIA with its two registers and working mode.
Characters are numbers that tell the message they belong to; the code only asks
whether one is '\0'.

### Simulated time

`Interrupts` keeps for each pending interrupt the ticks that are left. The steps
are those of the simulator: an instruction with its tick (`Run`), the kernel
changing the interrupt level, requests of devices, the loop of `OneTick`, `Idle`.
An element of `Device` has one interrupt pending at a time: a type of which several
may be pending (polls of a console that is enabled again) is several elements.
A handler may make a thread ready and may schedule itself again, as the polls of
the console and of the ACIA do. The base code creates no `Timer` and has its
handler in comments (`system.cc:91`), although the machine provides one: the
initial states are with and without it.

### The processor

`Mips` writes each instruction as a function of the machine: registers, HI and LO,
pc and next pc, the delayed load, floating point registers, condition code and
memory. The word is scaled down: a byte has `ByteBits` bits and everything else
follows. With bytes of two bits a word has eight, and the arithmetic of carries,
signs, overflow and merging is that of 32 bits. Floating point values are the
host's (external): integers stand for them.

An instruction is cut at its memory accesses (`Issue`, then `Access` once or
twice), because a page fault is not restarted: it is served within the
instruction, and other threads have the machine meanwhile. `Processor` adds the
threads, with `PageFault`, `Interrupted` and `SyscallWaits` as the places where
`SwitchTo` saves and restores the registers. A switch at an interrupt needs a
timer; it is included. `alone[t]` is a history: thread `t` on a machine of its
own. `Respects` excludes programs that use a register in the delay slot of its
load, which no MIPS compiler emits and for which the moment of an interrupt would
show.

`Translate` divides as C does: page and offset of an address are those of a
signed division that truncates. The addresses -1 to -(`PageSize` - 1) therefore
have page 0 and a negative offset, and meet the `ASSERT` on negative page numbers
no more than any other address of page 0. With page 0 unmapped the answer is
`ADDRESSERROR`; with page 0 mapped it is a physical address in front of the frame.
The model calls that "STRAY" and follows the program no further, since what it
then reads or changes belongs to another page, or to the simulator. `MemoryIsRight`
and `SwitchesDoNotShow` presume private memory, and `AccessesStayInPage`, a part
of `MemoryIsRight`, is what has to hold for that. It holds in the run because page 0 is
not mapped there, as in all programs that `userlib/ldscript.lds` links ("Skip an
area of about 8k, so that NULL pointer dereferences can be detected"). The loader
does not insist on it: section 6.

## 3. Runs

| run | checks | bounds |
|---|---|---|
| `kernel_objects` | `TypeOK`, `EveryThreadLocated`, `ProcessOutlivesItsThreads`, `CarcassIsNotRunning`, `MutualExclusion`, `LockedWhileWanted`, `NoLostWakeup`, `KernelInv` | root and 3 user threads, 2 user processes, one object of each kind, initial values 0 and 1, `MaxValue` 2 |
| `kernel_liveness` | `ReadyThreadsRun`, `JoinReturns` under `FairSpec` | root and 3 user threads, 1 process, 1 semaphore |
| `disk_driver` | `HandShake`, `ImplementsService`, `RequestsComplete` under `FairDiskSpec` | root and 4 user threads, 1 disk |
| `vm_paging` | `PagingInv`, `IoIsALock`, `PagingIsInvisible` | 3 threads in 2 processes, 3 pages (2 with an image in the executable), 1 frame, 3 sectors, 2 values |
| `vm_mapped` | `FramesAgree`, `SwapAccounted`, `PagingIsInvisible` | 2 threads with 2 pages that map a file of 1 page and exit, 1 thread without pages, 2 frames, 2 sectors |
| `vm_liveness` | `PageFaultsEnd` under `FairVMSpec` | 3 threads in 2 processes, 3 pages, 1 frame, 3 sectors, contents left out (1 value) |
| `vm_evict_mapped` | violates `UnmappedPagesSwap` | 2 threads, 1 frame, 1 file |
| `files` | `NotCrashed`, `NoSectorShared`, `FreeMapIsRight`, `OpenFilesKeepTheirData`, `HandlesCounted` | 2 threads, a file, a directory and a file in it, 8 sectors (4 of the system), 2 entries per directory, 2 in the open file table, 2 files open at a time |
| `file_data` | `HandlesSeeTheFile`, `DiskDescribesTheFile`, `SectorsAccounted` | 1 file, a handle that writes and one that reads, sectors of 2 bytes, up to 7 bytes |
| `char_devices` | `DisplayShowsTexts`, `InputIntact`, `MessagesArrive`, `BusyLineLosesNothing`, `CallsEnd` | 2 threads, 2 calls each on the console, 2 messages each way on the line, both modes |
| `interrupts` | `EarliestFirst`, `NothingOverdue`, `InterruptsCome` | 3 devices with delays 1 and 3, timer every 4 ticks, instructions of 1 and kernel ticks of 2 |
| `processor` | `ProcTypeOK`, `SwitchesDoNotShow`, `ArithmeticIsRight`, `MemoryIsRight` | 8-bit words, 4 registers, 5 pages of which page 0 is not mapped; each instruction on 21 x 21 operands; sequences of 3 instructions against 2 of another thread |

Three user threads are one that acts, one that has been woken and has not run
yet, and one that intervenes: the shortest case of every interleaving listed
among the hazards. `MaxValue` only bounds how often V is called ahead of P; two
units are enough to have a second V meet a thread that the first one woke.
The objects do not share state except through the ready list, so one of each
kind is enough to mix them.

In virtual memory, two threads of one process and one of another give a fault on
a page that another thread loads, and one on a page that another process evicts.
With one frame and three pages two evictions are under way at the same time, one
of which finds the only frame locked; with the two frames of `vm_mapped` the
clock has a choice.
There are as many sectors as pages that can be swapped, so that the swap area is
never full. The variable `i` of the clock loop counts up to
`NumPhysPages + 1`, as the code only asks whether it is larger than
`NumPhysPages`. In `vm_mapped` the other process has no pages, because the page
replacement of two processes of which one maps a file is where the code fails.

Files. Eight sectors are full after one file and one directory, so that calls
fail for lack of space, of entries and of slots in the table, at every point.
`Together` says which calls may overlap. The comments of `Mkdir` assume that
there is no concurrent access, and `Create` has a lock: the run lets Creates
overlap with each other and with an Open, and orders the other calls one after the
other. Within `file_data` the sizes cross the bounds of sectors, of the first and of the
second header sector; `CrossHeaders` is off, that is, a file has its header
sectors from the start (section 6).

Devices. Two threads are one that has the device and one that waits. The bounds
`MaxCalls`, `MaxMessages` and `MaxLine` end the run; programs may stop, so that
`char_devices` does not check deadlock. Neither does `processor`, where a program
ends or an exception stops the machine.

Processor. The sample has the least and the greatest signed and unsigned words,
their neighbours, alternating bits, and addresses of each alignment. Three
instructions are a load, the one in its delay slot and one that reads its
register, with a fault, an interrupt or a switch at every point between and
within them.

`vm_evict_mapped` is expected to fail: `EvictPage` looks for the victim's page
number in the mappings of the current process. A modified stack page of another
process is written into a mapped file, or nowhere, and comes back as zeroes.

Fairness. `Continue` is weakly fair: the processor executes kernel code that can
go on. Nothing takes the CPU away from user code, so a scheduling promise holds
only of programs that give way; `FairSpec` assumes that a thread that does
nothing else yields. In `DiskDriver` the interrupt is strongly fair, because
switches disable interrupts for a moment again and again while every tick in
between looks for due interrupts.

In `VirtMem` the steps of the handler and of the destructor are weakly fair:
disks answer and the ready list is served in turn. A thread that has been around
the clock more than once yields after every frame, and programs that go on
touching pages can set the used bits again each time; so `PageFaultsEnd` is
claimed when programs have stopped making new accesses, which is the part that
the kernel is responsible for: no circle of io bits, locked frames and disks.

`CharDevices` has weak fairness of the steps of a thread in the console's driver,
of the write interrupt and of the poll; `CallsEnd` says that a WRITE returns, and a
READ too unless nothing more is typed. `Interrupts` has weak fairness of the simulator's loops and strong
fairness of an instruction that does not raise an exception and of enabling
interrupts: a program makes progress, and every path of the kernel that disables
interrupts enables them again.

Deadlock is checked in the other runs; a machine that has halted or aborted
stutters.

## 4. Proofs

Each inductive invariant but those of files is stated in the component's module, and TLC has checked
it on an instance of a run before it was proved: `KernelInv` in `kernel_objects`
and `PagingInv` in `vm_paging` are properties of the runs; `DriverInv` was
checked on the instance of `disk_driver`, `TimeInv` on that of `interrupts`,
`ConsoleInv` and `LineInv` on that of `char_devices`, and `CountInv` and `FSInv`, which are
stated in `FileTableProofs` and `FileDiskProofs`, on that of `files`.

### The kernel's objects (`SynchProofs`)

From `ThreadAssumption` and `SynchAssumption` (root is a thread, NULL is none of
the objects, semaphores, locks and conditions are different things, initial
values are integers), for any sets of threads, processes, semaphores, locks and
conditions, finite or not:

* `TypeCorrect`: `Spec => []TypeOK`.
* `Inductive`: `Spec => []IInv`, and from it `LocksExclude`
  (`[]MutualExclusion`) and `LocksAreHandedOver` (`[]LockedWhileWanted`).
* `KernelInvariant`: `Spec => []KernelInv`, and from it `ThreadsAreLocated`
  (`[]EveryThreadLocated`), `ProcessesOutliveThreads`
  (`[]ProcessOutlivesItsThreads`), `CarcassesDoNotRun`
  (`[]CarcassIsNotRunning`) and `WakeupsAreKept` (`[]NoLostWakeup`).

With them every safety property of `Synch` that the runs check is proved.

Mutual exclusion is not inductive as it stands: a thread that returns from
Acquire enters the critical section without looking at the lock, because the
Release that woke it has already made it the owner. So the invariant has to say
that a thread in Acquire is either in the sleep queue of that lock or its owner
(`AcquireOK`), that a thread in a queue can neither be ready nor on the CPU
(`QueuesOK`, `ReadyOK`), that a thread on the CPU executes what its status says
(`CpuOK`), and that a busy lock has an owner that is inside or on its way
(`LockOK`). `SynchProofs` first shows what each way of moving a thread does
(`LeaveCpu`, `GoOn`, `BlockKeeps`, `WakeKeeps`), then takes the actions one by
one; steps that do not touch locks go through two frame lemmas.

`IInv` says that no thread is in two places. That none is in no place needs the
converse, `NobodyForgotten`: whoever has left the CPU in Yield or Join is ready,
and whoever has left it in P or Acquire is ready or still in the queue of the
object that it sleeps on. The objects must be disjoint for that, as `blockedOn`
alone says which queue. `NoLostWakeup` needs to know that a semaphore that has
not been created has no sleepers (`WokenOK`), as creation resets the value; and
the count of a process needs that the threads it counts are finitely many and
that a new Thread object counts nowhere (`StaffOK`).

### The disk driver (`DiskProofs`)

From the same assumptions and `DiskAssumption`:

* `DriverInvariant`: `DiskSpec => []DriverInv`;
* `DriverAndDiskAgree`: `DiskSpec => []HandShake`;
* `DriverImplementsService`: `DiskSpec => ImplementsService`, that is, the
  specification of `DiskService` under the mapping of the module.

Nearly every step of `DiskDriver` is a step of `Synch` (`DriverStepIsKernelStep`),
so the kernel's types and `IInv` are carried over by citing the step lemmas of
`SynchProofs`; only the interrupt and the switch out of the idle
loop have lemmas of their own. `HandShake` is not inductive, because the
interrupt of a request is in one of three places: still to come (`active`), in the
semaphore, or spent on a thread that V has woken and that has not yet returned
from P. `CountOK` says in which, and that the queue of the semaphore has at
most the owner of the lock; `StageOK` ties the stage in the driver to the status
of the thread, so that nobody else can call P on this semaphore or hold this
lock. For the refinement, each action is mapped to a step of the line
(call, begin, complete, leave) or to a stutter; Release hands the lock to the
head of its queue, which is the point where one thread leaves and the
next one begins.

### Virtual memory (`VirtMemProofs`)

From `VirtMemAssumption`, for any sets of threads, spaces, pages, frames, sectors,
files and values:

| theorem | if | then always |
|---|---|---|
| `VMInvariant`, `PagesMoveOnce` | `Leaving = {}` | `VMInv`, `IoIsALock` |
| `TablesAgree` | `Leaving = {}`, `Mapping = {}` | `FramesAgree` |
| `SwapInvariant`, `SwapIsAccounted` | `Leaving = {}` | `SwapInv`, `SwapAccounted` |
| `PagingInvariant`, `PagingDoesNotShow` | `Leaving = {}`, `Mapping = {}`, `SwapSuffices` | `PagingInv`, `PagingIsInvisible` |

The hypotheses are where the code is known to fail beyond them, or cannot be
asked. `Leaving = {}`: no process ends, because `EvictPage` may wait for the disk
with a page of a process whose destructor runs meanwhile (`physMem.cc:230`,
section 6); with more than one process that has pages `FramesAgree` and
`SwapAccounted` fail then, as TLC shows. `Mapping = {}` in `TablesAgree`: only
Mmap's own `ASSERT` and `Halt` stop the machine, which `FramesAgree` excludes
(`VMInv` does hold with mapped files). `Mapping = {}` in `PagingDoesNotShow`:
`EvictPage` looks for its victim in the mappings of the wrong process (run
`vm_evict_mapped`). `SwapSuffices`: there are finitely many spaces and as many
sectors as pages of all programs; in a full swap area the victim is dropped
(`physMem.cc:231`).

`VMInv` says for each place where PageFault and EvictPage leave the CPU what the
handler has: the io bit of its page, a frame that it alone has locked, a victim
that is not valid (`HandlerOK`); that no two have the same (`HandlersApart`); and
that frames and pages that no handler has are as `FramesAgree` says. The
critical moment is between the choice of a victim and the test of its io bit:
the victim is neither valid nor marked, and only because `EvictPage` does not
give up the CPU there can no PageFault find it so (the last conjunct of
`HandlerOK`, and `TurnAlone`).

`SwapInv` adds where the number of a page's sector is while a dirty page is
written: `EvictPage` sets the table entry to -1, keeps the sector in a local
variable during the write, and puts it back. `SwapAccounted` counts both
places; the invariant says that never both have it.

`DataInv` says who has the contents of a page: the frame, the frame of the
handler that evicts it, the buffer of the handler that has loaded it, the
sector, or the executable or nobody for a page that has never left memory dirty.
Two facts are easily missed: a page in memory that has not been written to may be
evicted without a write only because its sector still holds it, so its sector
must stay allocated and unchanged (`StoredOK`); and a dirty one has its sector
overwritten while it is in no table, so a fault on it must find the io bit. That
`GetFreePage` finds a sector (`RoomInSwap`) is the pigeonhole principle of the
library: if all sectors were marked, `SwapAccounted` would map them one to
one into the other pages.

### Simulated time (`InterruptProofs`)

From `DelaysAssumption` (delays are positive, ticks are natural numbers), for any
set of devices:

* `ListStaysSorted`: `InterruptSpec => []EarliestFirst`;
* `NoInterruptOverdue`: `InterruptSpec => []NothingOverdue`.

Both follow from `TimeInv` (`TimeInvariant`): the list is sorted, nothing is
overdue outside the loop of `OneTick` and nothing due once interrupts are enabled
(`NothingLate`), and programs run with interrupts enabled (`ModesOK`).
`NothingOverdue` alone is not inductive, as it says nothing of the kernel, which
may keep interrupts disabled while one becomes due, nor of the order in which
`OneTick` finds them. The lemmas before it are about the list itself:
`SortedInsert` has a place for every item (`Place`, by the least element of a set
of naturals), keeps the list sorted and adds nothing else; so do `SortedRemove`,
the look at the first interrupt (`PutBack`), a handler, and the passing of time.

### The character devices (`CharDeviceProofs`)

From `CharacterAssumption` (texts and input are sequences of characters, and EOF
is not a character: `console.cc:95` takes a character that equals EOF for none),
for any set of threads and any calls, with or without a serial line:

* `DisplayIsFaithful`: `CharSpec => []DisplayShowsTexts`;
* `InputIsFaithful`: `CharSpec => []InputIntact`.

`ConsoleInv` (`ConsoleInvariant`) says why the display is right: only the head of
the queue of the lock is in PutString (`OneWriter`); a unit of the semaphore `put`
and the busy flag of the device stand for one and the same character, that of a
writer in `put->P()`, so that the next writer finds neither (`CharacterPending`);
and the texts accepted are the display followed by what the writer has left
(`DisplayLacksLeft`). The input needs no such help: `InputIntact` is inductive
once it is known that what is typed differs from EOF.

From `SerialAssumption`, for any set of threads, any lengths passed to TtyReceive
and either driver:

* `MessagesAreReceived`: `CharSpec => []MessagesArrive`.

The assumption is about the other side, which is not in this repository: it sends
messages one after the other, each from its characters in their order to a
final '\0', and each fits into `receive_buffer`. The last is needed, since
`InterruptReceive` stores at `ind_rec` without comparing it with `BUFFER_SIZE`.
A message has at most 9 characters before its '\0', because a character carries
the number of its message and its place there as one number. The '\0' alone, which
is all that a TtyReceive for one character returns, does not tell its
message; for it nothing is claimed but that it ends with a '\0'.

`LineInv` (`LineInvariant`) is the argument. The buffer has the part of one message
that has come so far, and the next character of the line continues it
(`BufferOK`); it is complete exactly when reception is switched off, which
is the only time that a thread copies it. Characters that come then are lost, but
whole characters of the stream: what is still to come is newer than
what is in the buffer, and that is newer than every result (`ResultsOK`). A thread
that passes `receive_sema` with a count and finds reception still on ends in the
driver's `exit(-1)` and copies nothing. While polling, the
same order holds for what has been taken, the register and the line (`TakenOK`).

### The file system (`FileTableProofs`, `FileDiskProofs`, `FileSystemProofs`)

From `FileSystemAssumption`, for any set of threads, any paths of one or two
names, and any numbers of sectors, directory entries, slots of the open file
table, open files and file sizes:

| theorem | if | then always |
|---|---|---|
| `FSTyped`, `HandlesCountedHolds` | `CallsApart` | `FSTypeOK`, `HandlesCounted` |
| `NotCrashedHolds`, `NoSectorSharedHolds`, `FreeMapIsRightHolds`, `OpenFilesKeepTheirDataHolds` | `CallsApart`, `OneSpelling` | `NotCrashed`, `NoSectorShared`, `FreeMapIsRight`, `OpenFilesKeepTheirData` |

With them every property of the run `files` is proved. The hypotheses hold on the
instance of that run, and say where the code is known to fail beyond them
(section 6). `CallsApart`: only Creates overlap, with each other and with an Open.
The others change the free map and the directories without a lock, and two Opens
of one file make two entries of the table. `OneSpelling`: no two path strings have
the same components. The table is searched by the string, the directories by the
components, so with "f" and "/f" one file has two entries, and a Remove of one
name frees the sectors that programs use under the other: TLC finds all four
properties violated then.

`CountInv` is inductive by itself. That the count of an entry is the number of
handles holds only between calls: an Open that has found its file in the table
has counted itself and has no handle yet, and a Close has a handle that it no longer
counts. `Counted` says so; `CallsAgree` says that what a call has seen of the
table is still so when it comes to use it, one or several disk accesses later, and
`Overlap` who can have changed it: at most one of two calls that overlap knows of
the table, since the other is a Create. So for most steps it is enough that the
calls of all threads but one, and the table, stay as they are; `NextCounts`
goes through the others.

`FSInv` adds the disk. `DiskInv` is a relation between the disk, the table, the
handles and three sets of what the calls in progress have in hand, because the
disk is in order only between calls:

* a file that has been deleted and still has its name (`Victims`: Rmdir and
  Remove free the sectors and then write the directory);
* sectors that belong to a file and are not yet, or no longer, marked in the
  map on the disk (`Pending`: Create and Mkdir write the directory before the
  map, a growing file its header before the map);
* a path whose entry is `ToBeDeleted` and whose name is still there (`Dropped`:
  Remove of an open file).

Its parts: the fixed headers stay where they are (`FixedOK`), files and
directories have headers and no sector in common (`HeadsOK`), no file has two names
(`NamesApart`), the map marks what they use (`MarksOK`) and nothing else but what is
lost (`LeaksOK`), an entry of the table is that of the file of its name, whose
header may have grown since (`TableOK`), and a handle's sectors are no other
file's, neither on the disk nor in another handle (`HandlesOK`). `CallsOK` says what each
call knows at each disk access: that the directory it has read still is one, that
the copy of a table or of the map that it is about to write differs from the one on
the disk in its own change only. The second half of that is where `createLock` is
needed: between FetchMap and WriteMap of a Create no other call writes the map.
The lemmas are about a disk D before and E after, not about the variables: what a
new name, a name that goes, new marks, a deallocation, a new entry of the
table and a header that grows leave true. The steps of each call then cite them.

### Only model-checked

* Liveness (`ReadyThreadsRun`, `JoinReturns`, `RequestsComplete`, `PageFaultsEnd`,
  `CallsEnd`, `InterruptsCome`): fairness and ENABLED are out of reach of the
  proof system's backends.
* `Processor` and `Mips`: what an instruction computes for every word needs the
  bitwise operators, and `Mult` is a loop; neither can be used in a module with a
  theorem.
* Virtual memory with processes that end, and the contents of mapped files
  (`vm_mapped`): the properties hold there because only one process has pages.
* The bytes of a file (`FileData`): `HandlesSeeTheFile`, `DiskDescribesTheFile`
  and `SectorsAccounted` compare the state with a history of bytes and with the
  header sectors read back along their chain. That `FindN` finds the n lowest
  free sectors, which each of them rests on, is an induction over n.
* File calls that overlap beyond `CallsApart`: neither proved nor claimed.
* The serial line: `BusyLineLosesNothing` selects the characters of one message
  from a history, and `SelectSeq` is defined by recursion over the sequence.

## 5. Plan

1. *(done)* `Threads`, `Synch`, `DiskDriver`, `VirtMem`, with type correctness
   and the lock theorems.
2. *(done)* `FileSystem`, `FileData`, `Console`, `Serial`, `Interrupts`, `Mips`,
   `Processor`, with the theorems about `Interrupts`.
3. *(done)* Proofs of every safety property of `Synch` and `DiskDriver`, with the
   refinement of `DiskService`, of `VirtMem` without ending processes, of
   `Console`, of reception in `Serial`, and of every property of `FileSystem`.
   Next: `SectorsAccounted` of `FileData`.
4. Object ids with reuse of addresses, so that destroyed objects can be told from
   new ones; a run in which swap and files use `DiskDriver`'s disk.
5. Producer and consumer of `tp9`.

## 6. Known disagreements

Where the code does not do what its comments say, or what one would expect. The
modules have these behaviours; no passing run claims the contrary, and where a
run stays away from one the constant that does so is named.

* `Semaphore::P` (`synch.cc:85`) is `if (value <= 0) sleep; value--`. A thread
  that calls P after a V and before the thread it woke has run takes the unit, and
  the sleeper decrements again: two pass on one unit and the value is -1
  (`synch.h:57`: "waiting in P() for the value to be > 0"). What holds is
  `NoLostWakeup`.
* `Condition::Wait` (`synch.cc:262`) sleeps without entering the queue that
  Signal and Broadcast serve (`synch.cc:250`: "put it in the wait queue").
* `Thread::Finish` (`thread.cc:277`) overwrites the pointer to the previous
  carcass when no thread has run the tail of `SwitchTo` in between: it is never
  deleted.
* `EvictPage` (`physMem.cc:213`): run `vm_evict_mapped`; `Mapping` keeps the
  others away from it. With a full swap area (`physMem.cc:231`) the page is
  dropped, and the -1 in its entry makes the next fault wait for ever.
  With the victim
  of one process and the mapped file of another, the position given to `WriteAt`
  may also be -1 or the end of the file (`openfile.cc:197`): the file's first page
  is overwritten one byte off, or the file grows (`WriteAt` of `VirtMem`).
  `~AddrSpace` does not wait for evictions of its pages (`physMem.cc:230`): the
  sector is lost and the evicting thread goes on with a deleted table; `Leaving`.
  `findMappedFile` (`addrspace.cc:465`) ends a mapping one page too late.
* The open file table compares path strings (`oftable.cc:249`), the directories
  components: `decompname` drops a leading '/' (`filesys.cc:86`). A file opened as
  "f" and as "/f" has two entries, each with a count of its own; when "/f" is
  removed while "f" is open, its sectors are freed at once and new files get them
  (`oftable.cc:260`: "The data on disk will be deleted only after every thread had
  closed this file"). The paths of the run are spelled in one way.
* Two Opens of one file at a time make two entries of the open file table
  (`oftable.cc:95`); once the table has been full nothing can be opened any more
  (`nbentry` stays -1, `oftable.cc:180`); a file created under the name of a removed
  file that is still open is taken for that one by Remove, and its sectors are
  lost (`oftable.cc:287`; `lost`); so are those that a file gained while it was
  open and removed (`oftable.cc:44`; `lost`). Calls other than Create change the
  free map and directories without a lock (`Together`).
* `reAllocate` (`filehdr.cc:105`) sets the length before it finds that there is
  no space (the disk of `file_data` is large enough), and computes the header
  sectors from the old size (`filehdr.cc:108`; `CrossHeaders`). A write within
  the allocated sectors does not record the new length on the disk
  (`openfile.cc:218`: `DiskDescribesTheFile` says "up to the length that was last
  recorded"). A second handle that writes has a stale header (`Writers`).
* `InterruptSend` (`drvACIA.cc:169`) goes on with what follows the '\0' in the
  buffer, and gives further units to `send_sema`; `TtySend` and `TtyReceive` reach
  the exit that "should not happen" (`drvACIA.cc:96`, `146`) when the mode has
  changed. No property is claimed of messages sent with interrupts.
* `MMU::Translate` (`mmu.cc:206`) computes page and offset with `/` and `%` on
  `int`, `PageSize` included (`config.h:37`). With page 0 mapped an access at -1 to
  -(`PageSize` - 1) is allowed, and reads or writes bytes in front of the frame of
  page 0: those of another page, or in front of `mainMemory` when it is frame 0
  (`mmu.cc:265`; `mmu.cc:249`: "Make sure physical address is correct" looks at the
  number of the frame only). TLC finds `MemoryIsRight` violated, by `AccessesStayInPage`, with
  `Rights <- MCRightsPage0` and `Scenario <- MCScenarioPage0` in `MCProcessor.cfg`,
  for instance by a store at address 255, that is -1. Page 0 is unmapped in the
  run `processor`.
* `OR` of the simulator combines `rs` with itself (`mipssim.cc:487`); `SRL` and
  `SRLV` are arithmetic (`561`); `JALR` and the linking branches write the link
  register before they read theirs (`277`, `338`); the least integer divided by
  -1 ends Nachos (`312`); `LWL` and `LWR` at an unaligned address meet the
  `ASSERT` of `Translate`. No property is claimed of these.

## 7. Not modelled

Host system calls (`sysdep.cc`), configuration, statistics, error messages, ELF
parsing, directory listings and the user library: code without protocol, or whose
effect on the kernel is that of an arbitrary program. Copies of strings and
buffers between user memory and the kernel. The numbers of the opcodes, and
floating point values. Memory written behind the end of an array. The exercises
`tp1` .. `tp10`, which are programs for the host.
