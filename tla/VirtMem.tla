------------------------------ MODULE VirtMem ------------------------------
(***************************************************************************)
(* Demand paging: the page fault handler (vm/pagefaultmanager.cc), the     *)
(* physical page table with its clock algorithm (vm/physMem.cc), the swap  *)
(* area (vm/swapManager.cc), address translation (machine/mmu.cc) and the  *)
(* address spaces (kernel/addrspace.cc).                                   *)
(*                                                                         *)
(* The CPU changes hands only where the code yields or waits for a disk;   *)
(* there g_current_thread becomes NULL and any thread may go on.  In       *)
(* between it is the thread that must go on.  A page is one value: a write *)
(* to any of its bytes gives it a new one.                                 *)
(***************************************************************************)
EXTENDS Integers, Sequences, FiniteSets

CONSTANTS
  Thread, Space,   \* threads; the address spaces of their processes
  SpaceOf,         \* the space of each thread
  Leaving, Mapping,  \* spaces whose threads may finish, may map files
  ExecPages,       \* pages 0..ExecPages-1 of a space are in the executable
  ProgramPages,    \* number of pages of program and stack, by space
  MaxVirtPages,    \* size of a translation table
  NumPhysPages,
  NumSectors,      \* NUM_SECTORS of the swap disk
  File, FileLen,   \* files that may be mapped, their length in pages
  Value,           \* contents of a page
  Zero, Image,     \* those of a new anonymous page, and in executables
  NULL

Page   == 0..(MaxVirtPages - 1)
PageId == Space \X Page
Frame  == 0..(NumPhysPages - 1)
Sector == 0..(NumSectors - 1)

ASSUME VirtMemAssumption ==
  /\ SpaceOf \in [Thread -> Space]
  /\ Leaving \subseteq Space /\ Mapping \subseteq Space
  /\ ExecPages \in Nat /\ MaxVirtPages \in Nat /\ NumSectors \in Nat
  /\ ProgramPages \in [Space -> 0..MaxVirtPages]
  /\ NumPhysPages \in Nat \ {0}
  /\ FileLen \in [File -> Nat \ {0}]
  /\ Zero \in Value /\ Image \in Value
  /\ NULL \notin Thread \cup File \cup Value \cup PageId \cup ({"swap"} \X (Sector \cup {-1}))

VARIABLES
  \* translation tables: the pages with each bit set, and two fields
  valid, io, used, modified, swapped, physicalPage, addrDisk,
  \* PhysicalMemManager: tpr[f] is owner and virtualPage of frame f
  free, locked, tpr, free_page_list, i_clock,
  mainMemory,
  \* the swap area and the mapped files
  page_flags, swap_disk, file,
  \* AddrSpace, and how far its destructor is
  space, freePageId, mapped_files, reaper, nextPage, flush,
  \* threads: where each is in the handler, and its local variables
  g_current_thread, pc, page, buffer, frame, turns, victim, disk,
  \* the machine is "on", "aborted" by an ASSERT, or has gone "wild" by
  \* using a deleted translation table
  machine,
  \* history: what was last written to each page, NULL if there is no page
  last

bitVars   == <<valid, io, used, modified, swapped>>
tableVars == <<bitVars, physicalPage, addrDisk>>
frameVars == <<free, locked, tpr, free_page_list, i_clock>>
diskVars  == <<page_flags, swap_disk, file>>
spaceVars == <<space, freePageId, mapped_files, reaper, nextPage, flush>>
localVars == <<page, buffer, frame, turns, victim, disk>>
vars == <<tableVars, frameVars, mainMemory, diskVars, spaceVars, localVars,
          g_current_thread, pc, machine, last>>

(***************************************************************************)
(* The values of pc[t]:                                                    *)
(*   user       in the program       done       has finished               *)
(*   waitIo     PageFault waits for the io bit of page[t]                  *)
(*   loading    reads disk[t]        alloc      has the contents in buffer *)
(*   clock      in the loop of EvictPage, at frame[t]                      *)
(*   victim     has chosen victim[t] in frame[t]                           *)
(*   writing    writes it to disk[t] written    has written it             *)
(*   install    has frame[t] for page[t]                                   *)
(***************************************************************************)
PC == {"user", "done", "waitIo", "loading", "alloc", "clock",
       "victim", "writing", "written", "install"}

VMInit ==
  /\ valid = {} /\ io = {} /\ used = {} /\ modified = {} /\ swapped = {}
  /\ physicalPage = [p \in PageId |-> -1]
  /\ addrDisk = [p \in PageId |-> IF p[2] < ExecPages THEN p[2] ELSE -1]
  /\ free = Frame /\ locked = {}
  /\ tpr = [f \in Frame |-> NULL]
  /\ free_page_list = [i \in 1..NumPhysPages |-> i - 1]
  /\ i_clock = -1
  /\ mainMemory = [f \in Frame |-> Zero]
  /\ page_flags = {}
  /\ swap_disk = [s \in Sector |-> Zero]
  /\ file = [f \in File |-> [i \in 0..(FileLen[f] - 1) |-> Image]]
  /\ space = [a \in Space |-> "live"]
  /\ freePageId = ProgramPages
  /\ mapped_files = [a \in Space |-> <<>>]
  /\ reaper = [a \in Space |-> NULL]
  /\ nextPage = [a \in Space |-> 0]
  /\ flush = [a \in Space |-> "no"]
  /\ g_current_thread = NULL
  /\ pc = [t \in Thread |-> "user"]
  /\ page = [t \in Thread |-> NULL]
  /\ buffer = [t \in Thread |-> Zero]
  /\ frame = [t \in Thread |-> NULL]
  /\ turns = [t \in Thread |-> 0]
  /\ victim = [t \in Thread |-> NULL]
  /\ disk = [t \in Thread |-> NULL]
  /\ machine = "on"
  /\ last = [p \in PageId |-> IF p[2] >= ProgramPages[p[1]] THEN NULL
                              ELSE IF p[2] < ExecPages THEN Image ELSE Zero]

\* t has the CPU, or may take it; it is not busy deleting a space.
Turn(t) ==
  /\ machine = "on"
  /\ g_current_thread \in {NULL, t}
  /\ \A a \in Space : reaper[a] # t

Goto(t, label) == pc' = [pc EXCEPT ![t] = label]

\* t leaves the CPU, in Yield or for a disk; t goes on.
Switch == g_current_thread' = NULL
GoOn(t) == g_current_thread' = t

\* A use of a translation table that has been deleted.
Wild ==
  /\ machine' = "wild"
  /\ UNCHANGED <<tableVars, frameVars, mainMemory, diskVars, spaceVars, localVars,
                 g_current_thread, pc, last>>
Dangling(p) == space[p[1]] = "deleted"

-----------------------------------------------------------------------------
(* Address spaces: mapped files *)

\* The first mapping of space a that contains page v, as the code computes
\* it: the end of a mapping is one page too far.
findMappedFile(a, v) ==
  LET found == {i \in 1..Len(mapped_files[a]) :
                  /\ mapped_files[a][i].first <= v
                  /\ v < mapped_files[a][i].first + mapped_files[a][i].size + 1}
  IN  IF found = {} THEN NULL
      ELSE mapped_files[a][CHOOSE i \in found : \A j \in found : i <= j].file

\* The file and the offset that page p was mapped to, or NULL.
Home(p) ==
  LET found == {i \in 1..Len(mapped_files[p[1]]) :
                  LET m == mapped_files[p[1]][i] IN p[2] \in m.first..(m.first + m.size - 1)}
      m == mapped_files[p[1]][CHOOSE i \in found : TRUE]
  IN  IF found = {} THEN NULL ELSE <<m.file, p[2] - m.first>>

\* SC_MMAP of the whole file f; bound: a file is mapped once.  Mmap takes page 0
\* for a failure of Alloc and halts; when Alloc does fail it returns -1, which
\* the ASSERT in setAddrDisk meets.
Mmap(t, f) ==
  LET a == SpaceOf[t]
      first == freePageId[a]
      new == {a} \X (first..(first + FileLen[f] - 1))
  IN
  /\ Turn(t) /\ pc[t] = "user" /\ a \in Mapping
  /\ \A b \in Space : \A i \in 1..Len(mapped_files[b]) : mapped_files[b][i].file # f
  /\ IF first = 0 \/ first + FileLen[f] >= MaxVirtPages
     THEN /\ machine' = "aborted"
          /\ UNCHANGED <<freePageId, mapped_files, addrDisk, last>>
     ELSE /\ freePageId' = [freePageId EXCEPT ![a] = @ + FileLen[f]]
          /\ mapped_files' = [mapped_files EXCEPT ![a] =
                                Append(@, [first |-> first, size |-> FileLen[f], file |-> f])]
          /\ addrDisk' = [p \in PageId |-> IF p \in new THEN p[2] - first ELSE addrDisk[p]]
          /\ last' = [p \in PageId |-> IF p \in new THEN file[f][p[2] - first] ELSE last[p]]
          /\ UNCHANGED machine
  /\ UNCHANGED <<bitVars, physicalPage, frameVars, mainMemory, diskVars, space, reaper,
                 nextPage, flush, localVars, g_current_thread, pc>>

-----------------------------------------------------------------------------
(* Address translation and PageFault *)

\* t accesses p, for the first time or after it waited for p's io bit.
At(t, p) ==
  /\ p[2] < freePageId[p[1]]
  /\ pc[t] = "user" \/ (pc[t] = "waitIo" /\ page[t] = p /\ p \notin io)

\* ReadMem, or WriteMem of a new value, of page p in frame f, which holds d;
\* dirty is the set of modified pages before.
Access(p, f, d, dirty) ==
  /\ used' = used \cup {p}
  /\ \/ /\ modified' = dirty
        /\ mainMemory' = [mainMemory EXCEPT ![f] = d]
        /\ UNCHANGED last
     \/ /\ modified' = dirty \cup {p}
        /\ \E new \in Value : /\ mainMemory' = [mainMemory EXCEPT ![f] = new]
                             /\ last' = [last EXCEPT ![p] = new]

\* An access to a page that is in main memory, or whose fault "has been fixed".
Touch(t, p) ==
  /\ Turn(t) /\ At(t, p)
  /\ p \in valid
  /\ Access(p, physicalPage[p], mainMemory[physicalPage[p]], modified)
  /\ Goto(t, "user") /\ Switch
  /\ page' = [page EXCEPT ![t] = NULL]
  /\ UNCHANGED <<valid, io, swapped, physicalPage, addrDisk, frameVars, diskVars,
                 spaceVars, buffer, frame, turns, victim, disk, machine>>

\* Mutant: PageFault does not look at the io bit.
MayLoadNoIo(p) == p \notin valid

\* Nobody has loaded p or moves it.
MayLoad(p) == p \notin valid /\ p \notin io

\* PageFault finds the io bit set and yields.
AwaitIo(t, p) ==
  /\ Turn(t) /\ At(t, p)
  /\ p \notin valid /\ p \in io
  /\ page' = [page EXCEPT ![t] = p]
  /\ Goto(t, "waitIo") /\ Switch
  /\ UNCHANGED <<tableVars, frameVars, mainMemory, diskVars, spaceVars, buffer, frame,
                 turns, victim, disk, machine, last>>

\* Mutant: PageFault asks for a disk address before it asks for the swap bit.
SourceForgetsSwap(p) ==
  LET f == findMappedFile(p[1], p[2]) IN
  CASE f # NULL -> <<"file", f, addrDisk[p]>>
    [] f = NULL /\ p[2] < ExecPages -> <<"exec", p[2]>>
    [] f = NULL /\ p[2] >= ExecPages /\ p \in swapped -> <<"swap", addrDisk[p]>>
    [] OTHER -> <<"zero">>

\* Where PageFault finds page p.
Source(p) ==
  LET f == findMappedFile(p[1], p[2]) IN
  CASE f # NULL          -> <<"file", f, addrDisk[p]>>
    [] f = NULL /\ p \in swapped -> <<"swap", addrDisk[p]>>
    [] f = NULL /\ p \notin swapped /\ addrDisk[p] # -1 -> <<"exec", addrDisk[p]>>
    [] OTHER             -> <<"zero">>

\* PageFault up to the disk access; a new anonymous page needs none.
BeginFault(t, p) ==
  LET src == Source(p) IN
  /\ Turn(t) /\ At(t, p)
  /\ MayLoad(p)
  /\ io' = io \cup {p}
  /\ page' = [page EXCEPT ![t] = p]
  /\ \/ /\ src = <<"zero">>
        /\ Goto(t, "alloc") /\ GoOn(t)
        /\ UNCHANGED disk
     \/ /\ src # <<"zero">>
        /\ disk' = [disk EXCEPT ![t] = src]
        /\ Goto(t, "loading") /\ Switch
  /\ UNCHANGED <<valid, used, modified, swapped, physicalPage, addrDisk, frameVars,
                 mainMemory, diskVars, spaceVars, buffer, frame, turns, victim, machine, last>>

\* What a read of src may return; ReadAt beyond the end of a file reads nothing.
Stored(src) ==
  CASE src[1] = "exec" -> {Image}
    [] src[1] = "swap" -> {swap_disk[src[2]]}
    [] src[1] = "zero" -> {Zero}
    [] src[1] = "file" -> IF src[3] \in DOMAIN file[src[2]] THEN {file[src[2]][src[3]]} ELSE Value

\* The disk has read the page into the buffer.  PageFault yields for as long as
\* a swapped page has no sector, and reads addrDisk again.
Loaded(t) ==
  LET src == IF disk[t] = <<"swap", -1>> THEN Source(page[t]) ELSE disk[t] IN
  /\ Turn(t) /\ pc[t] = "loading"
  /\ src # <<"swap", -1>>
  /\ \E d \in Stored(src) : buffer' = [buffer EXCEPT ![t] = d]
  /\ disk' = [disk EXCEPT ![t] = NULL]
  /\ Goto(t, "alloc") /\ Switch
  /\ UNCHANGED <<tableVars, frameVars, mainMemory, diskVars, spaceVars, page, frame,
                 turns, victim, machine, last>>

\* The hand of the clock moves on.
NextFrame(k) == (k + 1) % NumPhysPages

\* Frame f is for page p now.
Link(f, p) == tpr' = [tpr EXCEPT ![f] = p]

\* AddPhysicalToVirtualMapping: a free frame, or else EvictPage.
Alloc(t) ==
  /\ Turn(t) /\ pc[t] = "alloc" /\ GoOn(t)
  /\ \/ LET f == Head(free_page_list) IN
        /\ free_page_list # <<>>
        /\ free_page_list' = Tail(free_page_list)
        /\ free' = free \ {f}
        /\ Link(f, page[t])
        /\ locked' = locked \cup {f}
        /\ frame' = [frame EXCEPT ![t] = f]
        /\ Goto(t, "install")
     \/ /\ free_page_list = <<>>
        /\ frame' = [frame EXCEPT ![t] = NextFrame(i_clock)]
        /\ Goto(t, "clock")
        /\ UNCHANGED <<free_page_list, free, tpr, locked>>
  /\ UNCHANGED <<tableVars, i_clock, mainMemory, diskVars, spaceVars, page, buffer,
                 turns, victim, disk, machine, last>>

\* Mutant: the io bit stays set.
ClearIoNot(p) == UNCHANGED io

\* clearBitIo.
ClearIo(p) == io' = io \ {p}

\* The rest of PageFault, and the access that caused it.
Install(t) ==
  LET p == page[t]
      f == frame[t]
  IN
  /\ Turn(t) /\ pc[t] = "install"
  /\ physicalPage' = [physicalPage EXCEPT ![p] = f]
  /\ ClearIo(p)
  /\ valid' = valid \cup {p}
  /\ Access(p, f, buffer[t], modified \ {p})
  /\ locked' = locked \ {f}
  /\ machine' = IF f \in locked /\ f \notin free THEN machine ELSE "aborted"
  /\ page' = [page EXCEPT ![t] = NULL]
  /\ buffer' = [buffer EXCEPT ![t] = Zero]
  /\ frame' = [frame EXCEPT ![t] = NULL]
  /\ Goto(t, "user") /\ Switch
  /\ UNCHANGED <<swapped, addrDisk, free, tpr, free_page_list, i_clock, diskVars,
                 spaceVars, turns, victim, disk>>

-----------------------------------------------------------------------------
(* EvictPage *)

\* Mutant: the clock does not look at locks.
BusyUnlocked(k) == tpr[k] \in used

\* The condition of the clock loop.
Busy(k) == tpr[k] \in used \/ k \in locked

\* One turn of the clock loop.  turns is the variable i, of which only the
\* comparison with NumPhysPages matters.
Clock(t) ==
  LET k == frame[t]
      q == tpr[k]
      i == IF turns[t] > NumPhysPages THEN turns[t] ELSE turns[t] + 1
  IN
  /\ Turn(t) /\ pc[t] = "clock"
  /\ IF Dangling(q) THEN Wild
     ELSE IF Busy(k)
     THEN /\ used' = used \ {q}
          /\ turns' = [turns EXCEPT ![t] = i]
          /\ frame' = [frame EXCEPT ![t] = NextFrame(k)]
          /\ IF i > NumPhysPages THEN i_clock' = k /\ Switch
                                 ELSE GoOn(t) /\ UNCHANGED i_clock
          /\ UNCHANGED <<valid, locked, victim, pc, machine>>
     ELSE /\ i_clock' = k
          /\ valid' = valid \ {q}
          /\ locked' = locked \cup {k}
          /\ victim' = [victim EXCEPT ![t] = q]
          /\ turns' = [turns EXCEPT ![t] = 0]
          /\ Goto(t, "victim") /\ GoOn(t)
          /\ UNCHANGED <<used, frame, machine>>
  /\ UNCHANGED <<io, modified, swapped, physicalPage, addrDisk, free, tpr,
                 free_page_list, mainMemory, diskVars, spaceVars, page, buffer, disk, last>>

\* SwapManager::GetFreePage: the first free sector, or -1.
GetFreePage ==
  IF page_flags = Sector THEN -1
  ELSE CHOOSE s \in Sector \ page_flags : \A r \in Sector \ page_flags : s <= r

\* GetFreePage marks the sector that it returns.
Mark(s) == page_flags' = page_flags \cup ({s} \ {-1})

\* The victim q of t is to be written to dst; a full swap area needs no write.
WriteTo(t, dst) ==
  /\ disk' = [disk EXCEPT ![t] = dst]
  /\ IF dst = <<"swap", -1>> THEN Goto(t, "written") /\ GoOn(t)
                             ELSE Goto(t, "writing") /\ Switch

\* The victim need not be written.
NoWrite(t) == Goto(t, "written") /\ GoOn(t) /\ UNCHANGED disk

\* EvictPage from the victim's io bit to the disk access.  The mapped file is
\* looked up in the space of the current thread, not in the victim's.
EvictStart(t) ==
  LET q == victim[t]
      f == findMappedFile(SpaceOf[t], q[2])
  IN
  /\ Turn(t) /\ pc[t] = "victim"
  /\ IF Dangling(q) THEN Wild
     ELSE IF q \in io THEN Switch /\ UNCHANGED <<io, addrDisk, page_flags, disk, pc, machine>>
     ELSE /\ io' = io \cup {q}
          /\ \/ /\ f # NULL
                /\ IF q \in modified THEN WriteTo(t, <<"file", f, addrDisk[q]>>) ELSE NoWrite(t)
                /\ UNCHANGED <<addrDisk, page_flags>>
             \/ /\ f = NULL /\ q \in swapped
                /\ IF q \in modified
                   THEN /\ WriteTo(t, <<"swap", addrDisk[q]>>)
                        /\ addrDisk' = [addrDisk EXCEPT ![q] = -1]
                   ELSE NoWrite(t) /\ UNCHANGED addrDisk
                /\ UNCHANGED page_flags
             \/ /\ f = NULL /\ q \notin swapped
                /\ addrDisk' = [addrDisk EXCEPT ![q] = -1]
                /\ Mark(GetFreePage)
                /\ WriteTo(t, <<"swap", GetFreePage>>)
          /\ UNCHANGED machine
  /\ UNCHANGED <<valid, used, modified, swapped, physicalPage, frameVars, mainMemory,
                 swap_disk, file, spaceVars, page, buffer, frame, turns, victim, last>>

\* OpenFile::WriteAt of the page d, by what the file contains afterwards: at its
\* end it grows, if the disk has room; the page is one byte off when the position
\* is -1, that of a page without an image; further on nothing is written.  Pages
\* of the file itself are at multiples of the page size.  Other positions (sector
\* numbers and offsets in the executable, by physMem.cc:213) are counted in pages
\* here too, a simplification that no property depends on.
WriteAt(contents, position, d) ==
  CASE position \in DOMAIN contents -> {[contents EXCEPT ![position] = d]}
    [] position = -1 -> {[contents EXCEPT ![0] = v] : v \in Value}
    [] position = Cardinality(DOMAIN contents) ->
         {contents, [i \in 0..position |-> IF i = position THEN d ELSE contents[i]]}
    [] OTHER -> {contents}

\* d is written to dst.
Store(dst, d) ==
  IF dst[1] = "swap"
  THEN swap_disk' = [swap_disk EXCEPT ![dst[2]] = d] /\ UNCHANGED file
  ELSE /\ \E contents \in WriteAt(file[dst[2]], dst[3], d) :
            file' = [file EXCEPT ![dst[2]] = contents]
       /\ UNCHANGED swap_disk

\* The disk has written the victim.
Written(t) ==
  /\ Turn(t) /\ pc[t] = "writing"
  /\ Store(disk[t], mainMemory[frame[t]])
  /\ Goto(t, "written") /\ Switch
  /\ UNCHANGED <<tableVars, frameVars, mainMemory, page_flags, spaceVars, localVars, machine, last>>

\* The rest of EvictPage and of AddPhysicalToVirtualMapping.
EvictEnd(t) ==
  LET q == victim[t] IN
  /\ Turn(t) /\ pc[t] = "written"
  /\ IF Dangling(q) THEN Wild
     ELSE /\ IF disk[t] # NULL /\ disk[t][1] = "swap"
             THEN /\ addrDisk' = [addrDisk EXCEPT ![q] = disk[t][2]]
                  /\ swapped' = swapped \cup {q}
             ELSE UNCHANGED <<addrDisk, swapped>>
          /\ ClearIo(q)
          /\ Link(frame[t], page[t])
          /\ locked' = locked \cup {frame[t]}
          /\ victim' = [victim EXCEPT ![t] = NULL]
          /\ disk' = [disk EXCEPT ![t] = NULL]
          /\ Goto(t, "install") /\ GoOn(t)
          /\ UNCHANGED machine
  /\ UNCHANGED <<valid, used, modified, physicalPage, free, free_page_list, i_clock,
                 mainMemory, diskVars, spaceVars, page, buffer, frame, turns, last>>

-----------------------------------------------------------------------------
(* The end of a process *)

Finish(t) ==
  /\ Turn(t) /\ pc[t] = "user"
  /\ SpaceOf[t] \in Leaving
  /\ Goto(t, "done") /\ Switch
  /\ UNCHANGED <<tableVars, frameVars, mainMemory, diskVars, spaceVars, localVars, machine, last>>

\* Thread t, which the scheduler resumes after the last thread of a has
\* finished, begins to run ~AddrSpace.
DeleteSpace(t, a) ==
  /\ Turn(t) /\ pc[t] # "done" /\ SpaceOf[t] # a
  /\ g_current_thread = NULL
  /\ space[a] = "live"
  /\ \E u \in Thread : SpaceOf[u] = a
  /\ \A u \in Thread : SpaceOf[u] = a => pc[u] = "done"
  /\ space' = [space EXCEPT ![a] = "dying"]
  /\ reaper' = [reaper EXCEPT ![a] = t]
  /\ last' = [p \in PageId |-> IF p[1] = a /\ Home(p) = NULL THEN NULL ELSE last[p]]
  /\ GoOn(t)
  /\ UNCHANGED <<tableVars, frameVars, mainMemory, diskVars, freePageId, mapped_files,
                 nextPage, flush, localVars, pc, machine>>

\* t runs ~AddrSpace of a.
Reaps(t, a) ==
  /\ machine = "on"
  /\ g_current_thread \in {NULL, t}
  /\ reaper[a] = t

\* Mutant: ~AddrSpace does not write mapped files back.
MustFlushNot(p) == FALSE

\* p is a modified page of a mapped file.
MustFlush(p) == p \in valid /\ p \in modified /\ findMappedFile(p[1], p[2]) # NULL

\* Such a page is written back first.
FlushStart(t, a) ==
  /\ Reaps(t, a) /\ flush[a] = "no"
  /\ nextPage[a] < freePageId[a]
  /\ MustFlush(<<a, nextPage[a]>>)
  /\ flush' = [flush EXCEPT ![a] = "writing"]
  /\ Switch
  /\ UNCHANGED <<tableVars, frameVars, mainMemory, diskVars, space, freePageId,
                 mapped_files, reaper, nextPage, localVars, pc, machine, last>>

FlushDone(t, a) ==
  LET p == <<a, nextPage[a]>> IN
  /\ Reaps(t, a) /\ flush[a] = "writing"
  /\ Store(<<"file", findMappedFile(a, p[2]), addrDisk[p]>>, mainMemory[physicalPage[p]])
  /\ flush' = [flush EXCEPT ![a] = "written"]
  /\ Switch
  /\ UNCHANGED <<tableVars, frameVars, mainMemory, page_flags, space, freePageId,
                 mapped_files, reaper, nextPage, localVars, pc, machine, last>>

\* Mutant: the frame is not put into the free list.
RemoveMappingLeaks(f) ==
  /\ machine' = IF f \in free THEN "aborted" ELSE machine
  /\ free' = free \cup {f}
  /\ locked' = locked \ {f}
  /\ valid' = valid \ {tpr[f]}
  /\ UNCHANGED free_page_list

RemovePhysicalToVirtualMapping(f) ==
  /\ machine' = IF f \in free THEN "aborted" ELSE machine
  /\ free' = free \cup {f}
  /\ locked' = locked \ {f}
  /\ valid' = valid \ {tpr[f]}
  /\ free_page_list' = <<f>> \o free_page_list

\* Mutant: the sector stays marked.
ReleasePageSwapNot(p) == UNCHANGED page_flags

ReleasePageSwap(p) ==
  page_flags' = page_flags \ (IF p \in swapped /\ addrDisk[p] >= 0 THEN {addrDisk[p]} ELSE {})

\* The turn of the loop for the next page: its frame and its sector are freed.
ReleasePage(t, a) ==
  LET p == <<a, nextPage[a]>>
      resident == p \in valid \/ flush[a] = "written"
  IN
  /\ Reaps(t, a) /\ flush[a] # "writing"
  /\ nextPage[a] < freePageId[a]
  /\ flush[a] = "no" => ~MustFlush(p)
  /\ IF resident THEN RemovePhysicalToVirtualMapping(physicalPage[p])
                 ELSE UNCHANGED <<machine, free, locked, valid, free_page_list>>
  /\ ReleasePageSwap(p)
  /\ nextPage' = [nextPage EXCEPT ![a] = @ + 1]
  /\ flush' = [flush EXCEPT ![a] = "no"]
  /\ GoOn(t)
  /\ UNCHANGED <<io, used, modified, swapped, physicalPage, addrDisk, tpr, i_clock,
                 mainMemory, swap_disk, file, space, freePageId, mapped_files, reaper,
                 localVars, pc, last>>

\* delete translationTable; t goes on with what it was doing.
DeleteTable(t, a) ==
  /\ Reaps(t, a)
  /\ nextPage[a] = freePageId[a]
  /\ space' = [space EXCEPT ![a] = "deleted"]
  /\ reaper' = [reaper EXCEPT ![a] = NULL]
  /\ Switch
  /\ UNCHANGED <<tableVars, frameVars, mainMemory, diskVars, freePageId, mapped_files,
                 nextPage, flush, localVars, pc, machine, last>>

-----------------------------------------------------------------------------

\* What the handler does once it has begun.
Handler(t) ==
  \/ Loaded(t) \/ Alloc(t) \/ Install(t)
  \/ Clock(t) \/ EvictStart(t) \/ Written(t) \/ EvictEnd(t)
  \/ \E p \in {SpaceOf[t]} \X Page : pc[t] = "waitIo" /\ (Touch(t, p) \/ BeginFault(t, p))

\* What a program does.
Program(t) ==
  \/ \E p \in {SpaceOf[t]} \X Page :
       pc[t] = "user" /\ (Touch(t, p) \/ AwaitIo(t, p) \/ BeginFault(t, p))
  \/ \E f \in File : Mmap(t, f)
  \/ Finish(t)

Destructor(t) ==
  \E a \in Space : \/ DeleteSpace(t, a)
                   \/ FlushStart(t, a)
                   \/ FlushDone(t, a)
                   \/ ReleasePage(t, a)
                   \/ DeleteTable(t, a)

\* The machine has stopped, or no program needs it (any more).
Quiet ==
  /\ machine # "on" \/ \A t \in Thread : pc[t] \in {"user", "done"}
  /\ UNCHANGED vars

VMNext == (\E t \in Thread : Handler(t) \/ Program(t) \/ Destructor(t)) \/ Quiet

VMSpec == VMInit /\ [][VMNext]_vars

\* Disks answer, and a thread in the kernel goes on in its turn.
VMFairness == \A t \in Thread : WF_vars(Handler(t)) /\ WF_vars(Destructor(t))

FairVMSpec == VMSpec /\ VMFairness

-----------------------------------------------------------------------------
(* Properties *)

\* The threads that hold frame f locked: from EvictPage's choice, or the free
\* list, to UnlockPage.
Holders(f) == {t \in Thread : frame[t] = f /\ pc[t] \in {"victim", "writing", "written", "install"}}

\* Page tables and physical page table agree in spite of every switch inside
\* PageFault and EvictPage: a frame is free, or held by exactly one handler, or
\* holds one page that is valid and translated to it.  Hence no two pages ever
\* share a frame, the ASSERTs of physMem.cc hold, and no deleted table is used.
FramesAgree ==
  /\ machine = "on"
  /\ \A f \in Frame :
       /\ f \in free <=> \E i \in 1..Len(free_page_list) : free_page_list[i] = f
       /\ f \in locked <=> Holders(f) # {}
       /\ Cardinality(Holders(f)) <= 1
       /\ ~(f \in free /\ f \in locked)
       /\ f \notin free \cup locked => tpr[f] \in valid /\ physicalPage[tpr[f]] = f
  /\ \A p \in valid :
       LET f == physicalPage[p] IN f \in Frame /\ tpr[f] = p /\ f \notin free \cup locked
  /\ \A i, j \in 1..Len(free_page_list) : free_page_list[i] = free_page_list[j] => i = j

\* PageFault of thread t loads page p, or its EvictPage writes p.
Moves(t, p) ==
  \/ page[t] = p /\ pc[t] \notin {"user", "done", "waitIo"}
  \/ victim[t] = p /\ pc[t] # "victim"

\* The io bit is a lock on a page: PageFault and EvictPage set it only after
\* they found it clear, so one handler at a time moves the page, and a page
\* that moves is not valid.
IoIsALock ==
  \A p \in PageId :
    LET movers == {t \in Thread : Moves(t, p)}
    IN  /\ p \in io => p \notin valid
        /\ p \in io <=> movers # {}
        /\ Cardinality(movers) <= 1

\* The sectors that pages of spaces with a translation table are in, or are on
\* their way to.
SectorsOf(p) ==
  (IF p \in swapped /\ addrDisk[p] >= 0 THEN {addrDisk[p]} ELSE {})
  \cup {disk[t][2] : t \in {u \in Thread : victim[u] = p /\ disk[u] # NULL /\ disk[u][1] = "swap"}}

\* PutPageSwap and ~AddrSpace: a marked sector is the sector of one page, two
\* pages never share one, and ("frees all memory it uses (RAM and swap area)")
\* no sector stays marked when the page it was for is gone.
SwapAccounted ==
  /\ \A p, q \in PageId : p # q => (SectorsOf(p) \cap SectorsOf(q)) \ {-1} = {} \/ Dangling(p) \/ Dangling(q)
  /\ page_flags \subseteq UNION {SectorsOf(p) : p \in {r \in PageId : ~Dangling(r)}}
  /\ \A p \in PageId : space[p[1]] = "live" => SectorsOf(p) \ {-1} \subseteq page_flags

\* What a thread would read from page p.
Contents(p) ==
  CASE p[2] >= freePageId[p[1]] -> NULL
    [] Home(p) = NULL /\ space[p[1]] # "live" -> NULL
    [] p \in valid -> mainMemory[physicalPage[p]]
    [] \E t \in Thread : victim[t] = p ->
         mainMemory[frame[CHOOSE t \in Thread : victim[t] = p]]
    [] OTHER -> IF Home(p) # NULL THEN file[Home(p)[1]][Home(p)[2]]
                ELSE CHOOSE d \in Stored(Source(p)) : TRUE

\* Paging is invisible: whatever PageFault, EvictPage and the swap area do, a
\* thread reads from a page what was last written to it; and what was written
\* to a mapped file is in the file after the process has ended.
PagingIsInvisible == \A p \in PageId : Contents(p) = last[p]

\* PageFault and EvictPage wait for each other's io bits, locked frames and
\* disks, but not in a circle: when programs stop making new accesses, every
\* page fault ends.
PageFaultsEnd ==
  <>[][\A t \in Thread : ~Program(t)]_vars =>
    \A t \in Thread : []<>(pc[t] \in {"user", "done"})

-----------------------------------------------------------------------------
(* What comments in the code say and the code does not do *)

\* pagefaultmanager.cc: an anonymous page comes from the swap file once it has
\* been in memory.
UnmappedPagesSwap ==
  \A p \in modified \ (valid \cup io) :
    Home(p) = NULL /\ space[p[1]] = "live" /\ (\A t \in Thread : victim[t] # p) => p \in swapped

-----------------------------------------------------------------------------
(* The inductive invariant behind FramesAgree and IoIsALock, as long as no *)
(* process ends: EvictPage may wait for the disk with a page of a process  *)
(* that ends meanwhile, and FramesAgree does not survive that.             *)

VMTypeOK ==
  /\ valid \subseteq PageId /\ io \subseteq PageId
  /\ physicalPage \in [PageId -> Int]
  /\ free \subseteq Frame /\ locked \subseteq Frame
  /\ tpr \in [Frame -> PageId \cup {NULL}]
  /\ free_page_list \in Seq(Frame)
  /\ i_clock \in Int
  /\ g_current_thread \in Thread \cup {NULL}
  /\ pc \in [Thread -> PC]
  /\ page \in [Thread -> PageId \cup {NULL}]
  /\ frame \in [Thread -> Frame \cup {NULL}]
  /\ victim \in [Thread -> PageId \cup {NULL}]
  /\ machine \in {"on", "aborted", "wild"}

NobodyLeaves ==
  /\ \A a \in Space : space[a] = "live" /\ reaper[a] = NULL
  /\ \A t \in Thread : pc[t] # "done"

\* The handler between EvictPage's choice and its end, with a frame of its
\* own, and in all of a fault.
Evicting == {"victim", "writing", "written"}
Holding == Evicting \cup {"install"}
Faulting == Holding \cup {"loading", "alloc", "clock"}

\* What the handler of t knows of its page, its frame and its victim.  Only
\* the last conjunct needs that EvictPage does not yield between the choice
\* of a victim and the test of its io bit.
HandlerOK(t) ==
  /\ pc[t] \in Faulting => page[t] \in io
  /\ pc[t] \in Holding \cup {"clock"} => frame[t] \in Frame
  /\ pc[t] \in Holding => frame[t] \in locked
  /\ pc[t] \in Evicting \cup {"clock"} => free = {}
  /\ pc[t] = "install" => tpr[frame[t]] = page[t]
  /\ pc[t] \in Evicting => victim[t] \in PageId \ valid /\ tpr[frame[t]] = victim[t]
  /\ pc[t] \in {"writing", "written"} => victim[t] \in io /\ victim[t] # page[t]
  /\ pc[t] \notin Evicting => victim[t] = NULL
  /\ pc[t] = "victim" => victim[t] \notin io /\ g_current_thread = t

\* No two handlers have a frame, or move a page, together.
HandlersApart ==
  /\ \A t, u \in Thread :
       pc[t] \in Holding /\ pc[u] \in Holding /\ frame[t] = frame[u] => t = u
  /\ \A t, u \in Thread : \A p \in PageId : Moves(t, p) /\ Moves(u, p) => t = u

FramesOK ==
  /\ free = {free_page_list[i] : i \in 1..Len(free_page_list)}
  /\ \A i, j \in 1..Len(free_page_list) : free_page_list[i] = free_page_list[j] => i = j
  /\ \A f \in locked : f \notin free /\ \E t \in Thread : pc[t] \in Holding /\ frame[t] = f
  /\ \A f \in Frame \ (free \cup locked) : tpr[f] \in valid /\ physicalPage[tpr[f]] = f

PagesOK ==
  /\ \A p \in valid : /\ physicalPage[p] \in Frame \ (free \cup locked)
                      /\ tpr[physicalPage[p]] = p
                      /\ p \notin io
  /\ \A p \in io : \E t \in Thread : Moves(t, p)

\* Only Mmap can stop the machine.
VMInv ==
  /\ VMTypeOK /\ NobodyLeaves
  /\ machine # "wild" /\ (Mapping = {} => machine = "on")
  /\ \A t \in Thread : HandlerOK(t)
  /\ HandlersApart /\ FramesOK /\ PagesOK

-----------------------------------------------------------------------------
(* With it, the inductive invariant behind SwapAccounted: where the sector *)
(* of a page is named while EvictPage moves it from the table to a write   *)
(* and back.                                                               *)

Exists(p) == p[2] < freePageId[p[1]]

ToSwap(t) == disk[t] # NULL /\ disk[t][1] = "swap"

SwapInv ==
  /\ swapped \subseteq PageId /\ page_flags \subseteq Sector
  /\ addrDisk \in [PageId -> Nat \cup {-1}]
  /\ freePageId \in [Space -> Nat]
  /\ DOMAIN disk = Thread
  /\ \A p \in valid \cup io \cup swapped : Exists(p)
  /\ \A t \in Thread :
       /\ pc[t] \in Evicting => Exists(victim[t])
       /\ pc[t] \notin {"loading", "writing", "written"} => disk[t] = NULL
       /\ pc[t] \in {"writing", "written"} /\ ToSwap(t) =>
            disk[t][2] \in Sector \cup {-1} /\ addrDisk[victim[t]] = -1
  /\ SwapAccounted

-----------------------------------------------------------------------------
(* With both, the inductive invariant behind PagingIsInvisible, for        *)
(* programs that map no files and a swap area that holds all their pages:  *)
(* at every point of PageFault and EvictPage, who has the contents of a    *)
(* page.                                                                   *)

\* Every page of the programs has room in the swap area.
SwapSuffices ==
  /\ IsFiniteSet(Space)
  /\ Cardinality({p \in PageId : p[2] < ProgramPages[p[1]]}) <= NumSectors

\* p is neither in memory nor on its way out.
Away(p) == p \notin valid /\ \A t \in Thread : victim[t] # p

InSwap(p) == addrDisk[p] \in Sector /\ swap_disk[addrDisk[p]] = last[p]

DataTypeOK ==
  /\ DOMAIN mainMemory = Frame
  /\ DOMAIN swap_disk = Sector
  /\ DOMAIN buffer = Thread
  /\ DOMAIN last = PageId

\* No file is mapped.
Unmapped ==
  /\ freePageId = ProgramPages
  /\ \A a \in Space : mapped_files[a] = <<>>

\* What the handler of t has of the contents of its page and of its victim.
CarriesOK(t) ==
  /\ pc[t] \in {"user", "waitIo"} => buffer[t] = Zero
  /\ pc[t] = "loading" => disk[t] = Source(page[t])
  /\ pc[t] \in Faulting \ {"loading"} => buffer[t] = last[page[t]]
  /\ pc[t] \in Evicting => mainMemory[frame[t]] = last[victim[t]]
  /\ pc[t] = "writing" => \E s \in Sector : disk[t] = <<"swap", s>>
  /\ pc[t] = "written" =>
       \/ disk[t] = NULL /\ victim[t] \in swapped \ modified
       \/ \E s \in Sector : disk[t] = <<"swap", s>> /\ swap_disk[s] = last[victim[t]]

\* Where the contents of page p are otherwise.  A page that has been written
\* since it was loaded still has its sector, until EvictPage takes it.
StoredOK(p) ==
  /\ ~Exists(p) => last[p] = NULL
  /\ p \in valid => mainMemory[physicalPage[p]] = last[p]
  /\ p \in swapped /\ (p \notin modified \/ Away(p)) => InSwap(p)
  /\ p \in swapped => addrDisk[p] \in Sector
                      \/ \E t \in Thread : victim[t] = p /\ pc[t] # "victim" /\ disk[t] # NULL
  /\ Exists(p) /\ p \notin swapped /\ Away(p) =>
       last[p] = IF addrDisk[p] = -1 THEN Zero ELSE Image

DataInv ==
  /\ DataTypeOK /\ Unmapped
  /\ \A t \in Thread : CarriesOK(t)
  /\ \A p \in PageId : StoredOK(p)


PagingInv == VMInv /\ SwapInv /\ DataInv

=============================================================================
