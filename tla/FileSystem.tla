----------------------------- MODULE FileSystem -----------------------------
(***************************************************************************)
(* The file system: filesys/filesys.cc, the open file table of             *)
(* filesys/oftable.cc, and the system calls of kernel/exception.cc that    *)
(* change files and directories, over file headers (filehdr.cc),           *)
(* directories (directory.cc) and the map of free sectors (bitmap.cc).     *)
(*                                                                         *)
(* Every structure on the disk is read into a local copy, changed there    *)
(* and written back.  A thread leaves the CPU at each disk access, and     *)
(* only there: an action is one disk access and the code up to the next.   *)
(* A file header, a directory and the free map take one sector each        *)
(* (headers of several sectors are in module FileData).                    *)
(***************************************************************************)
EXTENDS Integers, Sequences, FiniteSets, Functions

CONSTANTS
  Thread,          \* threads that make system calls
  Path,            \* the strings that programs use as file names
  Components,      \* the names that decompname cuts each of them into
  NumSectors,      \* NUM_SECTORS
  NumDirEntries,   \* entries of a directory
  MaxData,         \* data sectors that a file header has place for
  NBOFTENTRY,      \* entries of the open file table
  MaxHandles,      \* bound: files that programs keep open at a time
  Sizes,           \* initial sizes of files, in sectors
  Together,        \* the pairs of calls that may overlap
  NULL

Sector == 0..(NumSectors - 1)
Name   == UNION {Range(Components[p]) : p \in Path}
Fid    == 1..MaxHandles
Slot   == 0..(NBOFTENTRY - 1)
Call   == {"create", "open", "close", "remove", "mkdir", "rmdir", "write",
           "fsremove"}   \* the last: FileSystem::Remove in a remove

FreeMapSector   == 0
DirectorySector == 1
\* the sectors that the formatter gives to the data of these two files
MapData  == 2
RootData == 3
System   == {FreeMapSector, DirectorySector, MapData, RootData}

FileHeaders == [kind : {"hdr"}, isdir : BOOLEAN, secs : Seq(Sector)]
OFTEntries  == [name : Path, numthread : Nat, ToBeDeleted : BOOLEAN, sector : Sector,
                file : FileHeaders]
OpenFiles   == [path : Path, sector : Sector, hdr : FileHeaders]

ASSUME FileSystemAssumption ==
  /\ Components \in [Path -> Seq(STRING)]
  /\ \A p \in Path : Len(Components[p]) \in 1..2
  /\ NumSectors \in Nat /\ NumSectors > 4
  /\ {NumDirEntries, MaxData, NBOFTENTRY, MaxHandles} \subseteq Nat \ {0}
  /\ Sizes \subseteq 0..MaxData
  /\ Together \subseteq SUBSET Call
  /\ NULL \notin Thread \cup Path \cup Call \cup OFTEntries \cup OpenFiles

VARIABLES
  disk,        \* the contents of each sector
  table,       \* OpenFileTable: entries by slot, NULL where there is none
  nbentry,     \* the slot that Open will use next, -1 if the table is full
  createLock,  \* the thread that holds it, or NULL
  files,       \* g_object_ids: the OpenFile of each id in use
  op,          \* the system call that each thread is in
  crashed,     \* an ASSERT has failed or a sector was taken for another
  lost         \* history: sectors of grown files and of namesakes, see Fetch

vars == <<disk, table, nbentry, createLock, files, op, crashed, lost>>

-----------------------------------------------------------------------------
(* What a sector holds *)

Data      == [kind |-> "data"]
Header(isdir, secs) == [kind |-> "hdr", isdir |-> isdir, secs |-> secs]
Dir(tab)  == [kind |-> "dir", tab |-> tab]
Map(used) == [kind |-> "map", used |-> used]

(* BitMap *)

Clear(used)    == Sector \ used
NumClear(used) == Cardinality(Clear(used))
\* Find: the lowest clear bit, -1 if there is none
Find(used) ==
  IF Clear(used) = {} THEN -1 ELSE CHOOSE s \in Clear(used) :
                                     \A r \in Clear(used) : s <= r

\* n successive calls of Find: the sectors in the order they are found
FindN(used, n) ==
  CHOOSE q \in [1..n -> Clear(used)] :
    /\ \A i, j \in 1..n : i < j => q[i] < q[j]
    /\ \A s \in Clear(used) \ Range(q) : \A i \in 1..n : q[i] < s

(* Directory: its entries in use, as a function from names to sectors *)

Empty == [n \in {} |-> 0]
FindName(tab, n) == IF n \in DOMAIN tab THEN tab[n] ELSE -1
HasSpace(tab) == Cardinality(DOMAIN tab) < NumDirEntries
AddName(tab, n, s) == [m \in DOMAIN tab \cup {n} |-> IF m = n THEN s ELSE tab[m]]
RemoveName(tab, n) == [m \in DOMAIN tab \ {n} |-> tab[m]]

(* FileHeader *)

CanAllocate(used, n) == NumClear(used) >= n
Allocate(used, n)    == FindN(used, n)
\* Deallocate asserts that each sector is marked
CanDeallocate(used, hdr) == Range(hdr.secs) \subseteq used

\* Mutant: the sectors stay marked.
DeallocateNothing(used, hdr) == used

Deallocate(used, hdr)    == used \ Range(hdr.secs)

(* OpenFileTable *)

NewEntry(p, s, hdr) ==
  [name |-> p, numthread |-> 1, ToBeDeleted |-> FALSE, sector |-> s,
   file |-> hdr]
\* findl: the first slot with that name, -1 if there is none
findl(p) ==
  LET hits == {i \in Slot : table[i] /= NULL /\ table[i].name = p}
  IN  IF hits = {} THEN -1 ELSE CHOOSE i \in hits : \A j \in hits : i <= j

\* next_entry: the first empty slot, -1 if there is none
next_entry(tbl) ==
  LET holes == {i \in Slot : tbl[i] = NULL}
  IN  IF holes = {} THEN -1 ELSE CHOOSE i \in holes : \A j \in holes : i <= j

\* Mutant: a file that another program has open is opened without counting.
NotOneMore(entry) == entry

\* one more thread has the file of this entry open
OneMore(entry) == [entry EXCEPT !.numthread = @ + 1]
\* one thread less
OneLess(entry) == [entry EXCEPT !.numthread = @ - 1]

\* Mutant: Open does not look whether there is a free entry.
NeverFull == FALSE

\* Open finds no free entry
TableFull == nbentry = -1

\* Mutant: Remove does not look into the table.
NeverOpen(p) == FALSE

\* Remove finds the file in the table
IsOpen(p) == findl(p) /= -1

-----------------------------------------------------------------------------
(* A call in progress.  pc is the disk access that comes next; the rest    *)
(* are the local variables of the call: the path still to be walked, the   *)
(* sector reached, the local copies of the directory and its header, of    *)
(* the header and of the free map, the sector of the file, the id.         *)

NoHdr == Header(FALSE, <<>>)
Idle  == [pc |-> "idle", call |-> NULL, path |-> NULL, todo |-> <<>>,
          cur |-> DirectorySector, dirfile |-> NoHdr, tab |-> Empty,
          hdr |-> NoHdr, map |-> {}, sector |-> -1, size |-> 0, fid |-> 0]

Init ==
  /\ disk = [s \in Sector |->
       CASE s = FreeMapSector   -> Header(FALSE, <<MapData>>)
         [] s = DirectorySector -> Header(TRUE, <<RootData>>)
         [] s = MapData         -> Map(System)
         [] s = RootData        -> Dir(Empty)
         [] OTHER               -> Data]
  /\ table = [i \in Slot |-> NULL]
  /\ nbentry = 0
  /\ createLock = NULL
  /\ files = [f \in Fid |-> NULL]
  /\ op = [t \in Thread |-> Idle]
  /\ crashed = FALSE
  /\ lost = {}

\* what a call leaves alone when it only goes on in its own variables
Goto(t, o)   == op' = [op EXCEPT ![t] = o]
Return(t)    == Goto(t, Idle)
OnlyLocal    == UNCHANGED <<disk, table, nbentry, createLock, files, crashed,
                            lost>>
At(t, pc)    == op[t].pc = pc /\ ~crashed
Crash        == crashed' = TRUE
                /\ UNCHANGED <<disk, table, nbentry, createLock, files, op,
                               lost>>

\* reads of a header, a directory, the free map; anything else is garbage
IsKind(s, k) == s \in Sector /\ disk[s].kind = k
DataOf(hdr)  == hdr.secs[1]
HasDir(hdr)  == hdr.secs /= <<>> /\ IsKind(hdr.secs[1], "dir")
SectorsOf(s) == {s} \cup IF IsKind(s, "hdr") THEN Range(disk[s].secs) ELSE {}
\* the sectors of a file, or of a directory and the files in it
TreeOf(s) ==
  SectorsOf(s) \cup
    IF IsKind(s, "hdr") /\ HasDir(disk[s])
    THEN UNION {SectorsOf(r) : r \in Range(disk[DataOf(disk[s])].tab)} ELSE {}

MayStart(t, call) ==
  /\ ~crashed /\ op[t] = Idle
  /\ \A u \in Thread \ {t} :
       op[u] = Idle \/ {call, op[u].call} \in Together
\* an id is left for one more open file (bound MaxHandles)
FidLeft ==
  Cardinality({f \in Fid : files[f] = NULL})
    > Cardinality({t \in Thread : op[t].call = "open"})
Begin(t, call, p, pc) ==
  [Idle EXCEPT !.call = call, !.path = p, !.todo = Components[p], !.pc = pc]

-----------------------------------------------------------------------------
(* The system calls, up to their first disk access *)

\* SC_CREATE: FileSystem::Create waits for createLock
SysCreate(t, p, n) ==
  /\ MayStart(t, "create")
  /\ Goto(t, [Begin(t, "create", p, "lock") EXCEPT !.size = n])
  /\ OnlyLocal

\* Mutant: Create does not wait.
NoCreateLock == TRUE

\* createLock->Acquire() returns at once
CreateLockFree == createLock = NULL

AcquireCreate(t) ==
  /\ At(t, "lock") /\ CreateLockFree
  /\ createLock' = t
  /\ Goto(t, [op[t] EXCEPT !.pc = "root"])
  /\ UNCHANGED <<disk, table, nbentry, files, crashed, lost>>

\* SC_OPEN: OpenFileTable::Open
SysOpen(t, p) ==
  LET num == findl(p)
  IN
  /\ MayStart(t, "open") /\ FidLeft
  /\ \/ /\ num /= -1 /\ ~table[num].ToBeDeleted
        /\ table' = [table EXCEPT ![num] = OneMore(@)]
        /\ Goto(t, [Begin(t, "open", p, "newfile")
                      EXCEPT !.todo = <<>>, !.sector = table[num].sector])
     \/ /\ num = -1 /\ ~TableFull
        /\ Goto(t, Begin(t, "open", p, "root"))
        /\ UNCHANGED table
  /\ UNCHANGED <<disk, nbentry, createLock, files, crashed, lost>>

\* SC_CLOSE: OpenFileTable::Close, then the id is removed.  ~OpenFileTable-
\* Entry waits for the disk only if the file is to be deleted.
SysClose(t, f) ==
  LET num  == findl(files[f].path)
      last == table[num].numthread <= 1
  IN
  /\ MayStart(t, "close")
  /\ files[f] /= NULL
  /\ \A u \in Thread : op[u].fid /= f
  /\ IF num = -1
     THEN /\ files' = [files EXCEPT ![f] = NULL]
          /\ UNCHANGED <<table, op>>
     ELSE IF last /\ table[num].ToBeDeleted
     THEN /\ table' = [table EXCEPT ![num] = OneLess(@)]
          /\ Goto(t, [Begin(t, "close", files[f].path, "map")
                        EXCEPT !.sector = num, !.fid = f])
          /\ UNCHANGED files
     ELSE /\ table' = [table EXCEPT ![num] = IF last THEN NULL ELSE OneLess(@)]
          /\ files' = [files EXCEPT ![f] = NULL]
          /\ UNCHANGED op
  /\ UNCHANGED <<disk, nbentry, createLock, crashed, lost>>

\* SC_REMOVE (OpenFileTable::Remove), SC_MKDIR and SC_RMDIR begin with FindDir
SysPath(t, call, p) ==
  /\ call \in {"remove", "mkdir", "rmdir"}
  /\ MayStart(t, call)
  /\ Goto(t, Begin(t, call, p, "root"))
  /\ OnlyLocal

\* SC_WRITE that appends a sector to the file: WriteAt reads the free map
SysGrow(t, f) ==
  /\ MayStart(t, "write")
  /\ files[f] /= NULL
  /\ \A u \in Thread : op[u].fid /= f
  /\ Len(files[f].hdr.secs) < MaxData
  /\ Goto(t, [Begin(t, "write", files[f].path, "map")
                EXCEPT !.fid = f, !.sector = files[f].sector,
                       !.hdr = files[f].hdr])
  /\ OnlyLocal

-----------------------------------------------------------------------------
(* A new OpenFile with the header that is on the disk *)
NewFid == CHOOSE f \in Fid : files[f] = NULL /\ \A g \in 1..(f - 1) : files[g] /= NULL
Handle(p, s) ==
  [path |-> p, sector |-> s, hdr |-> disk[s]]

(* FindDir, and the fetch of the directory that follows it in every call *)

\* an error return; Create gives its lock back
Fail(t) ==
  /\ Return(t)
  /\ createLock' = IF createLock = t THEN NULL ELSE createLock
  /\ UNCHANGED <<disk, table, nbentry, files, crashed, lost>>

\* one turn of the loop of FindDir, from directory contents tab at sector cur
Walk(t, cur, tab, todo) ==
  IF Len(todo) = 1
  THEN /\ Goto(t, [op[t] EXCEPT !.pc = "dirfile", !.cur = cur, !.todo = todo])
       /\ OnlyLocal
  ELSE IF FindName(tab, Head(todo)) = -1 THEN Fail(t)
  ELSE /\ Goto(t, [op[t] EXCEPT !.pc = "subhdr", !.todo = Tail(todo),
                                !.cur = FindName(tab, Head(todo))])
       /\ OnlyLocal

FetchRoot(t) ==
  /\ At(t, "root")
  /\ IF IsKind(RootData, "dir")
     THEN Walk(t, DirectorySector, disk[RootData].tab, op[t].todo)
     ELSE Crash

FetchSubHeader(t) ==
  /\ At(t, "subhdr")
  /\ IF ~IsKind(op[t].cur, "hdr") THEN Crash
     ELSE IF ~disk[op[t].cur].isdir THEN Fail(t)
     ELSE /\ Goto(t, [op[t] EXCEPT !.pc = "subdir", !.dirfile = disk[op[t].cur]])
          /\ OnlyLocal

FetchSub(t) ==
  /\ At(t, "subdir")
  /\ IF HasDir(op[t].dirfile)
     THEN Walk(t, op[t].cur, disk[DataOf(op[t].dirfile)].tab, op[t].todo)
     ELSE Crash

\* OpenFile dirfile(dirsector)
OpenDirFile(t) ==
  /\ At(t, "dirfile")
  /\ IF IsKind(op[t].cur, "hdr")
     THEN /\ Goto(t, [op[t] EXCEPT !.pc = "fetch", !.dirfile = disk[op[t].cur]])
          /\ OnlyLocal
     ELSE Crash

\* directory.FetchFrom(&dirfile), and what each call does with the name
Fetch(t) ==
  LET o    == op[t]
      tab  == disk[DataOf(o.dirfile)].tab
      name == o.todo[1]
      s    == FindName(tab, name)
      On(pc) == Goto(t, [o EXCEPT !.pc = pc, !.tab = tab, !.sector = s])
                /\ OnlyLocal
      num  == findl(o.path)
  IN
  /\ At(t, "fetch")
  /\ IF ~HasDir(o.dirfile) THEN Crash
     ELSE CASE o.call \in {"create", "mkdir"} ->
                 IF s /= -1 THEN Fail(t) ELSE On("map")
            [] o.call \in {"open", "rmdir", "fsremove"} ->
                 IF s = -1 THEN Fail(t) ELSE On("hdr")
            [] o.call = "remove" /\ s = -1 -> Fail(t)
            [] o.call = "remove" /\ s /= -1 /\ ~IsOpen(o.path) ->
                 \* FileSystem::Remove starts from the path again
                 /\ Goto(t, Begin(t, "fsremove", o.path, "root"))
                 /\ OnlyLocal
            [] o.call = "remove" /\ s /= -1 /\ IsOpen(o.path) ->
                 /\ table' = [table EXCEPT ![num].ToBeDeleted = TRUE]
                 /\ Goto(t, [o EXCEPT !.pc = "wdir",
                                      !.tab = RemoveName(tab, name)])
                 \* the entry may be of an older file of that name
                 /\ lost' = IF table[num].sector = s THEN lost
                            ELSE lost \cup TreeOf(s)
                 /\ UNCHANGED <<disk, nbentry, createLock, files, crashed>>

\* the header of the named file: OpenFile(sector), fileHdr.FetchFrom
FetchHeader(t) ==
  LET o == op[t]
      On(pc) == Goto(t, [o EXCEPT !.pc = pc, !.hdr = disk[o.sector]])
                /\ OnlyLocal
  IN
  /\ At(t, "hdr")
  /\ IF ~IsKind(o.sector, "hdr") THEN Crash
     ELSE IF disk[o.sector].isdir
     THEN IF o.call = "rmdir" THEN On("dirfile2") ELSE Fail(t)
     ELSE CASE o.call = "rmdir"    -> Fail(t)
            [] o.call = "fsremove" -> On("map")
            [] o.call = "open"     -> On("newfile")

\* OpenFile newfile(sector): the second header of an Open that missed, then
\* the entry goes into the table; the only one of an Open that hit
NewFile(t) ==
  LET o == op[t]
      hit == o.todo = <<>>
      tbl == [table EXCEPT ![nbentry] = NewEntry(o.path, o.sector, o.hdr)]
  IN
  /\ At(t, "newfile")
  /\ IF ~IsKind(o.sector, "hdr") \/ (~hit /\ nbentry = -1) THEN Crash
     ELSE /\ files' = [files EXCEPT ![NewFid] = Handle(o.path, o.sector)]
          /\ IF hit THEN UNCHANGED <<table, nbentry>>
             ELSE table' = tbl /\ nbentry' = next_entry(tbl)
          /\ Return(t)
          /\ UNCHANGED <<disk, createLock, crashed, lost>>

\* Rmdir: OpenFile thedirfile(thedirsect), thedir.FetchFrom, empty()
OpenVictim(t) ==
  /\ At(t, "dirfile2")
  /\ IF IsKind(op[t].sector, "hdr")
     THEN Goto(t, [op[t] EXCEPT !.pc = "empty", !.hdr = disk[op[t].sector]])
          /\ OnlyLocal
     ELSE Crash
FetchVictim(t) ==
  /\ At(t, "empty")
  /\ IF ~HasDir(op[t].hdr) THEN Crash
     ELSE IF DOMAIN disk[DataOf(op[t].hdr)].tab /= {} THEN Fail(t)
     ELSE Goto(t, [op[t] EXCEPT !.pc = "map"]) /\ OnlyLocal

-----------------------------------------------------------------------------
(* freeMap.FetchFrom(freeMapFile), and what each call does with the map *)

\* Create and Mkdir: a sector for the header, the data sectors, the entry
NewFileSectors(t, used, n, isdir) ==
  LET o == op[t]
      s == Find(used)
      u == used \cup {s}
      secs == Allocate(u, n)
  IN
  IF s = -1 \/ ~HasSpace(o.tab) \/ ~CanAllocate(u, n) THEN Fail(t)
  ELSE /\ Goto(t, [o EXCEPT !.pc = "whdr", !.sector = s,
                            !.tab = AddName(o.tab, o.todo[1], s),
                            !.hdr = Header(isdir, secs),
                            !.map = u \cup Range(secs)])
       /\ OnlyLocal

\* FileSystem::Remove and Rmdir: give the sectors back, forget the name
FreeFileSectors(t, used) ==
  LET o == op[t]
  IN
  IF ~CanDeallocate(used, o.hdr) THEN Crash
  ELSE /\ Goto(t, [o EXCEPT !.pc = "wmap",
                            !.map = Deallocate(used, o.hdr) \ {o.sector},
                            !.tab = RemoveName(o.tab, o.todo[1])])
       /\ OnlyLocal

\* ~OpenFileTableEntry of a removed file: the header is the one that the
\* entry read when the file was opened
FreeEntrySectors(t, used) ==
  LET entry == table[op[t].sector]
  IN
  IF ~CanDeallocate(used, entry.file) THEN Crash
  ELSE /\ Goto(t, [op[t] EXCEPT !.pc = "wmap",
                     !.map = Deallocate(used, entry.file) \ {entry.sector}])
       /\ OnlyLocal

\* reAllocate: one more data sector for the header of this handle
GrowSectors(t, used) ==
  LET o == op[t]
      more == Allocate(used, 1)
  IN
  IF ~CanAllocate(used, 1) THEN Fail(t)
  ELSE /\ Goto(t, [o EXCEPT !.pc = "whdr",
                            !.hdr = Header(FALSE, o.hdr.secs \o more),
                            !.map = used \cup Range(more)])
       /\ files' = [files EXCEPT ![o.fid].hdr =
                      Header(FALSE, o.hdr.secs \o more)]
       /\ lost' = lost \cup Range(more)
       /\ UNCHANGED <<disk, table, nbentry, createLock, crashed>>

FetchMap(t) ==
  LET used == disk[MapData].used
  IN
  /\ At(t, "map")
  /\ IF ~IsKind(MapData, "map") THEN Crash
     ELSE CASE op[t].call = "create" -> NewFileSectors(t, used, op[t].size, FALSE)
            [] op[t].call = "mkdir"  -> NewFileSectors(t, used, 1, TRUE)
            [] op[t].call \in {"rmdir", "fsremove"} -> FreeFileSectors(t, used)
            [] op[t].call = "close"  -> FreeEntrySectors(t, used)
            [] op[t].call = "write"  -> GrowSectors(t, used)

-----------------------------------------------------------------------------
(* Writing back *)

\* the order of the writes differs from call to call
AfterWrite(call, pc) ==
  CASE call = "create" /\ pc = "whdr" -> "wdir"
    [] call = "create" /\ pc = "wdir" -> "wmap"
    [] call = "mkdir"  /\ pc = "whdr" -> "newdir"
    [] call = "mkdir"  /\ pc = "wnew" -> "wdir"
    [] call = "mkdir"  /\ pc = "wdir" -> "wmap"
    [] call = "write"  /\ pc = "whdr" -> "wmap"
    [] call = "write"  /\ pc = "wmap" -> "wdata"
    [] call \in {"rmdir", "fsremove"} /\ pc = "wmap" -> "wdir"
    [] OTHER -> "idle"

\* The model forgets what is in a sector when it becomes free.  The disk does
\* not, but a call that reads the sector before it is written again has
\* taken garbage for a header or a directory, which is what crashed records.
Freed(s, what) == IF s = MapData THEN disk[MapData].used \ what.used ELSE {}

Write(t, s, what) ==
  LET o == op[t]
      next == AfterWrite(o.call, o.pc)
      done == next = "idle"
      closed == done /\ o.call = "close"
  IN
  /\ disk' = [r \in Sector |-> IF r = s THEN what
                               ELSE IF r \in Freed(s, what) THEN Data
                               ELSE disk[r]]
  /\ Goto(t, IF done THEN Idle ELSE [o EXCEPT !.pc = next])
  /\ createLock' = IF done /\ createLock = t THEN NULL ELSE createLock
  /\ table' = IF closed THEN [table EXCEPT ![o.sector] = NULL] ELSE table
  /\ files' = IF closed THEN [files EXCEPT ![o.fid] = NULL] ELSE files
  /\ lost' = lost \ Freed(s, what)
  /\ UNCHANGED <<nbentry, crashed>>

WriteHeader(t) == At(t, "whdr") /\ Write(t, op[t].sector, op[t].hdr)
WriteDir(t)  == At(t, "wdir") /\ Write(t, DataOf(op[t].dirfile), Dir(op[t].tab))
WriteMap(t)  == At(t, "wmap") /\ Write(t, MapData, Map(op[t].map))
WriteData(t) == At(t, "wdata") /\ Write(t, op[t].hdr.secs[Len(op[t].hdr.secs)], Data)

\* Mkdir: OpenFile newdirfile(hdr_sect) reads the header back, then the
\* empty directory is written
OpenNewDir(t) ==
  /\ At(t, "newdir")
  /\ IF IsKind(op[t].sector, "hdr")
     THEN Goto(t, [op[t] EXCEPT !.pc = "wnew", !.hdr = disk[op[t].sector]])
          /\ OnlyLocal
     ELSE Crash
WriteNewDir(t) == At(t, "wnew") /\ Write(t, DataOf(op[t].hdr), Dir(Empty))

Step(t) ==
  \/ AcquireCreate(t) \/ FetchRoot(t) \/ FetchSubHeader(t) \/ FetchSub(t)
  \/ OpenDirFile(t) \/ Fetch(t) \/ FetchHeader(t) \/ NewFile(t)
  \/ OpenVictim(t) \/ FetchVictim(t) \/ FetchMap(t)
  \/ WriteHeader(t) \/ WriteDir(t) \/ WriteMap(t) \/ WriteData(t)
  \/ OpenNewDir(t) \/ WriteNewDir(t)

Next ==
  \/ \E t \in Thread, p \in Path :
       \/ \E n \in Sizes : SysCreate(t, p, n)
       \/ SysOpen(t, p)
       \/ \E call \in Call : SysPath(t, call, p)
  \/ \E t \in Thread, f \in Fid : SysClose(t, f) \/ SysGrow(t, f)
  \/ \E t \in Thread : Step(t)

FSSpec == Init /\ [][Next]_vars

-----------------------------------------------------------------------------
(* Properties *)

\* the files and directories that have a name, in the root or one below
Named ==
  LET root == disk[RootData].tab
      subs == {s \in Range(root) : IsKind(s, "hdr") /\ disk[s].isdir}
      Tab(s) == disk[DataOf(disk[s])].tab
  IN  {<<DirectorySector, n, root[n]>> : n \in DOMAIN root}
      \cup UNION {{<<s, n, Tab(s)[n]>> : n \in DOMAIN Tab(s)} : s \in subs}
\* those that have lost it and are still open
Nameless ==
  {<<NULL, i, table[i].sector>> : i \in
     {j \in Slot : /\ table[j] /= NULL /\ table[j].ToBeDeleted
                   /\ \A t \in Thread : ~(op[t].call = "remove"
                                          /\ op[t].path = table[j].name)}}
Live == Named \cup Nameless
InUse == System \cup UNION {SectorsOf(file[3]) : file \in Live}

\* no call that changes the disk is in progress
Quiet == \A t \in Thread : op[t].call \in {NULL, "open"}
Marked == disk[MapData].used

\* No ASSERT fails and no call takes a sector for what it is not: a sector
\* that FindDir, Open, Remove or Rmdir reaches through a directory is a
\* header, that of a directory leads to a directory, and Deallocate frees
\* sectors that are marked.
NotCrashed == ~crashed

\* Every sector belongs to one file or directory: neither two names, nor a
\* name and a removed file that is still open, nor the header and the data
\* of one file share a sector.  (Create reads the free map and writes it
\* five disk accesses later; createLock is there for this.)
NoSectorShared ==
  /\ Quiet => \A file \in Live :
       /\ IsKind(file[3], "hdr")
       /\ Cardinality(SectorsOf(file[3])) = 1 + Len(disk[file[3]].secs)
       /\ SectorsOf(file[3]) \cap System = {}
  /\ \A f1, f2 \in Live : f1 /= f2 => SectorsOf(f1[3]) \cap SectorsOf(f2[3]) = {}

\* Between calls that change it the free map is right: what a file uses is
\* marked, and what is marked is used, but for two leaks: the entry of the
\* table frees the sectors of the header it read when the file was opened, so
\* those of a file that grew since then are lost; and a file that is removed
\* while an older one of its name is still open is taken for that one (it may
\* even be a directory with files in it).
FreeMapIsRight ==
  Quiet => /\ InUse \subseteq Marked
           /\ Marked \ InUse \subseteq lost

\* A program that has a file open keeps its sectors, even when another
\* program removes the file (oftable.cc, Remove: the file is deleted when the
\* last thread closes it): they stay marked and no other file gets them.
OpenFilesKeepTheirData ==
  \A f \in Fid : files[f] /= NULL =>
    LET mine == {files[f].sector} \cup Range(files[f].hdr.secs)
    IN  /\ Quiet => mine \subseteq Marked
        /\ \A file \in Live :
             file[3] /= files[f].sector => mine \cap SectorsOf(file[3]) = {}

\* The count that decides when a file leaves the table, and when a removed
\* file is deleted, is the number of programs that have it open.
HandlesCounted ==
  LET Closing(f) == \E t \in Thread : op[t].call = "close" /\ op[t].fid = f
      Handles(p) == {f \in Fid : files[f] /= NULL
                                 /\ files[f].path = p /\ ~Closing(f)}
      Hits(p) == {t \in Thread : op[t].call = "open" /\ op[t].path = p
                                 /\ op[t].todo = <<>>}
  IN  /\ \A i \in Slot : table[i] /= NULL =>
           table[i].numthread = Cardinality(Handles(table[i].name))
                                  + Cardinality(Hits(table[i].name))
      /\ \A f \in Fid : files[f] /= NULL =>
           findl(files[f].path) /= -1
=============================================================================
