--------------------------- MODULE FileDiskProofs ---------------------------
(***************************************************************************)
(* What the invariant FSInv of module FileSystem says of the disk, the     *)
(* open file table and the handles, and what each way of changing them     *)
(* leaves true.  The lemmas are about a disk before and after.             *)
(***************************************************************************)
EXTENDS FileTableProofs

\* No two strings are names of the same file.
OneSpelling == \A p, q \in Path : Components[p] = Components[q] => p = q

-----------------------------------------------------------------------------
(* A disk D as files and directories *)

HdrAt(D, s)  == s \in Sector /\ D[s].kind = "hdr"
DirAt(D, s)  == HdrAt(D, s) /\ D[s].isdir
SecsAt(D, s) == {s} \cup IF HdrAt(D, s) THEN Range(D[s].secs) ELSE {}
TabAt(D, d)  == D[D[d].secs[1]].tab
DirsOf(D)    == {DirectorySector} \cup {s \in Range(D[RootData].tab) : DirAt(D, s)}
UsedIn(D)    == D[MapData].used
\* in directory d, name n is that of the file or directory at sector s
NamedAt(D, d, n, s) == d \in DirsOf(D) /\ n \in DOMAIN TabAt(D, d) /\ TabAt(D, d)[n] = s
HasName(D, s)       == \E d \in Sector, n \in Name : NamedAt(D, d, n, s)
\* where a path leads: the directory and the name in it
Leads(D, p, d, n) ==
  IF Len(Components[p]) = 1 THEN d = DirectorySector /\ n = Components[p][1]
  ELSE NamedAt(D, DirectorySector, Components[p][1], d) /\ n = Components[p][2]

\* the files and directories that have a name or are open
Held(T, s)  == \E i \in Slot : T[i] # NULL /\ T[i].sector = s
Heads(D, T) == {s \in Sector : HasName(D, s) \/ Held(T, s)}
\* those that their sectors belong to
Owners(D, T) == {s \in Sector : \/ HasName(D, s)
                                \/ \E i \in Slot : T[i] # NULL /\ T[i].sector = s
                                                   /\ T[i].ToBeDeleted}

Injective(q) == \A i, j \in DOMAIN q : q[i] = q[j] => i = j
LastOf(q)    == q[Len(q)]

\* What the calls that are writing back have in hand: the directory entry
\* whose file is gone, the sectors of a file that the map does not mark yet
\* or any more, those that only a handle knows of, the path whose name goes
VictimOf(o)  == IF o.call \in {"rmdir", "fsremove"} /\ o.pc = "wdir" THEN {o.sector} ELSE {}
PendingOf(o) ==
  IF o.call \in {"create", "mkdir"} /\ o.pc = "wmap" THEN {o.sector} \cup Range(o.hdr.secs)
  ELSE IF o.call = "write" /\ o.pc \in {"whdr", "wmap"} THEN {LastOf(o.hdr.secs)}
  ELSE VictimOf(o)
DroppedBy(o) == IF o.call = "remove" /\ o.pc = "wdir" THEN {o.path} ELSE {}
Victims == UNION {VictimOf(op[t]) : t \in Thread}
Pending == UNION {PendingOf(op[t]) : t \in Thread}
Dropped == UNION {DroppedBy(op[t]) : t \in Thread}

\* The files that the formatter makes stay where they are.
FixedOK(D) ==
  /\ D[FreeMapSector] = Header(FALSE, <<MapData>>)
  /\ D[DirectorySector] = Header(TRUE, <<RootData>>)
  /\ D[RootData].kind = "dir" /\ D[MapData].kind = "map"
  /\ System \subseteq UsedIn(D)

\* The header of a file, or of a directory
HdrOK(D, s) ==
  /\ HdrAt(D, s)
  /\ Injective(D[s].secs) /\ s \notin Range(D[s].secs) /\ Range(D[s].secs) \cap System = {}
  /\ D[s].isdir => D[s].secs # <<>> /\ D[D[s].secs[1]].kind = "dir"

\* Files and directories have headers, and no sector in common.
HeadsOK(D, H, V) ==
  /\ H \cap System = {}
  /\ \A s \in H : IF s \in V THEN D[s] = Data ELSE HdrOK(D, s)
  /\ \A s, r \in H : s # r => SecsAt(D, s) \cap SecsAt(D, r) = {}

\* A file or directory has at most one name.
NamesApart(D) ==
  \A d, e \in Sector, n, m \in Name, s \in Sector :
    NamedAt(D, d, n, s) /\ NamedAt(D, e, m, s) => d = e /\ n = m

\* The map marks what files use, and nothing that is not lost is marked that
\* no file uses.
MarksOK(D, H, P) == \A s \in H : SecsAt(D, s) \subseteq UsedIn(D) \cup P
LeaksOK(D, O, L) == \A s \in UsedIn(D) : s \in System \cup L \/ \E r \in O : s \in SecsAt(D, r)

\* An entry of the table is that of a file; if the file has a name it is the
\* one of the entry.
EntryOK(D, L, R, e) ==
  /\ HdrAt(D, e.sector) /\ ~D[e.sector].isdir
  /\ Range(e.file.secs) \subseteq Range(D[e.sector].secs)
  /\ Range(D[e.sector].secs) \subseteq Range(e.file.secs) \cup L
  /\ \A d \in Sector, n \in Name : NamedAt(D, d, n, e.sector) =>
       Leads(D, e.name, d, n) /\ (e.ToBeDeleted => e.name \in R)
TableOK(D, T, L, R) ==
  /\ \A i \in Slot : T[i] # NULL => EntryOK(D, L, R, T[i])
  /\ \A i, j \in Slot : T[i] # NULL /\ T[j] # NULL /\ T[i].sector = T[j].sector => i = j

\* What a program that has a file open takes for its sectors
Mine(h) == {h.sector} \cup Range(h.hdr.secs)
EntryFor(T, L, h) ==
  \E i \in Slot : /\ T[i] # NULL /\ T[i].name = h.path /\ T[i].sector = h.sector
                  /\ Range(T[i].file.secs) \subseteq Range(h.hdr.secs)
                  /\ Range(h.hdr.secs) \subseteq Range(T[i].file.secs) \cup L
HandleOK(D, H, P, h) ==
  /\ ~h.hdr.isdir /\ Injective(h.hdr.secs) /\ h.sector \notin Range(h.hdr.secs)
  /\ Mine(h) \subseteq UsedIn(D) \cup P /\ Mine(h) \cap System = {}
  /\ \A r \in H : r # h.sector => Mine(h) \cap SecsAt(D, r) = {}
HandlesOK(D, T, F, P, L) ==
  /\ \A f \in Fid : F[f] # NULL => EntryFor(T, L, F[f]) /\ HandleOK(D, Heads(D, T), P, F[f])
  /\ \A f, g \in Fid : F[f] # NULL /\ F[g] # NULL /\ F[f].sector # F[g].sector =>
       Mine(F[f]) \cap Mine(F[g]) = {}

-----------------------------------------------------------------------------
(* What each call in progress knows of the disk *)

AtDir(D, o) == o.cur \in DirsOf(D) /\ Len(o.todo) = 1 /\ Leads(D, o.path, o.cur, o.todo[1])
InDir(D, o) == AtDir(D, o) /\ o.dirfile = D[o.cur]
IsNew(D, o) == o.todo[1] \notin DOMAIN TabAt(D, o.cur)
Found(D, o) == NamedAt(D, o.cur, o.todo[1], o.sector)

Walking(D, o) ==
  \/ o.pc = "root" /\ o.todo = Components[o.path]
  \/ /\ o.pc \in {"subhdr", "subdir"}
     /\ Len(Components[o.path]) = 2 /\ o.todo = <<Components[o.path][2]>>
     /\ NamedAt(D, DirectorySector, Components[o.path][1], o.cur)
     /\ o.pc = "subdir" => DirAt(D, o.cur) /\ o.dirfile = D[o.cur]
  \/ o.pc = "dirfile" /\ AtDir(D, o)
  \/ o.pc = "fetch" /\ InDir(D, o)

\* the sectors that Create and Mkdir have chosen
NewSectors(D, o) ==
  /\ o.sector \in Sector \ UsedIn(D)
  /\ Range(o.hdr.secs) \cap UsedIn(D) = {} /\ o.sector \notin Range(o.hdr.secs)
  /\ Injective(o.hdr.secs)
  /\ o.map = UsedIn(D) \cup {o.sector} \cup Range(o.hdr.secs)
  /\ o.hdr.isdir <=> o.call = "mkdir"
  /\ o.call = "mkdir" => o.hdr.secs # <<>>
Adds(D, o) == IsNew(D, o) /\ o.tab = AddName(TabAt(D, o.cur), o.todo[1], o.sector)
Making(D, o) ==
  /\ InDir(D, o)
  /\ \/ o.pc = "map" /\ o.tab = TabAt(D, o.cur) /\ IsNew(D, o)
     \/ o.pc = "whdr" /\ NewSectors(D, o) /\ Adds(D, o)
     \/ o.pc \in {"newdir", "wnew"} /\ NewSectors(D, o) /\ Adds(D, o) /\ D[o.sector] = o.hdr
     \/ /\ o.pc = "wdir" /\ NewSectors(D, o) /\ Adds(D, o) /\ D[o.sector] = o.hdr
        /\ o.call = "mkdir" => D[o.hdr.secs[1]] = Dir(Empty)
     \/ o.pc = "wmap" /\ NewSectors(D, o) /\ D[o.sector] = o.hdr /\ Found(D, o)

Opening(D, o) ==
  \/ o.pc = "hdr" /\ InDir(D, o) /\ Found(D, o)
  \/ /\ o.pc = "newfile" /\ InDir(D, o) /\ Found(D, o)
     /\ o.hdr = D[o.sector] /\ ~o.hdr.isdir
  \/ o.pc = "newfile" /\ o.todo = <<>>

\* the file that Rmdir or FileSystem::Remove is about to delete
Doomed(D, o) ==
  IF o.call = "rmdir" THEN DirAt(D, o.sector) /\ DOMAIN TabAt(D, o.sector) = {}
  ELSE ~DirAt(D, o.sector)
Removing(D, o) ==
  /\ InDir(D, o) /\ Found(D, o)
  /\ \/ o.pc = "hdr" /\ o.tab = TabAt(D, o.cur)
     \/ o.pc \in {"dirfile2", "empty"} /\ o.call = "rmdir" /\ o.tab = TabAt(D, o.cur)
        /\ DirAt(D, o.sector) /\ (o.pc = "empty" => o.hdr = D[o.sector])
     \/ o.pc = "map" /\ o.tab = TabAt(D, o.cur) /\ o.hdr = D[o.sector] /\ Doomed(D, o)
     \/ /\ o.pc = "wmap" /\ o.tab = RemoveName(TabAt(D, o.cur), o.todo[1])
        /\ o.hdr = D[o.sector] /\ Doomed(D, o) /\ o.map = UsedIn(D) \ SecsAt(D, o.sector)
     \/ /\ o.pc = "wdir" /\ o.tab = RemoveName(TabAt(D, o.cur), o.todo[1])
        /\ o.sector \notin UsedIn(D)

TreeAt(D, s) ==
  SecsAt(D, s) \cup (IF DirAt(D, s) THEN UNION {SecsAt(D, r) : r \in Range(TabAt(D, s))} ELSE {})

\* the entry of the name that OpenFileTable::Remove takes away
Forgetting(D, T, L, o) ==
  /\ o.pc = "wdir" /\ InDir(D, o)
  /\ o.tab = RemoveName(TabAt(D, o.cur), o.todo[1])
  /\ \E s \in Sector, i \in Slot :
       /\ NamedAt(D, o.cur, o.todo[1], s)
       /\ T[i] # NULL /\ T[i].name = o.path /\ T[i].ToBeDeleted
       /\ T[i].sector = s \/ TreeAt(D, s) \subseteq L

Writing(D, F, L, o) ==
  /\ o.sector = F[o.fid].sector /\ o.hdr = F[o.fid].hdr
  /\ \/ o.pc = "map"
     \/ /\ o.pc \in {"whdr", "wmap"} /\ o.hdr.secs # <<>>
        /\ LastOf(o.hdr.secs) \notin UsedIn(D) /\ LastOf(o.hdr.secs) \in L
        /\ o.map = UsedIn(D) \cup {LastOf(o.hdr.secs)}
        /\ o.pc = "wmap" => D[o.sector] = o.hdr
     \/ o.pc = "wdata" /\ o.hdr.secs # <<>> /\ D[o.sector] = o.hdr

Freeing(D, T, o) ==
  \/ o.pc = "map"
  \/ o.pc = "wmap" /\ o.map = UsedIn(D) \ ({T[o.sector].sector} \cup Range(T[o.sector].file.secs))

CallOK(D, T, F, L, o) ==
  \/ o = Idle
  \/ o.call = "create" /\ o.pc = "lock" /\ o.todo = Components[o.path]
  \/ o.call \in PathCalls /\ Walking(D, o)
  \/ o.call \in {"create", "mkdir"} /\ Making(D, o)
  \/ o.call = "open" /\ Opening(D, o)
  \/ o.call \in {"rmdir", "fsremove"} /\ Removing(D, o)
  \/ o.call = "remove" /\ Forgetting(D, T, L, o)
  \/ o.call = "write" /\ Writing(D, F, L, o)
  \/ o.call = "close" /\ Freeing(D, T, o)
CallsOK == \A t \in Thread : CallOK(disk, table, files, lost, op[t])

\* The files on the disk, the open file table and the handles, apart from the
\* calls in progress.
DiskInv(D, T, F, L, V, P, R) ==
  /\ FixedOK(D) /\ HeadsOK(D, Heads(D, T), V) /\ NamesApart(D)
  /\ MarksOK(D, Heads(D, T), P) /\ LeaksOK(D, Owners(D, T), L)
  /\ TableOK(D, T, L, R) /\ HandlesOK(D, T, F, P, L)

FSInv == /\ CountInv /\ ~crashed
         /\ DiskInv(disk, table, files, lost, Victims, Pending, Dropped)
         /\ CallsOK

\* A header has sectors, and a directory names.
LEMMA DiskTyped ==
  ASSUME NEW D \in [Sector -> Blocks], NEW s
  PROVE  /\ HdrAt(D, s) => s \in Sector /\ D[s] \in FileHeaders /\ D[s].secs \in Seq(Sector)
                           /\ Range(D[s].secs) \subseteq Sector /\ D[s].isdir \in BOOLEAN
         /\ s \in Sector /\ D[s].kind = "dir" => D[s].tab \in Tabs /\ D[s] = Dir(D[s].tab)
         /\ s \in Sector /\ D[s].kind = "map" => UsedIn(D) = UsedIn(D) /\ D[s].used \in SUBSET Sector
                                                 /\ D[s] = Map(D[s].used)
         /\ s \in Sector => s \in SecsAt(D, s) /\ SecsAt(D, s) \subseteq Sector
<1>1. ASSUME HdrAt(D, s)
      PROVE  s \in Sector /\ D[s] \in FileHeaders /\ D[s].secs \in Seq(Sector)
             /\ Range(D[s].secs) \subseteq Sector /\ D[s].isdir \in BOOLEAN
  <2>1. s \in Sector /\ D[s] \in FileHeaders
    BY <1>1 DEF HdrAt, Blocks, Data, FileHeaders
  <2>2. D[s].secs \in Seq(Sector) /\ D[s].isdir \in BOOLEAN
    BY <2>1 DEF FileHeaders
  <2> QED BY <2>1, <2>2, SeqRange
<1>2. ASSUME s \in Sector, D[s].kind = "dir" PROVE D[s].tab \in Tabs /\ D[s] = Dir(D[s].tab)
  BY <1>2 DEF Blocks, Data, FileHeaders, Dir
<1>3. ASSUME s \in Sector, D[s].kind = "map" PROVE D[s].used \in SUBSET Sector /\ D[s] = Map(D[s].used)
  BY <1>3 DEF Blocks, Data, FileHeaders, Map
<1>4. ASSUME s \in Sector PROVE s \in SecsAt(D, s) /\ SecsAt(D, s) \subseteq Sector
  BY <1>1, <1>4 DEF SecsAt
<1> QED BY <1>1, <1>2, <1>3, <1>4

\* The facts about a disk that most steps need: it is typed, the files of the
\* formatter are in their place, and what has a name is among the heads.
Good(D, H, V) ==
  /\ D \in [Sector -> Blocks] /\ FixedOK(D) /\ HeadsOK(D, H, V)
  /\ H \subseteq Sector
  /\ \A s \in Sector : HasName(D, s) => s \in H

\* The system's own sectors.
LEMMA FixedIs ==
  ASSUME NEW D \in [Sector -> Blocks], FixedOK(D)
  PROVE  /\ System \subseteq Sector
         /\ FreeMapSector \in System /\ DirectorySector \in System
         /\ MapData \in System /\ RootData \in System
         /\ DirAt(D, DirectorySector) /\ D[DirectorySector].secs = <<RootData>>
         /\ D[DirectorySector].secs # <<>> /\ D[DirectorySector].secs[1] = RootData
         /\ TabAt(D, DirectorySector) = D[RootData].tab
         /\ SecsAt(D, DirectorySector) = {DirectorySector, RootData}
         /\ D[RootData].tab \in Tabs /\ DirectorySector \in DirsOf(D)
         /\ UsedIn(D) \in SUBSET Sector /\ System \subseteq UsedIn(D)
<1>1. /\ System \subseteq Sector
      /\ FreeMapSector \in System /\ DirectorySector \in System
      /\ MapData \in System /\ RootData \in System
  BY Sectors DEF System
<1>2. D[DirectorySector] = Header(TRUE, <<RootData>>)
  BY DEF FixedOK
<1>3. DirAt(D, DirectorySector) /\ D[DirectorySector].secs = <<RootData>>
  BY <1>1, <1>2 DEF DirAt, HdrAt, Header
<1>4. <<RootData>> # <<>> /\ <<RootData>>[1] = RootData /\ Range(<<RootData>>) = {RootData}
  BY DEF Range
<1>5. D[DirectorySector].secs # <<>> /\ D[DirectorySector].secs[1] = RootData
      /\ TabAt(D, DirectorySector) = D[RootData].tab
  BY <1>3, <1>4 DEF TabAt
<1>6. SecsAt(D, DirectorySector) = {DirectorySector, RootData}
  BY <1>3, <1>4 DEF SecsAt, DirAt
<1>7. D[RootData].tab \in Tabs /\ UsedIn(D) \in SUBSET Sector
  BY <1>1, DiskTyped DEF FixedOK, UsedIn
<1>8. DirectorySector \in DirsOf(D)
  BY DEF DirsOf
<1> QED BY <1>1, <1>3, <1>5, <1>6, <1>7, <1>8 DEF FixedOK

\* What has a name in the root is named; a directory but the root is.
LEMMA RootNames ==
  ASSUME NEW D \in [Sector -> Blocks], FixedOK(D)
  PROVE  /\ \A n, s : NamedAt(D, DirectorySector, n, s) <=>
              n \in DOMAIN D[RootData].tab /\ D[RootData].tab[n] = s
         /\ \A s \in Range(D[RootData].tab) : HasName(D, s) /\ s \in Sector
                        /\ \E n \in Name : NamedAt(D, DirectorySector, n, s)
<1>1. \A n, s : NamedAt(D, DirectorySector, n, s) <=>
              n \in DOMAIN D[RootData].tab /\ D[RootData].tab[n] = s
  BY FixedIs DEF NamedAt
<1>2. DOMAIN D[RootData].tab \subseteq Name
      /\ D[RootData].tab \in [DOMAIN D[RootData].tab -> Sector]
  BY FixedIs, TabsAre
<1>3. ASSUME NEW s \in Range(D[RootData].tab)
      PROVE  HasName(D, s) /\ s \in Sector /\ \E n \in Name : NamedAt(D, DirectorySector, n, s)
  <2>1. PICK n \in DOMAIN D[RootData].tab : D[RootData].tab[n] = s
    BY DEF Range
  <2>2. n \in Name /\ NamedAt(D, DirectorySector, n, s) /\ s \in Sector
    BY <1>1, <1>2, <2>1
  <2>3. DirectorySector \in Sector
    BY FixedIs
  <2> QED BY <2>2, <2>3 DEF HasName
<1> QED BY <1>1, <1>3

\* Each directory has a header that leads to its names.
LEMMA DirsAre ==
  ASSUME NEW D, NEW H, NEW V, Good(D, H, V), NEW d \in DirsOf(D)
  PROVE  /\ d \in Sector /\ DirAt(D, d) /\ D[d].secs # <<>>
         /\ D[d].secs[1] \in Sector /\ D[d].secs[1] \in Range(D[d].secs)
         /\ D[d].secs[1] \in SecsAt(D, d)
         /\ D[D[d].secs[1]].kind = "dir" /\ TabAt(D, d) \in Tabs
         /\ d = DirectorySector \/ (d \in H /\ d \notin V /\ HdrOK(D, d)
                                    /\ \E n \in Name : NamedAt(D, DirectorySector, n, d))
         /\ D[d] \in FileHeaders
<1>1. D \in [Sector -> Blocks] /\ FixedOK(D)
  BY DEF Good
<1>2. DirAt(D, d) /\ D[d].secs # <<>> /\ D[D[d].secs[1]].kind = "dir"
      /\ (d = DirectorySector \/ (d \in H /\ d \notin V /\ HdrOK(D, d)
                                    /\ \E n \in Name : NamedAt(D, DirectorySector, n, d)))
  <2>1. CASE d = DirectorySector
    BY <1>1, <2>1, FixedIs DEF FixedOK
  <2>2. CASE d # DirectorySector
    <3>1. d \in Range(D[RootData].tab) /\ DirAt(D, d)
      BY <2>2 DEF DirsOf
    <3>2. HasName(D, d) /\ d \in Sector /\ \E n \in Name : NamedAt(D, DirectorySector, n, d)
      BY <1>1, <3>1, RootNames
    <3>3. d \in H
      BY <3>2 DEF Good
    <3>4. D[d] # Data
      BY <3>1 DEF DirAt, HdrAt, Data
    <3>5. d \notin V /\ HdrOK(D, d)
      BY <3>3, <3>4 DEF Good, HeadsOK
    <3> QED BY <3>1, <3>2, <3>3, <3>5 DEF HdrOK, DirAt
  <2> QED BY <2>1, <2>2
<1>3. d \in Sector /\ D[d] \in FileHeaders /\ D[d].secs \in Seq(Sector) /\ Range(D[d].secs) \subseteq Sector
  BY <1>1, <1>2, DiskTyped DEF DirAt
<1>4. D[d].secs[1] \in Range(D[d].secs)
  BY <1>2, <1>3, SeqRange
<1>5. D[d].secs[1] \in Sector /\ D[d].secs[1] \in SecsAt(D, d)
  BY <1>2, <1>3, <1>4 DEF SecsAt, DirAt
<1>6. TabAt(D, d) \in Tabs
  BY <1>1, <1>2, <1>5, DiskTyped DEF TabAt
<1> QED BY <1>2, <1>3, <1>4, <1>5, <1>6

\* What a name leads to.
LEMMA NamesAre ==
  ASSUME NEW D, NEW H, NEW V, Good(D, H, V), NEW d, NEW n, NEW s, NamedAt(D, d, n, s)
  PROVE  /\ d \in Sector /\ n \in Name /\ s \in Sector /\ d \in DirsOf(D)
         /\ HasName(D, s) /\ s \in H /\ s \notin System
<1>1. d \in DirsOf(D) /\ n \in DOMAIN TabAt(D, d) /\ TabAt(D, d)[n] = s
  BY DEF NamedAt
<1>2. d \in Sector /\ TabAt(D, d) \in Tabs
  BY <1>1, DirsAre
<1>3. n \in Name /\ s \in Sector
  BY <1>1, <1>2, TabsAre
<1>4. HasName(D, s)
  BY <1>2, <1>3 DEF HasName
<1> QED BY <1>1, <1>2, <1>3, <1>4 DEF Good, HeadsOK

\* Two directories have their names in different sectors, and none of them
\* is the sector of a header.
LEMMA DirsApart ==
  ASSUME NEW D, NEW H, NEW V, Good(D, H, V), NEW d \in DirsOf(D)
  PROVE  /\ D[d].secs[1] \notin H
         /\ D[d].secs[1] \notin {FreeMapSector, DirectorySector, MapData}
         /\ d \notin {FreeMapSector, MapData, RootData}
         /\ \A e \in DirsOf(D) : D[e].secs[1] = D[d].secs[1] => e = d
<1>1. D \in [Sector -> Blocks] /\ FixedOK(D) /\ HeadsOK(D, H, V) /\ H \subseteq Sector
  BY DEF Good
<1>2. ASSUME NEW e \in DirsOf(D), NEW s \in Sector, s = D[e].secs[1]
      PROVE  /\ s \notin H /\ s \notin {FreeMapSector, DirectorySector, MapData}
             /\ e \notin {FreeMapSector, MapData, RootData}
             /\ e # DirectorySector => s \notin System /\ e \in H /\ s \in SecsAt(D, e)
  <2>1. CASE e = DirectorySector
    <3>1. s = RootData /\ RootData \in System
      BY <1>1, <1>2, <2>1, FixedIs
    <3>2. RootData \notin H
      BY <1>1, <3>1 DEF HeadsOK
    <3>3. RootData \notin {FreeMapSector, DirectorySector, MapData}
          /\ DirectorySector \notin {FreeMapSector, MapData, RootData}
      BY DEF RootData, FreeMapSector, DirectorySector, MapData
    <3> QED BY <2>1, <3>1, <3>2, <3>3
  <2>2. CASE e # DirectorySector
    <3>1. e \in H /\ HdrOK(D, e) /\ s \in Range(D[e].secs) /\ s \in SecsAt(D, e)
      BY <1>2, <2>2, DirsAre
    <3>2. s \notin System /\ s # e /\ e \notin System
      BY <1>1, <3>1 DEF HdrOK, HeadsOK
    <3>3. s \notin H
      <4>1. SUFFICES ASSUME s \in H PROVE FALSE
        OBVIOUS
      <4>2. s \in SecsAt(D, s)
        BY <1>1, DiskTyped
      <4> QED BY <1>1, <3>1, <3>2, <4>1, <4>2 DEF HeadsOK
    <3> QED BY <1>1, <2>2, <3>1, <3>2, <3>3, FixedIs
  <2> QED BY <2>1, <2>2
<1>3. d \in Sector /\ D[d].secs[1] \in Sector
  BY DirsAre
<1>4. ASSUME NEW e \in DirsOf(D), D[e].secs[1] = D[d].secs[1] PROVE e = d
  <2>1. PICK s \in Sector : s = D[d].secs[1] /\ s = D[e].secs[1]
    BY <1>3, <1>4
  <2>2. CASE e # DirectorySector /\ d # DirectorySector
    <3>1. e \in H /\ d \in H /\ s \in SecsAt(D, e) /\ s \in SecsAt(D, d)
      BY <1>2, <2>1, <2>2
    <3> QED BY <1>1, <3>1 DEF HeadsOK
  <2>3. D[DirectorySector].secs[1] = RootData /\ RootData \in System
    BY <1>1, FixedIs
  <2>4. CASE e = DirectorySector /\ d # DirectorySector
    BY <1>2, <2>1, <2>3, <2>4
  <2>5. CASE e # DirectorySector /\ d = DirectorySector
    BY <1>2, <2>1, <2>3, <2>5
  <2> QED BY <2>2, <2>4, <2>5
<1> QED BY <1>2, <1>3, <1>4

-----------------------------------------------------------------------------
(* What writes do to names *)

\* A write leaves all names alone that changes no directory, but for empty
\* ones that it wipes out.
LEMMA SameNames ==
  ASSUME NEW D, NEW H, NEW V, Good(D, H, V), NEW E,
         E[DirectorySector] = D[DirectorySector], E[RootData] = D[RootData],
         \A s \in H : DirAt(E, s) => E[s] = D[s],
         \A d \in DirsOf(D) : DirAt(E, d) =>
            E[D[d].secs[1]].tab = D[D[d].secs[1]].tab,
         \A d \in DirsOf(D) : ~DirAt(E, d) => DOMAIN TabAt(D, d) = {}
  PROVE  /\ DirsOf(E) = {d \in DirsOf(D) : DirAt(E, d)}
         /\ \A d \in DirsOf(E) : TabAt(E, d) = TabAt(D, d)
         /\ \A d, n, s : NamedAt(E, d, n, s) <=> NamedAt(D, d, n, s)
         /\ \A s : HasName(E, s) <=> HasName(D, s)
         /\ \A p, d, n : Leads(E, p, d, n) <=> Leads(D, p, d, n)
<1>1. D \in [Sector -> Blocks] /\ FixedOK(D) /\ DirAt(E, DirectorySector)
  BY FixedIs DEF Good, DirAt, HdrAt
<1>2. \A s \in Range(D[RootData].tab) : s \in H
  BY <1>1, RootNames DEF Good
<1>3. DirsOf(E) = {d \in DirsOf(D) : DirAt(E, d)}
  <2>1. ASSUME NEW d, d # DirectorySector
        PROVE  d \in DirsOf(E) <=> d \in DirsOf(D) /\ DirAt(E, d)
    <3>1. d \in DirsOf(E) <=> d \in Range(D[RootData].tab) /\ DirAt(E, d)
      BY <2>1 DEF DirsOf
    <3>2. d \in DirsOf(D) <=> d \in Range(D[RootData].tab) /\ DirAt(D, d)
      BY <2>1 DEF DirsOf
    <3>3. d \in Range(D[RootData].tab) /\ DirAt(E, d) => DirAt(D, d)
      BY <1>2 DEF DirAt, HdrAt
    <3> QED BY <3>1, <3>2, <3>3
  <2>2. DirectorySector \in DirsOf(E) /\ DirectorySector \in DirsOf(D)
    BY DEF DirsOf
  <2> QED BY <1>1, <2>1, <2>2
<1>4. ASSUME NEW d \in DirsOf(E) PROVE TabAt(E, d) = TabAt(D, d)
  <2>1. d \in DirsOf(D) /\ DirAt(E, d)
    BY <1>3
  <2>2. E[d] = D[d]
    BY <2>1, DirsAre
  <2> QED BY <2>1, <2>2 DEF TabAt
<1>5. ASSUME NEW d, NEW n, NEW s PROVE NamedAt(E, d, n, s) <=> NamedAt(D, d, n, s)
  <2>1. CASE d \in DirsOf(E)
    BY <1>3, <1>4, <2>1 DEF NamedAt
  <2>2. CASE d \notin DirsOf(E)
    BY <1>3, <2>2 DEF NamedAt
  <2> QED BY <2>1, <2>2
<1> QED BY <1>3, <1>4, <1>5 DEF HasName, Leads

\* One sector is written.
Put(D, b, what) == [r \in Sector |-> IF r = b THEN what ELSE D[r]]

\* A directory is written back with other names.
LEMMA OtherNames ==
  ASSUME NEW D, NEW H, NEW V, Good(D, H, V), NEW c \in DirsOf(D), NEW tab,
         NEW E, E = Put(D, D[c].secs[1], Dir(tab))
  PROVE  /\ \A s \in Sector : s # D[c].secs[1] => E[s] = D[s]
         /\ E[D[c].secs[1]].tab = tab /\ E[D[c].secs[1]].kind = "dir"
         /\ \A s \in H : E[s] = D[s]
         /\ \A d \in DirsOf(D) : TabAt(E, d) = IF d = c THEN tab ELSE TabAt(D, d)
         /\ \A s : DirAt(E, s) <=> DirAt(D, s)
         /\ E[RootData].tab = IF c = DirectorySector THEN tab ELSE D[RootData].tab
<1>1. D \in [Sector -> Blocks] /\ FixedOK(D) /\ H \subseteq Sector
  BY DEF Good
<1>2. PICK b \in Sector : b = D[c].secs[1]
  BY DirsAre
<1>3. /\ b \notin H /\ b \notin {FreeMapSector, DirectorySector, MapData}
      /\ \A e \in DirsOf(D) : D[e].secs[1] = b => e = c
  BY <1>2, DirsApart
<1>4. \A s \in Sector : s # b => E[s] = D[s]
  BY <1>2 DEF Put
<1>5. E[b].tab = tab /\ E[b].kind = "dir"
  BY <1>2 DEF Dir, Put
<1>6. \A s \in H : E[s] = D[s]
  BY <1>1, <1>3, <1>4
<1>7. ASSUME NEW d \in DirsOf(D) PROVE TabAt(E, d) = IF d = c THEN tab ELSE TabAt(D, d)
  <2>1. E[d] = D[d]
    BY <1>3, <1>4, <1>6, DirsAre
  <2>2. CASE d = c
    BY <1>2, <1>5, <2>1, <2>2 DEF TabAt
  <2>3. CASE d # c
    <3>1. D[d].secs[1] \in Sector
      BY DirsAre
    <3> QED BY <1>3, <1>4, <2>1, <2>3, <3>1 DEF TabAt
  <2> QED BY <2>2, <2>3
<1>8. D[b].kind = "dir"
  BY <1>2, DirsAre
<1>9. ASSUME NEW s PROVE DirAt(E, s) <=> DirAt(D, s)
  <2>1. CASE s = b
    BY <1>5, <1>8, <2>1 DEF DirAt, HdrAt
  <2>2. CASE s # b
    BY <1>4, <2>2 DEF DirAt, HdrAt
  <2> QED BY <2>1, <2>2
<1>10. E[RootData].tab = IF c = DirectorySector THEN tab ELSE D[RootData].tab
  <2>1. D[DirectorySector].secs[1] = RootData /\ DirectorySector \in DirsOf(D)
    BY <1>1, FixedIs
  <2>2. CASE c = DirectorySector
    BY <1>2, <1>5, <2>1, <2>2
  <2>3. CASE c # DirectorySector
    <3>1. RootData \in Sector
      BY Sectors DEF System
    <3> QED BY <1>3, <1>4, <2>1, <2>3, <3>1
  <2> QED BY <2>2, <2>3
<1> QED BY <1>2, <1>4, <1>5, <1>6, <1>7, <1>9, <1>10

\* If there is a directory at x, it is empty, and not the one at b.
NoNames(D, x, b) ==
  DirAt(D, x) => D[x].secs[1] \in Sector \ {b} /\ D[D[x].secs[1]] = Dir(Empty)

\* A file or an empty directory gets a name.
LEMMA NameAdded ==
  ASSUME NEW D, NEW H, NEW V, Good(D, H, V), NEW c \in DirsOf(D),
         NEW n \in Name, n \notin DOMAIN TabAt(D, c), NEW x \in Sector, x \notin H, x \notin System,
         NoNames(D, x, D[c].secs[1]),
         NEW E, E = Put(D, D[c].secs[1], Dir(AddName(TabAt(D, c), n, x)))
  PROVE  /\ DirsOf(D) \subseteq DirsOf(E)
         /\ \A d, m, s : NamedAt(E, d, m, s) <=>
              NamedAt(D, d, m, s) \/ (d = c /\ m = n /\ s = x)
         /\ \A s : HasName(E, s) <=> HasName(D, s) \/ s = x
<1>1. D \in [Sector -> Blocks] /\ FixedOK(D) /\ H \subseteq Sector
  BY DEF Good
<1>2. TabAt(D, c) \in Tabs /\ c \in Sector
  BY DirsAre
<1>0. PICK tab : tab = AddName(TabAt(D, c), n, x)
  OBVIOUS
<1>14. /\ AddName(TabAt(D, c), n, x) \in Tabs
       /\ DOMAIN AddName(TabAt(D, c), n, x) = DOMAIN TabAt(D, c) \cup {n}
       /\ AddName(TabAt(D, c), n, x)[n] = x
       /\ \A m \in DOMAIN TabAt(D, c) \ {n} : AddName(TabAt(D, c), n, x)[m] = TabAt(D, c)[m]
  <2>1. PICK old \in Tabs : old = TabAt(D, c)
    BY <1>2
  <2>2. /\ AddName(old, n, x) \in Tabs /\ DOMAIN AddName(old, n, x) = DOMAIN old \cup {n}
        /\ AddName(old, n, x)[n] = x
        /\ \A m \in DOMAIN old \ {n} : AddName(old, n, x)[m] = old[m]
    BY AddNameIs
  <2> QED BY <2>1, <2>2
<1>3. /\ DOMAIN tab = DOMAIN TabAt(D, c) \cup {n} /\ tab[n] = x
      /\ \A m \in DOMAIN TabAt(D, c) \ {n} : tab[m] = TabAt(D, c)[m]
  BY <1>0, <1>14
<1>11. E = Put(D, D[c].secs[1], Dir(tab))
  BY <1>0
<1>13. /\ \A s \in Sector : s # D[c].secs[1] => E[s] = D[s]
       /\ E[D[c].secs[1]].tab = tab /\ E[D[c].secs[1]].kind = "dir"
       /\ \A s \in H : E[s] = D[s]
       /\ \A d \in DirsOf(D) : TabAt(E, d) = IF d = c THEN tab ELSE TabAt(D, d)
       /\ \A s : DirAt(E, s) <=> DirAt(D, s)
       /\ E[RootData].tab = IF c = DirectorySector THEN tab ELSE D[RootData].tab
  BY <1>11, OtherNames
<1>4. /\ \A s \in Sector : s # D[c].secs[1] => E[s] = D[s]
      /\ \A d \in DirsOf(D) : TabAt(E, d) = IF d = c THEN tab ELSE TabAt(D, d)
      /\ \A s : DirAt(E, s) <=> DirAt(D, s)
      /\ E[RootData].tab = IF c = DirectorySector THEN tab ELSE D[RootData].tab
  BY <1>13
<1>5. TabAt(D, DirectorySector) = D[RootData].tab
  BY <1>1, FixedIs
<1>6. Range(tab) = Range(TabAt(D, c)) \cup {x}
  BY <1>3 DEF Range
<1>7. DirsOf(E) = DirsOf(D) \cup {s \in {x} : c = DirectorySector /\ DirAt(D, x)}
  <2>1. CASE c = DirectorySector
    <3>1. Range(E[RootData].tab) = Range(D[RootData].tab) \cup {x}
      BY <1>4, <1>5, <1>6, <2>1
    <3> QED BY <1>4, <2>1, <3>1 DEF DirsOf
  <2>2. CASE c # DirectorySector
    BY <1>4, <2>2 DEF DirsOf
  <2> QED BY <2>1, <2>2
<1>8. ASSUME DirAt(D, x) PROVE TabAt(E, x) = TabAt(D, x) /\ DOMAIN TabAt(E, x) = {}
  <2>1. D[x].secs[1] \in Sector /\ TabAt(D, x) = Empty
    BY <1>8 DEF NoNames, TabAt, Dir
  <2>2. DOMAIN Empty = {}
    BY DEF Empty
  <2>3. D[x].secs[1] # D[c].secs[1]
    BY <1>8 DEF NoNames
  <2>4. x # D[c].secs[1]
    <3>1. D[D[c].secs[1]].kind = "dir"
      BY DirsAre
    <3> QED BY <1>8, <3>1 DEF DirAt, HdrAt
  <2> QED BY <1>4, <1>8, <2>1, <2>2, <2>3, <2>4 DEF TabAt
<1>9. ASSUME NEW d, NEW m, NEW s
      PROVE  NamedAt(E, d, m, s) <=> NamedAt(D, d, m, s) \/ (d = c /\ m = n /\ s = x)
  <2>1. CASE d \in DirsOf(D) /\ d # c
    BY <1>4, <1>7, <2>1 DEF NamedAt
  <2>2. CASE d = c
    <3>1. TabAt(E, c) = tab /\ c \in DirsOf(E)
      BY <1>4, <1>7
    <3>2. NamedAt(E, c, m, s) <=> m \in DOMAIN tab /\ tab[m] = s
      BY <3>1 DEF NamedAt
    <3>3. NamedAt(D, c, m, s) <=> m \in DOMAIN TabAt(D, c) /\ TabAt(D, c)[m] = s
      BY DEF NamedAt
    <3>4. CASE m = n
      BY <1>3, <2>2, <3>2, <3>3, <3>4
    <3>5. CASE m # n
      BY <1>3, <2>2, <3>2, <3>3, <3>5
    <3> QED BY <3>4, <3>5
  <2>3. CASE d \notin DirsOf(D)
    BY <1>7, <1>8, <2>3 DEF NamedAt
  <2> QED BY <2>1, <2>2, <2>3
<1>10. ASSUME NEW s PROVE HasName(E, s) <=> HasName(D, s) \/ s = x
  BY <1>2, <1>9 DEF HasName
<1> QED BY <1>7, <1>9, <1>10

\* A name is taken away; if it is that of a directory, the names in there go
\* with it.
LEMMA NameDropped ==
  ASSUME NEW D, NEW H, NEW V, Good(D, H, V), NamesApart(D), NEW c \in DirsOf(D),
         NEW n, NEW x, NamedAt(D, c, n, x),
         NEW E, E = Put(D, D[c].secs[1], Dir(RemoveName(TabAt(D, c), n)))
  PROVE  /\ DirsOf(E) = DirsOf(D) \ {x}
         /\ \A d, m, s : NamedAt(E, d, m, s) <=>
              NamedAt(D, d, m, s) /\ ~(d = c /\ m = n) /\ d # x
<1>1. D \in [Sector -> Blocks] /\ FixedOK(D) /\ H \subseteq Sector
  BY DEF Good
<1>2. TabAt(D, c) \in Tabs /\ c \in Sector
  BY DirsAre
<1>0. PICK tab : tab = RemoveName(TabAt(D, c), n)
  OBVIOUS
<1>3. /\ DOMAIN tab = DOMAIN TabAt(D, c) \ {n}
      /\ \A m \in DOMAIN TabAt(D, c) \ {n} : tab[m] = TabAt(D, c)[m]
  BY <1>0, <1>2, RemoveNameIs
<1>12. E = Put(D, D[c].secs[1], Dir(tab))
  BY <1>0
<1>13. /\ \A s \in Sector : s # D[c].secs[1] => E[s] = D[s]
       /\ E[D[c].secs[1]].tab = tab /\ E[D[c].secs[1]].kind = "dir"
       /\ \A s \in H : E[s] = D[s]
       /\ \A d \in DirsOf(D) : TabAt(E, d) = IF d = c THEN tab ELSE TabAt(D, d)
       /\ \A s : DirAt(E, s) <=> DirAt(D, s)
       /\ E[RootData].tab = IF c = DirectorySector THEN tab ELSE D[RootData].tab
  BY <1>12, OtherNames
<1>4. /\ \A d \in DirsOf(D) : TabAt(E, d) = IF d = c THEN tab ELSE TabAt(D, d)
      /\ \A s : DirAt(E, s) <=> DirAt(D, s)
      /\ E[RootData].tab = IF c = DirectorySector THEN tab ELSE D[RootData].tab
  BY <1>13
<1>5. TabAt(D, DirectorySector) = D[RootData].tab
  BY <1>1, FixedIs
<1>6. x \in Sector /\ n \in Name /\ x \notin System /\ TabAt(D, c)[n] = x /\ n \in DOMAIN TabAt(D, c)
  BY NamesAre DEF NamedAt
<1>7. \A d, m : NamedAt(D, d, m, x) => d = c /\ m = n
  <2> SUFFICES ASSUME NEW d, NEW m, NamedAt(D, d, m, x) PROVE d = c /\ m = n
    OBVIOUS
  <2>1. d \in Sector /\ m \in Name /\ c \in Sector
    BY NamesAre
  <2> QED BY <1>6, <2>1 DEF NamesApart
<1>8. DirectorySector \in System
  BY <1>1, FixedIs
<1>9. DirsOf(E) = DirsOf(D) \ {x}
  <2>1. CASE c = DirectorySector
    <3>1. Range(tab) = Range(TabAt(D, c)) \ {x}
      <4>1. \A m \in DOMAIN TabAt(D, c) : TabAt(D, c)[m] = x => m = n
        BY <1>7 DEF NamedAt
      <4>2. \A s \in Range(tab) : s \in Range(TabAt(D, c)) /\ s # x
        BY <1>3, <4>1 DEF Range
      <4>3. \A s \in Range(TabAt(D, c)) : s # x => s \in Range(tab)
        BY <1>3, <1>6 DEF Range
      <4> QED BY <4>2, <4>3
    <3>2. Range(E[RootData].tab) = Range(D[RootData].tab) \ {x}
      BY <1>4, <1>5, <2>1, <3>1
    <3> QED BY <1>4, <1>6, <1>8, <3>2 DEF DirsOf
  <2>2. CASE c # DirectorySector
    <3>1. DirsOf(E) = DirsOf(D)
      BY <1>4, <2>2 DEF DirsOf
    <3>2. x \notin DirsOf(D)
      <4>1. SUFFICES ASSUME x \in DirsOf(D) PROVE FALSE
        OBVIOUS
      <4>2. PICK m \in Name : NamedAt(D, DirectorySector, m, x)
        BY <1>6, <1>8, <4>1, DirsAre
      <4> QED BY <1>7, <2>2, <4>2
    <3> QED BY <3>1, <3>2
  <2> QED BY <2>1, <2>2
<1>10. c # x
  <2>1. SUFFICES ASSUME c = x PROVE FALSE
    OBVIOUS
  <2>2. PICK m \in Name : NamedAt(D, DirectorySector, m, c)
    BY <1>6, <1>8, <2>1, DirsAre
  <2>3. c = DirectorySector
    BY <1>7, <2>1, <2>2
  <2> QED BY <1>6, <1>8, <2>1, <2>3
<1>11. ASSUME NEW d, NEW m, NEW s
       PROVE  NamedAt(E, d, m, s) <=> NamedAt(D, d, m, s) /\ ~(d = c /\ m = n) /\ d # x
  <2>1. CASE d \in DirsOf(D) /\ d # c
    BY <1>4, <1>9, <2>1 DEF NamedAt
  <2>2. CASE d = c
    <3>1. TabAt(E, c) = tab /\ c \in DirsOf(E)
      BY <1>4, <1>9, <1>10
    <3>2. NamedAt(E, c, m, s) <=> m \in DOMAIN tab /\ tab[m] = s
      BY <3>1 DEF NamedAt
    <3>3. NamedAt(D, c, m, s) <=> m \in DOMAIN TabAt(D, c) /\ TabAt(D, c)[m] = s
      BY DEF NamedAt
    <3> QED BY <1>3, <1>10, <2>2, <3>2, <3>3
  <2>3. CASE d \notin DirsOf(D)
    BY <1>9, <2>3 DEF NamedAt
  <2> QED BY <2>1, <2>2, <2>3
<1> QED BY <1>9, <1>11

-----------------------------------------------------------------------------
(* What a change of the disk, the table or the handles leaves true *)

Typed(D, T, F, L) ==
  /\ D \in [Sector -> Blocks] /\ T \in [Slot -> OFTEntries \cup {NULL}]
  /\ F \in [Fid -> OpenFiles \cup {NULL}] /\ L \subseteq Sector

\* The heads are good, and what the table and the handles have is typed.
LEMMA InvIs ==
  ASSUME NEW D, NEW T, NEW F, NEW L, NEW V, NEW P, NEW R,
         Typed(D, T, F, L), DiskInv(D, T, F, L, V, P, R)
  PROVE  /\ D \in [Sector -> Blocks] /\ Good(D, Heads(D, T), V) /\ Heads(D, T) \subseteq Sector
         /\ \A s \in Heads(D, T) : SecsAt(D, s) \subseteq Sector /\ s \in SecsAt(D, s)
         /\ \A i \in Slot : T[i] # NULL =>
              /\ T[i] \in OFTEntries /\ T[i].sector \in Heads(D, T) /\ T[i].sector \notin V
              /\ HdrAt(D, T[i].sector) /\ EntryOK(D, L, R, T[i]) /\ T[i].name \in Path
              /\ HdrOK(D, T[i].sector)
         /\ \A f \in Fid : F[f] # NULL =>
              /\ F[f] \in OpenFiles /\ Mine(F[f]) \subseteq Sector /\ F[f].sector \in Sector
              /\ F[f].hdr.secs \in Seq(Sector)
              /\ F[f].path \in Path /\ F[f].sector \in Heads(D, T)
              /\ EntryFor(T, L, F[f]) /\ HandleOK(D, Heads(D, T), P, F[f])
         /\ \A s \in Heads(D, T) : s \notin V => HdrOK(D, s) /\ HdrAt(D, s)
         /\ \A s \in Sector : HasName(D, s) => s \in Heads(D, T)
<1>1. /\ D \in [Sector -> Blocks] /\ T \in [Slot -> OFTEntries \cup {NULL}]
      /\ F \in [Fid -> OpenFiles \cup {NULL}]
  BY DEF Typed
<1>2. /\ FixedOK(D) /\ HeadsOK(D, Heads(D, T), V) /\ TableOK(D, T, L, R)
      /\ HandlesOK(D, T, F, P, L)
  BY DEF DiskInv
<1>3. Heads(D, T) \subseteq Sector /\ \A s \in Sector : HasName(D, s) => s \in Heads(D, T)
  BY DEF Heads
<1>4. Good(D, Heads(D, T), V)
  BY <1>1, <1>2, <1>3 DEF Good
<1>5. \A s \in Heads(D, T) : SecsAt(D, s) \subseteq Sector /\ s \in SecsAt(D, s)
  BY <1>1, <1>3, DiskTyped
<1>6. \A s \in Heads(D, T) : s \notin V => HdrOK(D, s) /\ HdrAt(D, s)
  BY <1>2 DEF HeadsOK, HdrOK
<1>7. ASSUME NEW i \in Slot, T[i] # NULL
      PROVE  /\ T[i] \in OFTEntries /\ T[i].sector \in Heads(D, T) /\ T[i].sector \notin V
             /\ HdrAt(D, T[i].sector) /\ EntryOK(D, L, R, T[i]) /\ T[i].name \in Path
             /\ HdrOK(D, T[i].sector)
  <2>1. T[i] \in OFTEntries
    BY <1>1, <1>7
  <2>2. T[i].sector \in Sector /\ T[i].name \in Path
    BY <2>1, EntriesTyped
  <2>3. T[i].sector \in Heads(D, T)
    BY <1>7, <2>2 DEF Heads, Held
  <2>4. EntryOK(D, L, R, T[i])
    BY <1>2, <1>7 DEF TableOK
  <2>5. HdrAt(D, T[i].sector)
    BY <2>4 DEF EntryOK
  <2>6. T[i].sector \notin V
    BY <1>2, <2>3, <2>5 DEF HeadsOK, HdrAt, Data
  <2> QED BY <1>6, <2>1, <2>2, <2>3, <2>4, <2>5, <2>6
<1>8. ASSUME NEW f \in Fid, F[f] # NULL
      PROVE  /\ F[f] \in OpenFiles /\ Mine(F[f]) \subseteq Sector /\ F[f].sector \in Sector
             /\ F[f].hdr.secs \in Seq(Sector)
             /\ F[f].path \in Path /\ F[f].sector \in Heads(D, T)
             /\ EntryFor(T, L, F[f]) /\ HandleOK(D, Heads(D, T), P, F[f])
  <2>1. F[f] \in OpenFiles
    BY <1>1, <1>8
  <2>2. F[f].path \in Path /\ F[f].sector \in Sector /\ F[f].hdr \in FileHeaders
    BY <2>1, EntriesTyped
  <2>3. F[f].hdr.secs \in Seq(Sector)
    BY <2>2 DEF FileHeaders
  <2>4. Mine(F[f]) \subseteq Sector
    BY <2>2, <2>3, SeqRange DEF Mine
  <2>5. EntryFor(T, L, F[f]) /\ HandleOK(D, Heads(D, T), P, F[f])
    BY <1>2, <1>8 DEF HandlesOK
  <2>6. F[f].sector \in Heads(D, T)
    <3>1. PICK i \in Slot : T[i] # NULL /\ T[i].sector = F[f].sector
      BY <2>5 DEF EntryFor
    <3> QED BY <1>7, <3>1
  <2> QED BY <2>1, <2>2, <2>3, <2>4, <2>5, <2>6
<1> QED BY <1>1, <1>3, <1>4, <1>5, <1>6, <1>7, <1>8

\* what a write to the disk must keep of the names, the headers and the marks
NamesGo(D, E, R, S) ==
  \A d \in Sector, n \in Name, s \in Sector : NamedAt(E, d, n, s) =>
    /\ NamedAt(D, d, n, s)
    /\ \A p \in Path : Leads(D, p, d, n) => Leads(E, p, d, n) /\ (p \in R => p \in S)
HeadersStay(D, E, K, V, W) ==
  \A s \in K : IF s \in W THEN E[s] = Data
               ELSE /\ s \notin V /\ E[s] = D[s]
                    /\ D[s].isdir => E[D[s].secs[1]].kind = "dir"
MarksStay(D, E, X, P, Q) == \A x \in X : x \in UsedIn(D) \cup P => x \in UsedIn(E) \cup Q

\* The header of a file that is written back as it was.
LEMMA SameHeader ==
  ASSUME NEW D, NEW E, NEW s, E[s] = D[s]
  PROVE  /\ HdrAt(E, s) <=> HdrAt(D, s)
         /\ SecsAt(E, s) = SecsAt(D, s)
         /\ HdrOK(D, s) /\ (D[s].isdir => E[D[s].secs[1]].kind = "dir") => HdrOK(E, s)
BY DEF HdrAt, SecsAt, HdrOK

\* what a sector that is no longer lost is none of
Forgiven(D, T, F, L, M) ==
  /\ M \subseteq L
  /\ \A x \in L \ M : /\ \A i \in Slot : T[i] # NULL => x \notin SecsAt(D, T[i].sector)
                      /\ \A f \in Fid : F[f] # NULL => x \notin Mine(F[f])
\* what files and handles have stays marked
KeepsMarks(D, E, T, F, P, Q) ==
  /\ \A s \in Heads(E, T) : MarksStay(D, E, SecsAt(E, s), P, Q)
  /\ \A f \in Fid : F[f] # NULL => MarksStay(D, E, Mine(F[f]), P, Q)
NotHeld(T, W) == \A i \in Slot : T[i] # NULL => T[i].sector \notin W

\* A change of the disk that gives no file a name or a sector.
LEMMA DiskStep ==
  ASSUME NEW D, NEW T, NEW F, NEW L, NEW V, NEW P, NEW R,
         Typed(D, T, F, L), DiskInv(D, T, F, L, V, P, R),
         NEW E, NEW M, NEW W, NEW Q, NEW S, FixedOK(E), NamesGo(D, E, R, S),
         HeadersStay(D, E, Heads(E, T), V, W), NotHeld(T, W),
         KeepsMarks(D, E, T, F, P, Q), Forgiven(D, T, F, L, M), LeaksOK(E, Owners(E, T), M)
  PROVE  DiskInv(E, T, F, M, W, Q, S)
<1> DEFINE H == Heads(D, T)
           K == Heads(E, T)
<1>1. /\ FixedOK(D) /\ HeadsOK(D, H, V) /\ NamesApart(D)
      /\ MarksOK(D, H, P) /\ TableOK(D, T, L, R) /\ HandlesOK(D, T, F, P, L)
  BY DEF DiskInv
<1>2. /\ H \subseteq Sector
      /\ \A s \in H : s \notin V => HdrOK(D, s) /\ HdrAt(D, s)
      /\ \A s \in H : SecsAt(D, s) \subseteq Sector /\ s \in SecsAt(D, s)
  BY InvIs
<1>3. K \subseteq H
  <2>1. ASSUME NEW s \in Sector, HasName(E, s) PROVE HasName(D, s)
    BY <2>1 DEF HasName, NamesGo
  <2> QED BY <2>1 DEF Heads
<1>4. K \subseteq Sector
  BY DEF Heads
<1> HIDE DEF H, K
<1>5. \A s \in K : s \notin W => /\ s \notin V /\ E[s] = D[s]
                                 /\ D[s].isdir => E[D[s].secs[1]].kind = "dir"
  BY DEF HeadersStay, K
<1>6. \A s \in K : s \in W => E[s] = Data
  BY DEF HeadersStay, K
<1>7. \A s \in K : SecsAt(E, s) \subseteq SecsAt(D, s)
  <2> SUFFICES ASSUME NEW s \in K PROVE SecsAt(E, s) \subseteq SecsAt(D, s)
    OBVIOUS
  <2>1. CASE s \in W
    BY <1>2, <1>3, <1>6, <2>1 DEF SecsAt, HdrAt, Data
  <2>2. CASE s \notin W
    BY <1>5, <2>2, SameHeader
  <2> QED BY <2>1, <2>2
<1>8. \A s \in K : s \notin W => HdrOK(E, s)
  <2> SUFFICES ASSUME NEW s \in K, s \notin W PROVE HdrOK(E, s)
    OBVIOUS
  <2>1. HdrOK(D, s)
    BY <1>2, <1>3, <1>5
  <2> QED BY <1>5, <2>1, SameHeader
<1>9. HeadsOK(E, K, W)
  <2>1. K \cap System = {}
    BY <1>1, <1>3 DEF HeadsOK
  <2>2. ASSUME NEW s \in K, NEW r \in K, s # r PROVE SecsAt(E, s) \cap SecsAt(E, r) = {}
    <3>1. SecsAt(D, s) \cap SecsAt(D, r) = {}
      BY <1>1, <1>3, <2>2 DEF HeadsOK
    <3> QED BY <1>7, <3>1
  <2> QED BY <1>6, <1>8, <2>1, <2>2 DEF HeadsOK
<1>10. NamesApart(E)
  BY <1>1 DEF NamesApart, NamesGo
<1>11. MarksOK(E, K, Q)
  <2> SUFFICES ASSUME NEW s \in K, NEW x \in SecsAt(E, s) PROVE x \in UsedIn(E) \cup Q
    BY DEF MarksOK
  <2>1. x \in UsedIn(D) \cup P
    BY <1>1, <1>3, <1>7 DEF MarksOK
  <2> QED BY <2>1 DEF KeepsMarks, MarksStay, K
<1>12. TableOK(E, T, M, S)
  <2>1. ASSUME NEW i \in Slot, T[i] # NULL PROVE EntryOK(E, M, S, T[i])
    <3> DEFINE e == T[i]
               s == e.sector
    <3>1. /\ e.name \in Path /\ s \in Sector
          /\ EntryOK(D, L, R, e)
      BY <1>2, <2>1, InvIs DEF H
    <3>2. s \in K /\ s \notin W
      BY <2>1, <3>1 DEF Heads, Held, NotHeld, K
    <3>3. E[s] = D[s] /\ (HdrAt(E, s) <=> HdrAt(D, s))
      BY <1>5, <3>2, SameHeader
    <3>4. ~E[s].isdir /\ HdrAt(E, s) /\ Range(e.file.secs) \subseteq Range(E[s].secs)
      BY <3>1, <3>3 DEF EntryOK
    <3>5. Range(E[s].secs) \subseteq Range(e.file.secs) \cup M
      <4> SUFFICES ASSUME NEW x \in Range(E[s].secs), x \notin Range(e.file.secs) PROVE x \in M
        OBVIOUS
      <4>1. x \in L
        BY <3>1, <3>3 DEF EntryOK
      <4>2. x \in SecsAt(D, s)
        BY <3>1, <3>3 DEF EntryOK, SecsAt
      <4> QED BY <2>1, <4>1, <4>2 DEF Forgiven
    <3>6. ASSUME NEW d \in Sector, NEW n \in Name, NamedAt(E, d, n, s)
          PROVE  Leads(E, e.name, d, n) /\ (e.ToBeDeleted => e.name \in S)
      <4>1. NamedAt(D, d, n, s)
        BY <3>1, <3>6 DEF NamesGo
      <4>2. Leads(D, e.name, d, n) /\ (e.ToBeDeleted => e.name \in R)
        BY <3>1, <4>1 DEF EntryOK
      <4> QED BY <3>1, <3>6, <4>2 DEF NamesGo
    <3> QED BY <3>4, <3>5, <3>6 DEF EntryOK
  <2> QED BY <1>1, <2>1 DEF TableOK
<1>13. HandlesOK(E, T, F, Q, M)
  <2>1. ASSUME NEW f \in Fid, F[f] # NULL
        PROVE  EntryFor(T, M, F[f]) /\ HandleOK(E, K, Q, F[f])
    <3>1. EntryFor(T, L, F[f]) /\ HandleOK(D, H, P, F[f])
      BY <2>1, InvIs DEF H
    <3>2. EntryFor(T, M, F[f])
      <4>1. \A x \in Range(F[f].hdr.secs) : x \in L => x \in M
        BY <2>1 DEF Forgiven, Mine
      <4> QED BY <3>1, <4>1 DEF EntryFor
    <3>3. Mine(F[f]) \subseteq UsedIn(E) \cup Q
      BY <2>1, <3>1 DEF HandleOK, KeepsMarks, MarksStay
    <3>4. \A r \in K : r # F[f].sector => Mine(F[f]) \cap SecsAt(E, r) = {}
      BY <1>3, <1>7, <3>1 DEF HandleOK
    <3> QED BY <3>1, <3>2, <3>3, <3>4 DEF HandleOK
  <2> QED BY <1>1, <2>1 DEF HandlesOK, K
<1> QED BY <1>9, <1>10, <1>11, <1>12, <1>13 DEF DiskInv, K

\* entries of U are entries of T, marked for deletion only when S tells
EntriesGo(T, U, R, S) ==
  \A i \in Slot : U[i] # NULL =>
    /\ T[i] # NULL /\ U[i].name = T[i].name /\ U[i].sector = T[i].sector
    /\ U[i].file = T[i].file
    /\ U[i].ToBeDeleted => U[i].name \in S \/ (T[i].ToBeDeleted /\ R \subseteq S)
\* handles of G are handles of F, and their entries are in U
HandlesGo(T, U, F, G) ==
  \A f \in Fid : G[f] # NULL =>
    /\ G[f] = F[f]
    /\ \A i \in Slot : T[i] # NULL /\ T[i].name = F[f].path => U[i] # NULL

\* A change of the table that gives no file an entry or a handle.
LEMMA TableStep ==
  ASSUME NEW D, NEW T, NEW F, NEW L, NEW V, NEW P, NEW R,
         Typed(D, T, F, L), DiskInv(D, T, F, L, V, P, R),
         NEW U, NEW G, NEW M, NEW S, EntriesGo(T, U, R, S), HandlesGo(T, U, F, G),
         L \subseteq M, LeaksOK(D, Owners(D, U), M)
  PROVE  DiskInv(D, U, G, M, V, P, S)
<1> DEFINE H == Heads(D, T)
           K == Heads(D, U)
<1>1. /\ FixedOK(D) /\ HeadsOK(D, H, V) /\ NamesApart(D)
      /\ MarksOK(D, H, P) /\ TableOK(D, T, L, R) /\ HandlesOK(D, T, F, P, L)
  BY DEF DiskInv
<1>2. K \subseteq H
  BY DEF Heads, Held, EntriesGo
<1> HIDE DEF H, K
<1>3. HeadsOK(D, K, V) /\ MarksOK(D, K, P)
  BY <1>1, <1>2 DEF HeadsOK, MarksOK
<1>4. TableOK(D, U, M, S)
  <2>1. ASSUME NEW i \in Slot, U[i] # NULL PROVE EntryOK(D, M, S, U[i])
    <3>1. /\ T[i] # NULL /\ U[i].name = T[i].name /\ U[i].sector = T[i].sector
          /\ U[i].file = T[i].file
          /\ U[i].ToBeDeleted => U[i].name \in S \/ (T[i].ToBeDeleted /\ R \subseteq S)
      BY <2>1 DEF EntriesGo
    <3>2. EntryOK(D, L, R, T[i])
      BY <1>1, <3>1 DEF TableOK
    <3>3. /\ HdrAt(D, U[i].sector) /\ ~D[U[i].sector].isdir
          /\ Range(U[i].file.secs) \subseteq Range(D[U[i].sector].secs)
          /\ Range(D[U[i].sector].secs) \subseteq Range(U[i].file.secs) \cup M
      BY <3>1, <3>2 DEF EntryOK
    <3>4. ASSUME NEW d \in Sector, NEW n \in Name, NamedAt(D, d, n, U[i].sector)
          PROVE  Leads(D, U[i].name, d, n) /\ (U[i].ToBeDeleted => U[i].name \in S)
      BY <3>1, <3>2, <3>4 DEF EntryOK
    <3> QED BY <3>3, <3>4 DEF EntryOK
  <2>2. ASSUME NEW i \in Slot, NEW j \in Slot, U[i] # NULL, U[j] # NULL,
               U[i].sector = U[j].sector
        PROVE  i = j
    BY <1>1, <2>2 DEF TableOK, EntriesGo
  <2> QED BY <2>1, <2>2 DEF TableOK
<1>5. HandlesOK(D, U, G, P, M)
  <2>1. ASSUME NEW f \in Fid, G[f] # NULL PROVE EntryFor(U, M, G[f]) /\ HandleOK(D, K, P, G[f])
    <3>1. G[f] = F[f] /\ \A i \in Slot : T[i] # NULL /\ T[i].name = F[f].path => U[i] # NULL
      BY <2>1 DEF HandlesGo
    <3>2. EntryFor(T, L, F[f]) /\ HandleOK(D, H, P, F[f])
      BY <1>1, <2>1, <3>1 DEF HandlesOK, H
    <3>3. HandleOK(D, K, P, G[f])
      BY <1>2, <3>1, <3>2 DEF HandleOK
    <3>4. PICK i \in Slot : /\ T[i] # NULL /\ T[i].name = F[f].path /\ T[i].sector = F[f].sector
                            /\ Range(T[i].file.secs) \subseteq Range(F[f].hdr.secs)
                            /\ Range(F[f].hdr.secs) \subseteq Range(T[i].file.secs) \cup L
      BY <3>2 DEF EntryFor
    <3>5. /\ U[i] # NULL /\ U[i].name = T[i].name /\ U[i].sector = T[i].sector
          /\ U[i].file = T[i].file
      BY <3>1, <3>4 DEF EntriesGo
    <3> QED BY <3>1, <3>3, <3>4, <3>5 DEF EntryFor
  <2>2. ASSUME NEW f \in Fid, NEW g \in Fid, G[f] # NULL, G[g] # NULL, G[f].sector # G[g].sector
        PROVE  Mine(G[f]) \cap Mine(G[g]) = {}
    BY <1>1, <2>2 DEF HandlesOK, HandlesGo
  <2> QED BY <2>1, <2>2 DEF HandlesOK, K
<1> QED BY <1>1, <1>3, <1>4, <1>5 DEF DiskInv, K

\* what belongs to a file or directory is in use, and so are its names
LEMMA InUseIs ==
  ASSUME NEW D, NEW T, NEW F, NEW L, NEW V, NEW P, NEW R,
         Typed(D, T, F, L), DiskInv(D, T, F, L, V, P, R)
  PROVE  /\ UsedIn(D) \subseteq Sector /\ System \subseteq UsedIn(D)
         /\ \A s \in Heads(D, T) : SecsAt(D, s) \subseteq UsedIn(D) \cup P
         /\ \A f \in Fid : F[f] # NULL => Mine(F[f]) \subseteq UsedIn(D) \cup P
         /\ \A c \in DirsOf(D) : D[c].secs[1] \in UsedIn(D) \cup P
<1>1. Good(D, Heads(D, T), V) /\ D \in [Sector -> Blocks] /\ FixedOK(D)
      /\ MarksOK(D, Heads(D, T), P)
  BY InvIs DEF DiskInv
<1>2. UsedIn(D) \subseteq Sector /\ System \subseteq UsedIn(D)
  BY <1>1, FixedIs
<1>3. \A s \in Heads(D, T) : SecsAt(D, s) \subseteq UsedIn(D) \cup P
  BY <1>1 DEF MarksOK
<1>4. \A f \in Fid : F[f] # NULL => Mine(F[f]) \subseteq UsedIn(D) \cup P
  BY InvIs DEF HandleOK
<1>5. ASSUME NEW c \in DirsOf(D) PROVE D[c].secs[1] \in UsedIn(D) \cup P
  <2>1. D[c].secs[1] \in SecsAt(D, c) /\ (c = DirectorySector \/ c \in Heads(D, T))
    BY <1>1, DirsAre
  <2>2. SecsAt(D, DirectorySector) \subseteq System
    <3>1. SecsAt(D, DirectorySector) = {DirectorySector, RootData}
          /\ DirectorySector \in System /\ RootData \in System
      BY <1>1, FixedIs
    <3> QED BY <3>1
  <2> QED BY <1>2, <1>3, <2>1, <2>2
<1> QED BY <1>2, <1>3, <1>4, <1>5

\* a header at x whose sectors and itself nothing has yet
FreshFile(D, x) ==
  /\ x \in Sector \ UsedIn(D) /\ HdrAt(D, x) /\ Injective(D[x].secs)
  /\ x \notin Range(D[x].secs) /\ Range(D[x].secs) \cap UsedIn(D) = {}
  /\ D[x].isdir => D[x].secs # <<>> /\ D[D[x].secs[1]] = Dir(Empty)

\* all names and headers of D are in E
KeepsFiles(D, E, H) ==
  /\ \A s \in H \cup {DirectorySector} : E[s] = D[s]
  /\ \A d \in DirsOf(D) : d \in DirsOf(E)
  /\ \A d, n, s : NamedAt(D, d, n, s) => NamedAt(E, d, n, s)

\* The name of a new file or directory is written.
LEMMA FileNamed ==
  ASSUME NEW D, NEW T, NEW F, NEW L, Typed(D, T, F, L), DiskInv(D, T, F, L, {}, {}, {}),
         NEW c \in DirsOf(D), NEW n \in Name, n \notin DOMAIN TabAt(D, c),
         NEW x, FreshFile(D, x),
         NEW E, E = Put(D, D[c].secs[1], Dir(AddName(TabAt(D, c), n, x)))
  PROVE  /\ DiskInv(E, T, F, L, {}, {x} \cup Range(D[x].secs), {})
         /\ NamedAt(E, c, n, x) /\ E[x] = D[x]
         /\ UsedIn(E) = UsedIn(D) /\ KeepsFiles(D, E, Heads(D, T))
<1> DEFINE H == Heads(D, T)
           K == Heads(E, T)
           Q == {x} \cup Range(D[x].secs)
<1>1. /\ FixedOK(D) /\ HeadsOK(D, H, {}) /\ NamesApart(D)
      /\ MarksOK(D, H, {}) /\ TableOK(D, T, L, {}) /\ HandlesOK(D, T, F, {}, L)
      /\ LeaksOK(D, Owners(D, T), L)
  BY DEF DiskInv
<1>2. /\ Good(D, H, {}) /\ D \in [Sector -> Blocks] /\ H \subseteq Sector
      /\ \A s \in H : HdrOK(D, s) /\ s \in SecsAt(D, s)
      /\ \A i \in Slot : T[i] # NULL => T[i].sector \in H /\ T[i].name \in Path
  BY InvIs
<1>3. /\ System \subseteq UsedIn(D)
      /\ \A s \in H : SecsAt(D, s) \subseteq UsedIn(D)
      /\ \A f \in Fid : F[f] # NULL => Mine(F[f]) \subseteq UsedIn(D)
  BY InUseIs
<1>4. D[c].secs[1] \in UsedIn(D)
  BY InUseIs
<1>5. /\ x \in Sector /\ x \notin UsedIn(D) /\ HdrAt(D, x) /\ Injective(D[x].secs)
      /\ x \notin Range(D[x].secs) /\ Range(D[x].secs) \cap UsedIn(D) = {}
      /\ D[x].isdir => D[x].secs # <<>> /\ D[D[x].secs[1]] = Dir(Empty)
  BY DEF FreshFile
<1>6. SecsAt(D, x) = Q /\ Q \cap UsedIn(D) = {} /\ D[x].secs \in Seq(Sector)
  BY <1>2, <1>5, DiskTyped DEF SecsAt
<1>7. x \notin H /\ x \notin System
  BY <1>2, <1>3, <1>5
<1>8. D[x].isdir => D[x].secs[1] \in Sector /\ D[x].secs[1] \in Range(D[x].secs)
  BY <1>5, <1>6, SeqRange
<1>9. NoNames(D, x, D[c].secs[1])
  BY <1>4, <1>5, <1>8 DEF NoNames, DirAt
<1>10. PICK b \in Sector : b = D[c].secs[1]
  BY <1>2, DirsAre
<1>11. PICK tab : tab = AddName(TabAt(D, c), n, x)
  OBVIOUS
<1>12. E = Put(D, D[c].secs[1], Dir(tab))
  BY <1>11
<1>13. /\ \A s \in Sector : s # b => E[s] = D[s]
       /\ E[b].tab = tab /\ E[b].kind = "dir"
       /\ \A s \in H : E[s] = D[s]
       /\ \A d \in DirsOf(D) : TabAt(E, d) = IF d = c THEN tab ELSE TabAt(D, d)
       /\ \A s : DirAt(E, s) <=> DirAt(D, s)
       /\ E[RootData].tab = IF c = DirectorySector THEN tab ELSE D[RootData].tab
  BY <1>2, <1>10, <1>12, OtherNames
<1>14. /\ DirsOf(D) \subseteq DirsOf(E)
       /\ \A d, m, s : NamedAt(E, d, m, s) <=>
            NamedAt(D, d, m, s) \/ (d = c /\ m = n /\ s = x)
       /\ \A s : HasName(E, s) <=> HasName(D, s) \/ s = x
  BY <1>2, <1>5, <1>7, <1>9, NameAdded
<1>15. b \in UsedIn(D) /\ b \notin {FreeMapSector, DirectorySector, MapData} /\ b # x
  BY <1>2, <1>4, <1>5, <1>10, DirsApart
<1>16. E[x] = D[x] /\ SecsAt(E, x) = Q /\ HdrAt(E, x)
  <2>1. E[x] = D[x]
    BY <1>5, <1>13, <1>15
  <2> QED BY <1>5, <1>6, <2>1, SameHeader
<1>17. \A s \in H : SecsAt(E, s) = SecsAt(D, s)
  BY <1>13, SameHeader
<1>18. K = H \cup {x}
  BY <1>5, <1>14 DEF Heads
<1>19. FixedOK(E) /\ UsedIn(E) = UsedIn(D)
  <2>1. MapData \in Sector /\ FreeMapSector \in Sector /\ DirectorySector \in Sector
        /\ RootData \in Sector
    BY Sectors DEF System
  <2>2. E[MapData] = D[MapData] /\ E[FreeMapSector] = D[FreeMapSector]
        /\ E[DirectorySector] = D[DirectorySector]
    BY <1>13, <1>15, <2>1
  <2>3. E[RootData].kind = "dir"
    BY <1>1, <1>13, <2>1 DEF FixedOK
  <2> QED BY <1>1, <2>2, <2>3 DEF FixedOK, UsedIn
<1> HIDE DEF H, K, Q
<1>20. \A s \in K : HdrOK(E, s)
  <2>1. ASSUME NEW s \in H PROVE HdrOK(E, s)
    <3>1. E[s] = D[s] /\ HdrOK(D, s) /\ s \in Sector
      BY <1>2, <1>13, <2>1
    <3>2. D[s].isdir => E[D[s].secs[1]].kind = "dir"
      <4> SUFFICES ASSUME D[s].isdir PROVE E[D[s].secs[1]].kind = "dir"
        OBVIOUS
      <4>1. D[s].secs # <<>> /\ D[D[s].secs[1]].kind = "dir" /\ HdrAt(D, s)
        BY <3>1 DEF HdrOK
      <4>2. D[s].secs[1] \in Sector
        BY <1>2, <4>1, DiskTyped, SeqRange
      <4> QED BY <1>13, <4>1, <4>2
    <3> QED BY <3>1, <3>2, SameHeader
  <2>2. HdrOK(E, x)
    <3>1. Range(E[x].secs) \cap System = {}
      BY <1>3, <1>5, <1>16
    <3>2. E[x].isdir => E[x].secs # <<>> /\ E[E[x].secs[1]].kind = "dir"
      <4> SUFFICES ASSUME D[x].isdir PROVE D[x].secs # <<>> /\ E[D[x].secs[1]].kind = "dir"
        BY <1>16
      <4>1. D[x].secs[1] # b
        BY <1>5, <1>8, <1>15
      <4>2. E[D[x].secs[1]] = Dir(Empty)
        BY <1>5, <1>8, <1>13, <4>1
      <4> QED BY <1>5, <4>2 DEF Dir
    <3> QED BY <1>5, <1>16, <3>1, <3>2 DEF HdrOK
  <2> QED BY <1>18, <2>1, <2>2
<1>21. HeadsOK(E, K, {})
  <2>1. K \cap System = {}
    BY <1>1, <1>7, <1>18 DEF HeadsOK
  <2>2. ASSUME NEW s \in K, NEW r \in K, s # r PROVE SecsAt(E, s) \cap SecsAt(E, r) = {}
    <3>1. CASE s \in H /\ r \in H
      BY <1>1, <1>17, <2>2, <3>1 DEF HeadsOK
    <3>2. CASE s = x \/ r = x
      BY <1>3, <1>6, <1>16, <1>17, <1>18, <2>2, <3>2
    <3> QED BY <1>18, <3>1, <3>2
  <2> QED BY <1>20, <2>1, <2>2 DEF HeadsOK
<1>22. NamesApart(E)
  <2>1. \A d \in Sector, m \in Name : ~NamedAt(D, d, m, x)
    BY <1>2, <1>5, <1>7 DEF Good, HasName
  <2> SUFFICES ASSUME NEW d \in Sector, NEW e \in Sector, NEW m \in Name, NEW l \in Name,
                      NEW s \in Sector, NamedAt(E, d, m, s), NamedAt(E, e, l, s)
               PROVE  d = e /\ m = l
    BY DEF NamesApart
  <2>2. CASE s = x
    BY <1>14, <2>1, <2>2
  <2>3. CASE s # x
    <3>1. NamedAt(D, d, m, s) /\ NamedAt(D, e, l, s)
      BY <1>14, <2>3
    <3> QED BY <1>1, <3>1 DEF NamesApart
  <2> QED BY <2>2, <2>3
<1>23. MarksOK(E, K, Q)
  BY <1>3, <1>16, <1>17, <1>18, <1>19 DEF MarksOK
<1>24. LeaksOK(E, Owners(E, T), L)
  <2>1. ASSUME NEW s \in Owners(D, T) PROVE s \in Owners(E, T) /\ SecsAt(E, s) = SecsAt(D, s)
    <3>1. s \in H
      BY <2>1 DEF Owners, Heads, Held, H
    <3>2. s \in Owners(E, T)
      BY <1>14, <2>1 DEF Owners
    <3> QED BY <1>17, <3>1, <3>2
  <2> QED BY <1>1, <1>19, <2>1 DEF LeaksOK
<1>25. TableOK(E, T, L, {})
  <2>1. ASSUME NEW i \in Slot, T[i] # NULL PROVE EntryOK(E, L, {}, T[i])
    <3>1. EntryOK(D, L, {}, T[i]) /\ T[i].sector \in H
      BY <1>1, <1>2, <2>1 DEF TableOK
    <3>2. E[T[i].sector] = D[T[i].sector] /\ T[i].sector # x
      BY <1>7, <1>13, <3>1
    <3>3. HdrAt(E, T[i].sector)
      BY <3>1, <3>2, SameHeader DEF EntryOK
    <3>4. ASSUME NEW d \in Sector, NEW m \in Name, NamedAt(E, d, m, T[i].sector)
          PROVE  Leads(E, T[i].name, d, m) /\ (T[i].ToBeDeleted => T[i].name \in {})
      <4>1. NamedAt(D, d, m, T[i].sector)
        BY <1>14, <3>2, <3>4
      <4>2. Leads(D, T[i].name, d, m) /\ (T[i].ToBeDeleted => T[i].name \in {})
        BY <3>1, <4>1 DEF EntryOK
      <4>3. Leads(E, T[i].name, d, m)
        BY <1>14, <4>2 DEF Leads
      <4> QED BY <4>2, <4>3
    <3> QED BY <3>1, <3>2, <3>3, <3>4 DEF EntryOK
  <2> QED BY <1>1, <2>1 DEF TableOK
<1>26. HandlesOK(E, T, F, Q, L)
  <2>1. ASSUME NEW f \in Fid, F[f] # NULL PROVE EntryFor(T, L, F[f]) /\ HandleOK(E, K, Q, F[f])
    <3>1. EntryFor(T, L, F[f]) /\ HandleOK(D, H, {}, F[f])
      BY <1>1, <2>1 DEF HandlesOK, H
    <3>2. Mine(F[f]) \cap SecsAt(E, x) = {} /\ Mine(F[f]) \subseteq UsedIn(E) \cup Q
      BY <1>3, <1>6, <1>16, <1>19, <2>1
    <3>3. \A r \in K : r # F[f].sector => Mine(F[f]) \cap SecsAt(E, r) = {}
      BY <1>17, <1>18, <3>1, <3>2 DEF HandleOK
    <3> QED BY <3>1, <3>2, <3>3 DEF HandleOK
  <2> QED BY <1>1, <2>1 DEF HandlesOK, K
<1>27. UsedIn(E) = UsedIn(D)
  <2>1. MapData \in Sector /\ MapData # b
    BY <1>15, Sectors DEF System
  <2> QED BY <1>13, <2>1 DEF UsedIn
<1>28. KeepsFiles(D, E, Heads(D, T))
  <2>1. E[DirectorySector] = D[DirectorySector]
    <3>1. DirectorySector \in Sector /\ DirectorySector # b
      BY <1>15, Sectors DEF System
    <3> QED BY <1>13, <3>1
  <2> QED BY <1>13, <1>14, <2>1 DEF KeepsFiles, H
<1>29. DiskInv(E, T, F, L, {}, Q, {})
  BY <1>14, <1>16, <1>19, <1>21, <1>22, <1>23, <1>24, <1>25, <1>26 DEF DiskInv, K, Q
<1>30. NamedAt(E, c, n, x)
  BY <1>14
<1> QED BY <1>16, <1>27, <1>28, <1>29, <1>30 DEF Q

\* The header that a handle has goes to the disk.
LEMMA HeaderWritten ==
  ASSUME NEW D, NEW T, NEW F, NEW L, NEW P, Typed(D, T, F, L), DiskInv(D, T, F, L, {}, P, {}),
         NEW f \in Fid, F[f] # NULL, NEW E, E = Put(D, F[f].sector, F[f].hdr)
  PROVE  DiskInv(E, T, F, L, {}, P, {}) /\ E[F[f].sector] = F[f].hdr
<1> DEFINE H == Heads(D, T)
           K == Heads(E, T)
           h == F[f]
           s == h.sector
<1>1. /\ FixedOK(D) /\ HeadsOK(D, H, {}) /\ NamesApart(D)
      /\ MarksOK(D, H, P) /\ TableOK(D, T, L, {}) /\ HandlesOK(D, T, F, P, L)
      /\ LeaksOK(D, Owners(D, T), L)
  BY DEF DiskInv
<1>2. /\ Good(D, H, {}) /\ D \in [Sector -> Blocks] /\ H \subseteq Sector
      /\ \A r \in H : HdrOK(D, r) /\ r \in SecsAt(D, r) /\ HdrAt(D, r)
      /\ \A i \in Slot : T[i] # NULL => T[i].sector \in H /\ EntryOK(D, L, {}, T[i])
  BY InvIs
<1>3. /\ h \in OpenFiles /\ s \in Sector /\ s \in H /\ EntryFor(T, L, h) /\ HandleOK(D, H, P, h)
      /\ h.hdr.secs \in Seq(Sector)
  BY InvIs
<1>4. h.hdr \in FileHeaders
  BY <1>3, EntriesTyped
<1>5. PICK k \in Slot : /\ T[k] # NULL /\ T[k].sector = s
                        /\ Range(T[k].file.secs) \subseteq Range(h.hdr.secs)
                        /\ Range(h.hdr.secs) \subseteq Range(T[k].file.secs) \cup L
  BY <1>3 DEF EntryFor
<1>6. ~D[s].isdir /\ Range(D[s].secs) \subseteq Range(T[k].file.secs) \cup L
  BY <1>2, <1>5 DEF EntryOK
<1>7. s \notin System
  BY <1>1, <1>3 DEF HeadsOK
<1> HIDE DEF H, K, h, s
<1>8. E[s] = h.hdr /\ \A r \in Sector : r # s => E[r] = D[r]
  BY <1>3 DEF Put, h, s
<1>9. HdrAt(E, s) /\ ~E[s].isdir /\ SecsAt(E, s) = Mine(h)
  <2>1. E[s].kind = "hdr"
    BY <1>4, <1>8 DEF FileHeaders
  <2> QED BY <1>3, <1>8, <2>1 DEF HdrAt, SecsAt, Mine, HandleOK, s
<1>10. /\ \A d, n, x : NamedAt(E, d, n, x) <=> NamedAt(D, d, n, x)
       /\ \A x : HasName(E, x) <=> HasName(D, x)
       /\ \A p, d, n : Leads(E, p, d, n) <=> Leads(D, p, d, n)
  <2>1. DirectorySector \in System /\ RootData \in System /\ DirectorySector \in Sector
        /\ RootData \in Sector
    BY Sectors DEF System
  <2>2. E[DirectorySector] = D[DirectorySector] /\ E[RootData] = D[RootData]
    BY <1>7, <1>8, <2>1
  <2>3. \A r \in H : DirAt(E, r) => E[r] = D[r]
    BY <1>2, <1>8, <1>9 DEF DirAt
  <2>4. ASSUME NEW d \in DirsOf(D)
        PROVE  /\ DirAt(E, d) => E[D[d].secs[1]].tab = D[D[d].secs[1]].tab
               /\ ~DirAt(E, d) => DOMAIN TabAt(D, d) = {}
    <3>1. DirAt(D, d) /\ d \in Sector /\ D[d].secs[1] \in Sector
      BY <1>2, DirsAre
    <3>2. D[d].secs[1] # s
      BY <1>2, <1>3, DirsApart
    <3>3. d # s
      BY <1>6, <3>1 DEF DirAt
    <3> QED BY <1>8, <3>1, <3>2, <3>3 DEF DirAt, HdrAt
  <2>5. /\ DirsOf(E) = {d \in DirsOf(D) : DirAt(E, d)}
        /\ \A d \in DirsOf(E) : TabAt(E, d) = TabAt(D, d)
        /\ \A d, n, x : NamedAt(E, d, n, x) <=> NamedAt(D, d, n, x)
        /\ \A x : HasName(E, x) <=> HasName(D, x)
        /\ \A p, d, n : Leads(E, p, d, n) <=> Leads(D, p, d, n)
    BY <1>2, <2>2, <2>3, <2>4, SameNames
  <2> QED BY <2>5
<1>11. K = H
  BY <1>10 DEF Heads, H, K
<1>12. \A r \in H : r # s => E[r] = D[r] /\ SecsAt(E, r) = SecsAt(D, r) /\ HdrAt(E, r)
  BY <1>2, <1>8, SameHeader
<1>13. FixedOK(E) /\ UsedIn(E) = UsedIn(D)
  <2>1. System \subseteq Sector /\ {MapData, FreeMapSector, DirectorySector, RootData} \subseteq System
    BY Sectors DEF System
  <2>2. \A r \in System : E[r] = D[r]
    BY <1>7, <1>8, <2>1
  <2> QED BY <1>1, <2>1, <2>2 DEF FixedOK, UsedIn
<1>14. /\ Injective(h.hdr.secs) /\ s \notin Range(h.hdr.secs) /\ Mine(h) \cap System = {}
       /\ Mine(h) \subseteq UsedIn(D) \cup P
       /\ \A r \in H : r # s => Mine(h) \cap SecsAt(D, r) = {}
  BY <1>3 DEF HandleOK, s
<1>15. HeadsOK(E, H, {})
  <2>1. HdrOK(E, s)
    <3>1. Range(h.hdr.secs) \cap System = {}
      BY <1>14 DEF Mine
    <3> QED BY <1>8, <1>9, <1>14, <3>1 DEF HdrOK
  <2>2. ASSUME NEW r \in H, r # s PROVE HdrOK(E, r)
    <3>1. HdrOK(D, r) /\ E[r] = D[r]
      BY <1>2, <1>12, <2>2
    <3>2. D[r].isdir => E[D[r].secs[1]].kind = "dir"
      <4> SUFFICES ASSUME D[r].isdir PROVE E[D[r].secs[1]].kind = "dir"
        OBVIOUS
      <4>1. D[r].secs # <<>> /\ D[D[r].secs[1]].kind = "dir" /\ HdrAt(D, r)
        BY <3>1 DEF HdrOK
      <4>2. D[r].secs[1] \in Sector
        BY <1>2, <4>1, DiskTyped, SeqRange
      <4>3. D[s].kind = "hdr"
        BY <1>2, <1>3 DEF HdrAt
      <4> QED BY <1>8, <4>1, <4>2, <4>3
    <3> QED BY <3>1, <3>2, SameHeader
  <2>3. ASSUME NEW q \in H, NEW r \in H, q # r PROVE SecsAt(E, q) \cap SecsAt(E, r) = {}
    BY <1>1, <1>9, <1>12, <1>14, <2>3 DEF HeadsOK
  <2> QED BY <1>1, <2>1, <2>2, <2>3 DEF HeadsOK
<1>16. NamesApart(E)
  BY <1>1, <1>10 DEF NamesApart
<1>17. MarksOK(E, H, P)
  BY <1>1, <1>9, <1>12, <1>13, <1>14 DEF MarksOK
<1>18. LeaksOK(E, Owners(E, T), L)
  <2>1. Owners(E, T) = Owners(D, T) /\ Owners(D, T) \subseteq H
    BY <1>10 DEF Owners, Heads, Held, H
  <2> SUFFICES ASSUME NEW x \in UsedIn(D), x \notin System \cup L
               PROVE  \E r \in Owners(D, T) : x \in SecsAt(E, r)
    BY <1>13, <2>1 DEF LeaksOK
  <2>2. PICK r \in Owners(D, T) : x \in SecsAt(D, r)
    BY <1>1 DEF LeaksOK
  <2>3. CASE r # s
    BY <1>12, <2>1, <2>2, <2>3
  <2>4. CASE r = s
    <3>1. x = s \/ x \in Range(D[s].secs)
      BY <2>2, <2>4 DEF SecsAt
    <3>2. x \in Mine(h)
      BY <1>5, <1>6, <3>1 DEF Mine, s
    <3> QED BY <1>9, <2>4, <3>2
  <2> QED BY <2>3, <2>4
<1>19. TableOK(E, T, L, {})
  <2>1. ASSUME NEW i \in Slot, T[i] # NULL PROVE EntryOK(E, L, {}, T[i])
    <3>1. EntryOK(D, L, {}, T[i]) /\ T[i].sector \in H
      BY <1>2, <2>1
    <3>2. HdrAt(E, T[i].sector) /\ ~E[T[i].sector].isdir
      BY <1>9, <1>12, <3>1 DEF EntryOK
    <3>3. /\ Range(T[i].file.secs) \subseteq Range(E[T[i].sector].secs)
          /\ Range(E[T[i].sector].secs) \subseteq Range(T[i].file.secs) \cup L
      <4>1. CASE T[i].sector = s
        <5>1. i = k
          BY <1>1, <1>5, <2>1, <4>1 DEF TableOK
        <5> QED BY <1>5, <1>8, <4>1, <5>1
      <4>2. CASE T[i].sector # s
        BY <1>12, <3>1, <4>2 DEF EntryOK
      <4> QED BY <4>1, <4>2
    <3>4. \A d \in Sector, n \in Name : NamedAt(E, d, n, T[i].sector) =>
             Leads(E, T[i].name, d, n) /\ (T[i].ToBeDeleted => T[i].name \in {})
      BY <1>10, <3>1 DEF EntryOK
    <3> QED BY <3>2, <3>3, <3>4 DEF EntryOK
  <2> QED BY <1>1, <2>1 DEF TableOK
<1>20. HandlesOK(E, T, F, P, L)
  <2>1. ASSUME NEW g \in Fid, F[g] # NULL PROVE EntryFor(T, L, F[g]) /\ HandleOK(E, H, P, F[g])
    <3>1. EntryFor(T, L, F[g]) /\ HandleOK(D, H, P, F[g])
      BY <1>1, <2>1 DEF HandlesOK, H
    <3>2. ASSUME NEW r \in H, r # F[g].sector PROVE Mine(F[g]) \cap SecsAt(E, r) = {}
      <4>1. CASE r = s
        BY <1>1, <1>9, <2>1, <3>2, <4>1 DEF HandlesOK, s, h
      <4>2. CASE r # s
        BY <1>12, <3>1, <3>2, <4>2 DEF HandleOK
      <4> QED BY <4>1, <4>2
    <3> QED BY <1>13, <3>1, <3>2 DEF HandleOK
  <2>2. HandlesOK(E, T, F, P, L) <=>
          /\ \A g \in Fid : F[g] # NULL => EntryFor(T, L, F[g]) /\ HandleOK(E, K, P, F[g])
          /\ \A g, e \in Fid : F[g] # NULL /\ F[e] # NULL /\ F[g].sector # F[e].sector =>
               Mine(F[g]) \cap Mine(F[e]) = {}
    BY DEF HandlesOK, K
  <2> QED BY <1>1, <1>11, <2>1, <2>2 DEF HandlesOK
<1>21. DiskInv(E, T, F, L, {}, P, {})
  BY <1>11, <1>13, <1>15, <1>16, <1>17, <1>18, <1>19, <1>20 DEF DiskInv, K
<1> QED BY <1>8, <1>21 DEF s, h

\* A path leads to one place.
LEMMA LeadsOne ==
  ASSUME NEW D, NEW p, NEW d, NEW e, NEW n, NEW m, Leads(D, p, d, n), Leads(D, p, e, m)
  PROVE  d = e /\ n = m
BY DEF Leads, NamedAt

\* Two paths with the same names are one.
LEMMA PathsAre ==
  ASSUME OneSpelling, NEW p \in Path, NEW q \in Path, Len(Components[p]) = Len(Components[q]),
         Components[p][1] = Components[q][1],
         Len(Components[p]) = 2 => Components[p][2] = Components[q][2]
  PROVE  p = q
<1>1. /\ Components[p] \in Seq(Name) /\ Len(Components[p]) \in {1, 2}
      /\ Components[q] \in Seq(Name) /\ Len(Components[q]) \in {1, 2}
  BY ComponentsTyped
<1>2. /\ Components[p] \in [1..Len(Components[p]) -> Name]
      /\ Components[q] \in [1..Len(Components[q]) -> Name]
  BY <1>1, LenProperties
<1>3. \A i \in 1..Len(Components[p]) : Components[p][i] = Components[q][i]
  <2> SUFFICES ASSUME NEW i \in 1..Len(Components[p])
               PROVE  Components[p][i] = Components[q][i]
    OBVIOUS
  <2>1. CASE Len(Components[p]) = 1
    <3>1. i = 1
      BY <2>1
    <3> QED BY <3>1
  <2>2. CASE Len(Components[p]) = 2
    <3>1. i = 1 \/ i = 2
      BY <2>2
    <3> QED BY <2>2, <3>1
  <2> QED BY <1>1, <2>1, <2>2
<1>4. Components[p] = Components[q]
  BY <1>2, <1>3
<1> QED BY <1>4 DEF OneSpelling

\* Two paths that lead to the same name are one.
LEMMA LeadsApart ==
  ASSUME OneSpelling, NEW D, NEW H, NEW V, Good(D, H, V), NamesApart(D),
         NEW p \in Path, NEW q \in Path, NEW c, NEW n, Leads(D, p, c, n), Leads(D, q, c, n)
  PROVE  p = q
<1>1. Len(Components[p]) \in {1, 2} /\ Len(Components[q]) \in {1, 2}
  BY ComponentsTyped
<1>2. \A m : ~NamedAt(D, DirectorySector, m, DirectorySector)
  BY NamesAre DEF System
<1>3. CASE Len(Components[p]) = 1
  <2>1. c = DirectorySector /\ n = Components[p][1]
    BY <1>3 DEF Leads
  <2>2. Len(Components[q]) = 1 /\ n = Components[q][1]
    BY <1>2, <2>1 DEF Leads
  <2> QED BY <1>3, <2>1, <2>2, PathsAre
<1>4. CASE Len(Components[p]) = 2
  <2>1. NamedAt(D, DirectorySector, Components[p][1], c) /\ n = Components[p][2]
    BY <1>4 DEF Leads
  <2>2. Len(Components[q]) = 2
    BY <1>1, <1>2, <2>1 DEF Leads
  <2>3. NamedAt(D, DirectorySector, Components[q][1], c) /\ n = Components[q][2]
    BY <2>2 DEF Leads
  <2>4. /\ c \in Sector /\ DirectorySector \in Sector
        /\ Components[p][1] \in Name /\ Components[q][1] \in Name
    BY <2>1, <2>3, NamesAre
  <2>5. Components[p][1] = Components[q][1]
    BY <2>1, <2>3, <2>4 DEF NamesApart
  <2> QED BY <1>4, <2>1, <2>2, <2>3, <2>5, PathsAre
<1> QED BY <1>1, <1>3, <1>4

\* A file that is in the table is opened once more.
LEMMA HandleGiven ==
  ASSUME NEW D, NEW T, NEW F, NEW L, NEW P, NEW R, Typed(D, T, F, L),
         DiskInv(D, T, F, L, {}, P, R), NEW k \in Slot, T[k] # NULL,
         NEW f \in Fid, F[f] = NULL, NEW G, NEW h,
         h = [path |-> T[k].name, sector |-> T[k].sector, hdr |-> D[T[k].sector]],
         \A g \in Fid : G[g] = IF g = f THEN h ELSE F[g]
  PROVE  DiskInv(D, T, G, L, {}, P, R)
<1> DEFINE H == Heads(D, T)
           s == T[k].sector
<1>1. /\ FixedOK(D) /\ HeadsOK(D, H, {}) /\ NamesApart(D)
      /\ MarksOK(D, H, P) /\ TableOK(D, T, L, R) /\ HandlesOK(D, T, F, P, L)
      /\ LeaksOK(D, Owners(D, T), L)
  BY DEF DiskInv
<1>2. s \in H /\ EntryOK(D, L, R, T[k]) /\ HdrAt(D, s) /\ HdrOK(D, s)
  BY InvIs
<1>3. h.path = T[k].name /\ h.sector = s /\ h.hdr = D[s]
  OBVIOUS
<1> HIDE DEF H, s
<1>4. Mine(h) = SecsAt(D, s)
  BY <1>2, <1>3 DEF Mine, SecsAt
<1>5. EntryFor(T, L, h)
  BY <1>2, <1>3 DEF EntryFor, EntryOK, s
<1>6. HandleOK(D, H, P, h)
  <2>1. Mine(h) \subseteq UsedIn(D) \cup P
    BY <1>1, <1>2, <1>4 DEF MarksOK
  <2>2. \A r \in H : r # s => SecsAt(D, s) \cap SecsAt(D, r) = {}
    BY <1>1, <1>2 DEF HeadsOK
  <2>3. SecsAt(D, s) \cap System = {}
    BY <1>1, <1>2 DEF HdrOK, SecsAt, HeadsOK
  <2>4. ~D[s].isdir /\ Injective(D[s].secs) /\ s \notin Range(D[s].secs)
    BY <1>2 DEF EntryOK, HdrOK, s
  <2> QED BY <1>3, <1>4, <2>1, <2>2, <2>3, <2>4 DEF HandleOK
<1>7. ASSUME NEW g \in Fid, F[g] # NULL, F[g].sector # s PROVE Mine(F[g]) \cap Mine(h) = {}
  <2>1. HandleOK(D, H, P, F[g])
    BY <1>1, <1>7 DEF HandlesOK, H
  <2> QED BY <1>2, <1>4, <1>7, <2>1 DEF HandleOK
<1>8. HandlesOK(D, T, G, P, L)
  <2>1. ASSUME NEW g \in Fid, G[g] # NULL PROVE EntryFor(T, L, G[g]) /\ HandleOK(D, H, P, G[g])
    <3>1. CASE g = f
      BY <1>5, <1>6, <3>1
    <3>2. CASE g # f
      BY <1>1, <2>1, <3>2 DEF HandlesOK, H
    <3> QED BY <3>1, <3>2
  <2>2. ASSUME NEW g \in Fid, NEW e \in Fid, G[g] # NULL, G[e] # NULL, G[g].sector # G[e].sector
        PROVE  Mine(G[g]) \cap Mine(G[e]) = {}
    <3>1. CASE g # f /\ e # f
      BY <1>1, <2>2, <3>1 DEF HandlesOK
    <3>2. CASE g = f
      BY <1>3, <1>7, <2>2, <3>2
    <3>3. CASE e = f
      BY <1>3, <1>7, <2>2, <3>3
    <3> QED BY <3>1, <3>2, <3>3
  <2> QED BY <2>1, <2>2 DEF HandlesOK, H
<1> QED BY <1>1, <1>8 DEF DiskInv, H

\* A file that is not in the table gets an entry.
LEMMA EntryMade ==
  ASSUME OneSpelling, NEW D, NEW T, NEW F, NEW L, NEW P, NEW R, Typed(D, T, F, L),
         DiskInv(D, T, F, L, {}, P, R), NEW k \in Slot, T[k] = NULL, NEW p \in Path,
         \A i \in Slot : T[i] # NULL => T[i].name # p,
         NEW c, NEW n, NEW s, NamedAt(D, c, n, s), Leads(D, p, c, n), ~D[s].isdir,
         NEW e, e = NewEntry(p, s, D[s]),
         NEW U, \A i \in Slot : U[i] = IF i = k THEN e ELSE T[i]
  PROVE  DiskInv(D, U, F, L, {}, P, R)
<1> DEFINE H == Heads(D, T)
<1>1. /\ FixedOK(D) /\ HeadsOK(D, H, {}) /\ NamesApart(D)
      /\ MarksOK(D, H, P) /\ TableOK(D, T, L, R) /\ HandlesOK(D, T, F, P, L)
      /\ LeaksOK(D, Owners(D, T), L)
  BY DEF DiskInv
<1>2. Good(D, H, {})
  BY InvIs
<1>3. e.name = p /\ e.sector = s /\ e.file = D[s] /\ e.ToBeDeleted = FALSE
  BY DEF NewEntry
<1>4. c \in Sector /\ n \in Name /\ s \in Sector /\ HasName(D, s) /\ s \in H
  BY <1>2, NamesAre
<1>5. HdrAt(D, s)
  BY <1>1, <1>4 DEF HeadsOK, HdrOK
<1>6. Heads(D, U) = H
  BY <1>3, <1>4 DEF Heads, Held
<1>7. Owners(D, U) = Owners(D, T)
  BY <1>3 DEF Owners
<1> HIDE DEF H
<1>8. EntryOK(D, L, R, e)
  <2>1. ASSUME NEW d \in Sector, NEW m \in Name, NamedAt(D, d, m, s)
        PROVE  Leads(D, p, d, m)
    <3>1. d = c /\ m = n
      BY <1>1, <1>4, <2>1 DEF NamesApart
    <3> QED BY <3>1
  <2> QED BY <1>3, <1>5, <2>1 DEF EntryOK
<1>9. ASSUME NEW i \in Slot, T[i] # NULL PROVE T[i].sector # s
  <2> SUFFICES ASSUME T[i].sector = s PROVE FALSE
    OBVIOUS
  <2>1. EntryOK(D, L, R, T[i]) /\ T[i].name \in Path
    BY <1>9, InvIs
  <2>2. Leads(D, T[i].name, c, n)
    BY <1>4, <2>1 DEF EntryOK
  <2>3. T[i].name = p
    BY <1>1, <1>2, <2>1, <2>2, LeadsApart
  <2> QED BY <1>9, <2>3
<1>10. TableOK(D, U, L, R)
  BY <1>1, <1>3, <1>8, <1>9 DEF TableOK
<1>11. HandlesOK(D, U, F, P, L)
  <2>1. ASSUME NEW g \in Fid, F[g] # NULL PROVE EntryFor(U, L, F[g]) /\ HandleOK(D, H, P, F[g])
    <3>1. EntryFor(T, L, F[g]) /\ HandleOK(D, H, P, F[g])
      BY <1>1, <2>1 DEF HandlesOK, H
    <3>2. PICK i \in Slot : /\ T[i] # NULL /\ T[i].name = F[g].path /\ T[i].sector = F[g].sector
                            /\ Range(T[i].file.secs) \subseteq Range(F[g].hdr.secs)
                            /\ Range(F[g].hdr.secs) \subseteq Range(T[i].file.secs) \cup L
      BY <3>1 DEF EntryFor
    <3>3. U[i] = T[i]
      BY <3>2
    <3> QED BY <3>1, <3>2, <3>3 DEF EntryFor
  <2> QED BY <1>1, <1>6, <2>1 DEF HandlesOK
<1> QED BY <1>1, <1>6, <1>7, <1>10, <1>11 DEF DiskInv

\* One more sector at the end of a header.
LEMMA OneSectorMore ==
  ASSUME NEW q \in Seq(Sector), NEW x \in Sector
  PROVE  /\ Append(q, x) \in Seq(Sector) /\ Range(Append(q, x)) = Range(q) \cup {x}
         /\ LastOf(Append(q, x)) = x /\ Append(q, x) # <<>>
         /\ Injective(q) /\ x \notin Range(q) => Injective(Append(q, x))
<1>1. PICK r \in Seq(Sector) : r = Append(q, x)
  BY AppendProperties
<1>2. /\ Len(q) \in Nat /\ DOMAIN q = 1..Len(q) /\ Len(r) = Len(q) + 1
      /\ DOMAIN r = 1..(Len(q) + 1)
      /\ \A i \in 1..Len(q) : r[i] = q[i]
      /\ r[Len(q) + 1] = x
  BY <1>1, SeqRange, AppendProperties
<1>3. \A i \in 1..Len(q) : q[i] \in Range(q)
  BY SeqRange
<1>4. Range(r) = Range(q) \cup {x}
  <2>1. \A i \in DOMAIN r : i = Len(q) + 1 \/ i \in DOMAIN q
    BY <1>2
  <2>2. \A y \in Range(r) : y \in Range(q) \cup {x}
    BY <1>2, <2>1 DEF Range
  <2>3. x \in Range(r)
    BY <1>2 DEF Range
  <2>4. \A y \in Range(q) : y \in Range(r)
    BY <1>2 DEF Range
  <2> QED BY <2>2, <2>3, <2>4
<1>5. LastOf(r) = x /\ r # <<>>
  BY <1>2 DEF LastOf
<1>6. ASSUME Injective(q), x \notin Range(q) PROVE Injective(r)
  BY <1>2, <1>3, <1>6 DEF Injective
<1> QED BY <1>1, <1>4, <1>5, <1>6

\* handle h takes the place of handle f, with one more sector, a free one
OneMoreSector(D, F, G, f, h, x) ==
  /\ f \in Fid /\ F[f] # NULL /\ h.path = F[f].path /\ h.sector = F[f].sector
  /\ h.hdr = Header(FALSE, F[f].hdr.secs \o <<x>>)
  /\ \A g \in Fid : G[g] = IF g = f THEN h ELSE F[g]
  /\ x \in Sector /\ x \notin UsedIn(D)

\* A handle gets one more sector, which nothing has yet.
LEMMA HandleGrown ==
  ASSUME NEW D, NEW T, NEW F, NEW L, Typed(D, T, F, L), DiskInv(D, T, F, L, {}, {}, {}),
         NEW x, NEW f, NEW G, NEW h, OneMoreSector(D, F, G, f, h, x)
  PROVE  DiskInv(D, T, G, L \cup {x}, {}, {x}, {})
<1> USE DEF OneMoreSector
<1> DEFINE H == Heads(D, T)
           M == L \cup {x}
           old == F[f]
<1>1. /\ FixedOK(D) /\ HeadsOK(D, H, {}) /\ NamesApart(D)
      /\ MarksOK(D, H, {}) /\ TableOK(D, T, L, {}) /\ HandlesOK(D, T, F, {}, L)
      /\ LeaksOK(D, Owners(D, T), L)
  BY DEF DiskInv
<1>2. /\ System \subseteq UsedIn(D)
      /\ \A s \in H : SecsAt(D, s) \subseteq UsedIn(D)
      /\ \A g \in Fid : F[g] # NULL => Mine(F[g]) \subseteq UsedIn(D)
  BY InUseIs
<1>3. /\ old.hdr.secs \in Seq(Sector) /\ old.sector \in Sector /\ EntryFor(T, L, old)
      /\ HandleOK(D, H, {}, old)
  BY InvIs
<1> HIDE DEF H, M, old
<1>4. PICK q \in Seq(Sector) : q = old.hdr.secs
  BY <1>3
<1>5. h.hdr.isdir = FALSE /\ h.hdr.secs = Append(q, x) /\ h.sector = old.sector
      /\ h.path = old.path
  BY <1>4 DEF Header, old
<1>6. Range(Append(q, x)) = Range(q) \cup {x}
  BY <1>4, OneSectorMore
<1>7. Range(h.hdr.secs) = Range(q) \cup {x}
  BY <1>5, <1>6
<1>8. Mine(h) = Mine(old) \cup {x} /\ x \notin Mine(old) /\ x \notin System /\ Mine(old) \subseteq UsedIn(D)
  BY <1>2, <1>4, <1>5, <1>7 DEF Mine, old
<1>9. Injective(h.hdr.secs)
  <2>1. Injective(q) /\ x \notin Range(q)
    BY <1>3, <1>4, <1>8 DEF HandleOK, Mine
  <2>2. Injective(Append(q, x))
    BY <1>4, <2>1, OneSectorMore
  <2> QED BY <1>5, <2>2
<1>10. EntryFor(T, M, h)
  <2>1. PICK i \in Slot : /\ T[i] # NULL /\ T[i].name = old.path /\ T[i].sector = old.sector
                          /\ Range(T[i].file.secs) \subseteq Range(q)
                          /\ Range(q) \subseteq Range(T[i].file.secs) \cup L
    BY <1>3, <1>4 DEF EntryFor
  <2> QED BY <1>5, <1>7, <2>1 DEF EntryFor, M
<1>11. HandleOK(D, H, {x}, h)
  <2>1. h.sector \notin Range(h.hdr.secs)
    BY <1>3, <1>4, <1>5, <1>7, <1>8 DEF HandleOK, Mine
  <2>2. Mine(h) \subseteq UsedIn(D) \cup {x} /\ Mine(h) \cap System = {}
    BY <1>3, <1>8 DEF HandleOK
  <2>3. \A r \in H : r # h.sector => Mine(h) \cap SecsAt(D, r) = {}
    BY <1>2, <1>3, <1>5, <1>8 DEF HandleOK
  <2> QED BY <1>5, <1>9, <2>1, <2>2, <2>3 DEF HandleOK
<1>12. \A g \in Fid : F[g] # NULL => x \notin Mine(F[g])
  BY <1>2
<1>13. HandlesOK(D, T, G, {x}, M)
  <2>1. ASSUME NEW g \in Fid, G[g] # NULL PROVE EntryFor(T, M, G[g]) /\ HandleOK(D, H, {x}, G[g])
    <3>1. CASE g = f
      BY <1>10, <1>11, <3>1
    <3>2. CASE g # f
      <4>1. G[g] = F[g] /\ EntryFor(T, L, F[g]) /\ HandleOK(D, H, {}, F[g])
        BY <1>1, <2>1, <3>2 DEF HandlesOK, H
      <4>2. EntryFor(T, M, F[g])
        BY <4>1 DEF EntryFor, M
      <4>3. HandleOK(D, H, {x}, F[g])
        BY <4>1 DEF HandleOK
      <4> QED BY <4>1, <4>2, <4>3
    <3> QED BY <3>1, <3>2
  <2>2. ASSUME NEW g \in Fid, NEW e \in Fid, G[g] # NULL, G[e] # NULL, G[g].sector # G[e].sector
        PROVE  Mine(G[g]) \cap Mine(G[e]) = {}
    <3>1. /\ \A a \in Fid : G[a] # NULL => F[a] # NULL /\ F[a].sector = G[a].sector
          /\ \A a \in Fid : G[a] # NULL => Mine(G[a]) \subseteq Mine(F[a]) \cup {x}
          /\ \A a \in Fid : a # f => G[a] = F[a]
      BY <1>5, <1>8 DEF old
    <3>2. Mine(F[g]) \cap Mine(F[e]) = {}
      BY <1>1, <2>2, <3>1 DEF HandlesOK
    <3>3. g # f \/ e # f
      BY <2>2
    <3> QED BY <1>12, <2>2, <3>1, <3>2, <3>3
  <2> QED BY <2>1, <2>2 DEF HandlesOK, H
<1>14. MarksOK(D, H, {x}) /\ LeaksOK(D, Owners(D, T), M)
  BY <1>1 DEF MarksOK, LeaksOK, M
<1>15. TableOK(D, T, M, {})
  <2>1. \A i \in Slot : T[i] # NULL => EntryOK(D, M, {}, T[i])
    BY <1>1 DEF TableOK, EntryOK, M
  <2> QED BY <1>1, <2>1 DEF TableOK
<1> QED BY <1>1, <1>13, <1>14, <1>15 DEF DiskInv, H, M

-----------------------------------------------------------------------------
(* The writes of each call *)

\* No file and no directory changes its name or its contents.
SameTree(D, E) ==
  /\ DirsOf(E) = DirsOf(D) /\ \A d \in DirsOf(D) : TabAt(E, d) = TabAt(D, d)
  /\ \A d, n, s : NamedAt(E, d, n, s) <=> NamedAt(D, d, n, s)
  /\ \A p, d, n : Leads(E, p, d, n) <=> Leads(D, p, d, n)

\* a sector that is neither a header nor has the names of a directory
PlainSector(D, H, b) ==
  /\ b \in Sector /\ b \notin H /\ b \notin System
  /\ \A s \in H : D[s].isdir => D[s].secs[1] # b

\* A sector is written that no directory and no header is in.
LEMMA DataWritten ==
  ASSUME NEW D, NEW T, NEW F, NEW L, NEW P, Typed(D, T, F, L), DiskInv(D, T, F, L, {}, P, {}),
         NEW b, PlainSector(D, Heads(D, T), b), NEW what, NEW E, E = Put(D, b, what)
  PROVE  /\ DiskInv(E, T, F, L, {}, P, {}) /\ SameTree(D, E) /\ UsedIn(E) = UsedIn(D)
         /\ \A s \in Heads(D, T) : E[s] = D[s]
<1> DEFINE H == Heads(D, T)
<1>1. /\ FixedOK(D) /\ HeadsOK(D, H, {}) /\ NamesApart(D)
      /\ LeaksOK(D, Owners(D, T), L)
  BY DEF DiskInv
<1>2. /\ Good(D, H, {}) /\ D \in [Sector -> Blocks] /\ H \subseteq Sector
      /\ \A r \in H : HdrOK(D, r) /\ HdrAt(D, r)
  BY InvIs
<1>3. b \in Sector /\ b \notin H /\ b \notin System /\ \A s \in H : D[s].isdir => D[s].secs[1] # b
  BY DEF PlainSector
<1> HIDE DEF H
<1>4. \A s \in Sector : s # b => E[s] = D[s]
  BY DEF Put
<1>5. \A s \in H : E[s] = D[s]
  BY <1>2, <1>3, <1>4
<1>6. System \subseteq Sector /\ {MapData, FreeMapSector, DirectorySector, RootData} \subseteq System
  BY Sectors DEF System
<1>7. FixedOK(E) /\ UsedIn(E) = UsedIn(D)
  <2>1. \A r \in System : E[r] = D[r]
    BY <1>3, <1>4, <1>6
  <2> QED BY <1>1, <1>6, <2>1 DEF FixedOK, UsedIn
<1>8. ASSUME NEW d \in DirsOf(D) PROVE E[d] = D[d] /\ E[D[d].secs[1]] = D[D[d].secs[1]] /\ DirAt(E, d)
  <2>1. /\ d \in Sector /\ DirAt(D, d) /\ D[d].secs[1] \in Sector
        /\ d = DirectorySector \/ d \in H
    BY <1>2, DirsAre
  <2>2. d # b /\ D[d].secs[1] # b
    <3>1. CASE d = DirectorySector
      BY <1>1, <1>2, <1>3, <1>6, <3>1, FixedIs
    <3>2. CASE d \in H
      BY <1>3, <2>1, <3>2 DEF DirAt
    <3> QED BY <2>1, <3>1, <3>2
  <2>3. E[d] = D[d] /\ E[D[d].secs[1]] = D[D[d].secs[1]]
    BY <1>4, <2>1, <2>2
  <2> QED BY <2>1, <2>3 DEF DirAt, HdrAt
<1>9. SameTree(D, E) /\ \A s : HasName(E, s) <=> HasName(D, s)
  <2>1. E[DirectorySector] = D[DirectorySector] /\ E[RootData] = D[RootData]
    BY <1>3, <1>4, <1>6
  <2>2. /\ DirsOf(E) = {d \in DirsOf(D) : DirAt(E, d)}
        /\ \A d \in DirsOf(E) : TabAt(E, d) = TabAt(D, d)
        /\ \A d, n, x : NamedAt(E, d, n, x) <=> NamedAt(D, d, n, x)
        /\ \A x : HasName(E, x) <=> HasName(D, x)
        /\ \A p, d, n : Leads(E, p, d, n) <=> Leads(D, p, d, n)
    BY <1>2, <1>5, <1>8, <2>1, SameNames
  <2>3. DirsOf(E) = DirsOf(D)
    BY <1>8, <2>2
  <2> QED BY <2>2, <2>3 DEF SameTree
<1>10. NamesGo(D, E, {}, {})
  BY <1>9 DEF NamesGo, SameTree
<1>11. Heads(E, T) = H
  BY <1>9 DEF Heads, H
<1>12. HeadersStay(D, E, H, {}, {})
  <2>1. ASSUME NEW s \in H, D[s].isdir PROVE E[D[s].secs[1]].kind = "dir"
    <3>1. D[s].secs # <<>> /\ D[D[s].secs[1]].kind = "dir" /\ HdrAt(D, s)
      BY <1>2, <2>1 DEF HdrOK
    <3>2. D[s].secs[1] \in Sector /\ D[s].secs[1] # b
      BY <1>2, <1>3, <2>1, <3>1, DiskTyped, SeqRange
    <3> QED BY <1>4, <3>1, <3>2
  <2> QED BY <1>5, <2>1 DEF HeadersStay
<1>13. NotHeld(T, {})
  BY DEF NotHeld
<1>14. KeepsMarks(D, E, T, F, P, P)
  BY <1>7 DEF KeepsMarks, MarksStay
<1>15. Forgiven(D, T, F, L, L)
  BY DEF Forgiven
<1>16. LeaksOK(E, Owners(E, T), L)
  <2>1. Owners(E, T) = Owners(D, T) /\ Owners(D, T) \subseteq H
    BY <1>9 DEF Owners, Heads, Held, H
  <2>2. \A s \in H : SecsAt(E, s) = SecsAt(D, s)
    BY <1>5, SameHeader
  <2> QED BY <1>1, <1>7, <2>1, <2>2 DEF LeaksOK
<1>17. DiskInv(E, T, F, L, {}, P, {})
  <2>1. HeadersStay(D, E, Heads(E, T), {}, {})
    BY <1>11, <1>12
  <2> QED BY <1>7, <1>10, <1>13, <1>14, <1>15, <1>16, <2>1, DiskStep
<1> QED BY <1>5, <1>7, <1>9, <1>17 DEF H

\* A sector that is not marked is such a sector; so is one of the data of a file.
LEMMA PlainSectors ==
  ASSUME NEW D, NEW T, NEW F, NEW L, Typed(D, T, F, L), DiskInv(D, T, F, L, {}, {}, {}), NEW b
  PROVE  /\ b \in Sector \ UsedIn(D) => PlainSector(D, Heads(D, T), b)
         /\ \A s \in Heads(D, T) : ~D[s].isdir /\ b \in Range(D[s].secs) =>
              PlainSector(D, Heads(D, T), b)
<1> DEFINE H == Heads(D, T)
<1>1. /\ D \in [Sector -> Blocks] /\ H \subseteq Sector /\ HeadsOK(D, H, {})
      /\ \A r \in H : HdrOK(D, r) /\ HdrAt(D, r) /\ SecsAt(D, r) \subseteq Sector /\ r \in SecsAt(D, r)
  BY InvIs DEF DiskInv
<1>2. System \subseteq UsedIn(D) /\ \A s \in H : SecsAt(D, s) \subseteq UsedIn(D)
  BY InUseIs
<1> HIDE DEF H
<1>3. ASSUME NEW s \in H, D[s].isdir PROVE D[s].secs[1] \in SecsAt(D, s)
  <2>1. D[s].secs # <<>> /\ HdrAt(D, s)
    BY <1>1, <1>3 DEF HdrOK
  <2>2. D[s].secs[1] \in Range(D[s].secs)
    BY <1>1, <2>1, DiskTyped, SeqRange
  <2> QED BY <2>1, <2>2 DEF SecsAt
<1>4. ASSUME b \in Sector \ UsedIn(D) PROVE PlainSector(D, H, b)
  BY <1>1, <1>2, <1>3, <1>4 DEF PlainSector
<1>5. ASSUME NEW s \in H, ~D[s].isdir, b \in Range(D[s].secs) PROVE PlainSector(D, H, b)
  <2>1. b \in SecsAt(D, s) /\ b # s /\ b \notin System
    BY <1>1, <1>5 DEF SecsAt, HdrOK
  <2>2. \A r \in H : r # s => b \notin SecsAt(D, r)
    BY <1>1, <2>1 DEF HeadsOK
  <2> QED BY <1>1, <1>3, <1>5, <2>1, <2>2 DEF PlainSector
<1> QED BY <1>4, <1>5 DEF H

\* the map is written back: what it does not mark any more is forgotten
Remapped(D, E, u) ==
  E = [r \in Sector |-> IF r = MapData THEN Map(u)
                        ELSE IF r \in UsedIn(D) \ u THEN Data ELSE D[r]]

\* The map marks the sectors of a new file, or the one more of a file.
LEMMA SectorsMarked ==
  ASSUME NEW D, NEW T, NEW F, NEW L, NEW P \in SUBSET Sector, Typed(D, T, F, L),
         DiskInv(D, T, F, L, {}, P, {}), NEW E, Remapped(D, E, UsedIn(D) \cup P),
         \A x \in P : x \in L \/ \E r \in Owners(D, T) : x \in SecsAt(D, r)
  PROVE  /\ DiskInv(E, T, F, L, {}, {}, {}) /\ SameTree(D, E)
         /\ \A s \in Heads(D, T) : E[s] = D[s]
<1> DEFINE H == Heads(D, T)
           u == UsedIn(D) \cup P
<1>1. /\ FixedOK(D) /\ HeadsOK(D, H, {}) /\ NamesApart(D)
      /\ LeaksOK(D, Owners(D, T), L)
  BY DEF DiskInv
<1>2. /\ Good(D, H, {}) /\ D \in [Sector -> Blocks] /\ H \subseteq Sector
      /\ \A r \in H : HdrOK(D, r) /\ HdrAt(D, r)
  BY InvIs
<1>3. System \subseteq Sector /\ {MapData, FreeMapSector, DirectorySector, RootData} \subseteq System
      /\ MapData \notin {FreeMapSector, DirectorySector, RootData}
  BY Sectors DEF System
<1>4. E[MapData] = Map(u) /\ \A s \in Sector : s # MapData => E[s] = D[s]
  BY <1>3 DEF Remapped
<1> HIDE DEF H, u
<1>5. MapData \notin H /\ \A s \in H : E[s] = D[s]
  BY <1>1, <1>2, <1>3, <1>4 DEF HeadsOK
<1>6. UsedIn(E) = u /\ E[MapData].kind = "map"
  BY <1>4 DEF Map, UsedIn
<1>7. FixedOK(E)
  <2>1. System \subseteq u
    BY <1>1 DEF FixedOK, u
  <2> QED BY <1>1, <1>3, <1>4, <1>6, <2>1 DEF FixedOK
<1>8. ASSUME NEW d \in DirsOf(D) PROVE E[d] = D[d] /\ E[D[d].secs[1]] = D[D[d].secs[1]] /\ DirAt(E, d)
  <2>1. d \in Sector /\ DirAt(D, d) /\ D[d].secs[1] \in Sector
    BY <1>2, DirsAre
  <2>2. d # MapData /\ D[d].secs[1] # MapData
    BY <1>2, DirsApart
  <2>3. E[d] = D[d] /\ E[D[d].secs[1]] = D[D[d].secs[1]]
    BY <1>4, <2>1, <2>2
  <2> QED BY <2>1, <2>3 DEF DirAt, HdrAt
<1>9. SameTree(D, E) /\ \A s : HasName(E, s) <=> HasName(D, s)
  <2>1. E[DirectorySector] = D[DirectorySector] /\ E[RootData] = D[RootData]
    BY <1>3, <1>4
  <2>2. /\ DirsOf(E) = {d \in DirsOf(D) : DirAt(E, d)}
        /\ \A d \in DirsOf(E) : TabAt(E, d) = TabAt(D, d)
        /\ \A d, n, x : NamedAt(E, d, n, x) <=> NamedAt(D, d, n, x)
        /\ \A x : HasName(E, x) <=> HasName(D, x)
        /\ \A p, d, n : Leads(E, p, d, n) <=> Leads(D, p, d, n)
    <3>1. \A s \in H : DirAt(E, s) => E[s] = D[s]
      BY <1>5
    <3>2. \A d \in DirsOf(D) : DirAt(E, d) => E[D[d].secs[1]].tab = D[D[d].secs[1]].tab
      BY <1>8
    <3>3. \A d \in DirsOf(D) : ~DirAt(E, d) => DOMAIN TabAt(D, d) = {}
      BY <1>8
    <3> QED BY <1>2, <2>1, <3>1, <3>2, <3>3, SameNames
  <2>3. DirsOf(E) = DirsOf(D)
    BY <1>8, <2>2
  <2> QED BY <2>2, <2>3 DEF SameTree
<1>10. NamesGo(D, E, {}, {})
  BY <1>9 DEF NamesGo, SameTree
<1>11. Heads(E, T) = H
  BY <1>9 DEF Heads, H
<1>12. HeadersStay(D, E, H, {}, {})
  <2>1. ASSUME NEW s \in H, D[s].isdir PROVE E[D[s].secs[1]].kind = "dir"
    <3>1. D[s].secs # <<>> /\ D[D[s].secs[1]].kind = "dir" /\ HdrAt(D, s)
      BY <1>2, <2>1 DEF HdrOK
    <3>2. D[s].secs[1] \in Sector
      BY <1>2, <3>1, DiskTyped, SeqRange
    <3>3. D[MapData].kind = "map"
      BY <1>1 DEF FixedOK
    <3> QED BY <1>4, <3>1, <3>2, <3>3
  <2> QED BY <1>5, <2>1 DEF HeadersStay
<1>13. NotHeld(T, {})
  BY DEF NotHeld
<1>14. KeepsMarks(D, E, T, F, P, {})
  BY <1>6 DEF KeepsMarks, MarksStay, u
<1>15. Forgiven(D, T, F, L, L)
  BY DEF Forgiven
<1>16. LeaksOK(E, Owners(E, T), L)
  <2>1. Owners(E, T) = Owners(D, T) /\ Owners(D, T) \subseteq H
    BY <1>9 DEF Owners, Heads, Held, H
  <2>2. \A s \in H : SecsAt(E, s) = SecsAt(D, s)
    BY <1>5, SameHeader
  <2>3. \A x \in u : x \in System \cup L \/ \E r \in Owners(D, T) : x \in SecsAt(D, r)
    BY <1>1 DEF LeaksOK, u
  <2> QED BY <1>6, <2>1, <2>2, <2>3 DEF LeaksOK
<1>17. DiskInv(E, T, F, L, {}, {}, {})
  <2>1. HeadersStay(D, E, Heads(E, T), {}, {})
    BY <1>11, <1>12
  <2> QED BY <1>7, <1>10, <1>13, <1>14, <1>15, <1>16, <2>1, DiskStep
<1> QED BY <1>5, <1>9, <1>17 DEF H

\* X are the sectors of the files and empty directories in W, or of one that
\* has no name and no entry; nobody has them open.
ToFree(D, T, F, W, X) ==
  /\ X \subseteq UsedIn(D) /\ X \cap System = {} /\ NotHeld(T, W)
  /\ \A k \in Heads(D, T) : k \notin W => SecsAt(D, k) \cap X = {}
  /\ \A k \in W : SecsAt(D, k) \subseteq X /\ (DirAt(D, k) => DOMAIN TabAt(D, k) = {})
  /\ \A f \in Fid : F[f] # NULL => Mine(F[f]) \cap X = {}

\* The map gives the sectors back.
LEMMA SectorsFreed ==
  ASSUME NEW D, NEW T, NEW F, NEW L, Typed(D, T, F, L), DiskInv(D, T, F, L, {}, {}, {}),
         NEW W, NEW X, ToFree(D, T, F, W, X), NEW E, Remapped(D, E, UsedIn(D) \ X)
  PROVE  /\ DiskInv(E, T, F, L \ X, W, W, {}) /\ UsedIn(E) = UsedIn(D) \ X
         /\ \A d \in DirsOf(D) : d \notin W => d \in DirsOf(E) /\ E[d] = D[d] /\ TabAt(E, d) = TabAt(D, d)
         /\ \A d, n, s : NamedAt(E, d, n, s) <=> NamedAt(D, d, n, s)
         /\ \A p, d, n : Leads(E, p, d, n) <=> Leads(D, p, d, n)
<1> DEFINE H == Heads(D, T)
           u == UsedIn(D) \ X
<1>1. /\ FixedOK(D) /\ HeadsOK(D, H, {}) /\ NamesApart(D)
      /\ LeaksOK(D, Owners(D, T), L)
  BY DEF DiskInv
<1>2. /\ Good(D, H, {}) /\ D \in [Sector -> Blocks] /\ H \subseteq Sector
      /\ \A r \in H : HdrOK(D, r) /\ HdrAt(D, r) /\ r \in SecsAt(D, r)
  BY InvIs
<1>3. System \subseteq Sector /\ {MapData, FreeMapSector, DirectorySector, RootData} \subseteq System
      /\ MapData \notin {FreeMapSector, DirectorySector, RootData}
  BY Sectors DEF System
<1>4. /\ X \subseteq UsedIn(D) /\ X \cap System = {} /\ NotHeld(T, W)
      /\ \A k \in H : k \notin W => SecsAt(D, k) \cap X = {}
      /\ \A k \in W : SecsAt(D, k) \subseteq X /\ (DirAt(D, k) => DOMAIN TabAt(D, k) = {})
      /\ \A f \in Fid : F[f] # NULL => Mine(F[f]) \cap X = {}
  BY DEF ToFree
<1>5. UsedIn(D) \subseteq Sector /\ \A s \in H : SecsAt(D, s) \subseteq UsedIn(D)
  BY InUseIs
<1>6. /\ E[MapData] = Map(u) /\ \A s \in X : E[s] = Data
      /\ \A s \in Sector \ X : s # MapData => E[s] = D[s]
  BY <1>3, <1>4, <1>5 DEF Remapped
<1> HIDE DEF H, u
<1>7. MapData \notin H /\ \A s \in H : s \notin W => s \notin X /\ E[s] = D[s]
  <2>1. MapData \notin H
    BY <1>1, <1>3 DEF HeadsOK
  <2>2. ASSUME NEW s \in H, s \notin W PROVE s \notin X
    BY <1>2, <1>4, <2>2
  <2>3. ASSUME NEW s \in H, s \notin W PROVE E[s] = D[s]
    <3>1. s \in Sector \ X /\ s # MapData
      BY <1>2, <2>1, <2>2, <2>3
    <3> QED BY <1>6, <3>1
  <2> QED BY <2>1, <2>2, <2>3
<1>8. UsedIn(E) = u /\ E[MapData].kind = "map"
  BY <1>6 DEF Map, UsedIn
<1>9. FixedOK(E)
  <2>1. System \subseteq u
    BY <1>1, <1>4 DEF FixedOK, u
  <2>2. \A s \in System : s # MapData => E[s] = D[s]
    BY <1>3, <1>4, <1>6
  <2> QED BY <1>1, <1>3, <1>8, <2>1, <2>2 DEF FixedOK
<1>10. \A s \in W : s \in H => E[s] = Data /\ ~HdrAt(E, s) /\ SecsAt(E, s) = {s} /\ s \in X
  <2> SUFFICES ASSUME NEW s \in W, s \in H
               PROVE  E[s] = Data /\ ~HdrAt(E, s) /\ SecsAt(E, s) = {s} /\ s \in X
    OBVIOUS
  <2>1. s \in X /\ E[s] = Data
    BY <1>2, <1>4, <1>6
  <2>2. ~HdrAt(E, s)
    BY <2>1 DEF HdrAt, Data
  <2> QED BY <2>1, <2>2 DEF SecsAt
<1>11. ASSUME NEW d \in DirsOf(D), d \notin W
       PROVE  E[d] = D[d] /\ E[D[d].secs[1]] = D[D[d].secs[1]] /\ DirAt(E, d)
  <2>1. /\ d \in Sector /\ DirAt(D, d) /\ D[d].secs[1] \in Sector /\ D[d].secs[1] \in SecsAt(D, d)
        /\ d = DirectorySector \/ d \in H
    BY <1>2, DirsAre
  <2>2. d # MapData /\ D[d].secs[1] # MapData
    BY <1>2, DirsApart
  <2>3. d \notin X /\ D[d].secs[1] \notin X
    <3>1. CASE d = DirectorySector
      BY <1>1, <1>2, <1>3, <1>4, <3>1, FixedIs
    <3>2. CASE d \in H
      BY <1>2, <1>4, <1>11, <2>1, <3>2
    <3> QED BY <2>1, <3>1, <3>2
  <2>4. E[d] = D[d] /\ E[D[d].secs[1]] = D[D[d].secs[1]]
    BY <1>6, <2>1, <2>2, <2>3
  <2> QED BY <2>1, <2>4 DEF DirAt, HdrAt
<1>12. ASSUME NEW d \in DirsOf(D), ~DirAt(E, d) PROVE DOMAIN TabAt(D, d) = {}
  <2>1. d \in W /\ DirAt(D, d)
    BY <1>2, <1>11, <1>12, DirsAre
  <2> QED BY <1>4, <2>1
<1>13. ASSUME NEW d \in DirsOf(D), DirAt(E, d) PROVE d \notin W
  <2>1. d \in H \/ d = DirectorySector
    BY <1>2, DirsAre
  <2>2. DirectorySector \notin W
    <3>1. DirectorySector \in SecsAt(D, DirectorySector)
      BY <1>1, <1>2, FixedIs
    <3> QED BY <1>3, <1>4, <3>1
  <2> QED BY <1>10, <1>13, <2>1, <2>2 DEF DirAt
<1>14. /\ DirsOf(E) = {d \in DirsOf(D) : DirAt(E, d)}
       /\ \A d \in DirsOf(E) : TabAt(E, d) = TabAt(D, d)
       /\ \A d, n, x : NamedAt(E, d, n, x) <=> NamedAt(D, d, n, x)
       /\ \A x : HasName(E, x) <=> HasName(D, x)
       /\ \A p, d, n : Leads(E, p, d, n) <=> Leads(D, p, d, n)
  <2>1. E[DirectorySector] = D[DirectorySector] /\ E[RootData] = D[RootData]
    BY <1>3, <1>4, <1>6
  <2>2. \A s \in H : DirAt(E, s) => E[s] = D[s]
    BY <1>7, <1>10 DEF DirAt
  <2>3. \A d \in DirsOf(D) : DirAt(E, d) => E[D[d].secs[1]].tab = D[D[d].secs[1]].tab
    BY <1>11, <1>13
  <2>4. \A d \in DirsOf(D) : ~DirAt(E, d) => DOMAIN TabAt(D, d) = {}
    BY <1>12
  <2> QED BY <1>2, <2>1, <2>2, <2>3, <2>4, SameNames
<1>15. NamesGo(D, E, {}, {})
  BY <1>14 DEF NamesGo
<1>16. Heads(E, T) = H
  BY <1>14 DEF Heads, H
<1>17. HeadersStay(D, E, H, {}, W)
  <2>1. ASSUME NEW s \in H, s \notin W, D[s].isdir PROVE E[D[s].secs[1]].kind = "dir"
    <3>1. D[s].secs # <<>> /\ D[D[s].secs[1]].kind = "dir" /\ HdrAt(D, s)
      BY <1>2, <2>1 DEF HdrOK
    <3>2. D[s].secs[1] \in Sector /\ D[s].secs[1] \in Range(D[s].secs)
      BY <1>2, <3>1, DiskTyped, SeqRange
    <3>3. D[s].secs[1] \in SecsAt(D, s)
      BY <3>1, <3>2 DEF SecsAt
    <3>4. D[MapData].kind = "map"
      BY <1>1 DEF FixedOK
    <3>5. D[s].secs[1] \notin X
      BY <1>4, <2>1, <3>3
    <3> QED BY <1>6, <3>1, <3>2, <3>4, <3>5
  <2> QED BY <1>7, <1>10, <2>1 DEF HeadersStay
<1>18. \A s \in H : s \notin W => SecsAt(E, s) = SecsAt(D, s)
  BY <1>7, SameHeader
<1>19. KeepsMarks(D, E, T, F, {}, W)
  <2>1. ASSUME NEW s \in H, NEW x \in SecsAt(E, s), x \in UsedIn(D) PROVE x \in u \cup W
    <3>1. CASE s \in W
      BY <1>10, <3>1
    <3>2. CASE s \notin W
      <4>1. x \in SecsAt(D, s) /\ SecsAt(D, s) \cap X = {}
        BY <1>4, <1>18, <3>2
      <4> QED BY <2>1, <4>1 DEF u
    <3> QED BY <3>1, <3>2
  <2>2. \A f \in Fid : F[f] # NULL => \A x \in Mine(F[f]) : x \in UsedIn(D) => x \in u
    BY <1>4 DEF u
  <2> QED BY <1>8, <1>16, <2>1, <2>2 DEF KeepsMarks, MarksStay
<1>20. Forgiven(D, T, F, L, L \ X)
  <2>1. \A i \in Slot : T[i] # NULL => T[i].sector \in H /\ T[i].sector \notin W
    BY <1>4, InvIs DEF NotHeld, H
  <2> QED BY <1>4, <2>1 DEF Forgiven
<1>21. LeaksOK(E, Owners(E, T), L \ X)
  <2>1. Owners(E, T) = Owners(D, T) /\ Owners(D, T) \subseteq H
    BY <1>14 DEF Owners, Heads, Held, H
  <2> SUFFICES ASSUME NEW x \in u, x \notin System \cup (L \ X)
               PROVE  \E r \in Owners(D, T) : x \in SecsAt(E, r)
    BY <1>8, <2>1 DEF LeaksOK
  <2>2. PICK r \in Owners(D, T) : x \in SecsAt(D, r)
    BY <1>1 DEF LeaksOK, u
  <2>3. r \notin W
    BY <1>4, <2>2 DEF u
  <2> QED BY <1>18, <2>1, <2>2, <2>3
<1>22. DiskInv(E, T, F, L \ X, W, W, {})
  <2>1. HeadersStay(D, E, Heads(E, T), {}, W)
    BY <1>16, <1>17
  <2>2. NotHeld(T, W)
    BY <1>4
  <2> QED BY <1>9, <1>15, <1>19, <1>20, <1>21, <2>1, <2>2, DiskStep
<1>23. \A d \in DirsOf(D) : d \notin W => d \in DirsOf(E) /\ E[d] = D[d] /\ TabAt(E, d) = TabAt(D, d)
  BY <1>11, <1>14
<1> QED BY <1>8, <1>14, <1>22, <1>23 DEF u

\* The name n in directory c, that of x, may go: the sectors of x and of what
\* is in there are free, or lost, or x is open and marked in the table.
MayGo(D, T, L, V, R, c, n, x) ==
  /\ NamedAt(D, c, n, x) /\ V \subseteq {x} /\ V \cap UsedIn(D) = {}
  /\ \A q \in R : Leads(D, q, c, n)
  /\ \A r \in Sector : r = x \/ (\E m : NamedAt(D, x, m, r)) =>
       \/ \E i \in Slot : T[i] # NULL /\ T[i].sector = r /\ T[i].ToBeDeleted
       \/ SecsAt(D, r) \cap UsedIn(D) \subseteq L

\* A directory is written back without a name.
LEMMA NameGone ==
  ASSUME NEW D, NEW T, NEW F, NEW L, NEW V, NEW R, Typed(D, T, F, L),
         DiskInv(D, T, F, L, V, V, R), NEW c \in DirsOf(D), NEW n, NEW x,
         MayGo(D, T, L, V, R, c, n, x),
         NEW E, E = Put(D, D[c].secs[1], Dir(RemoveName(TabAt(D, c), n)))
  PROVE  DiskInv(E, T, F, L, {}, {}, {})
<1> DEFINE H == Heads(D, T)
           K == Heads(E, T)
<1>1. /\ FixedOK(D) /\ HeadsOK(D, H, V) /\ NamesApart(D)
      /\ LeaksOK(D, Owners(D, T), L) /\ HandlesOK(D, T, F, V, L)
  BY DEF DiskInv
<1>2. /\ Good(D, H, V) /\ D \in [Sector -> Blocks] /\ H \subseteq Sector
      /\ \A r \in H : r \in SecsAt(D, r)
      /\ \A i \in Slot : T[i] # NULL => T[i].sector \in H /\ T[i].sector \notin V
      /\ \A r \in H : r \notin V => HdrOK(D, r)
  BY InvIs
<1>3. /\ NamedAt(D, c, n, x) /\ V \subseteq {x} /\ V \cap UsedIn(D) = {}
      /\ \A q \in R : Leads(D, q, c, n)
  BY DEF MayGo
<1>4. PICK tab : tab = RemoveName(TabAt(D, c), n)
  OBVIOUS
<1>5. PICK b \in Sector : b = D[c].secs[1]
  BY <1>2, DirsAre
<1>6. E = Put(D, D[c].secs[1], Dir(tab))
  BY <1>4
<1>7. /\ \A s \in Sector : s # D[c].secs[1] => E[s] = D[s]
      /\ E[D[c].secs[1]].tab = tab /\ E[D[c].secs[1]].kind = "dir"
      /\ \A s \in H : E[s] = D[s]
      /\ \A d \in DirsOf(D) : TabAt(E, d) = IF d = c THEN tab ELSE TabAt(D, d)
      /\ \A s : DirAt(E, s) <=> DirAt(D, s)
      /\ E[RootData].tab = IF c = DirectorySector THEN tab ELSE D[RootData].tab
  BY <1>2, <1>6, OtherNames
<1>8. /\ \A s \in Sector : s # b => E[s] = D[s]
      /\ E[b].kind = "dir"
      /\ \A s \in H : E[s] = D[s]
  BY <1>5, <1>7
<1>9. /\ DirsOf(E) = DirsOf(D) \ {x}
      /\ \A d, m, s : NamedAt(E, d, m, s) <=>
           NamedAt(D, d, m, s) /\ ~(d = c /\ m = n) /\ d # x
  BY <1>1, <1>2, <1>3, NameDropped
<1>10. b \notin {FreeMapSector, DirectorySector, MapData}
  BY <1>2, <1>5, DirsApart
<1> HIDE DEF H, K
<1>11. FixedOK(E) /\ UsedIn(E) = UsedIn(D)
  <2>1. MapData \in Sector /\ FreeMapSector \in Sector /\ DirectorySector \in Sector
        /\ RootData \in Sector
    BY Sectors DEF System
  <2>2. E[MapData] = D[MapData] /\ E[FreeMapSector] = D[FreeMapSector]
        /\ E[DirectorySector] = D[DirectorySector]
    BY <1>8, <1>10, <2>1
  <2>3. E[RootData].kind = "dir"
    BY <1>1, <1>8, <2>1 DEF FixedOK
  <2> QED BY <1>1, <2>2, <2>3 DEF FixedOK, UsedIn
<1>12. c \in Sector /\ n \in Name /\ x \in Sector /\ x \in H
  BY <1>2, <1>3, NamesAre
<1>13. \A s : HasName(E, s) => HasName(D, s) /\ s # x
  <2> SUFFICES ASSUME NEW s, NEW d \in Sector, NEW m \in Name, NamedAt(E, d, m, s)
               PROVE  HasName(D, s) /\ s # x
    BY DEF HasName
  <2>1. NamedAt(D, d, m, s) /\ ~(d = c /\ m = n)
    BY <1>9
  <2>2. s # x
    BY <1>1, <1>3, <1>12, <2>1 DEF NamesApart
  <2> QED BY <2>1, <2>2 DEF HasName
<1>14. \A s \in K : s \in H /\ s \notin V
  <2> SUFFICES ASSUME NEW s \in K PROVE s \in H /\ s \notin V
    OBVIOUS
  <2>1. s \in Sector /\ (HasName(E, s) \/ Held(T, s))
    BY DEF Heads, K
  <2>2. CASE HasName(E, s)
    BY <1>3, <1>13, <2>1, <2>2 DEF Heads, H
  <2>3. CASE Held(T, s)
    BY <1>2, <2>1, <2>3 DEF Heads, Held, H
  <2> QED BY <2>1, <2>2, <2>3
<1>15. NamesGo(D, E, R, {})
  <2> SUFFICES ASSUME NEW d \in Sector, NEW m \in Name, NEW s \in Sector, NamedAt(E, d, m, s)
               PROVE  /\ NamedAt(D, d, m, s)
                      /\ \A p \in Path : Leads(D, p, d, m) => Leads(E, p, d, m) /\ (p \in R => p \in {})
    BY DEF NamesGo
  <2>1. NamedAt(D, d, m, s) /\ ~(d = c /\ m = n) /\ d # x
    BY <1>9
  <2>2. ASSUME NEW p \in Path, Leads(D, p, d, m) PROVE Leads(E, p, d, m) /\ p \notin R
    <3>1. p \notin R
      <4> SUFFICES ASSUME p \in R PROVE FALSE
        OBVIOUS
      <4>1. Leads(D, p, c, n)
        BY <1>3
      <4> QED BY <2>1, <2>2, <4>1, LeadsOne
    <3>2. CASE Len(Components[p]) = 1
      BY <2>2, <3>1, <3>2 DEF Leads
    <3>3. CASE Len(Components[p]) # 1
      <4>1. NamedAt(D, DirectorySector, Components[p][1], d) /\ m = Components[p][2]
        BY <2>2, <3>3 DEF Leads
      <4>2. ~(DirectorySector = c /\ Components[p][1] = n)
        <5> SUFFICES ASSUME DirectorySector = c, Components[p][1] = n PROVE FALSE
          OBVIOUS
        <5>1. d = x
          BY <1>3, <4>1 DEF NamedAt
        <5> QED BY <2>1, <5>1
      <4>3. DirectorySector # x
        BY <1>1, <1>12, Sectors DEF HeadsOK, System
      <4>4. NamedAt(E, DirectorySector, Components[p][1], d)
        BY <1>9, <4>1, <4>2, <4>3
      <4> QED BY <3>1, <3>3, <4>1, <4>4 DEF Leads
    <3> QED BY <3>2, <3>3
  <2> QED BY <2>1, <2>2
<1>16. HeadersStay(D, E, K, V, {})
  <2>1. ASSUME NEW s \in K, D[s].isdir PROVE E[D[s].secs[1]].kind = "dir"
    <3>1. HdrOK(D, s)
      BY <1>2, <1>14
    <3>2. D[s].secs # <<>> /\ D[D[s].secs[1]].kind = "dir" /\ HdrAt(D, s)
      BY <2>1, <3>1 DEF HdrOK
    <3>3. D[s].secs[1] \in Sector
      BY <1>2, <3>2, DiskTyped, SeqRange
    <3> QED BY <1>8, <3>2, <3>3
  <2> QED BY <1>8, <1>14, <2>1 DEF HeadersStay
<1>17. NotHeld(T, {})
  BY DEF NotHeld
<1>18. KeepsMarks(D, E, T, F, V, {})
  <2>1. ASSUME NEW s \in K, NEW y \in SecsAt(E, s), y \in UsedIn(D) \cup V PROVE y \in UsedIn(D)
    <3>1. y \in SecsAt(D, s) /\ s \in H /\ s \notin V
      BY <1>8, <1>14, <2>1, SameHeader
    <3>2. y \notin V
      BY <1>1, <1>2, <1>3, <1>12, <3>1 DEF HeadsOK
    <3> QED BY <2>1, <3>2
  <2>2. ASSUME NEW f \in Fid, F[f] # NULL, NEW y \in Mine(F[f]), y \in UsedIn(D) \cup V
        PROVE  y \in UsedIn(D)
    <3>1. EntryFor(T, L, F[f]) /\ HandleOK(D, H, V, F[f])
      BY <1>1, <2>2 DEF HandlesOK, H
    <3>2. F[f].sector \notin V
      BY <1>2, <3>1 DEF EntryFor
    <3>3. y \notin V
      BY <1>2, <1>3, <1>12, <2>2, <3>1, <3>2 DEF HandleOK
    <3> QED BY <2>2, <3>3
  <2> QED BY <1>11, <2>1, <2>2 DEF KeepsMarks, MarksStay, K
<1>19. Forgiven(D, T, F, L, L)
  BY DEF Forgiven
<1>20. LeaksOK(E, Owners(E, T), L)
  <2> SUFFICES ASSUME NEW y \in UsedIn(D), y \notin System \cup L
               PROVE  \E r \in Owners(E, T) : y \in SecsAt(E, r)
    BY <1>11 DEF LeaksOK
  <2>1. PICK r \in Owners(D, T) : y \in SecsAt(D, r)
    BY <1>1 DEF LeaksOK
  <2>2. r \in H /\ r \in Sector
    BY <1>2, <2>1 DEF Owners, Heads, Held, H
  <2>3. y \in SecsAt(E, r)
    BY <1>8, <2>1, <2>2, SameHeader
  <2>4. r \in Owners(E, T)
    <3>1. CASE \E i \in Slot : T[i] # NULL /\ T[i].sector = r /\ T[i].ToBeDeleted
      BY <2>2, <3>1 DEF Owners
    <3>2. CASE ~\E i \in Slot : T[i] # NULL /\ T[i].sector = r /\ T[i].ToBeDeleted
      <4>1. HasName(D, r)
        BY <2>1, <3>2 DEF Owners
      <4>2. ~(SecsAt(D, r) \cap UsedIn(D) \subseteq L)
        BY <2>1
      <4>3. r # x /\ \A m : ~NamedAt(D, x, m, r)
        BY <2>2, <3>2, <4>2 DEF MayGo
      <4>4. PICK d \in Sector, m \in Name : NamedAt(D, d, m, r)
        BY <4>1 DEF HasName
      <4>5. ~(d = c /\ m = n) /\ d # x
        BY <1>3, <4>3, <4>4 DEF NamedAt
      <4>6. NamedAt(E, d, m, r)
        BY <1>9, <4>4, <4>5
      <4> QED BY <2>2, <4>6 DEF Owners, HasName
    <3> QED BY <3>1, <3>2
  <2> QED BY <2>3, <2>4
<1>21. HeadersStay(D, E, Heads(E, T), V, {})
  BY <1>16 DEF K
<1> QED BY <1>11, <1>15, <1>17, <1>18, <1>19, <1>20, <1>21, DiskStep

\* what the destructor of an entry gives back
SectorsIn(e) == {e.sector} \cup Range(e.file.secs)

\* nobody has the file of entry k open but the one who closes f, and it has
\* been removed; k and f go
LastClose(T, F, U, G, k, f) ==
  /\ k \in Slot /\ T[k] # NULL /\ T[k].ToBeDeleted
  /\ \A i \in Slot : T[i] # NULL /\ T[i].name = T[k].name => i = k
  /\ f \in Fid /\ \A g \in Fid : F[g] # NULL /\ F[g].path = T[k].name => g = f
  /\ U = [T EXCEPT ![k] = NULL] /\ G = [F EXCEPT ![f] = NULL]

\* The last program has closed a file that was removed: the map gives back
\* the sectors of the header in the entry, and the entry goes.
LEMMA EntryFreed ==
  ASSUME NEW D, NEW T, NEW F, NEW L, Typed(D, T, F, L), DiskInv(D, T, F, L, {}, {}, {}),
         NEW U, NEW G, NEW k, NEW f, LastClose(T, F, U, G, k, f),
         NEW E, Remapped(D, E, UsedIn(D) \ SectorsIn(T[k]))
  PROVE  DiskInv(E, U, G, L \ SectorsIn(T[k]), {}, {}, {})
<1>0. /\ k \in Slot /\ T[k] # NULL /\ T[k].ToBeDeleted
      /\ \A i \in Slot : T[i] # NULL /\ T[i].name = T[k].name => i = k
      /\ f \in Fid /\ \A g \in Fid : F[g] # NULL /\ F[g].path = T[k].name => g = f
  BY DEF LastClose
<1> DEFINE H == Heads(D, T)
           s == T[k].sector
           M == L \cup SecsAt(D, s)
<1>1. /\ FixedOK(D) /\ HeadsOK(D, H, {}) /\ TableOK(D, T, L, {}) /\ HandlesOK(D, T, F, {}, L)
      /\ LeaksOK(D, Owners(D, T), L)
  BY DEF DiskInv
<1>2. /\ s \in H /\ s \in Sector /\ HdrAt(D, s) /\ EntryOK(D, L, {}, T[k]) /\ HdrOK(D, s)
      /\ SecsAt(D, s) \subseteq Sector
  BY <1>0, InvIs
<1>3. /\ D \in [Sector -> Blocks] /\ T \in [Slot -> OFTEntries \cup {NULL}]
      /\ F \in [Fid -> OpenFiles \cup {NULL}] /\ L \subseteq Sector
  BY DEF Typed
<1>4. /\ U[k] = NULL /\ \A i \in Slot : i # k => U[i] = T[i]
      /\ G[f] = NULL /\ \A g \in Fid : g # f => G[g] = F[g]
      /\ U \in [Slot -> OFTEntries \cup {NULL}] /\ G \in [Fid -> OpenFiles \cup {NULL}]
  BY <1>0, <1>3 DEF LastClose
<1>5. SecsAt(D, s) \subseteq UsedIn(D)
  BY <1>2, InUseIs
<1>6. SectorsIn(T[k]) \subseteq SecsAt(D, s) /\ SecsAt(D, s) \subseteq SectorsIn(T[k]) \cup L
  BY <1>2 DEF EntryOK, SecsAt, SectorsIn, s
<1> HIDE DEF H, s, M
<1>7. Typed(D, U, G, M)
  BY <1>2, <1>3, <1>4 DEF Typed, M
<1>8. EntriesGo(T, U, {}, {})
  BY <1>4 DEF EntriesGo
<1>9. HandlesGo(T, U, F, G)
  <2> SUFFICES ASSUME NEW g \in Fid, G[g] # NULL
               PROVE  /\ G[g] = F[g]
                      /\ \A i \in Slot : T[i] # NULL /\ T[i].name = F[g].path => U[i] # NULL
    BY DEF HandlesGo
  <2>1. g # f /\ G[g] = F[g]
    BY <1>4
  <2>2. F[g].path # T[k].name
    BY <1>0, <2>1
  <2> QED BY <1>4, <2>1, <2>2
<1>10. LeaksOK(D, Owners(D, U), M)
  <2> SUFFICES ASSUME NEW y \in UsedIn(D), y \notin System \cup M
               PROVE  \E r \in Owners(D, U) : y \in SecsAt(D, r)
    BY DEF LeaksOK
  <2>1. PICK r \in Owners(D, T) : y \in SecsAt(D, r)
    BY <1>1 DEF LeaksOK, M
  <2>2. r # s
    BY <2>1 DEF M
  <2>3. r \in Owners(D, U)
    <3>1. CASE HasName(D, r)
      BY <2>1, <3>1 DEF Owners
    <3>2. CASE ~HasName(D, r)
      <4>1. PICK i \in Slot : T[i] # NULL /\ T[i].sector = r /\ T[i].ToBeDeleted
        BY <2>1, <3>2 DEF Owners
      <4>2. U[i] = T[i]
        BY <1>4, <2>2, <4>1 DEF s
      <4> QED BY <2>1, <4>1, <4>2 DEF Owners
    <3> QED BY <3>1, <3>2
  <2> QED BY <2>1, <2>3
<1>11. DiskInv(D, U, G, M, {}, {}, {})
  BY <1>8, <1>9, <1>10, TableStep DEF M
<1>12. Heads(D, U) \subseteq H /\ s \notin Heads(D, U)
  <2>1. ~HasName(D, s)
    <3> SUFFICES ASSUME HasName(D, s) PROVE FALSE
      OBVIOUS
    <3>1. PICK d \in Sector, n \in Name : NamedAt(D, d, n, s)
      BY DEF HasName
    <3> QED BY <1>0, <1>2, <3>1 DEF EntryOK, s
  <2>2. ~Held(U, s)
    BY <1>0, <1>1, <1>4 DEF Held, TableOK, s
  <2>3. \A r : Held(U, r) => Held(T, r)
    BY <1>4 DEF Held
  <2> QED BY <2>1, <2>2, <2>3 DEF Heads, H
<1>13. ToFree(D, U, G, {}, SectorsIn(T[k]))
  <2>1. SectorsIn(T[k]) \subseteq UsedIn(D)
    BY <1>5, <1>6
  <2>2. SectorsIn(T[k]) \cap System = {}
    BY <1>1, <1>2, <1>6 DEF HeadsOK, HdrOK, SecsAt
  <2>3. \A r \in Heads(D, U) : SecsAt(D, r) \cap SectorsIn(T[k]) = {}
    BY <1>1, <1>2, <1>6, <1>12 DEF HeadsOK
  <2>4. ASSUME NEW g \in Fid, G[g] # NULL PROVE Mine(G[g]) \cap SectorsIn(T[k]) = {}
    <3>1. g # f /\ G[g] = F[g] /\ F[g] # NULL /\ F[g].path # T[k].name
      BY <1>0, <1>4, <2>4
    <3>2. EntryFor(T, L, F[g]) /\ HandleOK(D, H, {}, F[g])
      BY <1>1, <3>1 DEF HandlesOK, H
    <3>3. PICK i \in Slot : T[i] # NULL /\ T[i].name = F[g].path /\ T[i].sector = F[g].sector
      BY <3>2 DEF EntryFor
    <3>4. F[g].sector # s
      BY <1>0, <1>1, <3>1, <3>3 DEF TableOK, s
    <3>5. Mine(F[g]) \cap SecsAt(D, s) = {}
      BY <1>2, <3>2, <3>4 DEF HandleOK
    <3> QED BY <1>6, <3>1, <3>5
  <2> QED BY <2>1, <2>2, <2>3, <2>4 DEF ToFree, NotHeld
<1>14. DiskInv(E, U, G, M \ SectorsIn(T[k]), {}, {}, {})
  <2>1. /\ DiskInv(E, U, G, M \ SectorsIn(T[k]), {}, {}, {}) /\ UsedIn(E) = UsedIn(D) \ SectorsIn(T[k])
        /\ \A d \in DirsOf(D) : d \notin {} => d \in DirsOf(E) /\ E[d] = D[d] /\ TabAt(E, d) = TabAt(D, d)
        /\ \A d, n, y : NamedAt(E, d, n, y) <=> NamedAt(D, d, n, y)
        /\ \A p, d, n : Leads(E, p, d, n) <=> Leads(D, p, d, n)
    BY <1>7, <1>11, <1>13, SectorsFreed
  <2> QED BY <2>1
<1>15. M \ SectorsIn(T[k]) = L \ SectorsIn(T[k])
  BY <1>6 DEF M
<1> QED BY <1>14, <1>15

-----------------------------------------------------------------------------
(* What the calls do to the table *)

\* the entries are those that they were, but for the count
SameEntries(T, U) ==
  \A i \in Slot : /\ U[i] # NULL <=> T[i] # NULL
                  /\ U[i] # NULL => /\ U[i].name = T[i].name /\ U[i].sector = T[i].sector
                                    /\ U[i].file = T[i].file
                                    /\ U[i].ToBeDeleted <=> T[i].ToBeDeleted

\* A count changes, and a handle may go.
LEMMA EntriesKept ==
  ASSUME NEW D, NEW T, NEW F, NEW L, NEW V, NEW P, NEW R,
         Typed(D, T, F, L), DiskInv(D, T, F, L, V, P, R),
         NEW U, NEW G, SameEntries(T, U), \A g \in Fid : G[g] # NULL => G[g] = F[g]
  PROVE  DiskInv(D, U, G, L, V, P, R)
<1>1. EntriesGo(T, U, R, R)
  BY DEF EntriesGo, SameEntries
<1>2. HandlesGo(T, U, F, G)
  BY DEF HandlesGo, SameEntries
<1>3. Owners(D, U) = Owners(D, T)
  BY DEF Owners, SameEntries
<1>4. LeaksOK(D, Owners(D, U), L)
  BY <1>3 DEF DiskInv
<1> QED BY <1>1, <1>2, <1>4, TableStep

\* nobody else has the file of entry k open, and it is to stay; k and f go
LastOut(T, F, U, G, k, f) ==
  /\ k \in Slot /\ T[k] # NULL /\ ~T[k].ToBeDeleted
  /\ f \in Fid /\ \A g \in Fid : F[g] # NULL /\ F[g].path = T[k].name => g = f
  /\ U = [T EXCEPT ![k] = NULL] /\ G = [F EXCEPT ![f] = NULL]

\* The last program closes a file that is to stay: its entry and handle go.
LEMMA EntryLeaves ==
  ASSUME NEW D, NEW T, NEW F, NEW L, NEW V, NEW P, NEW R,
         Typed(D, T, F, L), DiskInv(D, T, F, L, V, P, R),
         NEW U, NEW G, NEW k, NEW f, LastOut(T, F, U, G, k, f)
  PROVE  DiskInv(D, U, G, L, V, P, R)
<1>1. /\ k \in Slot /\ T[k] # NULL /\ ~T[k].ToBeDeleted
      /\ f \in Fid /\ \A g \in Fid : F[g] # NULL /\ F[g].path = T[k].name => g = f
  BY DEF LastOut
<1>2. T \in [Slot -> OFTEntries \cup {NULL}] /\ F \in [Fid -> OpenFiles \cup {NULL}]
  BY DEF Typed
<1>3. /\ U[k] = NULL /\ \A i \in Slot : i # k => U[i] = T[i]
      /\ G[f] = NULL /\ \A g \in Fid : g # f => G[g] = F[g]
  BY <1>1, <1>2 DEF LastOut
<1>4. EntriesGo(T, U, R, R)
  BY <1>3 DEF EntriesGo
<1>5. HandlesGo(T, U, F, G)
  <2> SUFFICES ASSUME NEW g \in Fid, G[g] # NULL
               PROVE  /\ G[g] = F[g]
                      /\ \A i \in Slot : T[i] # NULL /\ T[i].name = F[g].path => U[i] # NULL
    BY DEF HandlesGo
  <2>1. g # f /\ G[g] = F[g]
    BY <1>3
  <2>2. F[g].path # T[k].name
    BY <1>1, <2>1
  <2> QED BY <1>3, <2>1, <2>2
<1>6. Owners(D, U) = Owners(D, T)
  BY <1>1, <1>3 DEF Owners
<1>7. LeaksOK(D, Owners(D, U), L)
  BY <1>6 DEF DiskInv
<1> QED BY <1>4, <1>5, <1>7, TableStep

Marking(T, U, k) ==
  k \in Slot /\ T[k] # NULL /\ U = [T EXCEPT ![k].ToBeDeleted = TRUE]

\* The entry of a file that is removed is marked; sectors may be lost.
LEMMA EntryMarked ==
  ASSUME NEW D, NEW T, NEW F, NEW L, NEW P,
         Typed(D, T, F, L), DiskInv(D, T, F, L, {}, P, {}),
         NEW U, NEW k, Marking(T, U, k), NEW M, L \subseteq M
  PROVE  /\ DiskInv(D, U, F, M, {}, P, {T[k].name})
         /\ U[k] # NULL /\ U[k].name = T[k].name /\ U[k].sector = T[k].sector /\ U[k].ToBeDeleted
<1>1. k \in Slot /\ T[k] # NULL /\ T \in [Slot -> OFTEntries \cup {NULL}] /\ T[k] \in OFTEntries
  BY DEF Marking, Typed
<1>2. /\ U[k] = [T[k] EXCEPT !.ToBeDeleted = TRUE] /\ \A i \in Slot : i # k => U[i] = T[i]
  BY <1>1 DEF Marking
<1>3. /\ U[k].name = T[k].name /\ U[k].sector = T[k].sector /\ U[k].ToBeDeleted
      /\ U[k].file = T[k].file /\ U[k] \in OFTEntries
  BY <1>1, <1>2 DEF OFTEntries
<1>4. U[k] # NULL
  BY <1>3, EntriesTyped
<1>5. EntriesGo(T, U, {}, {T[k].name})
  BY <1>1, <1>2, <1>3 DEF EntriesGo
<1>6. HandlesGo(T, U, F, F)
  BY <1>2, <1>4 DEF HandlesGo
<1>7. Owners(D, T) \subseteq Owners(D, U)
  BY <1>1, <1>2, <1>3, <1>4 DEF Owners
<1>8. LeaksOK(D, Owners(D, U), M)
  BY <1>7 DEF DiskInv, LeaksOK
<1>9. DiskInv(D, U, F, M, {}, P, {T[k].name})
  BY <1>5, <1>6, <1>8, TableStep
<1> QED BY <1>3, <1>4, <1>9

=============================================================================
