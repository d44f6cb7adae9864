-------------------------- MODULE FileTableProofs ---------------------------
(***************************************************************************)
(* Theorems about the open file table of module FileSystem, for any        *)
(* threads, paths, sectors and sizes, when the calls that overlap are      *)
(* those that the code lets overlap safely: Creates, which wait for        *)
(* createLock, and one Open beside them.  The invariant CountInv is        *)
(* inductive by itself, without what is on the disk.                       *)
(***************************************************************************)
EXTENDS FileSystem, FiniteSetTheorems, SequenceTheorems, WellFoundedInduction,
        TLAPS

\* Only Creates overlap, and a Create with an Open.
CallsApart == Together \subseteq {{"create"}, {"create", "open"}}

-----------------------------------------------------------------------------
(* Helpers *)

\* A set of natural numbers that is not empty has a least element.
LEMMA LeastOf ==
  ASSUME NEW T \in SUBSET Nat, T # {}
  PROVE  \E x \in T : \A y \in T : x <= y
<1> DEFINE R == OpToRel(<, Nat)
<1>1. IsWellFoundedOn(R, Nat)
  BY NatLessThanWellFounded
<1>2. PICK x \in T : \A y \in T : ~ (<<y, x>> \in R)
  <2> HIDE DEF R
  <2> QED BY <1>1, WFMin
<1>3. \A y \in T : ~(y < x)
  BY <1>2 DEF OpToRel
<1> QED BY <1>3

\* The sectors of a header are sectors, and a header that has some has a first.
LEMMA SeqRange ==
  ASSUME NEW S, NEW q \in Seq(S)
  PROVE  /\ Len(q) \in Nat /\ DOMAIN q = 1..Len(q)
         /\ \A i \in DOMAIN q : q[i] \in S /\ q[i] \in Range(q)
         /\ Range(q) \subseteq S
         /\ \A x \in Range(q) : \E i \in DOMAIN q : x = q[i]
         /\ q # <<>> => Len(q) \in Nat \ {0} /\ q[1] \in Range(q) /\ q[Len(q)] \in Range(q)
<1>1. Len(q) \in Nat /\ q \in [1..Len(q) -> S] /\ DOMAIN q = 1..Len(q)
  BY LenProperties
<1>2. q # <<>> => Len(q) \in Nat \ {0}
  BY EmptySeq
<1> QED BY <1>1, <1>2 DEF Range

\* A function from 1..n is a sequence.
LEMMA FunIsSeq ==
  ASSUME NEW S, NEW n \in Nat, NEW q \in [1..n -> S]
  PROVE  q \in Seq(S) /\ Len(q) = n
<1> DEFINE e(i) == q[i]
<1>1. \A i \in 1..n : e(i) \in S
  OBVIOUS
<1>2. [i \in 1..n |-> e(i)] \in Seq(S)
  <2> HIDE DEF e
  <2> QED BY <1>1, IsASeq
<1>3. q = [i \in 1..n |-> e(i)]
  OBVIOUS
<1>4. q \in Seq(S)
  BY <1>2, <1>3
<1>5. DOMAIN q = 1..n /\ DOMAIN q = 1..Len(q) /\ Len(q) \in Nat
  BY <1>4, LenProperties
<1>6. Len(q) = n
  BY <1>5
<1> QED BY <1>4, <1>6

\* A sequence of one or two elements is not empty.
LEMMA NotEmpty == \A q : Len(q) \in {1, 2} => q # <<>>
<1>1. Len(<<>>) = 0
  <2>1. \A S : Len(<<>>) = 0
    BY EmptySeq
  <2> QED BY <2>1
<1> QED BY <1>1

\* The names of a path are names, and there are one or two of them.
LEMMA ComponentsTyped ==
  ASSUME NEW p \in Path
  PROVE  /\ Components[p] \in Seq(Name)
         /\ Len(Components[p]) \in {1, 2}
<1>1. Components[p] \in Seq(STRING) /\ Len(Components[p]) \in {1, 2}
  BY FileSystemAssumption
<1>2. Components[p] \in [1..Len(Components[p]) -> STRING]
  BY <1>1, LenProperties
<1>3. Range(Components[p]) \subseteq Name
  BY DEF Name
<1>4. \A i \in 1..Len(Components[p]) : Components[p][i] \in Name
  BY <1>2, <1>3 DEF Range
<1>5. Components[p] \in [1..Len(Components[p]) -> Name]
  BY <1>2, <1>4
<1>6. Len(Components[p]) \in Nat
  BY <1>1
<1> QED BY <1>1, <1>5, <1>6, FunIsSeq

\* The sectors are finitely many natural numbers, and -1 is none of them.
LEMMA Sectors ==
  /\ Sector \subseteq Nat /\ -1 \notin Sector /\ IsFiniteSet(Sector)
  /\ System \subseteq Sector
  /\ FreeMapSector # DirectorySector /\ FreeMapSector # MapData /\ FreeMapSector # RootData
  /\ DirectorySector # MapData /\ DirectorySector # RootData /\ MapData # RootData
<1>1. NumSectors \in Nat /\ NumSectors > 4
  BY FileSystemAssumption
<1>2. IsFiniteSet(Sector)
  BY <1>1, FS_Interval DEF Sector
<1> QED BY <1>1, <1>2
    DEF Sector, System, FreeMapSector, DirectorySector, MapData, RootData

\* Find returns a sector that is not marked, or -1 when there is none.
LEMMA FindSector ==
  ASSUME NEW used
  PROVE  Find(used) = -1 \/ Find(used) \in Clear(used)
<1>1. CASE Clear(used) = {}
  BY <1>1 DEF Find
<1>2. CASE Clear(used) # {}
  <2>1. Clear(used) \in SUBSET Nat
    BY Sectors DEF Clear
  <2>2. PICK s \in Clear(used) : \A r \in Clear(used) : s <= r
    BY <1>2, <2>1, LeastOf
  <2> QED BY <1>2, <2>2 DEF Find
<1> QED BY <1>1, <1>2

\* The n lowest clear sectors, in order.
Lowest(used, n, q) ==
  /\ q \in [1..n -> Clear(used)]
  /\ \A i, j \in 1..n : i < j => q[i] < q[j]
  /\ \A s \in Clear(used) \ Range(q) : \A i \in 1..n : q[i] < s

\* When there is one sector more, there is one more to take.
LEMMA LowestGoesOn ==
  ASSUME NEW used, NEW n \in Nat, n + 1 <= NumClear(used),
         NEW q, Lowest(used, n, q)
  PROVE  \E r : Lowest(used, n + 1, r)
<1>1. IsFiniteSet(Clear(used)) /\ Clear(used) \subseteq Nat
  BY Sectors, FS_Subset DEF Clear
<1>2. Clear(used) \ Range(q) # {}
  <2> SUFFICES ASSUME Clear(used) \subseteq Range(q) PROVE FALSE
    OBVIOUS
  <2>1. q \in [1..n -> Clear(used)] /\ \A s \in Clear(used) : \E i \in 1..n : q[i] = s
    BY DEF Lowest, Range
  <2>2. ExistsSurjection(1..n, Clear(used))
    BY <2>1 DEF ExistsSurjection, Surjection
  <2>3. Cardinality(Clear(used)) <= n
    BY <2>2, FS_SurjCardinalityBound
  <2>4. Cardinality(Clear(used)) \in Nat
    BY <1>1, FS_CardinalityType
  <2> QED BY <2>3, <2>4 DEF NumClear
<1>3. PICK m \in Clear(used) \ Range(q) : \A s \in Clear(used) \ Range(q) : m <= s
  BY <1>1, <1>2, LeastOf
<1> DEFINE r == [i \in 1..(n + 1) |-> IF i <= n THEN q[i] ELSE m]
<1>4. r \in [1..(n + 1) -> Clear(used)]
  BY <1>3 DEF Lowest
<1>5. \A i, j \in 1..(n + 1) : i < j => r[i] < r[j]
  <2> TAKE i, j \in 1..(n + 1)
  <2> HAVE i < j
  <2>1. CASE j <= n
    BY <2>1 DEF Lowest
  <2>2. CASE j = n + 1
    BY <2>2, <1>3 DEF Lowest
  <2> QED BY <2>1, <2>2
<1>6. Clear(used) \ Range(r) \subseteq Clear(used) \ Range(q) /\ m \in Range(r)
  <2>1. \A i \in 1..n : q[i] = r[i] /\ i \in DOMAIN r
    OBVIOUS
  <2>2. Range(q) \subseteq Range(r)
    BY <2>1 DEF Range, Lowest
  <2>3. m = r[n + 1] /\ n + 1 \in DOMAIN r
    OBVIOUS
  <2> QED BY <2>2, <2>3 DEF Range
<1>7. ASSUME NEW s \in Clear(used) \ Range(r), NEW i \in 1..(n + 1)
      PROVE  r[i] < s
  <2>1. s \in Clear(used) \ Range(q) /\ s # m /\ m <= s
    BY <1>3, <1>6, <1>7
  <2>2. CASE i <= n
    BY <2>1, <2>2 DEF Lowest
  <2>3. CASE i = n + 1
    <3>1. s \in Nat /\ m \in Nat
      BY <1>1, <1>3, <2>1
    <3> QED BY <2>1, <2>3, <3>1
  <2> QED BY <2>2, <2>3
<1>8. Lowest(used, n + 1, r)
  <2> HIDE DEF r
  <2> QED BY <1>4, <1>5, <1>7 DEF Lowest
<1> QED BY <1>8

\* What Allocate returns when CanAllocate allows it: n clear sectors, all
\* different.
LEMMA AllocateFinds ==
  ASSUME NEW used, NEW n \in Nat, CanAllocate(used, n)
  PROVE  /\ Allocate(used, n) \in Seq(Sector) /\ Len(Allocate(used, n)) = n
         /\ Range(Allocate(used, n)) \subseteq Clear(used)
         /\ \A i, j \in DOMAIN Allocate(used, n) :
              Allocate(used, n)[i] = Allocate(used, n)[j] => i = j
<1>1. NumClear(used) \in Nat /\ n <= NumClear(used)
  <2>1. IsFiniteSet(Clear(used))
    BY Sectors, FS_Subset DEF Clear
  <2>2. NumClear(used) \in Nat
    BY <2>1, FS_CardinalityType DEF NumClear
  <2> QED BY <2>2 DEF CanAllocate
<1> DEFINE B == {k \in Nat : k <= NumClear(used) /\ ~ \E q : Lowest(used, k, q)}
<1>2. B = {}
  <2> SUFFICES ASSUME B # {} PROVE FALSE
    OBVIOUS
  <2>1. PICK k \in B : \A j \in B : k <= j
    <3>1. B \in SUBSET Nat
      OBVIOUS
    <3> HIDE DEF B
    <3> QED BY <3>1, LeastOf
  <2>2. k # 0
    <3>1. [i \in 1..0 |-> 0] \in [1..0 -> Clear(used)]
      OBVIOUS
    <3>2. Lowest(used, 0, [i \in 1..0 |-> 0])
      BY <3>1 DEF Lowest
    <3> QED BY <2>1, <3>2
  <2>3. k - 1 \in Nat /\ k - 1 <= NumClear(used) /\ k - 1 \notin B
    BY <1>1, <2>1, <2>2
  <2>4. PICK q : Lowest(used, k - 1, q)
    BY <2>3
  <2>5. (k - 1) + 1 = k /\ k <= NumClear(used)
    BY <2>1
  <2>6. \E r : Lowest(used, k, r)
    BY <2>3, <2>4, <2>5, LowestGoesOn
  <2> QED BY <2>1, <2>6
<1>3. \E q : Lowest(used, n, q)
  BY <1>1, <1>2
<1>4. Allocate(used, n) = CHOOSE q \in [1..n -> Clear(used)] :
                            /\ \A i, j \in 1..n : i < j => q[i] < q[j]
                            /\ \A s \in Clear(used) \ Range(q) : \A i \in 1..n : q[i] < s
  BY DEF Allocate, FindN
<1>5. Lowest(used, n, Allocate(used, n))
  BY <1>3, <1>4 DEF Lowest
<1> DEFINE q == Allocate(used, n)
<1> HIDE DEF q
<1>6. q \in [1..n -> Clear(used)] /\ \A i, j \in 1..n : i < j => q[i] < q[j]
  BY <1>5 DEF Lowest, q
<1>7. Clear(used) \subseteq Sector /\ Sector \subseteq Nat
  BY Sectors DEF Clear
<1>8. q \in Seq(Sector) /\ Len(q) = n
  <2>1. q \in [1..n -> Sector]
    BY <1>6, <1>7
  <2> QED BY <2>1, FunIsSeq
<1>9. Range(q) \subseteq Clear(used) /\ DOMAIN q = 1..n
  BY <1>6 DEF Range
<1>10. \A i, j \in 1..n : q[i] = q[j] => i = j
  <2> SUFFICES ASSUME NEW i \in 1..n, NEW j \in 1..n, q[i] = q[j] PROVE i = j
    OBVIOUS
  <2>1. q[i] \in Nat /\ q[j] \in Nat
    BY <1>6, <1>7
  <2>2. ~(i < j) /\ ~(j < i)
    BY <1>6, <2>1
  <2> QED BY <2>2
<1> QED BY <1>8, <1>9, <1>10 DEF q

-----------------------------------------------------------------------------
(* Types *)

Tabs   == UNION {[N -> Sector] : N \in SUBSET Name}
Blocks == {Data} \cup FileHeaders \cup [kind : {"dir"}, tab : Tabs]
            \cup [kind : {"map"}, used : SUBSET Sector]
Pcs    == {"idle", "lock", "root", "subhdr", "subdir", "dirfile", "fetch", "hdr",
           "newfile", "dirfile2", "empty", "map", "whdr", "newdir", "wnew",
           "wdir", "wmap", "wdata"}
Ops    == [pc : Pcs, call : Call \cup {NULL}, path : Path \cup {NULL},
           todo : Seq(Name), cur : Sector, dirfile : FileHeaders, tab : Tabs,
           hdr : FileHeaders, map : SUBSET Sector, sector : Int, size : Nat,
           fid : Fid \cup {0}]

FSTypeOK ==
  /\ disk \in [Sector -> Blocks]
  /\ table \in [Slot -> OFTEntries \cup {NULL}]
  /\ nbentry \in Slot \cup {-1}
  /\ createLock \in Thread \cup {NULL}
  /\ files \in [Fid -> OpenFiles \cup {NULL}]
  /\ op \in [Thread -> Ops]
  /\ crashed \in BOOLEAN
  /\ lost \subseteq Sector

\* What a directory is: names, and the sector of each.
LEMMA TabsAre ==
  \A tab : tab \in Tabs <=> DOMAIN tab \subseteq Name /\ tab \in [DOMAIN tab -> Sector]
BY DEF Tabs

\* AddName gives one name a sector and leaves the others alone.
LEMMA AddNameIs ==
  ASSUME NEW tab \in Tabs, NEW n \in Name, NEW s \in Sector
  PROVE  /\ AddName(tab, n, s) \in Tabs
         /\ DOMAIN AddName(tab, n, s) = DOMAIN tab \cup {n}
         /\ AddName(tab, n, s)[n] = s
         /\ \A m \in DOMAIN tab \ {n} : AddName(tab, n, s)[m] = tab[m]
<1>1. DOMAIN tab \subseteq Name /\ tab \in [DOMAIN tab -> Sector]
  BY TabsAre
<1>2. AddName(tab, n, s) \in [DOMAIN tab \cup {n} -> Sector]
  BY <1>1 DEF AddName
<1>3. DOMAIN tab \cup {n} \in SUBSET Name
  BY <1>1
<1> QED BY <1>2, <1>3 DEF AddName, Tabs

\* RemoveName takes one name away and leaves the others alone.
LEMMA RemoveNameIs ==
  ASSUME NEW tab \in Tabs, NEW n
  PROVE  /\ RemoveName(tab, n) \in Tabs
         /\ DOMAIN RemoveName(tab, n) = DOMAIN tab \ {n}
         /\ \A m \in DOMAIN tab \ {n} : RemoveName(tab, n)[m] = tab[m]
<1>1. DOMAIN tab \subseteq Name /\ tab \in [DOMAIN tab -> Sector]
  BY TabsAre
<1>2. RemoveName(tab, n) \in [DOMAIN tab \ {n} -> Sector]
  BY <1>1 DEF RemoveName
<1>3. DOMAIN tab \ {n} \in SUBSET Name
  BY <1>1
<1> QED BY <1>2, <1>3 DEF RemoveName, Tabs

\* FindName returns the sector of a name, or -1.
LEMMA FindNameIs ==
  ASSUME NEW tab \in Tabs, NEW n
  PROVE  /\ n \in DOMAIN tab => FindName(tab, n) = tab[n] /\ FindName(tab, n) \in Sector
                                /\ FindName(tab, n) # -1
         /\ n \notin DOMAIN tab => FindName(tab, n) = -1
BY TabsAre, Sectors DEF FindName

\* A header with the sectors in secs is a header.
LEMMA HeaderTyped ==
  ASSUME NEW isdir \in BOOLEAN, NEW secs \in Seq(Sector)
  PROVE  Header(isdir, secs) \in FileHeaders
BY DEF Header, FileHeaders

\* The kind of a sector says what is in it.
LEMMA KindsAre ==
  ASSUME disk \in [Sector -> Blocks], NEW s
  PROVE  /\ IsKind(s, "hdr") => s \in Sector /\ disk[s] \in FileHeaders
         /\ IsKind(s, "dir") => s \in Sector /\ disk[s].tab \in Tabs
                                /\ disk[s] = Dir(disk[s].tab)
         /\ IsKind(s, "map") => s \in Sector /\ disk[s].used \in SUBSET Sector
                                /\ disk[s] = Map(disk[s].used)
BY DEF Blocks, IsKind, Data, FileHeaders, Dir, Map

\* What a header whose first sector is a directory leads to.
LEMMA HasDirIs ==
  ASSUME disk \in [Sector -> Blocks], NEW hdr \in FileHeaders, HasDir(hdr)
  PROVE  DataOf(hdr) \in Sector /\ disk[DataOf(hdr)].tab \in Tabs
         /\ IsKind(DataOf(hdr), "dir") /\ DataOf(hdr) \in Range(hdr.secs)
<1>1. IsKind(DataOf(hdr), "dir") /\ hdr.secs # <<>>
  BY DEF HasDir, DataOf
<1>2. DataOf(hdr) \in Range(hdr.secs)
  BY <1>1, SeqRange DEF FileHeaders, DataOf
<1> QED BY <1>1, <1>2, KindsAre

\* No call is in progress: Idle is the state of such a thread.
LEMMA IdleTyped ==
  /\ Idle \in Ops /\ Idle.call = NULL /\ NULL \notin Call
  /\ Idle.todo = <<>> /\ Idle.pc = "idle" /\ Idle.fid = 0
<1>1. NULL \notin Call
  BY FileSystemAssumption
<1>2. NoHdr \in FileHeaders
  BY EmptySeq, HeaderTyped DEF NoHdr
<1>3. Empty \in Tabs
  <2>1. Empty \in [{} -> Sector]
    BY DEF Empty
  <2> QED BY <2>1 DEF Tabs
<1>4. DirectorySector \in Sector
  BY Sectors DEF System
<1>5. <<>> \in Seq(Name)
  BY EmptySeq
<1>6. {} \in SUBSET Sector /\ -1 \in Int /\ 0 \in Nat /\ 0 \in Fid \cup {0}
  OBVIOUS
<1>7. Idle \in Ops
  BY <1>2, <1>3, <1>4, <1>5, <1>6 DEF Idle, Ops, Pcs
<1>8. /\ Idle.call = NULL /\ Idle.todo = <<>> /\ Idle.pc = "idle" /\ Idle.fid = 0
  BY DEF Idle
<1> QED BY <1>1, <1>7, <1>8

\* A call begins with the whole path before it.
LEMMA BeginTyped ==
  ASSUME NEW t, NEW call \in Call, NEW p \in Path, NEW pc \in Pcs
  PROVE  /\ Begin(t, call, p, pc) \in Ops
         /\ Begin(t, call, p, pc).call = call /\ Begin(t, call, p, pc).path = p
         /\ Begin(t, call, p, pc).pc = pc /\ Begin(t, call, p, pc).todo = Components[p]
BY IdleTyped, ComponentsTyped DEF Begin, Ops

-----------------------------------------------------------------------------
(* The open file table *)

\* There is an entry in slot i.
Used(i) == table[i] # NULL

\* No entry has that name.
NotOpen(p) == \A i \in Slot : Used(i) => table[i].name # p

\* An entry that is used is an entry, and an id in use is that of an open file.
LEMMA EntriesTyped ==
  /\ \A e : e \in OFTEntries =>
       /\ e # NULL /\ e.name \in Path /\ e.numthread \in Nat /\ e.ToBeDeleted \in BOOLEAN
       /\ e.sector \in Sector /\ e.file \in FileHeaders
       /\ \A n \in Nat : [e EXCEPT !.numthread = n] \in OFTEntries
       /\ [e EXCEPT !.ToBeDeleted = TRUE] \in OFTEntries
  /\ \A o : o \in OpenFiles =>
       /\ o # NULL /\ o.path \in Path /\ o.sector \in Sector /\ o.hdr \in FileHeaders
       /\ \A h \in FileHeaders : [o EXCEPT !.hdr = h] \in OpenFiles
  /\ FSTypeOK => /\ \A i \in Slot : Used(i) => table[i] \in OFTEntries
                 /\ \A f \in Fid : files[f] # NULL => files[f] \in OpenFiles
<1>1. NULL \notin OFTEntries /\ NULL \notin OpenFiles
  BY FileSystemAssumption
<1>2. ASSUME NEW e \in OFTEntries
      PROVE  /\ e # NULL /\ e.name \in Path /\ e.numthread \in Nat /\ e.ToBeDeleted \in BOOLEAN
             /\ e.sector \in Sector /\ e.file \in FileHeaders
             /\ \A n \in Nat : [e EXCEPT !.numthread = n] \in OFTEntries
             /\ [e EXCEPT !.ToBeDeleted = TRUE] \in OFTEntries
  BY <1>1, <1>2 DEF OFTEntries
<1>3. ASSUME NEW o \in OpenFiles
      PROVE  /\ o # NULL /\ o.path \in Path /\ o.sector \in Sector /\ o.hdr \in FileHeaders
             /\ \A h \in FileHeaders : [o EXCEPT !.hdr = h] \in OpenFiles
  BY <1>1, <1>3 DEF OpenFiles
<1>4. FSTypeOK => /\ \A i \in Slot : Used(i) => table[i] \in OFTEntries
                  /\ \A f \in Fid : files[f] # NULL => files[f] \in OpenFiles
  BY DEF FSTypeOK, Used
<1> QED BY <1>2, <1>3, <1>4

\* Slots and ids are natural numbers.
LEMMA SlotsAndFids ==
  /\ Slot \subseteq Nat /\ -1 \notin Slot /\ 0 \in Slot
  /\ Fid \subseteq Nat /\ 0 \notin Fid /\ IsFiniteSet(Fid)
<1>1. NBOFTENTRY \in Nat \ {0} /\ MaxHandles \in Nat \ {0}
  BY FileSystemAssumption
<1>2. IsFiniteSet(Fid)
  BY <1>1, FS_Interval DEF Fid
<1> QED BY <1>1, <1>2 DEF Slot, Fid

\* findl finds an entry with that name if there is one.
LEMMA FindlIs ==
  ASSUME NEW p
  PROVE  \/ findl(p) = -1 /\ NotOpen(p)
         \/ findl(p) \in Slot /\ Used(findl(p)) /\ table[findl(p)].name = p
<1> DEFINE hits == {i \in Slot : table[i] # NULL /\ table[i].name = p}
<1>1. findl(p) = IF hits = {} THEN -1 ELSE CHOOSE i \in hits : \A j \in hits : i <= j
  BY DEF findl
<1>2. CASE hits = {}
  BY <1>1, <1>2 DEF NotOpen, Used
<1>3. CASE hits # {}
  <2>1. hits \in SUBSET Nat
    BY SlotsAndFids
  <2>2. PICK i \in hits : \A j \in hits : i <= j
    <3> HIDE DEF hits
    <3> QED BY <1>3, <2>1, LeastOf
  <2>3. findl(p) \in hits
    <3> HIDE DEF hits
    <3> QED BY <1>1, <1>3, <2>2
  <2> QED BY <2>3 DEF Used
<1> QED BY <1>2, <1>3

\* next_entry returns an empty slot, or -1.
LEMMA NextEntryIs ==
  ASSUME NEW tbl
  PROVE  next_entry(tbl) = -1 \/ (next_entry(tbl) \in Slot /\ tbl[next_entry(tbl)] = NULL)
<1> DEFINE holes == {i \in Slot : tbl[i] = NULL}
<1>1. next_entry(tbl) = IF holes = {} THEN -1 ELSE CHOOSE i \in holes : \A j \in holes : i <= j
  BY DEF next_entry
<1>2. CASE holes = {}
  BY <1>1, <1>2
<1>3. CASE holes # {}
  <2>1. holes \in SUBSET Nat
    BY SlotsAndFids
  <2>2. PICK i \in holes : \A j \in holes : i <= j
    <3> HIDE DEF holes
    <3> QED BY <1>3, <2>1, LeastOf
  <2>3. next_entry(tbl) \in holes
    <3> HIDE DEF holes
    <3> QED BY <1>1, <1>3, <2>2
  <2> QED BY <2>3
<1> QED BY <1>2, <1>3

\* The id of a new open file is one that is not in use.
LEMMA NewFidIs ==
  ASSUME \E f \in Fid : files[f] = NULL
  PROVE  NewFid \in Fid /\ files[NewFid] = NULL
<1> DEFINE free == {f \in Fid : files[f] = NULL}
<1>1. free \in SUBSET Nat /\ free # {}
  BY SlotsAndFids
<1>2. PICK f \in free : \A g \in free : f <= g
  <2> HIDE DEF free
  <2> QED BY <1>1, LeastOf
<1>3. f \in Fid /\ files[f] = NULL /\ \A g \in 1..(f - 1) : files[g] # NULL
  <2>1. f \in 1..MaxHandles /\ MaxHandles \in Nat
    BY <1>2, FileSystemAssumption DEF Fid
  <2>2. \A g \in 1..(f - 1) : g \in Fid /\ ~(f <= g)
    BY <2>1 DEF Fid
  <2> QED BY <1>2, <2>2
<1> HIDE DEF free
<1> QED BY <1>3 DEF NewFid

-----------------------------------------------------------------------------
(* The calls in progress, and what they have in hand of the table *)

PathCalls == {"create", "open", "remove", "mkdir", "rmdir", "fsremove"}
WalkPcs   == {"root", "subhdr", "subdir", "dirfile", "fetch"}

\* the disk accesses of each call
Shape(o) ==
  \/ o = Idle
  \/ /\ o.path \in Path
     /\ \/ /\ Len(o.todo) \in {1, 2}
           /\ \/ o.call \in PathCalls /\ o.pc \in WalkPcs
              \/ o.call = "create" /\ o.pc \in {"lock", "map", "whdr", "wdir", "wmap"}
              \/ o.call = "open" /\ o.pc \in {"hdr", "newfile"}
              \/ o.call = "remove" /\ o.pc = "wdir"
              \/ o.call = "mkdir" /\ o.pc \in {"map", "whdr", "newdir", "wnew", "wdir", "wmap"}
              \/ o.call = "rmdir" /\ o.pc \in {"hdr", "dirfile2", "empty", "map", "wmap", "wdir"}
              \/ o.call = "fsremove" /\ o.pc \in {"hdr", "map", "wmap", "wdir"}
        \/ o.call = "open" /\ o.pc = "newfile" /\ o.todo = <<>>
        \/ o.call = "write" /\ o.pc \in {"map", "whdr", "wmap", "wdata"} /\ o.fid \in Fid
        \/ o.call = "close" /\ o.pc \in {"map", "wmap"} /\ o.fid \in Fid
Shapes == \A t \in Thread : Shape(op[t])

\* an Open that found the file in the table
Hit(o) == o.call = "open" /\ o.todo = <<>>

\* what a call has seen of the table and of the ids is still so
TableAgrees(o) ==
  /\ o.call = "fsremove" => NotOpen(o.path)
  /\ Hit(o) => \E i \in Slot : Used(i) /\ table[i].name = o.path /\ table[i].sector = o.sector
  /\ o.call = "open" /\ o.todo # <<>> => NotOpen(o.path) /\ nbentry # -1
  /\ o.call = "write" => files[o.fid] # NULL
  /\ o.call = "close" =>
       /\ files[o.fid] # NULL /\ files[o.fid].path = o.path
       /\ o.sector \in Slot /\ Used(o.sector) /\ table[o.sector].name = o.path
       /\ table[o.sector].ToBeDeleted /\ table[o.sector].numthread = 0
CallsAgree == \A t \in Thread : TableAgrees(op[t])

\* no calls overlap but Creates and one Open, and one Create is past the lock
Busy(t) == op[t] # Idle
Overlap ==
  /\ \A t, u \in Thread : t # u /\ Busy(t) /\ Busy(u) =>
       /\ op[t].call \in {"create", "open"} /\ op[u].call \in {"create", "open"}
       /\ op[t].call = "create" \/ op[u].call = "create"
  /\ \A t \in Thread : createLock = t <=> (op[t].call = "create" /\ op[t].pc # "lock")

NamesDistinct ==
  /\ \A i, j \in Slot : Used(i) /\ Used(j) /\ table[i].name = table[j].name => i = j
  /\ nbentry # -1 => table[nbentry] = NULL

\* the programs that have a file open, and those that are about to
Closing(f)   == \E t \in Thread : op[t].call = "close" /\ op[t].fid = f
HandlesOf(p) == {f \in Fid : files[f] # NULL /\ files[f].path = p /\ ~Closing(f)}
HitsOf(p)    == {t \in Thread : Hit(op[t]) /\ op[t].path = p}
Counted ==
  /\ \A i \in Slot, p \in Path : Used(i) /\ table[i].name = p =>
       table[i].numthread = Cardinality(HandlesOf(p)) + Cardinality(HitsOf(p))
  /\ \A f \in Fid, p \in Path : files[f] # NULL /\ files[f].path = p => ~NotOpen(p)
  /\ (\E t \in Thread : op[t].call = "open") => \E f \in Fid : files[f] = NULL

CountInv == /\ FSTypeOK /\ Shapes /\ CallsAgree /\ Overlap /\ NamesDistinct
            /\ Counted

\* Counted is HandlesCounted, and some id left for an Open.
LEMMA CountedIs == FSTypeOK /\ Counted => HandlesCounted
<1> SUFFICES ASSUME FSTypeOK, Counted PROVE HandlesCounted
  OBVIOUS
<1>1. \A f \in Fid : files[f] # NULL => findl(files[f].path) # -1
  <2> SUFFICES ASSUME NEW f \in Fid, files[f] # NULL PROVE findl(files[f].path) # -1
    OBVIOUS
  <2>1. ~NotOpen(files[f].path)
    BY EntriesTyped DEF Counted
  <2>2. -1 \notin Slot
    BY SlotsAndFids
  <2> QED BY <2>1, <2>2, FindlIs
<1>2. \A i \in Slot : table[i] # NULL =>
        table[i].numthread = Cardinality(HandlesOf(table[i].name))
                               + Cardinality(HitsOf(table[i].name))
  BY EntriesTyped DEF Counted, Used
<1> QED BY <1>1, <1>2 DEF HandlesCounted, HandlesOf, HitsOf, Closing, Hit

\* At most one thread has found its file and is about to open it.
LEMMA HitsFinite ==
  ASSUME CountInv, NEW p
  PROVE  /\ IsFiniteSet(HitsOf(p)) /\ IsFiniteSet(HandlesOf(p))
         /\ Cardinality(HitsOf(p)) \in Nat /\ Cardinality(HandlesOf(p)) \in Nat
<1>1. \A t, u \in HitsOf(p) : t = u
  BY IdleTyped DEF CountInv, Overlap, HitsOf, Hit, Busy, Call
<1>2. HitsOf(p) = {} \/ \E t : HitsOf(p) = {t}
  BY <1>1
<1>3. IsFiniteSet(HitsOf(p))
  <2>1. CASE HitsOf(p) = {}
    BY <2>1, FS_EmptySet
  <2>2. ASSUME NEW t, HitsOf(p) = {t} PROVE IsFiniteSet(HitsOf(p))
    BY <2>2, FS_Singleton
  <2> QED BY <1>2, <2>1, <2>2
<1>4. IsFiniteSet(HandlesOf(p))
  BY SlotsAndFids, FS_Subset DEF HandlesOf
<1> QED BY <1>3, <1>4, FS_CardinalityType

-----------------------------------------------------------------------------
(* Most steps take a call one disk access further, or end it, and leave    *)
(* the table and the ids alone.                                            *)

Stay == UNCHANGED <<table, nbentry, createLock, files, op>>

MoveTo(t, o) ==
  /\ Busy(t) /\ o \in Ops /\ o # Idle /\ Shape(o)
  /\ op' = [op EXCEPT ![t] = o]
  /\ o.call = op[t].call /\ o.path = op[t].path /\ o.fid = op[t].fid
  /\ o.call = "close" => o.sector = op[t].sector
  /\ o.call = "create" => (o.pc = "lock" <=> op[t].pc = "lock")
  /\ o.call = "open" => o.todo # <<>> /\ op[t].todo # <<>>
  /\ UNCHANGED <<table, nbentry, createLock, files>>

Quit(t) ==
  /\ Busy(t) /\ op[t].call # "close" /\ ~Hit(op[t])
  /\ op' = [op EXCEPT ![t] = Idle]
  /\ createLock' = IF createLock = t THEN NULL ELSE createLock
  /\ UNCHANGED <<table, nbentry, files>>

KeepsCalls(t) == Stay \/ Quit(t) \/ \E o \in Ops : MoveTo(t, o)

\* What moves leave alone.
LEMMA MoveKeepsTable ==
  ASSUME CountInv, NEW t \in Thread, Quit(t) \/ \E o \in Ops : MoveTo(t, o)
  PROVE  /\ FSTypeOK => op' \in [Thread -> Ops] /\ createLock' \in Thread \cup {NULL}
         /\ \A u \in Thread : u # t => op'[u] = op[u]
         /\ op'[t] = Idle \/ MoveTo(t, op'[t])
         /\ Shapes'
         /\ UNCHANGED <<table, nbentry, files>>
<1>1. op \in [Thread -> Ops] /\ createLock \in Thread \cup {NULL}
  BY DEF CountInv, FSTypeOK
<1>2. CASE Quit(t)
  <2>1. op' = [op EXCEPT ![t] = Idle] /\ UNCHANGED <<table, nbentry, files>>
        /\ createLock' = IF createLock = t THEN NULL ELSE createLock
    BY <1>2 DEF Quit
  <2>2. op' \in [Thread -> Ops] /\ \A u \in Thread : op'[u] = IF u = t THEN Idle ELSE op[u]
    BY <1>1, <2>1, IdleTyped
  <2>3. \A u \in Thread : Shape(op'[u])
    BY <2>2 DEF CountInv, Shapes, Shape
  <2> QED BY <1>1, <2>1, <2>2, <2>3 DEF Shapes
<1>3. CASE \E o \in Ops : MoveTo(t, o)
  <2>1. PICK o \in Ops : MoveTo(t, o)
    BY <1>3
  <2>2. op' = [op EXCEPT ![t] = o] /\ Shape(o) /\ UNCHANGED <<table, nbentry, files, createLock>>
    BY <2>1 DEF MoveTo
  <2>3. op' \in [Thread -> Ops] /\ \A u \in Thread : op'[u] = IF u = t THEN o ELSE op[u]
    BY <1>1, <2>2
  <2>4. \A u \in Thread : Shape(op'[u])
    <3>1. \A u \in Thread : Shape(op[u])
      BY DEF CountInv, Shapes
    <3> QED BY <2>2, <2>3, <3>1
  <2>5. MoveTo(t, op'[t])
    BY <2>1, <2>3
  <2> QED BY <1>1, <2>2, <2>3, <2>4, <2>5 DEF Shapes
<1> QED BY <1>2, <1>3

\* A step that keeps the calls keeps the counts.
LEMMA KeepsCallsCounts ==
  ASSUME CountInv, NEW t \in Thread, KeepsCalls(t),
         disk' \in [Sector -> Blocks], crashed' \in BOOLEAN, lost' \subseteq Sector
  PROVE  CountInv'
<1>1. CASE Stay
  BY <1>1 DEF Stay, CountInv, FSTypeOK, Shapes, CallsAgree, TableAgrees, NotOpen, Used,
              Overlap, Busy, NamesDistinct, Counted, HandlesOf, HitsOf, Closing
<1>2. CASE ~Stay
  <2>1. Quit(t) \/ \E o \in Ops : MoveTo(t, o)
    BY <1>2 DEF KeepsCalls
  <2>2. /\ op' \in [Thread -> Ops] /\ createLock' \in Thread \cup {NULL}
        /\ \A u \in Thread : u # t => op'[u] = op[u]
        /\ op'[t] = Idle \/ MoveTo(t, op'[t])
        /\ Shapes'
        /\ UNCHANGED <<table, nbentry, files>>
    BY <2>1, MoveKeepsTable DEF CountInv
  <2>3. FSTypeOK'
    BY <2>2 DEF CountInv, FSTypeOK
  <2>4. CallsAgree'
    <3>1. ASSUME NEW u \in Thread PROVE TableAgrees(op'[u])
      <4>1. TableAgrees(op[u])
        BY DEF CountInv, CallsAgree
      <4>2. CASE u # t
        BY <2>2, <4>1, <4>2
      <4>3. CASE u = t /\ op'[t] = Idle
        BY <4>3, IdleTyped DEF TableAgrees, Hit, Call
      <4>4. CASE u = t /\ MoveTo(t, op'[t])
        BY <4>1, <4>4 DEF TableAgrees, Hit, MoveTo
      <4> QED BY <2>2, <4>2, <4>3, <4>4
    <3> QED BY <2>2, <3>1 DEF CallsAgree, TableAgrees, NotOpen, Used
  <2>5. Overlap'
    <3>1. \A u \in Thread : op'[u] # Idle => op[u] # Idle /\ op'[u].call = op[u].call
      BY <2>2 DEF MoveTo, Busy
    <3>2. \A u, v \in Thread : u # v /\ op'[u] # Idle /\ op'[v] # Idle =>
             /\ op'[u].call \in {"create", "open"} /\ op'[v].call \in {"create", "open"}
             /\ op'[u].call = "create" \/ op'[v].call = "create"
      BY <3>1 DEF CountInv, Overlap, Busy
    <3>3. ASSUME NEW u \in Thread
          PROVE  createLock' = u <=> (op'[u].call = "create" /\ op'[u].pc # "lock")
      <4>1. createLock = u <=> (op[u].call = "create" /\ op[u].pc # "lock")
        BY DEF CountInv, Overlap
      <4>2. NULL \notin Thread
        BY FileSystemAssumption
      <4>3. CASE Quit(t)
        <5>1. op'[t] = Idle
          BY <4>3 DEF Quit, CountInv, FSTypeOK
        <5> QED BY <2>2, <4>1, <4>2, <4>3, <5>1, IdleTyped DEF Quit, Call
      <4>4. CASE \E o \in Ops : MoveTo(t, o)
        <5>1. PICK o \in Ops : MoveTo(t, o)
          BY <4>4
        <5>2. op'[t] = o /\ createLock' = createLock
          BY <5>1 DEF MoveTo, CountInv, FSTypeOK
        <5> QED BY <2>2, <4>1, <5>1, <5>2 DEF MoveTo
      <4> QED BY <2>1, <4>3, <4>4
    <3> QED BY <3>2, <3>3 DEF Overlap, Busy
  <2>6. NamesDistinct'
    BY <2>2 DEF CountInv, NamesDistinct, Used
  <2>7. Counted'
    <3>1. Hit(op'[t]) <=> Hit(op[t])
      <4>1. ~Hit(op'[t])
        BY <2>2, IdleTyped DEF Hit, MoveTo, Call
      <4>2. ~Hit(op[t])
        BY <2>1 DEF Quit, MoveTo, Hit
      <4> QED BY <4>1, <4>2
    <3>2. ~Hit(op[t])
      BY <2>1 DEF Quit, MoveTo, Hit
    <3>3. \A p : HitsOf(p)' = HitsOf(p)
      BY <2>2, <3>1, <3>2 DEF HitsOf, Hit
    <3>4. \A u \in Thread : /\ op'[u].call = "close" <=> op[u].call = "close"
                            /\ op[u].call = "close" => op'[u].fid = op[u].fid
      <4>1. CASE Quit(t)
        <5>1. op'[t] = Idle /\ op[t].call # "close"
          BY <4>1 DEF Quit, CountInv, FSTypeOK
        <5> QED BY <2>2, <5>1, IdleTyped DEF Call
      <4>2. CASE \E o \in Ops : MoveTo(t, o)
        <5>1. PICK o \in Ops : MoveTo(t, o)
          BY <4>2
        <5>2. op'[t] = o
          BY <5>1 DEF MoveTo, CountInv, FSTypeOK
        <5> QED BY <2>2, <5>1, <5>2 DEF MoveTo
      <4> QED BY <2>1, <4>1, <4>2
    <3>5. \A p : HandlesOf(p)' = HandlesOf(p)
      BY <2>2, <3>4 DEF HandlesOf, Closing
    <3>6. (\E u \in Thread : op'[u].call = "open") => \E f \in Fid : files[f] = NULL
      BY <2>2, IdleTyped DEF CountInv, Counted, MoveTo, Call
    <3>7. \A i \in Slot, p \in Path : Used(i)' /\ table'[i].name = p =>
            table'[i].numthread = Cardinality(HandlesOf(p)') + Cardinality(HitsOf(p)')
      BY <2>2, <3>3, <3>5 DEF CountInv, Counted, Used
    <3>8. \A f \in Fid, p \in Path : files'[f] # NULL /\ files'[f].path = p => ~NotOpen(p)'
      BY <2>2 DEF CountInv, Counted, NotOpen, Used
    <3> QED BY <2>2, <3>6, <3>7, <3>8 DEF Counted
  <2> QED BY <2>2, <2>3, <2>4, <2>5, <2>6, <2>7 DEF CountInv
<1> QED BY <1>1, <1>2

\* a step that only reads the disk
Reads(t) == KeepsCalls(t) /\ UNCHANGED <<disk, lost>> /\ crashed' \in BOOLEAN

\* A failed ASSERT and an error return are such steps.
LEMMA CrashReads == ASSUME NEW t, Crash PROVE Reads(t)
BY DEF Crash, Reads, KeepsCalls, Stay

\* An error return is the end of the call.
LEMMA FailReads ==
  ASSUME CountInv, NEW t \in Thread, Busy(t), op[t].call # "close", ~Hit(op[t]), Fail(t)
  PROVE  Reads(t)
BY DEF Fail, Return, Goto, Reads, KeepsCalls, Quit, CountInv, FSTypeOK

\* So is a step that goes on to another disk access of the same call.
LEMMA GotoReads ==
  ASSUME CountInv, NEW t \in Thread, Busy(t), NEW o \in Ops, Shape(o), o # Idle,
         Goto(t, o), OnlyLocal,
         o.call = op[t].call, o.path = op[t].path, o.fid = op[t].fid,
         o.call = "close" => o.sector = op[t].sector,
         o.call = "create" => (o.pc = "lock" <=> op[t].pc = "lock"),
         o.call = "open" => o.todo # <<>> /\ op[t].todo # <<>>
  PROVE  Reads(t)
BY DEF Goto, OnlyLocal, Reads, KeepsCalls, MoveTo, CountInv, FSTypeOK

\* The call that reads a directory, a header or the map on its way.
LEMMA Walker ==
  ASSUME CountInv, NEW t \in Thread, op[t].pc \in WalkPcs \cup {"hdr", "dirfile2", "empty"}
  PROVE  /\ Busy(t) /\ op[t] \in Ops /\ op[t].call \in PathCalls /\ op[t].path \in Path
         /\ Len(op[t].todo) \in {1, 2} /\ ~Hit(op[t]) /\ op[t].todo # <<>>
         /\ op[t].pc = "hdr" => op[t].call \in {"open", "rmdir", "fsremove"}
         /\ op[t].pc \in {"dirfile2", "empty"} => op[t].call = "rmdir"
<1>1. op[t] \in Ops /\ Shape(op[t]) /\ op[t] # Idle
  BY IdleTyped DEF CountInv, FSTypeOK, Shapes, WalkPcs
<1>2. op[t].call \in PathCalls /\ op[t].path \in Path /\ Len(op[t].todo) \in {1, 2}
  BY <1>1 DEF Shape, WalkPcs, PathCalls
<1>3. op[t].pc = "hdr" => op[t].call \in {"open", "rmdir", "fsremove"}
  BY <1>1 DEF Shape, WalkPcs
<1>4. op[t].pc \in {"dirfile2", "empty"} => op[t].call = "rmdir"
  BY <1>1 DEF Shape, WalkPcs
<1>5. op[t].todo # <<>>
  BY <1>2, NotEmpty
<1> QED BY <1>1, <1>2, <1>3, <1>4, <1>5 DEF Busy, Hit

\* One turn of the loop of FindDir.
LEMMA WalkReads ==
  ASSUME CountInv, NEW t \in Thread, op[t].pc \in WalkPcs, NEW cur \in Sector,
         NEW tab \in Tabs, Walk(t, cur, tab, op[t].todo)
  PROVE  Reads(t)
<1> DEFINE w == op[t]
<1> HIDE DEF w
<1>1. /\ Busy(t) /\ w \in Ops /\ w.call \in PathCalls /\ w.path \in Path
      /\ Len(w.todo) \in {1, 2} /\ ~Hit(w) /\ w.todo # <<>> /\ w.pc \in WalkPcs /\ w = op[t]
  BY Walker DEF w
<1>2. CASE Len(w.todo) = 1
  <2> DEFINE o == [w EXCEPT !.pc = "dirfile", !.cur = cur, !.todo = w.todo]
  <2>1. Goto(t, o) /\ OnlyLocal
    BY <1>1, <1>2 DEF Walk
  <2>2. o \in Ops /\ o.call = w.call /\ o.path = w.path /\ o.fid = w.fid /\ o.pc = "dirfile"
        /\ o.todo = w.todo
    BY <1>1 DEF Ops, Pcs
  <2> HIDE DEF o
  <2>3. Shape(o) /\ o # Idle
    BY <1>1, <2>2, IdleTyped DEF Shape, WalkPcs
  <2> QED BY <1>1, <2>1, <2>2, <2>3, GotoReads DEF PathCalls, WalkPcs
<1>3. CASE Len(w.todo) = 2 /\ FindName(tab, Head(w.todo)) = -1
  <2>1. Fail(t)
    BY <1>1, <1>3 DEF Walk
  <2> QED BY <1>1, <2>1, FailReads DEF PathCalls, w
<1>4. CASE Len(w.todo) = 2 /\ FindName(tab, Head(w.todo)) # -1
  <2> DEFINE rest == Tail(w.todo)
             o == [w EXCEPT !.pc = "subhdr", !.todo = rest,
                            !.cur = FindName(tab, Head(w.todo))]
  <2>1. Goto(t, o) /\ OnlyLocal
    BY <1>1, <1>4 DEF Walk
  <2>2. w.todo \in Seq(Name)
    BY <1>1 DEF Ops
  <2>3. rest \in Seq(Name) /\ Len(rest) = 1
    BY <1>4, <2>2, <1>1, HeadTailProperties
  <2>4. FindName(tab, Head(w.todo)) \in Sector
    BY <1>4, FindNameIs
  <2> HIDE DEF rest
  <2>5. o \in Ops /\ o.call = w.call /\ o.path = w.path /\ o.fid = w.fid /\ o.pc = "subhdr"
        /\ o.todo = rest
    BY <1>1, <2>3, <2>4 DEF Ops, Pcs
  <2> HIDE DEF o
  <2>6. o.todo # <<>> /\ Len(o.todo) \in {1, 2}
    BY <2>3, <2>5, NotEmpty
  <2>7. Shape(o) /\ o # Idle
    BY <1>1, <2>5, <2>6, IdleTyped DEF Shape, WalkPcs
  <2> QED BY <1>1, <2>1, <2>5, <2>6, <2>7, GotoReads DEF PathCalls, WalkPcs
<1> QED BY <1>1, <1>2, <1>3, <1>4

\* Reads of headers and directories on the way to the named directory.
LEMMA WalkSteps ==
  ASSUME CountInv, NEW t \in Thread,
         FetchRoot(t) \/ FetchSubHeader(t) \/ FetchSub(t) \/ OpenDirFile(t)
  PROVE  Reads(t)
<1> disk \in [Sector -> Blocks]
  BY DEF CountInv, FSTypeOK
<1> USE DEF At
<1>1. CASE FetchRoot(t)
  <2>1. CASE IsKind(RootData, "dir")
    <3>1. Walk(t, DirectorySector, disk[RootData].tab, op[t].todo) /\ op[t].pc \in WalkPcs
      BY <1>1, <2>1 DEF FetchRoot, WalkPcs
    <3>2. DirectorySector \in Sector /\ disk[RootData].tab \in Tabs
      BY <2>1, KindsAre, Sectors DEF System
    <3> QED BY <3>1, <3>2, WalkReads
  <2>2. CASE ~IsKind(RootData, "dir")
    BY <1>1, <2>2, CrashReads DEF FetchRoot
  <2> QED BY <2>1, <2>2
<1>2. CASE FetchSub(t)
  <2>1. op[t].pc \in WalkPcs
    BY <1>2 DEF FetchSub, WalkPcs
  <2>2. op[t].dirfile \in FileHeaders /\ op[t].cur \in Sector
    BY <2>1, Walker DEF Ops
  <2>3. CASE HasDir(op[t].dirfile)
    <3>1. Walk(t, op[t].cur, disk[DataOf(op[t].dirfile)].tab, op[t].todo)
      BY <1>2, <2>3 DEF FetchSub
    <3>2. disk[DataOf(op[t].dirfile)].tab \in Tabs
      BY <2>2, <2>3, HasDirIs
    <3> QED BY <2>1, <2>2, <3>1, <3>2, WalkReads
  <2>4. CASE ~HasDir(op[t].dirfile)
    BY <1>2, <2>4, CrashReads DEF FetchSub
  <2> QED BY <2>3, <2>4
<1>3. CASE FetchSubHeader(t) \/ OpenDirFile(t)
  <2>1. op[t].pc \in WalkPcs /\ op[t].pc # "lock"
    BY <1>3 DEF FetchSubHeader, OpenDirFile, WalkPcs
  <2> DEFINE w == op[t]
  <2> HIDE DEF w
  <2>2. /\ Busy(t) /\ w \in Ops /\ w.call \in PathCalls /\ w.path \in Path
        /\ Len(w.todo) \in {1, 2} /\ ~Hit(w) /\ w.todo # <<>> /\ w.pc \in WalkPcs /\ w = op[t]
    BY <2>1, Walker DEF w
  <2>3. CASE Crash
    BY <2>3, CrashReads
  <2>4. CASE Fail(t)
    BY <2>2, <2>4, FailReads DEF PathCalls, w
  <2>5. ASSUME NEW pc \in {"subdir", "fetch"}, IsKind(w.cur, "hdr"), OnlyLocal,
               Goto(t, [w EXCEPT !.pc = pc, !.dirfile = disk[w.cur]])
        PROVE  Reads(t)
    <3> DEFINE o == [w EXCEPT !.pc = pc, !.dirfile = disk[w.cur]]
    <3>1. disk[w.cur] \in FileHeaders
      BY <2>5, KindsAre
    <3>2. o \in Ops /\ o.call = w.call /\ o.path = w.path /\ o.fid = w.fid /\ o.pc = pc
          /\ o.todo = w.todo
      BY <2>2, <2>5, <3>1 DEF Ops, Pcs
    <3>3. Goto(t, o) /\ OnlyLocal
      BY <2>5
    <3> HIDE DEF o
    <3>4. Shape(o) /\ o # Idle
      BY <2>2, <2>5, <3>2, IdleTyped DEF Shape, WalkPcs
    <3> QED BY <2>1, <2>2, <2>5, <3>2, <3>3, <3>4, GotoReads DEF PathCalls
  <2>6. CASE FetchSubHeader(t)
    <3>1. \/ Crash \/ Fail(t)
          \/ /\ IsKind(w.cur, "hdr") /\ OnlyLocal
             /\ Goto(t, [w EXCEPT !.pc = "subdir", !.dirfile = disk[w.cur]])
      BY <2>6, <2>2 DEF FetchSubHeader
    <3> QED BY <2>3, <2>4, <2>5, <3>1
  <2>7. CASE OpenDirFile(t)
    <3>1. \/ Crash
          \/ /\ IsKind(w.cur, "hdr") /\ OnlyLocal
             /\ Goto(t, [w EXCEPT !.pc = "fetch", !.dirfile = disk[w.cur]])
      BY <2>7, <2>2 DEF OpenDirFile
    <3> QED BY <2>3, <2>5, <3>1
  <2> QED BY <1>3, <2>6, <2>7
<1> QED BY <1>1, <1>2, <1>3

\* The two things that a Remove does with the name it has found: it starts
\* FileSystem::Remove, or marks the entry of the table.
Restart(t) ==
  /\ op[t].call = "remove" /\ op[t].pc = "fetch" /\ ~IsOpen(op[t].path)
  /\ Goto(t, Begin(t, "fsremove", op[t].path, "root"))
  /\ OnlyLocal
Forget(t) ==
  /\ op[t].call = "remove" /\ op[t].pc = "fetch" /\ IsOpen(op[t].path)
  /\ HasDir(op[t].dirfile)
  /\ FindName(disk[DataOf(op[t].dirfile)].tab, op[t].todo[1]) # -1
  /\ Fetch(t)

\* The other calls go on with the name, or fail.
LEMMA FetchReads ==
  ASSUME CountInv, NEW t \in Thread, Fetch(t)
  PROVE  Reads(t) \/ Restart(t) \/ Forget(t)
<1> DEFINE w == op[t]
           tab == disk[DataOf(w.dirfile)].tab
           s == FindName(tab, w.todo[1])
           On(pc) == Goto(t, [w EXCEPT !.pc = pc, !.tab = tab, !.sector = s]) /\ OnlyLocal
<1>1. op[t].pc = "fetch" /\ op[t].pc \in WalkPcs
  BY DEF Fetch, At, WalkPcs
<1>2. /\ Busy(t) /\ w \in Ops /\ w.call \in PathCalls /\ w.path \in Path
      /\ Len(w.todo) \in {1, 2} /\ ~Hit(w) /\ w.todo # <<>> /\ w.pc = "fetch"
      /\ w.dirfile \in FileHeaders
  BY <1>1, Walker DEF Ops
<1>3. CASE ~HasDir(w.dirfile)
  BY <1>3, CrashReads DEF Fetch
<1>4. CASE HasDir(w.dirfile)
  <2>1. tab \in Tabs
    BY <1>2, <1>4, HasDirIs DEF CountInv, FSTypeOK
  <2>2. s \in Int
    <3> HIDE DEF tab
    <3>1. s \in Sector \/ s = -1
      BY <2>1, FindNameIs
    <3>2. Sector \subseteq Int /\ -1 \in Int
      BY Sectors
    <3> HIDE DEF s
    <3> QED BY <3>1, <3>2
  <2>3. ASSUME NEW pc \in Pcs,
               \/ pc = "map" /\ w.call \in {"create", "mkdir"}
               \/ pc = "hdr" /\ w.call \in {"open", "rmdir", "fsremove"},
               On(pc)
        PROVE  Reads(t)
    <3> DEFINE o == [w EXCEPT !.pc = pc, !.tab = tab, !.sector = s]
    <3> HIDE DEF w, tab, s
    <3>1. o \in Ops /\ o.call = w.call /\ o.path = w.path /\ o.fid = w.fid /\ o.pc = pc
          /\ o.todo = w.todo
      BY <1>2, <2>1, <2>2 DEF Ops
    <3>2. Goto(t, o) /\ OnlyLocal
      BY <2>3
    <3> HIDE DEF o
    <3>3. Shape(o) /\ o # Idle
      <4>1. \/ o.call = "create" /\ pc = "map"
            \/ o.call = "mkdir" /\ pc = "map"
            \/ o.call \in {"open", "rmdir", "fsremove"} /\ pc = "hdr"
        BY <2>3, <3>1
      <4> QED BY <1>2, <3>1, <4>1, IdleTyped DEF Shape
    <3> USE DEF w
    <3> QED BY <1>2, <2>3, <3>1, <3>2, <3>3, GotoReads DEF PathCalls
  <2>4. w.call \in {"create", "mkdir"} \/ w.call \in {"open", "rmdir", "fsremove"}
        \/ w.call = "remove"
    BY <1>2 DEF PathCalls
  <2>5. CASE Fail(t)
    BY <1>2, <2>5, FailReads DEF PathCalls
  <2>6. CASE w.call \in {"create", "mkdir"}
    <3>1. Fail(t) \/ On("map")
      BY <1>4, <2>6 DEF Fetch
    <3> HIDE DEF w, tab, s, On
    <3>2. "map" \in Pcs
      BY DEF Pcs
    <3>3. On("map") => Reads(t)
      BY <2>3, <2>6, <3>2
    <3> QED BY <2>5, <3>1, <3>3
  <2>7. CASE w.call \in {"open", "rmdir", "fsremove"}
    <3>1. Fail(t) \/ On("hdr")
      BY <1>4, <2>7 DEF Fetch
    <3> HIDE DEF w, tab, s, On
    <3>2. "hdr" \in Pcs
      BY DEF Pcs
    <3>3. On("hdr") => Reads(t)
      BY <2>3, <2>7, <3>2
    <3> QED BY <2>5, <3>1, <3>3
  <2>8. CASE w.call = "remove" /\ s = -1
    <3>1. Fail(t)
      BY <1>4, <2>8 DEF Fetch
    <3> QED BY <2>5, <3>1
  <2>9. CASE w.call = "remove" /\ s # -1 /\ IsOpen(w.path)
    BY <1>1, <1>4, <2>9 DEF Forget
  <2>10. CASE w.call = "remove" /\ s # -1 /\ ~IsOpen(w.path)
    BY <1>1, <1>4, <2>10 DEF Fetch, Restart
  <2> QED BY <2>4, <2>6, <2>7, <2>8, <2>9, <2>10
<1> QED BY <1>3, <1>4

\* The header of the named file, and the header and contents of the
\* directory that Rmdir removes.
LEMMA HeaderSteps ==
  ASSUME CountInv, NEW t \in Thread, FetchHeader(t) \/ OpenVictim(t) \/ FetchVictim(t)
  PROVE  Reads(t)
<1> DEFINE w == op[t]
           On(pc) == Goto(t, [w EXCEPT !.pc = pc, !.hdr = disk[w.sector]]) /\ OnlyLocal
<1>1. op[t].pc \in {"hdr", "dirfile2", "empty"}
  BY DEF FetchHeader, OpenVictim, FetchVictim, At
<1>2. /\ Busy(t) /\ w \in Ops /\ w.call \in PathCalls /\ w.path \in Path
      /\ Len(w.todo) \in {1, 2} /\ ~Hit(w) /\ w.todo # <<>>
      /\ w.pc = "hdr" => w.call \in {"open", "rmdir", "fsremove"}
      /\ w.pc \in {"dirfile2", "empty"} => w.call = "rmdir"
  BY <1>1, Walker
<1>3. CASE Crash
  BY <1>3, CrashReads
<1>4. CASE Fail(t)
  BY <1>2, <1>4, FailReads DEF PathCalls
<1>5. ASSUME NEW pc \in Pcs, IsKind(w.sector, "hdr"), On(pc),
             \/ pc = "dirfile2" /\ w.call = "rmdir"
             \/ pc = "empty" /\ w.call = "rmdir"
             \/ pc = "map" /\ w.call = "fsremove"
             \/ pc = "newfile" /\ w.call = "open"
      PROVE  Reads(t)
  <2> DEFINE o == [w EXCEPT !.pc = pc, !.hdr = disk[w.sector]]
  <2>1. disk[w.sector] \in FileHeaders
    BY <1>5, KindsAre DEF CountInv, FSTypeOK
  <2>2. Goto(t, o) /\ OnlyLocal
    BY <1>5
  <2> HIDE DEF w
  <2>3. o \in Ops /\ o.call = w.call /\ o.path = w.path /\ o.fid = w.fid /\ o.pc = pc
        /\ o.todo = w.todo
    BY <1>2, <2>1 DEF Ops
  <2> HIDE DEF o
  <2>4. Shape(o) /\ o # Idle
    BY <1>2, <1>5, <2>3, IdleTyped DEF Shape
  <2> USE DEF w
  <2> QED BY <1>2, <1>5, <2>2, <2>3, <2>4, GotoReads
<1>6. CASE FetchHeader(t)
  <2>1. w.pc = "hdr"
    BY <1>6 DEF FetchHeader, At
  <2>2. \/ Crash \/ Fail(t)
        \/ IsKind(w.sector, "hdr") /\ w.call = "rmdir" /\ On("dirfile2")
        \/ IsKind(w.sector, "hdr") /\ w.call = "fsremove" /\ On("map")
        \/ IsKind(w.sector, "hdr") /\ w.call = "open" /\ On("newfile")
    <3>1. CASE ~IsKind(w.sector, "hdr")
      BY <1>6, <3>1 DEF FetchHeader
    <3>2. CASE IsKind(w.sector, "hdr") /\ disk[w.sector].isdir
      BY <1>6, <3>2 DEF FetchHeader
    <3>3. CASE IsKind(w.sector, "hdr") /\ ~disk[w.sector].isdir
      BY <1>2, <1>6, <2>1, <3>3 DEF FetchHeader
    <3> QED BY <3>1, <3>2, <3>3
  <2>3. "dirfile2" \in Pcs /\ "map" \in Pcs /\ "newfile" \in Pcs
    BY DEF Pcs
  <2> HIDE DEF w, On
  <2> QED BY <1>3, <1>4, <1>5, <2>2, <2>3
<1>7. CASE OpenVictim(t)
  <2>1. w.call = "rmdir"
    BY <1>2, <1>7 DEF OpenVictim, At
  <2>2. \/ Crash \/ (IsKind(w.sector, "hdr") /\ On("empty"))
    BY <1>7 DEF OpenVictim
  <2>3. "empty" \in Pcs
    BY DEF Pcs
  <2> HIDE DEF w, On
  <2> QED BY <1>3, <1>5, <2>1, <2>2, <2>3
<1>8. CASE FetchVictim(t)
  <2>1. w.call = "rmdir" /\ w.pc = "empty"
    BY <1>2, <1>8 DEF FetchVictim, At
  <2>2. Crash \/ Fail(t) \/ (Goto(t, [w EXCEPT !.pc = "map"]) /\ OnlyLocal)
    BY <1>8 DEF FetchVictim
  <2>3. ASSUME Goto(t, [w EXCEPT !.pc = "map"]), OnlyLocal PROVE Reads(t)
    <3> DEFINE o == [w EXCEPT !.pc = "map"]
    <3>1. Goto(t, o) /\ OnlyLocal
      BY <2>3
    <3> HIDE DEF w
    <3>2. o \in Ops /\ o.call = w.call /\ o.path = w.path /\ o.fid = w.fid /\ o.pc = "map"
          /\ o.todo = w.todo
      BY <1>2 DEF Ops, Pcs
    <3> HIDE DEF o
    <3>3. Shape(o) /\ o # Idle
      BY <1>2, <2>1, <3>2, IdleTyped DEF Shape
    <3> USE DEF w
    <3> QED BY <1>2, <2>1, <3>1, <3>2, <3>3, GotoReads
  <2> QED BY <1>3, <1>4, <2>2, <2>3
<1> QED BY <1>6, <1>7, <1>8

\* The calls that read the map, and those that write.
LEMMA Writer ==
  ASSUME CountInv, NEW t \in Thread, op[t].pc \in {"map", "newdir", "whdr", "wnew", "wdir", "wmap", "wdata"}
  PROVE  /\ Busy(t) /\ op[t] \in Ops /\ op[t].path \in Path /\ ~Hit(op[t])
         /\ op[t].call \in {"create", "mkdir", "rmdir", "fsremove", "remove"} =>
              Len(op[t].todo) \in {1, 2} /\ op[t].todo # <<>>
         /\ op[t].call \in {"write", "close"} => op[t].fid \in Fid
         /\ op[t].pc = "map" =>
              op[t].call \in {"create", "mkdir", "rmdir", "fsremove", "write", "close"}
         /\ op[t].pc = "whdr" => op[t].call \in {"create", "mkdir", "write"}
         /\ op[t].pc \in {"newdir", "wnew"} => op[t].call = "mkdir"
         /\ op[t].pc = "wdir" => op[t].call \in {"create", "mkdir", "rmdir", "fsremove", "remove"}
         /\ op[t].pc = "wmap" =>
              op[t].call \in {"create", "mkdir", "rmdir", "fsremove", "write", "close"}
         /\ op[t].pc = "wdata" => op[t].call = "write"
         /\ op[t].call # "open"
<1> DEFINE w == op[t]
<1>1. w \in Ops /\ Shape(w) /\ w # Idle
  BY IdleTyped DEF CountInv, FSTypeOK, Shapes
<1> HIDE DEF w
<1>2. w.pc \in {"map", "newdir", "whdr", "wnew", "wdir", "wmap", "wdata"}
  BY DEF w
<1>3. /\ w.path \in Path /\ ~Hit(w)
      /\ w.call \in {"create", "mkdir", "rmdir", "fsremove", "remove"} => Len(w.todo) \in {1, 2}
      /\ w.call \in {"write", "close"} => w.fid \in Fid
      /\ w.call # "open"
  BY <1>1, <1>2 DEF Shape, Hit, WalkPcs, PathCalls
<1>4. /\ w.pc = "map" => w.call \in {"create", "mkdir", "rmdir", "fsremove", "write", "close"}
      /\ w.pc = "whdr" => w.call \in {"create", "mkdir", "write"}
      /\ w.pc \in {"newdir", "wnew"} => w.call = "mkdir"
  BY <1>1, IdleTyped DEF Shape, WalkPcs
<1>5. /\ w.pc = "wdir" => w.call \in {"create", "mkdir", "rmdir", "fsremove", "remove"}
      /\ w.pc = "wmap" => w.call \in {"create", "mkdir", "rmdir", "fsremove", "write", "close"}
      /\ w.pc = "wdata" => w.call = "write"
  BY <1>1, IdleTyped DEF Shape, WalkPcs
<1>6. w.call \in {"create", "mkdir", "rmdir", "fsremove", "remove"} => w.todo # <<>>
  BY <1>3, NotEmpty
<1> QED BY <1>1, <1>3, <1>4, <1>5, <1>6 DEF Busy, w

\* The name that a call looks for is a name.
LEMMA FirstName ==
  ASSUME NEW o \in Ops, Len(o.todo) \in {1, 2}
  PROVE  o.todo[1] \in Name
<1>1. o.todo \in Seq(Name)
  BY DEF Ops
<1>2. 1 \in 1..Len(o.todo)
  OBVIOUS
<1> QED BY <1>1, <1>2, ElementOfSeq

\* A write that finds a free sector takes it, and the handle has it at once.
Grow(t) ==
  /\ op[t].call = "write" /\ op[t].pc = "map" /\ IsKind(MapData, "map")
  /\ CanAllocate(disk[MapData].used, 1)
  /\ GrowSectors(t, disk[MapData].used)

\* The other calls that read the map go on with it, or fail.
LEMMA MapReads ==
  ASSUME CountInv, NEW t \in Thread, FetchMap(t)
  PROVE  Reads(t) \/ Grow(t)
<1> DEFINE w == op[t]
           used == disk[MapData].used
<1>1. w.pc = "map"
  BY DEF FetchMap, At
<1>2. /\ Busy(t) /\ w \in Ops /\ w.path \in Path /\ ~Hit(w) /\ w.call # "open"
      /\ w.call \in {"create", "mkdir", "rmdir", "fsremove", "remove"} =>
           Len(w.todo) \in {1, 2} /\ w.todo # <<>>
      /\ w.call \in {"write", "close"} => w.fid \in Fid
      /\ w.call \in {"create", "mkdir", "rmdir", "fsremove", "write", "close"}
  BY <1>1, Writer
<1>3. ASSUME Crash PROVE Reads(t)
  BY <1>3, CrashReads
<1>4. ASSUME Fail(t), w.call # "close" PROVE Reads(t)
  BY <1>2, <1>4, FailReads
<1>5. ASSUME NEW o \in Ops, Goto(t, o), OnlyLocal, o.call = w.call, o.path = w.path,
             o.fid = w.fid, o.todo = w.todo,
             \/ o.pc = "whdr" /\ o.call \in {"create", "mkdir"}
             \/ o.pc = "wmap" /\ o.call \in {"rmdir", "fsremove"}
             \/ o.pc = "wmap" /\ o.call = "close" /\ o.sector = w.sector
      PROVE  Reads(t)
  <2>1. Shape(o) /\ o # Idle
    BY <1>2, <1>5, IdleTyped DEF Shape
  <2> QED BY <1>1, <1>2, <1>5, <2>1, GotoReads
<1>6. CASE ~IsKind(MapData, "map")
  BY <1>3, <1>6 DEF FetchMap
<1>7. CASE IsKind(MapData, "map")
  <2>1. used \in SUBSET Sector
    BY <1>7, KindsAre DEF CountInv, FSTypeOK
  <2>2. ASSUME NEW n \in Nat, NEW isdir \in BOOLEAN, NewFileSectors(t, used, n, isdir),
               w.call \in {"create", "mkdir"}
        PROVE  Reads(t)
    <3> DEFINE s == Find(used)
               u == used \cup {s}
               secs == Allocate(u, n)
               o == [w EXCEPT !.pc = "whdr", !.sector = s,
                              !.tab = AddName(w.tab, w.todo[1], s),
                              !.hdr = Header(isdir, secs), !.map = u \cup Range(secs)]
    <3>1. Fail(t) \/ (s # -1 /\ CanAllocate(u, n) /\ Goto(t, o) /\ OnlyLocal)
      BY <2>2 DEF NewFileSectors
    <3>2. CASE Fail(t)
      <4>1. w.call # "close"
        BY <2>2
      <4> HIDE DEF w, o, s, u, secs
      <4> QED BY <1>4, <3>2, <4>1
    <3>3. CASE s # -1 /\ CanAllocate(u, n) /\ Goto(t, o) /\ OnlyLocal
      <4>1. s \in Sector /\ s \in Int
        BY <3>3, FindSector, Sectors DEF Clear
      <4>2. secs \in Seq(Sector) /\ Range(secs) \subseteq Sector
        BY <3>3, AllocateFinds DEF Clear
      <4>3. AddName(w.tab, w.todo[1], s) \in Tabs
        BY <1>2, <2>2, <4>1, AddNameIs, FirstName DEF Ops
      <4>4. Header(isdir, secs) \in FileHeaders
        BY <4>2, HeaderTyped
      <4>5. u \cup Range(secs) \in SUBSET Sector
        BY <2>1, <4>1, <4>2
      <4> HIDE DEF u, s, secs, w
      <4>6. o \in Ops /\ o.call = w.call /\ o.path = w.path /\ o.fid = w.fid /\ o.pc = "whdr"
            /\ o.todo = w.todo
        BY <1>2, <4>1, <4>3, <4>4, <4>5 DEF Ops, Pcs
      <4> HIDE DEF o
      <4> QED BY <1>5, <2>2, <3>3, <4>6
    <3> QED BY <3>1, <3>2, <3>3
  <2>3. ASSUME FreeFileSectors(t, used), w.call \in {"rmdir", "fsremove"} PROVE Reads(t)
    <3> DEFINE m == Deallocate(used, w.hdr) \ {w.sector}
               o == [w EXCEPT !.pc = "wmap", !.map = m, !.tab = RemoveName(w.tab, w.todo[1])]
    <3>1. Crash \/ (Goto(t, o) /\ OnlyLocal)
      BY <2>3 DEF FreeFileSectors
    <3>2. m \in SUBSET Sector
      BY <2>1 DEF Deallocate
    <3>3. RemoveName(w.tab, w.todo[1]) \in Tabs
      BY <1>2, RemoveNameIs DEF Ops
    <3> HIDE DEF m, w
    <3>4. o \in Ops /\ o.call = w.call /\ o.path = w.path /\ o.fid = w.fid /\ o.pc = "wmap"
          /\ o.todo = w.todo
      BY <1>2, <3>2, <3>3 DEF Ops, Pcs
    <3> HIDE DEF o
    <3>5. Goto(t, o) /\ OnlyLocal => Reads(t)
      BY <1>5, <2>3, <3>4
    <3> QED BY <1>3, <3>1, <3>5
  <2>4. ASSUME FreeEntrySectors(t, used), w.call = "close" PROVE Reads(t)
    <3> DEFINE m == Deallocate(used, table[w.sector].file) \ {table[w.sector].sector}
               o == [w EXCEPT !.pc = "wmap", !.map = m]
    <3>1. Crash \/ (Goto(t, o) /\ OnlyLocal)
      BY <2>4 DEF FreeEntrySectors
    <3>2. m \in SUBSET Sector
      BY <2>1 DEF Deallocate
    <3> HIDE DEF m, w
    <3>3. o \in Ops /\ o.call = w.call /\ o.path = w.path /\ o.fid = w.fid /\ o.pc = "wmap"
          /\ o.todo = w.todo /\ o.sector = w.sector
      BY <1>2, <3>2 DEF Ops, Pcs
    <3> HIDE DEF o
    <3>4. Goto(t, o) /\ OnlyLocal => Reads(t)
      BY <1>5, <2>4, <3>3
    <3> QED BY <1>3, <3>1, <3>4
  <2>5. CASE w.call = "create"
    <3>1. NewFileSectors(t, used, w.size, FALSE)
      BY <1>7, <2>5 DEF FetchMap
    <3>2. w.size \in Nat /\ FALSE \in BOOLEAN
      BY <1>2 DEF Ops
    <3> HIDE DEF w, used
    <3> QED BY <2>2, <2>5, <3>1, <3>2
  <2>6. CASE w.call = "mkdir"
    <3>1. NewFileSectors(t, used, 1, TRUE)
      BY <1>7, <2>6 DEF FetchMap
    <3>2. 1 \in Nat /\ TRUE \in BOOLEAN
      OBVIOUS
    <3> HIDE DEF w, used
    <3> QED BY <2>2, <2>6, <3>1, <3>2
  <2>7. CASE w.call \in {"rmdir", "fsremove"}
    <3>1. FreeFileSectors(t, used)
      BY <1>7, <2>7 DEF FetchMap
    <3> QED BY <2>3, <2>7, <3>1
  <2>8. CASE w.call = "close"
    <3>1. FreeEntrySectors(t, used)
      BY <1>7, <2>8 DEF FetchMap
    <3> QED BY <2>4, <2>8, <3>1
  <2>9. CASE w.call = "write"
    <3>1. GrowSectors(t, used)
      BY <1>7, <2>9 DEF FetchMap
    <3>2. CASE CanAllocate(used, 1)
      BY <1>1, <1>7, <2>9, <3>1, <3>2 DEF Grow
    <3>3. CASE ~CanAllocate(used, 1)
      <4>1. Fail(t)
        BY <3>1, <3>3 DEF GrowSectors
      <4> QED BY <1>4, <2>9, <4>1
    <3> QED BY <3>2, <3>3
  <2> QED BY <1>2, <2>5, <2>6, <2>7, <2>8, <2>9
<1> QED BY <1>6, <1>7

\* Mkdir reads the header of the new directory back.
LEMMA NewDirReads ==
  ASSUME CountInv, NEW t \in Thread, OpenNewDir(t)
  PROVE  Reads(t)
<1> DEFINE w == op[t]
           o == [w EXCEPT !.pc = "wnew", !.hdr = disk[w.sector]]
<1>1. w.pc = "newdir"
  BY DEF OpenNewDir, At
<1>2. /\ Busy(t) /\ w \in Ops /\ w.path \in Path /\ w.call = "mkdir"
      /\ Len(w.todo) \in {1, 2} /\ w.todo # <<>>
  BY <1>1, Writer
<1>3. Crash \/ (IsKind(w.sector, "hdr") /\ Goto(t, o) /\ OnlyLocal)
  BY DEF OpenNewDir
<1>4. ASSUME IsKind(w.sector, "hdr"), Goto(t, o), OnlyLocal PROVE Reads(t)
  <2>1. disk[w.sector] \in FileHeaders
    BY <1>4, KindsAre DEF CountInv, FSTypeOK
  <2> HIDE DEF w
  <2>2. o \in Ops /\ o.call = w.call /\ o.path = w.path /\ o.fid = w.fid /\ o.pc = "wnew"
        /\ o.todo = w.todo
    BY <1>2, <2>1 DEF Ops, Pcs
  <2> HIDE DEF o
  <2>3. Shape(o) /\ o # Idle
    BY <1>2, <2>2, IdleTyped DEF Shape
  <2> USE DEF w
  <2> QED BY <1>2, <1>4, <2>2, <2>3, GotoReads
<1> HIDE DEF w, o
<1> QED BY <1>3, <1>4, CrashReads

\* The order of the writes of each call.
LEMMA Writes ==
  /\ AfterWrite("create", "whdr") = "wdir" /\ AfterWrite("create", "wdir") = "wmap"
  /\ AfterWrite("create", "wmap") = "idle"
  /\ AfterWrite("mkdir", "whdr") = "newdir" /\ AfterWrite("mkdir", "wnew") = "wdir"
  /\ AfterWrite("mkdir", "wdir") = "wmap" /\ AfterWrite("mkdir", "wmap") = "idle"
  /\ AfterWrite("write", "whdr") = "wmap" /\ AfterWrite("write", "wmap") = "wdata"
  /\ AfterWrite("write", "wdata") = "idle"
  /\ \A c \in {"rmdir", "fsremove"} : AfterWrite(c, "wmap") = "wdir"
                                      /\ AfterWrite(c, "wdir") = "idle"
  /\ AfterWrite("remove", "wdir") = "idle" /\ AfterWrite("close", "wmap") = "idle"
BY DEF AfterWrite

\* A write to the disk that does not end a close takes its call further or
\* ends it.
LEMMA WriteKeeps ==
  ASSUME CountInv, NEW t \in Thread, NEW s, NEW what \in Blocks, Write(t, s, what),
         op[t].pc \in {"whdr", "wnew", "wdir", "wmap", "wdata"}, op[t].call # "close"
  PROVE  /\ KeepsCalls(t) /\ disk' \in [Sector -> Blocks] /\ lost' \subseteq Sector
         /\ crashed' \in BOOLEAN
<1> DEFINE w == op[t]
           next == AfterWrite(w.call, w.pc)
           o == [w EXCEPT !.pc = next]
<1>1. disk' \in [Sector -> Blocks] /\ lost' \subseteq Sector /\ crashed' \in BOOLEAN
  <2>1. disk' = [r \in Sector |-> IF r = s THEN what
                                  ELSE IF r \in Freed(s, what) THEN Data ELSE disk[r]]
    BY DEF Write
  <2>2. \A r \in Sector : disk[r] \in Blocks
    BY DEF CountInv, FSTypeOK
  <2>3. Data \in Blocks
    BY DEF Blocks
  <2> QED BY <2>1, <2>2, <2>3 DEF Write, CountInv, FSTypeOK
<1>2. /\ Busy(t) /\ w \in Ops /\ w.path \in Path /\ ~Hit(w) /\ w.call # "open"
      /\ w.call \in {"create", "mkdir", "rmdir", "fsremove", "remove"} =>
           Len(w.todo) \in {1, 2} /\ w.todo # <<>>
      /\ w.call = "write" => w.fid \in Fid
      /\ w.pc = "whdr" => w.call \in {"create", "mkdir", "write"}
      /\ w.pc = "wnew" => w.call = "mkdir"
      /\ w.pc = "wdir" => w.call \in {"create", "mkdir", "rmdir", "fsremove", "remove"}
      /\ w.pc = "wmap" => w.call \in {"create", "mkdir", "rmdir", "fsremove", "write"}
      /\ w.pc = "wdata" => w.call = "write"
      /\ w.pc \in {"whdr", "wnew", "wdir", "wmap", "wdata"} /\ w.call # "close"
  BY Writer
<1>3. /\ createLock' = IF next = "idle" /\ createLock = t THEN NULL ELSE createLock
      /\ op' = [op EXCEPT ![t] = IF next = "idle" THEN Idle ELSE o]
      /\ UNCHANGED <<table, nbentry, files>>
  BY DEF Write, Goto
<1> HIDE DEF w
<1>4. CASE next = "idle"
  <2>1. Quit(t)
    BY <1>2, <1>3, <1>4 DEF Quit, w
  <2> QED BY <1>1, <2>1 DEF KeepsCalls
<1>5. CASE next # "idle"
  <2>1. next # "idle" => \/ w.call = "create" /\ next \in {"wdir", "wmap"}
                         \/ w.call = "mkdir" /\ next \in {"newdir", "wdir", "wmap"}
                         \/ w.call = "write" /\ next \in {"wmap", "wdata"}
                         \/ w.call \in {"rmdir", "fsremove"} /\ next = "wdir"
    BY <1>2, Writes
  <2> HIDE DEF next
  <2>2. next \in Pcs
    BY <1>5, <2>1 DEF Pcs
  <2>3. o \in Ops /\ o.call = w.call /\ o.path = w.path /\ o.fid = w.fid /\ o.pc = next
        /\ o.todo = w.todo
    BY <1>2, <2>2 DEF Ops
  <2>4. op' = [op EXCEPT ![t] = o] /\ createLock' = createLock
    BY <1>3, <1>5
  <2> HIDE DEF o
  <2>5. Shape(o) /\ o # Idle
    BY <1>2, <1>5, <2>1, <2>3, IdleTyped DEF Shape
  <2>6. w.call = "create" => o.pc # "lock" /\ w.pc # "lock"
    BY <1>2, <1>5, <2>1, <2>3
  <2>7. MoveTo(t, o)
    BY <1>2, <1>3, <2>3, <2>4, <2>5, <2>6 DEF MoveTo, w
  <2> QED BY <1>1, <2>3, <2>7 DEF KeepsCalls
<1> QED BY <1>4, <1>5

-----------------------------------------------------------------------------
(* A call begins *)

\* What overlaps when a call begins.
LEMMA MayStartIs ==
  ASSUME CallsApart, NEW t \in Thread, NEW call \in Call, MayStart(t, call)
  PROVE  /\ op[t] = Idle
         /\ \A u \in Thread : u # t /\ Busy(u) =>
              /\ call \in {"create", "open"} /\ op[u].call \in {"create", "open"}
              /\ call = "create" \/ op[u].call = "create"
<1>1. op[t] = Idle
  BY DEF MayStart
<1>2. ASSUME NEW u \in Thread, u # t, Busy(u)
      PROVE  /\ call \in {"create", "open"} /\ op[u].call \in {"create", "open"}
             /\ call = "create" \/ op[u].call = "create"
  <2>1. {call, op[u].call} \in Together
    BY <1>2 DEF MayStart, Busy
  <2>2. {call, op[u].call} = {"create"} \/ {call, op[u].call} = {"create", "open"}
    BY <2>1 DEF CallsApart
  <2>3. call \in {call, op[u].call} /\ op[u].call \in {call, op[u].call}
    OBVIOUS
  <2>4. CASE {call, op[u].call} = {"create"}
    BY <2>3, <2>4
  <2>5. CASE {call, op[u].call} = {"create", "open"}
    <3>1. "create" \in {call, op[u].call}
      BY <2>5
    <3> QED BY <2>3, <2>5, <3>1
  <2> QED BY <2>2, <2>4, <2>5
<1> QED BY <1>1, <1>2

\* An Open begins only when there is an id for the file.
LEMMA FidLeftIs ==
  ASSUME FidLeft, CountInv, \A u \in Thread : op[u].call # "open"
  PROVE  \E f \in Fid : files[f] = NULL
<1> DEFINE free == {f \in Fid : files[f] = NULL}
           openers == {t \in Thread : op[t].call = "open"}
<1>1. openers = {}
  OBVIOUS
<1>2. Cardinality(free) > Cardinality(openers)
  BY DEF FidLeft
<1>3. Cardinality(openers) = 0
  BY <1>1, FS_EmptySet
<1>4. free # {}
  <2> SUFFICES ASSUME free = {} PROVE FALSE
    OBVIOUS
  <2>1. Cardinality(free) = 0
    BY FS_EmptySet
  <2> HIDE DEF free, openers
  <2> QED BY <1>2, <1>3, <2>1
<1> QED BY <1>4

\* A call begins that has found nothing in the table yet.
LEMMA BeginCounts ==
  ASSUME CallsApart, CountInv, NEW t \in Thread, NEW call \in Call, MayStart(t, call),
         NEW o \in Ops, o # Idle, o.call = call, Shape(o), TableAgrees(o), ~Hit(o),
         call # "close", call = "create" => o.pc = "lock", call = "open" => FidLeft,
         op' = [op EXCEPT ![t] = o],
         UNCHANGED <<disk, table, nbentry, createLock, files, crashed, lost>>
  PROVE  CountInv'
<1>1. op \in [Thread -> Ops] /\ op[t] = Idle
  BY MayStartIs DEF CountInv, FSTypeOK
<1>2. op' \in [Thread -> Ops] /\ \A u \in Thread : op'[u] = IF u = t THEN o ELSE op[u]
  BY <1>1
<1>3. FSTypeOK'
  BY <1>2 DEF CountInv, FSTypeOK
<1>4. \A u \in Thread : Shape(op'[u])
  BY <1>2 DEF CountInv, Shapes
<1>5. CallsAgree'
  <2>1. \A u \in Thread : TableAgrees(op'[u])
    BY <1>2 DEF CountInv, CallsAgree
  <2> QED BY <2>1 DEF CallsAgree, TableAgrees, NotOpen, Used
<1>6. Overlap'
  <2>1. \A u \in Thread : u # t /\ op[u] # Idle =>
          /\ o.call \in {"create", "open"} /\ op[u].call \in {"create", "open"}
          /\ o.call = "create" \/ op[u].call = "create"
    BY MayStartIs DEF Busy
  <2>2. \A u, v \in Thread : u # v /\ op'[u] # Idle /\ op'[v] # Idle =>
          /\ op'[u].call \in {"create", "open"} /\ op'[v].call \in {"create", "open"}
          /\ op'[u].call = "create" \/ op'[v].call = "create"
    BY <1>2, <2>1 DEF CountInv, Overlap, Busy
  <2>3. createLock # t
    BY <1>1, IdleTyped DEF CountInv, Overlap, Call
  <2>4. \A u \in Thread : createLock = u <=> (op'[u].call = "create" /\ op'[u].pc # "lock")
    BY <1>2, <2>3 DEF CountInv, Overlap
  <2> QED BY <2>2, <2>4 DEF Overlap, Busy
<1>7. NamesDistinct'
  BY DEF CountInv, NamesDistinct, Used
<1>8. Counted'
  <2>1. \A p : HitsOf(p)' = HitsOf(p)
    BY <1>1, <1>2, IdleTyped DEF HitsOf, Hit, Call
  <2>2. \A p : HandlesOf(p)' = HandlesOf(p)
    BY <1>1, <1>2, IdleTyped DEF HandlesOf, Closing, Call
  <2>3. (\E u \in Thread : op'[u].call = "open") => \E f \in Fid : files[f] = NULL
    <3>1. CASE \E u \in Thread : op[u].call = "open"
      BY <3>1 DEF CountInv, Counted
    <3>2. CASE (\A u \in Thread : op[u].call # "open") /\ call = "open"
      BY <3>2, FidLeftIs
    <3>3. CASE (\A u \in Thread : op[u].call # "open") /\ call # "open"
      BY <1>2, <3>3
    <3> QED BY <3>1, <3>2, <3>3
  <2>4. \A i \in Slot, p \in Path : Used(i)' /\ table'[i].name = p =>
          table'[i].numthread = Cardinality(HandlesOf(p)') + Cardinality(HitsOf(p)')
    BY <2>1, <2>2 DEF CountInv, Counted, Used
  <2>5. \A f \in Fid, p \in Path : files'[f] # NULL /\ files'[f].path = p => ~NotOpen(p)'
    BY DEF CountInv, Counted, NotOpen, Used
  <2> QED BY <2>3, <2>4, <2>5 DEF Counted
<1> QED BY <1>3, <1>4, <1>5, <1>6, <1>7, <1>8 DEF CountInv, Shapes

\* createLock is free: a Create goes on.
LEMMA AcquireCounts ==
  ASSUME CountInv, NEW t \in Thread, AcquireCreate(t)
  PROVE  CountInv'
<1> DEFINE w == op[t]
           o == [w EXCEPT !.pc = "root"]
<1>1. w.pc = "lock" /\ createLock = NULL /\ createLock' = t /\ op' = [op EXCEPT ![t] = o]
      /\ UNCHANGED <<disk, table, nbentry, files, crashed, lost>>
  BY DEF AcquireCreate, At, CreateLockFree, Goto
<1>2. w \in Ops /\ w.call = "create" /\ w.path \in Path /\ Len(w.todo) \in {1, 2}
  <2>1. w \in Ops /\ Shape(w) /\ w # Idle
    BY <1>1, IdleTyped DEF CountInv, FSTypeOK, Shapes
  <2> HIDE DEF w
  <2> QED BY <1>1, <2>1 DEF Shape, WalkPcs
<1>3. o \in Ops /\ o.call = "create" /\ o.pc = "root" /\ o.path \in Path /\ Len(o.todo) \in {1, 2}
  <2> HIDE DEF w
  <2> QED BY <1>2 DEF Ops, Pcs
<1> HIDE DEF o
<1>4. op' \in [Thread -> Ops] /\ \A u \in Thread : op'[u] = IF u = t THEN o ELSE op[u]
  BY <1>1, <1>3 DEF CountInv, FSTypeOK
<1>5. FSTypeOK'
  BY <1>1, <1>4 DEF CountInv, FSTypeOK
<1>6. \A u \in Thread : Shape(op'[u])
  <2>1. Shape(o)
    BY <1>3 DEF Shape, PathCalls, WalkPcs
  <2> QED BY <1>4, <2>1 DEF CountInv, Shapes
<1>7. CallsAgree'
  <2>1. TableAgrees(o)
    BY <1>3 DEF TableAgrees, Hit
  <2>2. \A u \in Thread : TableAgrees(op'[u])
    BY <1>4, <2>1 DEF CountInv, CallsAgree
  <2> QED BY <1>1, <2>2 DEF CallsAgree, TableAgrees, NotOpen, Used
<1>8. Overlap'
  <2>1. w # Idle
    BY <1>2, IdleTyped DEF Call
  <2>2. \A u, v \in Thread : u # v /\ op'[u] # Idle /\ op'[v] # Idle =>
          /\ op'[u].call \in {"create", "open"} /\ op'[v].call \in {"create", "open"}
          /\ op'[u].call = "create" \/ op'[v].call = "create"
    BY <1>2, <1>3, <1>4, <2>1 DEF CountInv, Overlap, Busy
  <2>3. \A u \in Thread : u # t => ~(op[u].call = "create" /\ op[u].pc # "lock")
    <3>1. NULL \notin Thread
      BY FileSystemAssumption
    <3> QED BY <1>1, <3>1 DEF CountInv, Overlap
  <2>4. \A u \in Thread : createLock' = u <=> (op'[u].call = "create" /\ op'[u].pc # "lock")
    BY <1>1, <1>3, <1>4, <2>3
  <2> QED BY <2>2, <2>4 DEF Overlap, Busy
<1>9. NamesDistinct'
  BY <1>1 DEF CountInv, NamesDistinct, Used
<1>10. Counted'
  <2>1. \A p : HitsOf(p)' = HitsOf(p)
    BY <1>2, <1>3, <1>4 DEF HitsOf, Hit
  <2>2. \A p : HandlesOf(p)' = HandlesOf(p)
    BY <1>1, <1>2, <1>3, <1>4 DEF HandlesOf, Closing
  <2>3. (\E u \in Thread : op'[u].call = "open") => \E f \in Fid : files[f] = NULL
    BY <1>2, <1>3, <1>4 DEF CountInv, Counted
  <2>4. \A i \in Slot, p \in Path : Used(i)' /\ table'[i].name = p =>
          table'[i].numthread = Cardinality(HandlesOf(p)') + Cardinality(HitsOf(p)')
    BY <1>1, <2>1, <2>2 DEF CountInv, Counted, Used
  <2>5. \A f \in Fid, p \in Path : files'[f] # NULL /\ files'[f].path = p => ~NotOpen(p)'
    BY <1>1 DEF CountInv, Counted, NotOpen, Used
  <2> QED BY <1>1, <2>3, <2>4, <2>5 DEF Counted
<1> QED BY <1>5, <1>6, <1>7, <1>8, <1>9, <1>10 DEF CountInv, Shapes

\* Create, Remove, Mkdir, Rmdir and a write begin; and an Open that does not
\* find the file in the table.
LEMMA BeginSteps ==
  ASSUME CallsApart, CountInv, NEW t \in Thread, NEW p \in Path, NEW f \in Fid,
         \/ \E n \in Sizes : SysCreate(t, p, n)
         \/ \E call \in Call : SysPath(t, call, p)
         \/ SysOpen(t, p) /\ findl(p) = -1
         \/ SysGrow(t, f)
  PROVE  CountInv'
<1>1. CASE \E n \in Sizes : SysCreate(t, p, n)
  <2>1. PICK n \in Sizes : SysCreate(t, p, n)
    BY <1>1
  <2> DEFINE b == Begin(t, "create", p, "lock")
             o == [b EXCEPT !.size = n]
  <2>2. "create" \in Call /\ "lock" \in Pcs
    BY DEF Call, Pcs
  <2>3. b \in Ops /\ b.call = "create" /\ b.path = p /\ b.pc = "lock" /\ b.todo = Components[p]
    BY <2>2, BeginTyped
  <2>4. n \in Nat
    BY <2>1, FileSystemAssumption
  <2>5. op' = [op EXCEPT ![t] = o] /\ MayStart(t, "create")
        /\ UNCHANGED <<disk, table, nbentry, createLock, files, crashed, lost>>
    BY <2>1 DEF SysCreate, Goto, OnlyLocal
  <2> HIDE DEF b
  <2>6. o \in Ops /\ o.call = "create" /\ o.path = p /\ o.pc = "lock" /\ o.todo = Components[p]
    BY <2>3, <2>4 DEF Ops
  <2> HIDE DEF o
  <2>7. Shape(o) /\ o # Idle /\ TableAgrees(o) /\ ~Hit(o)
    BY <2>2, <2>6, ComponentsTyped, IdleTyped DEF Shape, TableAgrees, Hit
  <2> QED BY <2>2, <2>5, <2>6, <2>7, BeginCounts
<1>2. CASE \E call \in Call : SysPath(t, call, p)
  <2>1. PICK call \in Call : SysPath(t, call, p)
    BY <1>2
  <2> DEFINE o == Begin(t, call, p, "root")
  <2>2. "root" \in Pcs
    BY DEF Pcs
  <2>3. o \in Ops /\ o.call = call /\ o.path = p /\ o.pc = "root" /\ o.todo = Components[p]
    BY <2>2, BeginTyped
  <2>4. op' = [op EXCEPT ![t] = o] /\ MayStart(t, call) /\ call \in {"remove", "mkdir", "rmdir"}
        /\ UNCHANGED <<disk, table, nbentry, createLock, files, crashed, lost>>
    BY <2>1 DEF SysPath, Goto, OnlyLocal
  <2> HIDE DEF o
  <2>5. Shape(o) /\ o # Idle /\ TableAgrees(o) /\ ~Hit(o)
    BY <2>3, <2>4, ComponentsTyped, IdleTyped
       DEF Shape, PathCalls, WalkPcs, TableAgrees, Hit, Call
  <2> QED BY <2>3, <2>4, <2>5, BeginCounts
<1>3. CASE SysOpen(t, p) /\ findl(p) = -1
  <2> DEFINE o == Begin(t, "open", p, "root")
  <2>1. "root" \in Pcs /\ "open" \in Call
    BY DEF Pcs, Call
  <2>2. o \in Ops /\ o.call = "open" /\ o.path = p /\ o.pc = "root" /\ o.todo = Components[p]
    BY <2>1, BeginTyped
  <2>3. op' = [op EXCEPT ![t] = o] /\ MayStart(t, "open") /\ FidLeft /\ nbentry # -1
        /\ UNCHANGED <<disk, table, nbentry, createLock, files, crashed, lost>>
    BY <1>3 DEF SysOpen, Goto, TableFull
  <2>4. NotOpen(p)
    BY <1>3, FindlIs, SlotsAndFids
  <2> HIDE DEF o
  <2>5. o.todo # <<>>
    BY <2>2, ComponentsTyped, NotEmpty
  <2>6. Shape(o) /\ o # Idle /\ TableAgrees(o) /\ ~Hit(o)
    BY <2>1, <2>2, <2>3, <2>4, <2>5, ComponentsTyped, IdleTyped
       DEF Shape, PathCalls, WalkPcs, TableAgrees, Hit
  <2> QED BY <2>1, <2>2, <2>3, <2>6, BeginCounts
<1>4. CASE SysGrow(t, f)
  <2> DEFINE b == Begin(t, "write", files[f].path, "map")
             o == [b EXCEPT !.fid = f, !.sector = files[f].sector, !.hdr = files[f].hdr]
  <2>1. "map" \in Pcs /\ "write" \in Call
    BY DEF Pcs, Call
  <2>2. files[f] # NULL /\ MayStart(t, "write") /\ op' = [op EXCEPT ![t] = o]
        /\ UNCHANGED <<disk, table, nbentry, createLock, files, crashed, lost>>
    BY <1>4 DEF SysGrow, Goto, OnlyLocal
  <2>3. files[f].path \in Path /\ files[f].sector \in Sector /\ files[f].hdr \in FileHeaders
    BY <2>2, EntriesTyped DEF CountInv
  <2>4. b \in Ops /\ b.call = "write" /\ b.path = files[f].path /\ b.pc = "map"
    BY <2>1, <2>3, BeginTyped
  <2>5. files[f].sector \in Int
    <3>1. Sector \subseteq Int
      BY Sectors
    <3> QED BY <2>3, <3>1
  <2> HIDE DEF b
  <2>6. o \in Ops /\ o.call = "write" /\ o.path = files[f].path /\ o.pc = "map" /\ o.fid = f
    BY <2>3, <2>4, <2>5 DEF Ops
  <2> HIDE DEF o
  <2>7. Shape(o) /\ o # Idle /\ TableAgrees(o) /\ ~Hit(o)
    BY <2>1, <2>2, <2>3, <2>6, IdleTyped DEF Shape, TableAgrees, Hit
  <2> QED BY <2>1, <2>2, <2>6, <2>7, BeginCounts
<1> QED BY <1>1, <1>2, <1>3, <1>4

-----------------------------------------------------------------------------
(* The steps that change the table and the ids: the other calls are        *)
(* Creates then, which know nothing of the table.                          *)

\* t is the one call in progress that is not a Create.
Alone(t) ==
  /\ op[t].call # "create"
  /\ \A u \in Thread : u # t => op[u] = Idle \/ op[u].call = "create"

\* A call that is not a Create is the only one.
LEMMA NotCreateIsAlone ==
  ASSUME CountInv, NEW t \in Thread, Busy(t), op[t].call # "create"
  PROVE  /\ Alone(t)
         /\ op[t].call # "open" => \A u \in Thread : u # t => op[u] = Idle
BY DEF Alone, CountInv, Overlap, Busy

\* No call but Creates is in progress when one of the other calls begins.
LEMMA StarterIsAlone ==
  ASSUME CallsApart, NEW t \in Thread, NEW call \in Call, MayStart(t, call), call # "create"
  PROVE  /\ Alone(t) /\ op[t] = Idle
         /\ call # "open" => \A u \in Thread : u # t => op[u] = Idle
BY MayStartIs, IdleTyped DEF Alone, Busy, Call

\* What such a step leaves true, and who has files open before and after it.
LEMMA AloneStep ==
  ASSUME CountInv, NEW t \in Thread, Alone(t), NEW o \in Ops, Shape(o), o.call # "create",
         o = Idle \/ o.call = "open" \/ \A u \in Thread : u # t => op[u] = Idle,
         op' = [op EXCEPT ![t] = o], createLock' = createLock
  PROVE  /\ op' \in [Thread -> Ops] /\ op'[t] = o
         /\ Shapes' /\ Overlap'
         /\ \A u \in Thread : u # t => op'[u] = Idle \/ op'[u].call = "create"
         /\ \A p : HitsOf(p) = IF Hit(op[t]) /\ op[t].path = p THEN {t} ELSE {}
         /\ \A p : HitsOf(p)' = IF Hit(o) /\ o.path = p THEN {t} ELSE {}
         /\ \A f : Closing(f) <=> op[t].call = "close" /\ op[t].fid = f
         /\ \A f : Closing(f)' <=> o.call = "close" /\ o.fid = f
         /\ (\E u \in Thread : op'[u].call = "open") => o.call = "open"
<1>1. op' \in [Thread -> Ops] /\ \A u \in Thread : op'[u] = IF u = t THEN o ELSE op[u]
  BY DEF CountInv, FSTypeOK
<1>2. Shapes'
  <2>1. \A u \in Thread : Shape(op'[u])
    BY <1>1 DEF CountInv, Shapes
  <2> QED BY <2>1 DEF Shapes
<1>3. \A u \in Thread : u # t => op'[u] = Idle \/ op'[u].call = "create"
  BY <1>1 DEF Alone
<1>4. Overlap'
  <2>1. ASSUME NEW u \in Thread, u # t, op'[u] # Idle, o # Idle
        PROVE  op'[u].call = "create" /\ o.call = "open"
    BY <1>1, <1>3, <2>1
  <2>2. \A u, v \in Thread : u # v /\ op'[u] # Idle /\ op'[v] # Idle =>
          /\ op'[u].call \in {"create", "open"} /\ op'[v].call \in {"create", "open"}
          /\ op'[u].call = "create" \/ op'[v].call = "create"
    BY <1>1, <1>3, <2>1
  <2>3. createLock # t
    BY DEF Alone, CountInv, Overlap
  <2>4. \A u \in Thread : createLock' = u <=> (op'[u].call = "create" /\ op'[u].pc # "lock")
    BY <1>1, <2>3 DEF CountInv, Overlap
  <2> QED BY <2>2, <2>4 DEF Overlap, Busy
<1>5. \A u \in Thread : u # t => ~Hit(op[u]) /\ ~Hit(op'[u]) /\ op[u].call # "close"
                             /\ op'[u].call # "close" /\ op'[u].call # "open"
  BY <1>3, IdleTyped DEF Alone, Hit, Call
<1>6. /\ \A p : HitsOf(p) = IF Hit(op[t]) /\ op[t].path = p THEN {t} ELSE {}
      /\ \A p : HitsOf(p)' = IF Hit(o) /\ o.path = p THEN {t} ELSE {}
  <2>1. \A p : HitsOf(p) = IF Hit(op[t]) /\ op[t].path = p THEN {t} ELSE {}
    BY <1>5 DEF HitsOf
  <2>2. \A p : HitsOf(p)' = {u \in Thread : Hit(op'[u]) /\ op'[u].path = p}
    BY DEF HitsOf, Hit
  <2>3. \A p : {u \in Thread : Hit(op'[u]) /\ op'[u].path = p}
               = IF Hit(o) /\ o.path = p THEN {t} ELSE {}
    BY <1>1, <1>5
  <2> QED BY <2>1, <2>2, <2>3
<1>7. /\ \A f : Closing(f) <=> op[t].call = "close" /\ op[t].fid = f
      /\ \A f : Closing(f)' <=> o.call = "close" /\ o.fid = f
  BY <1>1, <1>5 DEF Closing
<1>8. (\E u \in Thread : op'[u].call = "open") => o.call = "open"
  BY <1>1, <1>5
<1> QED BY <1>1, <1>2, <1>3, <1>4, <1>6, <1>7, <1>8

\* Calls that are no Open, Remove, write or close agree with any table.
LEMMA OthersAgree ==
  \A o : o = Idle \/ o.call = "create" => TableAgrees(o)' /\ TableAgrees(o)
BY IdleTyped DEF TableAgrees, Hit, Call

\* The calls agree with the table if the one that is no Create does.
LEMMA AgreeAlone ==
  ASSUME NEW t \in Thread, NEW o, op'[t] = o, TableAgrees(o)',
         \A u \in Thread : u # t => op'[u] = Idle \/ op'[u].call = "create"
  PROVE  CallsAgree'
<1>1. ASSUME NEW u \in Thread, NEW w, op'[u] = w PROVE TableAgrees(w)'
  BY <1>1, OthersAgree
<1>2. \A w : TableAgrees(w)' <=>
       /\ w.call = "fsremove" => NotOpen(w.path)'
       /\ Hit(w) => \E i \in Slot : Used(i)' /\ table'[i].name = w.path
                                    /\ table'[i].sector = w.sector
       /\ w.call = "open" /\ w.todo # <<>> => NotOpen(w.path)' /\ nbentry' # -1
       /\ w.call = "write" => files'[w.fid] # NULL
       /\ w.call = "close" =>
            /\ files'[w.fid] # NULL /\ files'[w.fid].path = w.path
            /\ w.sector \in Slot /\ Used(w.sector)' /\ table'[w.sector].name = w.path
            /\ table'[w.sector].ToBeDeleted /\ table'[w.sector].numthread = 0
  BY DEF TableAgrees, Hit
<1>3. ASSUME NEW u \in Thread PROVE TableAgrees(op[u])'
  <2>1. PICK w : w = op'[u]
    OBVIOUS
  <2>2. TableAgrees(w)'
    BY <1>1, <2>1
  <2> QED BY <2>1, <2>2 DEF TableAgrees, Hit, NotOpen, Used
<1> QED BY <1>3 DEF CallsAgree

\* An Open that finds the file in the table.
LEMMA HitCounts ==
  ASSUME CallsApart, CountInv, NEW t \in Thread, NEW p \in Path,
         SysOpen(t, p), findl(p) # -1
  PROVE  CountInv'
<1> DEFINE num == findl(p)
           b == Begin(t, "open", p, "newfile")
           o0 == [b EXCEPT !.todo = <<>>, !.sector = table[num].sector]
<1>1. "open" \in Call /\ "newfile" \in Pcs
  BY DEF Call, Pcs
<1>2. num \in Slot /\ Used(num) /\ table[num].name = p /\ table[num] \in OFTEntries
  BY FindlIs, EntriesTyped DEF CountInv
<1>3. /\ MayStart(t, "open") /\ FidLeft /\ op' = [op EXCEPT ![t] = o0]
      /\ table' = [table EXCEPT ![num] = OneMore(table[num])]
      /\ UNCHANGED <<disk, nbentry, createLock, files, crashed, lost>>
  BY DEF SysOpen, Goto
<1> HIDE DEF num
<1>4. b \in Ops /\ b.call = "open" /\ b.path = p /\ b.pc = "newfile"
  BY <1>1, BeginTyped
<1>5. table[num].sector \in Int /\ <<>> \in Seq(Name)
  <2>1. Sector \subseteq Int
    BY Sectors
  <2> QED BY <1>2, <2>1, EntriesTyped, EmptySeq
<1> HIDE DEF b
<1>6. PICK o \in Ops : /\ o.call = "open" /\ o.path = p /\ o.pc = "newfile" /\ o.todo = <<>>
                       /\ o.sector = table[num].sector /\ op' = [op EXCEPT ![t] = o]
  <2>1. /\ o0.call = "open" /\ o0.path = p /\ o0.pc = "newfile" /\ o0.todo = <<>>
        /\ o0.sector = table[num].sector /\ o0 \in Ops
    BY <1>4, <1>5 DEF Ops
  <2> QED BY <1>3, <2>1
<1> HIDE DEF o0
<1>7. Shape(o) /\ o.call # "create" /\ Hit(o)
  BY <1>6 DEF Shape, Hit
<1>8. Alone(t) /\ op[t] = Idle
  BY <1>1, <1>3, StarterIsAlone
<1>9. /\ op' \in [Thread -> Ops] /\ op'[t] = o
      /\ Shapes' /\ Overlap'
      /\ \A u \in Thread : u # t => op'[u] = Idle \/ op'[u].call = "create"
      /\ \A q : HitsOf(q) = IF Hit(op[t]) /\ op[t].path = q THEN {t} ELSE {}
      /\ \A q : HitsOf(q)' = IF Hit(o) /\ o.path = q THEN {t} ELSE {}
      /\ \A f : Closing(f) <=> op[t].call = "close" /\ op[t].fid = f
      /\ \A f : Closing(f)' <=> o.call = "close" /\ o.fid = f
  BY <1>3, <1>6, <1>7, <1>8, AloneStep
<1>10. ~Hit(op[t]) /\ op[t].call # "close"
  BY <1>8, IdleTyped DEF Hit, Call
<1>11. /\ OneMore(table[num]) \in OFTEntries
       /\ OneMore(table[num]).numthread = table[num].numthread + 1
       /\ OneMore(table[num]).name = p /\ OneMore(table[num]).sector = table[num].sector
  BY <1>2 DEF OneMore, OFTEntries
<1>12. table' \in [Slot -> OFTEntries \cup {NULL}]
       /\ \A i \in Slot : table'[i] = IF i = num THEN OneMore(table[num]) ELSE table[i]
  BY <1>2, <1>3, <1>11 DEF CountInv, FSTypeOK
<1>13. FSTypeOK'
  BY <1>3, <1>9, <1>12 DEF CountInv, FSTypeOK
<1>14. OneMore(table[num]) # NULL
  BY <1>11, EntriesTyped
<1>15. CallsAgree'
  <2>1. /\ num \in Slot /\ table'[num] # NULL /\ table'[num].name = o.path
        /\ table'[num].sector = o.sector
    BY <1>2, <1>6, <1>11, <1>12, <1>14
  <2>2. TableAgrees(o)'
    BY <1>6, <2>1 DEF TableAgrees, Hit, Used
  <2> QED BY <1>9, <2>2, AgreeAlone
<1>16. NamesDistinct'
  BY <1>2, <1>3, <1>11, <1>12, <1>14 DEF CountInv, NamesDistinct, Used
<1>17. Counted'
  <2>1. \A q : HandlesOf(q)' = HandlesOf(q)
    BY <1>3, <1>6, <1>9, <1>10 DEF HandlesOf
  <2>2. Cardinality({t}) = 1 /\ Cardinality({}) = 0
    BY FS_Singleton, FS_EmptySet
  <2>3. ASSUME NEW i \in Slot, NEW q \in Path, Used(i)', table'[i].name = q
        PROVE  table'[i].numthread = Cardinality(HandlesOf(q)') + Cardinality(HitsOf(q)')
    <3>1. Cardinality(HandlesOf(q)) \in Nat
      BY HitsFinite
    <3>2. Used(i) /\ table[i].name = q
      BY <1>2, <1>11, <1>12, <1>14, <2>3 DEF Used
    <3>3. table[i].numthread = Cardinality(HandlesOf(q)) + Cardinality(HitsOf(q))
      BY <3>2 DEF CountInv, Counted
    <3>4. HitsOf(q) = {}
      BY <1>9, <1>10
    <3>5. CASE i = num
      <4>1. HitsOf(q)' = {t} /\ table'[i].numthread = table[i].numthread + 1
        BY <1>2, <1>6, <1>7, <1>9, <1>11, <1>12, <3>2, <3>5
      <4>2. Cardinality(HitsOf(q)') = 1 /\ Cardinality(HitsOf(q)) = 0
        BY <2>2, <3>4, <4>1
      <4> QED BY <2>1, <3>1, <3>3, <4>1, <4>2
    <3>6. CASE i # num
      <4>1. q # p
        BY <1>2, <3>2, <3>6 DEF CountInv, NamesDistinct
      <4>2. HitsOf(q)' = {} /\ table'[i] = table[i]
        BY <1>6, <1>9, <1>12, <3>6, <4>1
      <4> QED BY <2>1, <3>3, <3>4, <4>2
    <3> QED BY <3>5, <3>6
  <2>4. \A f \in Fid, q \in Path : files'[f] # NULL /\ files'[f].path = q => ~NotOpen(q)'
    <3>1. \A q : NotOpen(q)' => NotOpen(q)
      BY <1>2, <1>11, <1>12, <1>14 DEF NotOpen, Used
    <3> QED BY <1>3, <3>1 DEF CountInv, Counted
  <2>5. \E f \in Fid : files'[f] = NULL
    <3>1. \A u \in Thread : op[u].call # "open"
      BY <1>8, IdleTyped DEF Alone, Call
    <3> QED BY <1>3, <3>1, FidLeftIs
  <2> QED BY <2>3, <2>4, <2>5 DEF Counted
<1> QED BY <1>9, <1>13, <1>15, <1>16, <1>17 DEF CountInv

\* The programs that have the file of f open, before it is closed.
LEMMA OneOfThem ==
  ASSUME CountInv, NEW f \in Fid, files[f] # NULL, \A g \in Fid : ~Closing(g),
         HitsOf(files[f].path) = {}
  PROVE  LET p == files[f].path
             num == findl(p)
         IN  /\ p \in Path /\ num \in Slot /\ Used(num) /\ table[num].name = p
             /\ table[num] \in OFTEntries
             /\ table[num].numthread \in Nat \ {0}
             /\ table[num].numthread = Cardinality(HandlesOf(p))
             /\ Cardinality(HandlesOf(p) \ {f}) = table[num].numthread - 1
             /\ table[num].numthread <= 1 => HandlesOf(p) \ {f} = {}
<1> DEFINE p == files[f].path
           num == findl(p)
<1>1. p \in Path
  BY EntriesTyped DEF CountInv
<1>2. ~NotOpen(p)
  BY <1>1 DEF CountInv, Counted
<1>3. num \in Slot /\ Used(num) /\ table[num].name = p
  BY <1>2, FindlIs
<1>4. table[num] \in OFTEntries /\ table[num].numthread \in Nat
  BY <1>3, EntriesTyped DEF CountInv
<1>5. table[num].numthread = Cardinality(HandlesOf(p)) + Cardinality(HitsOf(p))
  BY <1>1, <1>3 DEF CountInv, Counted
<1>6. Cardinality(HitsOf(p)) = 0
  BY FS_EmptySet
<1>7. f \in HandlesOf(p)
  BY DEF HandlesOf
<1> HIDE DEF p, num
<1>8. IsFiniteSet(HandlesOf(p)) /\ Cardinality(HandlesOf(p)) \in Nat
  BY HitsFinite
<1>9. IsFiniteSet(HandlesOf(p) \ {f}) /\ Cardinality(HandlesOf(p) \ {f}) = Cardinality(HandlesOf(p)) - 1
  BY <1>7, <1>8, FS_RemoveElement
<1>10. Cardinality(HandlesOf(p) \ {f}) \in Nat
  BY <1>9, FS_CardinalityType
<1>11. Cardinality(HandlesOf(p)) # 0
  BY <1>8, <1>9, <1>10
<1>12. table[num].numthread = Cardinality(HandlesOf(p))
  BY <1>5, <1>6, <1>8
<1>13. ASSUME table[num].numthread <= 1 PROVE HandlesOf(p) \ {f} = {}
  <2>1. Cardinality(HandlesOf(p) \ {f}) = 0
    BY <1>8, <1>9, <1>10, <1>11, <1>12, <1>13
  <2> QED BY <1>9, <2>1, FS_EmptySet
<1>14. table[num].numthread \in Nat \ {0}
  BY <1>8, <1>11, <1>12
<1> QED BY <1>1, <1>3, <1>4, <1>9, <1>12, <1>13, <1>14 DEF p, num

\* A file is closed; if it was the last one its entry leaves the table.
LEMMA CloseCounts ==
  ASSUME CallsApart, CountInv, NEW t \in Thread, NEW f \in Fid, SysClose(t, f)
  PROVE  CountInv'
<1> DEFINE p == files[f].path
           num == findl(p)
           last == table[num].numthread <= 1
<1>1. MayStart(t, "close") /\ files[f] # NULL /\ "close" \in Call
      /\ UNCHANGED <<disk, nbentry, createLock, crashed, lost>>
  BY DEF SysClose, Call
<1>2. Alone(t) /\ op[t] = Idle /\ \A u \in Thread : u # t => op[u] = Idle
  BY <1>1, StarterIsAlone
<1>3. \A u \in Thread : op[u] = Idle
  BY <1>2
<1>4. (\A g \in Fid : ~Closing(g)) /\ (\A q : HitsOf(q) = {})
  BY <1>3, IdleTyped DEF Closing, HitsOf, Hit, Call
<1>5. /\ p \in Path /\ num \in Slot /\ Used(num) /\ table[num].name = p
      /\ table[num] \in OFTEntries
      /\ table[num].numthread \in Nat \ {0}
      /\ table[num].numthread = Cardinality(HandlesOf(p))
      /\ Cardinality(HandlesOf(p) \ {f}) = table[num].numthread - 1
      /\ table[num].numthread <= 1 => HandlesOf(p) \ {f} = {}
  BY <1>1, <1>4, OneOfThem
<1>6. num # -1
  BY <1>5, SlotsAndFids
<1>7. \/ /\ last /\ table[num].ToBeDeleted
         /\ table' = [table EXCEPT ![num] = OneLess(table[num])]
         /\ op' = [op EXCEPT ![t] = [Begin(t, "close", p, "map") EXCEPT !.sector = num, !.fid = f]]
         /\ files' = files
      \/ /\ ~(last /\ table[num].ToBeDeleted)
         /\ last => table' = [table EXCEPT ![num] = NULL]
         /\ ~last => table' = [table EXCEPT ![num] = OneLess(table[num])]
         /\ files' = [files EXCEPT ![f] = NULL]
         /\ op' = op
  <2>1. CASE last /\ table[num].ToBeDeleted
    BY <1>6, <2>1 DEF SysClose, Goto
  <2>2. CASE last /\ ~table[num].ToBeDeleted
    BY <1>6, <2>2 DEF SysClose, Goto
  <2>3. CASE ~last
    BY <1>6, <2>3 DEF SysClose
  <2> HIDE DEF last
  <2> QED BY <2>1, <2>2, <2>3
<1>8. PICK n : n = num /\ n \in Slot
  BY <1>5
<1>9. OneLess(table[n]) \in OFTEntries
  BY <1>5, <1>8 DEF OFTEntries, OneLess
<1>10. PICK e \in OFTEntries : e = OneLess(table[n])
  BY <1>9
<1>11. e.name = p /\ e.numthread = table[n].numthread - 1 /\ e.ToBeDeleted = table[n].ToBeDeleted
       /\ e.sector = table[n].sector /\ e # NULL
  BY <1>5, <1>8, <1>10, EntriesTyped DEF OFTEntries, OneLess
<1>12. \A g \in Fid : files[g] # NULL => files[g].path \in Path
  BY EntriesTyped DEF CountInv
<1>13. PICK q \in Path : q = p
  BY <1>5
<1>14. \A g \in Fid : g # f /\ files[g] # NULL /\ files[g].path = q => g \in HandlesOf(q) \ {f}
  BY <1>4 DEF HandlesOf
<1> HIDE DEF p, num, last
<1>15. \A i \in Slot : Used(i) /\ i # n => table[i].name # q
  BY <1>5, <1>8, <1>13 DEF CountInv, NamesDistinct
<1>a. nbentry' = nbentry /\ createLock' = createLock
      /\ (nbentry # -1 => nbentry \in Slot /\ nbentry # n /\ table[nbentry] = NULL)
  BY <1>1, <1>5, <1>8 DEF CountInv, FSTypeOK, NamesDistinct, Used
<1>16. CASE last /\ table[n].ToBeDeleted
  <2> DEFINE b == Begin(t, "close", q, "map")
             o0 == [b EXCEPT !.sector = n, !.fid = f]
  <2>1. "map" \in Pcs
    BY DEF Pcs
  <2>2. b \in Ops /\ b.call = "close" /\ b.path = q /\ b.pc = "map"
    BY <1>1, <2>1, BeginTyped
  <2>3. n \in Int
    BY <1>8, SlotsAndFids
  <2>4. table' = [table EXCEPT ![n] = e] /\ files' = files /\ op' = [op EXCEPT ![t] = o0]
    BY <1>7, <1>8, <1>10, <1>13, <1>16
  <2> HIDE DEF b
  <2>5. o0 \in Ops /\ o0.call = "close" /\ o0.path = q /\ o0.pc = "map" /\ o0.fid = f
        /\ o0.sector = n
    BY <2>2, <2>3 DEF Ops
  <2>6. PICK o \in Ops : o.call = "close" /\ o.path = q /\ o.pc = "map" /\ o.fid = f
                         /\ o.sector = n /\ op' = [op EXCEPT ![t] = o]
    BY <2>4, <2>5
  <2> HIDE DEF o0
  <2>7. Shape(o) /\ o.call # "create" /\ ~Hit(o)
    BY <2>6 DEF Shape, Hit
  <2>8. /\ op' \in [Thread -> Ops] /\ op'[t] = o
        /\ Shapes' /\ Overlap'
        /\ \A u \in Thread : u # t => op'[u] = Idle \/ op'[u].call = "create"
        /\ \A r : HitsOf(r)' = IF Hit(o) /\ o.path = r THEN {t} ELSE {}
        /\ \A g : Closing(g)' <=> o.call = "close" /\ o.fid = g
        /\ (\E u \in Thread : op'[u].call = "open") => o.call = "open"
    <3>1. Alone(t) /\ \A u \in Thread : u # t => op[u] = Idle
      BY <1>2
    <3>2. op' = [op EXCEPT ![t] = o] /\ o \in Ops
      BY <2>6
    <3>3. createLock' = createLock
      BY <1>a
    <3>4. /\ op' \in [Thread -> Ops] /\ op'[t] = o
          /\ Shapes' /\ Overlap'
          /\ \A u \in Thread : u # t => op'[u] = Idle \/ op'[u].call = "create"
          /\ \A r : HitsOf(r) = IF Hit(op[t]) /\ op[t].path = r THEN {t} ELSE {}
          /\ \A r : HitsOf(r)' = IF Hit(o) /\ o.path = r THEN {t} ELSE {}
          /\ \A g : Closing(g) <=> op[t].call = "close" /\ op[t].fid = g
          /\ \A g : Closing(g)' <=> o.call = "close" /\ o.fid = g
          /\ (\E u \in Thread : op'[u].call = "open") => o.call = "open"
      BY <2>7, <3>1, <3>2, <3>3, AloneStep
    <3> QED BY <3>4
  <2>9. table' \in [Slot -> OFTEntries \cup {NULL}]
        /\ \A i \in Slot : table'[i] = IF i = n THEN e ELSE table[i]
    BY <2>4, <1>8 DEF CountInv, FSTypeOK
  <2>10. FSTypeOK'
    BY <1>1, <2>4, <2>8, <2>9 DEF CountInv, FSTypeOK
  <2>11. e.numthread = 0
    BY <1>5, <1>8, <1>11, <1>16 DEF last
  <2>12. CallsAgree'
    <3>1. /\ files'[f] # NULL /\ files'[f].path = q /\ table'[n] # NULL /\ table'[n].name = q
          /\ table'[n].ToBeDeleted /\ table'[n].numthread = 0
      BY <1>1, <1>8, <1>11, <1>13, <1>16, <2>4, <2>9, <2>11 DEF p
    <3>2. TableAgrees(o)'
      BY <1>8, <2>6, <2>7, <3>1 DEF TableAgrees, Used, Hit
    <3> QED BY <2>8, <3>2, AgreeAlone
  <2>13. \A i \in Slot : Used(i)' <=> Used(i)
    BY <1>5, <1>8, <1>11, <2>9 DEF Used
  <2>14. \A i \in Slot : Used(i) => table'[i].name = table[i].name
    BY <1>5, <1>8, <1>11, <2>9
  <2>15. NamesDistinct'
    <3>1. \A i, j \in Slot : Used(i)' /\ Used(j)' /\ table'[i].name = table'[j].name => i = j
      BY <2>13, <2>14 DEF CountInv, NamesDistinct
    <3>2. nbentry' # -1 => table'[nbentry'] = NULL
      BY <1>a, <2>9
    <3> QED BY <3>1, <3>2 DEF NamesDistinct
  <2>16. \A r : HandlesOf(r)' = HandlesOf(r) \ {f}
    BY <1>4, <2>4, <2>6, <2>8 DEF HandlesOf
  <2>17. \A r : HitsOf(r)' = {}
    BY <2>7, <2>8
  <2>18. Counted'
    <3>1. ASSUME NEW i \in Slot, NEW r \in Path, Used(i)', table'[i].name = r
          PROVE  table'[i].numthread = Cardinality(HandlesOf(r)') + Cardinality(HitsOf(r)')
      <4>1. Cardinality(HitsOf(r)') = 0 /\ Cardinality({}) = 0
        BY <2>17, FS_EmptySet
      <4>2. Cardinality(HitsOf(r)) = 0
        BY <1>4, FS_EmptySet
      <4>3. Used(i) /\ table[i].name = r
        BY <2>13, <2>14, <3>1
      <4>4. CASE i = n
        <5>1. r = q
          BY <1>5, <1>8, <1>13, <4>3, <4>4
        <5>2. HandlesOf(r)' = {}
          BY <1>5, <1>8, <1>13, <1>16, <2>16, <5>1 DEF last
        <5> QED BY <2>9, <2>11, <4>1, <4>4, <5>2
      <4>5. CASE i # n
        <5>1. r # q
          BY <1>15, <4>3, <4>5
        <5>2. f \notin HandlesOf(r)
          BY <1>13, <5>1 DEF HandlesOf, p
        <5>3. HandlesOf(r)' = HandlesOf(r)
          BY <2>16, <5>2
        <5>4. table[i].numthread = Cardinality(HandlesOf(r)) + Cardinality(HitsOf(r))
          BY <4>3 DEF CountInv, Counted
        <5> QED BY <2>9, <4>1, <4>2, <4>5, <5>3, <5>4
      <4> QED BY <4>4, <4>5
    <3>2. \A g \in Fid, r \in Path : files'[g] # NULL /\ files'[g].path = r => ~NotOpen(r)'
      <4>1. \A r : NotOpen(r)' => NotOpen(r)
        BY <2>13, <2>14 DEF NotOpen
      <4> QED BY <2>4, <4>1 DEF CountInv, Counted
    <3> QED BY <2>6, <2>8, <3>1, <3>2 DEF Counted
  <2> QED BY <2>8, <2>10, <2>12, <2>15, <2>18 DEF CountInv
<1>17. CASE ~(last /\ table[n].ToBeDeleted)
  <2>1. /\ last => table' = [table EXCEPT ![n] = NULL]
        /\ ~last => table' = [table EXCEPT ![n] = e]
        /\ files' = [files EXCEPT ![f] = NULL] /\ op' = op
    BY <1>7, <1>8, <1>10, <1>17
  <2>2. table' \in [Slot -> OFTEntries \cup {NULL}]
        /\ \A i \in Slot : table'[i] = IF i = n THEN IF last THEN NULL ELSE e ELSE table[i]
    BY <2>1, <1>8 DEF CountInv, FSTypeOK
  <2>3. files' \in [Fid -> OpenFiles \cup {NULL}]
        /\ \A g \in Fid : files'[g] = IF g = f THEN NULL ELSE files[g]
    BY <2>1 DEF CountInv, FSTypeOK
  <2>4. FSTypeOK'
    BY <1>1, <2>1, <2>2, <2>3 DEF CountInv, FSTypeOK
  <2>5. CallsAgree'
    <3>1. \A u \in Thread : TableAgrees(Idle)'
      BY OthersAgree
    <3> QED BY <1>3, <2>1, IdleTyped DEF CallsAgree, TableAgrees, Hit, Call
  <2>6. Shapes' /\ Overlap'
    BY <1>1, <2>1 DEF CountInv, Shapes, Overlap, Busy
  <2>7. \A i \in Slot : Used(i)' => Used(i) /\ table'[i].name = table[i].name /\ (i = n => ~last)
    BY <1>5, <1>8, <1>11, <2>2 DEF Used
  <2>8. NamesDistinct'
    <3>1. \A i, j \in Slot : Used(i)' /\ Used(j)' /\ table'[i].name = table'[j].name => i = j
      BY <2>7 DEF CountInv, NamesDistinct
    <3>2. nbentry' # -1 => table'[nbentry'] = NULL
      BY <1>a, <2>2
    <3> QED BY <3>1, <3>2 DEF NamesDistinct
  <2>9. (\A r : HandlesOf(r)' = HandlesOf(r) \ {f}) /\ (\A r : HitsOf(r)' = {})
    <3>1. \A g : ~Closing(g)'
      BY <1>3, <2>1, IdleTyped DEF Closing, Call
    <3>2. \A r : HandlesOf(r)' = HandlesOf(r) \ {f}
      BY <1>4, <2>3, <3>1 DEF HandlesOf
    <3>3. \A r : HitsOf(r)' = HitsOf(r)
      BY <2>1 DEF HitsOf, Hit
    <3> QED BY <1>4, <3>2, <3>3
  <2>10. Counted'
    <3>1. ASSUME NEW i \in Slot, NEW r \in Path, Used(i)', table'[i].name = r
          PROVE  table'[i].numthread = Cardinality(HandlesOf(r)') + Cardinality(HitsOf(r)')
      <4>1. Cardinality(HitsOf(r)') = 0
        BY <2>9, FS_EmptySet
      <4>2. Cardinality(HitsOf(r)) = 0
        BY <1>4, FS_EmptySet
      <4>3. Used(i) /\ table[i].name = r
        BY <2>7, <3>1
      <4>4. CASE i = n
        <5>1. r = q /\ table'[i] = e
          BY <1>5, <1>8, <1>13, <2>2, <2>7, <3>1, <4>3, <4>4
        <5>2. Cardinality(HandlesOf(r)') = e.numthread
          BY <1>5, <1>8, <1>11, <1>13, <2>9, <5>1
        <5>3. e.numthread \in Nat
          BY EntriesTyped
        <5> QED BY <4>1, <5>1, <5>2, <5>3
      <4>5. CASE i # n
        <5>1. r # q
          BY <1>15, <4>3, <4>5
        <5>2. f \notin HandlesOf(r)
          BY <1>13, <5>1 DEF HandlesOf, p
        <5>3. HandlesOf(r)' = HandlesOf(r)
          BY <2>9, <5>2
        <5>4. table[i].numthread = Cardinality(HandlesOf(r)) + Cardinality(HitsOf(r))
          BY <4>3 DEF CountInv, Counted
        <5> QED BY <2>2, <4>1, <4>2, <4>5, <5>3, <5>4
      <4> QED BY <4>4, <4>5
    <3>2. ASSUME NEW g \in Fid, NEW r \in Path, files'[g] # NULL, files'[g].path = r
          PROVE  ~NotOpen(r)'
      <4>1. g # f /\ files[g] # NULL /\ files[g].path = r
        BY <2>3, <3>2
      <4>2. PICK i \in Slot : Used(i) /\ table[i].name = r
        BY <4>1 DEF CountInv, Counted, NotOpen
      <4>3. i = n => ~last
        <5>1. i = n => r = q
          BY <1>5, <1>8, <1>13, <4>2
        <5> QED BY <1>5, <1>8, <1>13, <1>14, <4>1, <5>1 DEF last
      <4>4. Used(i)' /\ table'[i].name = r
        BY <1>5, <1>8, <1>11, <1>13, <2>2, <4>2, <4>3 DEF Used
      <4> QED BY <4>4 DEF NotOpen
    <3>3. \A u \in Thread : op'[u].call # "open"
      BY <1>3, <2>1, IdleTyped DEF Call
    <3> QED BY <3>1, <3>2, <3>3 DEF Counted
  <2> QED BY <2>4, <2>5, <2>6, <2>8, <2>10 DEF CountInv
<1> QED BY <1>16, <1>17

\* A new OpenFile: its id, and the entry if the file was not in the table.
LEMMA NewFileCounts ==
  ASSUME CountInv, NEW t \in Thread, NewFile(t)
  PROVE  CountInv'
<1>1. op[t].pc = "newfile" /\ op[t] \in Ops /\ Shape(op[t]) /\ op[t] # Idle
  BY IdleTyped DEF NewFile, At, CountInv, FSTypeOK, Shapes
<1>2. PICK w \in Ops : w = op[t] /\ w.pc = "newfile" /\ w # Idle /\ Shape(w)
  BY <1>1
<1>3. w.call = "open" /\ w.path \in Path
  BY <1>2 DEF Shape, WalkPcs
<1>4. PICK p \in Path : p = w.path
  BY <1>3
<1>5. Alone(t)
  BY <1>2, <1>3, NotCreateIsAlone DEF Busy
<1>6. \E f \in Fid : files[f] = NULL
  BY <1>2, <1>3 DEF CountInv, Counted
<1>7. PICK f \in Fid : f = NewFid /\ files[f] = NULL
  BY <1>6, NewFidIs
<1>8. TableAgrees(w)
  BY <1>2 DEF CountInv, CallsAgree
<1>9. CASE Crash
  <2>1. Reads(t)
    BY <1>9, CrashReads
  <2>2. KeepsCalls(t) /\ disk' \in [Sector -> Blocks] /\ crashed' \in BOOLEAN /\ lost' \subseteq Sector
    BY <2>1 DEF Reads, CountInv, FSTypeOK
  <2> QED BY <2>2, KeepsCallsCounts
<1>10. CASE ~Crash
  <2>1. /\ IsKind(w.sector, "hdr")
        /\ files' = [files EXCEPT ![f] = Handle(w.path, w.sector)]
        /\ op' = [op EXCEPT ![t] = Idle]
        /\ UNCHANGED <<disk, createLock, crashed, lost>>
    BY <1>2, <1>7, <1>10 DEF NewFile, Return, Goto
  <2>2. \/ /\ Hit(w) /\ UNCHANGED <<table, nbentry>>
        \/ /\ ~Hit(w) /\ nbentry # -1
           /\ table' = [table EXCEPT ![nbentry] = NewEntry(w.path, w.sector, w.hdr)]
           /\ nbentry' = next_entry(table')
    BY <1>2, <1>3, <1>10 DEF NewFile, Hit
  <2>3. w.sector \in Sector /\ disk[w.sector] \in FileHeaders
    BY <2>1, KindsAre DEF CountInv, FSTypeOK
  <2>4. Handle(w.path, w.sector) \in OpenFiles /\ Handle(w.path, w.sector).path = p
    BY <1>3, <1>4, <2>3 DEF Handle, OpenFiles
  <2>5. /\ files' \in [Fid -> OpenFiles \cup {NULL}]
        /\ \A g \in Fid : g # f => files'[g] = files[g]
        /\ files'[f] # NULL /\ files'[f].path = p
    BY <2>1, <2>4, EntriesTyped DEF CountInv, FSTypeOK
  <2>6. Shape(Idle) /\ Idle.call # "create" /\ Idle \in Ops /\ ~Hit(Idle) /\ Idle.call # "close"
        /\ Idle.call # "open"
    BY IdleTyped DEF Shape, Call, Hit
  <2>7. /\ op' \in [Thread -> Ops] /\ op'[t] = Idle
        /\ Shapes' /\ Overlap'
        /\ \A u \in Thread : u # t => op'[u] = Idle \/ op'[u].call = "create"
        /\ \A q : HitsOf(q) = IF Hit(w) /\ w.path = q THEN {t} ELSE {}
        /\ \A q : HitsOf(q)' = {}
        /\ \A g : ~Closing(g) /\ ~Closing(g)'
        /\ ~ \E u \in Thread : op'[u].call = "open"
    <3>1. createLock' = createLock
      BY <2>1
    <3>2. /\ op' \in [Thread -> Ops] /\ op'[t] = Idle
          /\ Shapes' /\ Overlap'
          /\ \A u \in Thread : u # t => op'[u] = Idle \/ op'[u].call = "create"
          /\ \A q : HitsOf(q) = IF Hit(op[t]) /\ op[t].path = q THEN {t} ELSE {}
          /\ \A q : HitsOf(q)' = IF Hit(Idle) /\ Idle.path = q THEN {t} ELSE {}
          /\ \A g : Closing(g) <=> op[t].call = "close" /\ op[t].fid = g
          /\ \A g : Closing(g)' <=> Idle.call = "close" /\ Idle.fid = g
          /\ (\E u \in Thread : op'[u].call = "open") => Idle.call = "open"
      BY <1>5, <2>1, <2>6, <3>1, AloneStep
    <3>3. \A g : ~Closing(g) /\ ~Closing(g)'
      BY <1>2, <1>3, <2>6, <3>2
    <3>4. ~ \E u \in Thread : op'[u].call = "open"
      BY <2>6, <3>2
    <3> QED BY <1>2, <2>6, <3>2, <3>3, <3>4
  <2>8. CallsAgree'
    <3>1. TableAgrees(Idle)'
      BY OthersAgree
    <3> QED BY <2>7, <3>1, AgreeAlone
  <2>9. \A q : HandlesOf(q)' = IF q = p THEN HandlesOf(q) \cup {f} ELSE HandlesOf(q)
    <3>1. \A q : HandlesOf(q)' = {g \in Fid : files'[g] # NULL /\ files'[g].path = q}
      BY <2>7 DEF HandlesOf
    <3>2. \A q : HandlesOf(q) = {g \in Fid : files[g] # NULL /\ files[g].path = q}
      BY <2>7 DEF HandlesOf
    <3>3. ASSUME NEW q, NEW g \in Fid
          PROVE  files'[g] # NULL /\ files'[g].path = q
                   <=> \/ files[g] # NULL /\ files[g].path = q
                       \/ g = f /\ q = p
      <4>1. CASE g = f
        <5>1. files'[g] # NULL /\ files'[g].path = p /\ files[g] = NULL
          BY <1>7, <2>5, <4>1
        <5> QED BY <4>1, <5>1
      <4>2. CASE g # f
        BY <2>5, <4>2
      <4> QED BY <4>1, <4>2
    <3>4. \A q : HandlesOf(q)' = {g \in Fid : \/ files[g] # NULL /\ files[g].path = q
                                              \/ g = f /\ q = p}
      BY <3>1, <3>3
    <3> QED BY <3>2, <3>4
  <2>10. \A q : f \notin HandlesOf(q)
    BY <1>7 DEF HandlesOf
  <2>11. Cardinality({t}) = 1 /\ Cardinality({}) = 0 /\ Cardinality({f}) = 1
    BY FS_Singleton, FS_EmptySet
  <2>12. CASE Hit(w)
    <3>1. UNCHANGED <<table, nbentry>>
      BY <2>2, <2>12
    <3>2. FSTypeOK'
      BY <2>1, <2>5, <2>7, <3>1 DEF CountInv, FSTypeOK
    <3>3. NamesDistinct'
      BY <3>1 DEF CountInv, NamesDistinct, Used
    <3>4. ASSUME NEW i \in Slot, NEW q \in Path, Used(i)', table'[i].name = q
          PROVE  table'[i].numthread = Cardinality(HandlesOf(q)') + Cardinality(HitsOf(q)')
      <4>1. Used(i) /\ table[i].name = q /\ table'[i] = table[i]
        BY <3>1, <3>4 DEF Used
      <4>2. table[i].numthread = Cardinality(HandlesOf(q)) + Cardinality(HitsOf(q))
        BY <4>1 DEF CountInv, Counted
      <4>3. IsFiniteSet(HandlesOf(q)) /\ Cardinality(HandlesOf(q)) \in Nat
        BY HitsFinite
      <4>4. Cardinality(HitsOf(q)') = 0
        BY <2>7, <2>11
      <4>5. CASE q = p
        <5>1. Cardinality(HitsOf(q)) = 1
          BY <1>4, <2>7, <2>11, <2>12, <4>5
        <5>2. Cardinality(HandlesOf(q) \cup {f}) = Cardinality(HandlesOf(q)) + 1
          BY <2>10, <4>3, FS_AddElement
        <5>3. HandlesOf(q)' = HandlesOf(q) \cup {f}
          BY <2>9, <4>5
        <5> QED BY <4>1, <4>2, <4>3, <4>4, <5>1, <5>2, <5>3
      <4>6. CASE q # p
        <5>1. Cardinality(HitsOf(q)) = 0 /\ HandlesOf(q)' = HandlesOf(q)
          BY <1>4, <2>7, <2>9, <2>11, <4>6
        <5> QED BY <4>1, <4>2, <4>4, <5>1
      <4> QED BY <4>5, <4>6
    <3>5. \A g \in Fid, q \in Path : files'[g] # NULL /\ files'[g].path = q => ~NotOpen(q)'
      <4>1. \A q : NotOpen(q)' = NotOpen(q)
        BY <3>1 DEF NotOpen, Used
      <4>2. ~NotOpen(p)
        BY <1>4, <1>8, <2>12 DEF TableAgrees, NotOpen
      <4>3. ASSUME NEW g \in Fid, NEW q \in Path, files'[g] # NULL, files'[g].path = q
            PROVE  ~NotOpen(q)
        <5>1. CASE g = f
          <6>1. files'[g].path = p
            BY <2>5, <5>1
          <6> QED BY <4>2, <4>3, <6>1
        <5>2. CASE g # f
          BY <2>5, <4>3, <5>2 DEF CountInv, Counted
        <5> QED BY <5>1, <5>2
      <4> QED BY <4>1, <4>3
    <3> QED BY <2>7, <2>8, <3>2, <3>3, <3>4, <3>5 DEF CountInv, Counted
  <2>13. CASE ~Hit(w)
    <3>1. w.todo # <<>>
      BY <1>3, <2>13 DEF Hit
    <3>2. NotOpen(p) /\ nbentry # -1
      BY <1>3, <1>4, <1>8, <3>1 DEF TableAgrees
    <3>3. nbentry \in Slot /\ table[nbentry] = NULL
      BY <3>2 DEF CountInv, FSTypeOK, NamesDistinct
    <3>4. PICK n \in Slot : n = nbentry /\ table[n] = NULL
      BY <3>3
    <3>5. NewEntry(w.path, w.sector, w.hdr) \in OFTEntries
      BY <1>2, <1>3, <2>3 DEF NewEntry, OFTEntries, Ops
    <3>6. PICK e \in OFTEntries : e = NewEntry(w.path, w.sector, w.hdr)
      BY <3>5
    <3>7. e.name = p /\ e.numthread = 1 /\ e # NULL
      BY <1>4, <3>6, EntriesTyped DEF NewEntry
    <3>8. table' \in [Slot -> OFTEntries \cup {NULL}]
          /\ \A i \in Slot : table'[i] = IF i = n THEN e ELSE table[i]
      BY <2>2, <2>13, <3>4, <3>6 DEF CountInv, FSTypeOK
    <3>9. nbentry' = -1 \/ (nbentry' \in Slot /\ table'[nbentry'] = NULL)
      BY <2>2, <2>13, NextEntryIs
    <3>10. FSTypeOK'
      BY <2>1, <2>5, <2>7, <3>8, <3>9 DEF CountInv, FSTypeOK
    <3>11. \A i \in Slot : Used(i)' <=> Used(i) \/ i = n
      BY <3>7, <3>8 DEF Used
    <3>12. \A i \in Slot : Used(i) => i # n /\ table[i].name # p /\ table'[i] = table[i]
      BY <3>2, <3>4, <3>8 DEF Used, NotOpen
    <3>13. NamesDistinct'
      <4>1. ASSUME NEW i \in Slot, NEW j \in Slot, Used(i)', Used(j)', table'[i].name = table'[j].name
            PROVE  i = j
        <5>1. CASE Used(i) /\ Used(j)
          BY <3>12, <4>1, <5>1 DEF CountInv, NamesDistinct
        <5>2. CASE i = n
          BY <3>7, <3>8, <3>11, <3>12, <4>1, <5>2
        <5>3. CASE j = n
          BY <3>7, <3>8, <3>11, <3>12, <4>1, <5>3
        <5> QED BY <3>11, <4>1, <5>1, <5>2, <5>3
      <4> QED BY <3>9, <4>1 DEF NamesDistinct
    <3>14. HandlesOf(p) = {}
      BY <1>4, <3>2 DEF CountInv, Counted, HandlesOf
    <3>15. \A q : HitsOf(q) = {}
      BY <2>7, <2>13
    <3>16. ASSUME NEW i \in Slot, NEW q \in Path, Used(i)', table'[i].name = q
           PROVE  table'[i].numthread = Cardinality(HandlesOf(q)') + Cardinality(HitsOf(q)')
      <4>1. Cardinality(HitsOf(q)') = 0
        BY <2>7, <2>11
      <4>2. CASE i = n
        <5>1. q = p /\ table'[i].numthread = 1
          BY <3>7, <3>8, <3>16, <4>2
        <5>2. HandlesOf(q)' = {f}
          BY <2>9, <3>14, <5>1
        <5> QED BY <2>11, <4>1, <5>1, <5>2
      <4>3. CASE i # n
        <5>1. Used(i) /\ q # p /\ table'[i] = table[i] /\ table[i].name = q
          BY <3>11, <3>12, <3>16, <4>3
        <5>2. HandlesOf(q)' = HandlesOf(q) /\ Cardinality(HitsOf(q)) = 0
          BY <2>9, <2>11, <3>15, <5>1
        <5>3. table[i].numthread = Cardinality(HandlesOf(q)) + Cardinality(HitsOf(q))
          BY <5>1 DEF CountInv, Counted
        <5> QED BY <4>1, <5>1, <5>2, <5>3
      <4> QED BY <4>2, <4>3
    <3>17. \A g \in Fid, q \in Path : files'[g] # NULL /\ files'[g].path = q => ~NotOpen(q)'
      <4>1. \A q : NotOpen(q)' => NotOpen(q) /\ q # p
        BY <3>4, <3>7, <3>8, <3>11, <3>12 DEF NotOpen
      <4>2. ASSUME NEW g \in Fid, NEW q \in Path, files'[g] # NULL, files'[g].path = q
            PROVE  q = p \/ ~NotOpen(q)
        <5>1. CASE g = f
          <6>1. files'[g].path = p
            BY <2>5, <5>1
          <6> QED BY <4>2, <6>1
        <5>2. CASE g # f
          BY <2>5, <4>2, <5>2 DEF CountInv, Counted
        <5> QED BY <5>1, <5>2
      <4> QED BY <4>1, <4>2
    <3> QED BY <2>7, <2>8, <3>10, <3>13, <3>16, <3>17 DEF CountInv, Counted
  <2> QED BY <2>12, <2>13
<1> QED BY <1>9, <1>10

\* A step of a call that is alone, when no file is opened or closed and the
\* entries keep their names and counts.
LEMMA LonelyStep ==
  ASSUME CountInv, NEW t \in Thread, Alone(t), \A u \in Thread : u # t => op[u] = Idle,
         NEW o \in Ops, Shape(o), TableAgrees(o)',
         o.call \notin {"create", "open", "close"},
         op[t].call # "close", ~Hit(op[t]), op' = [op EXCEPT ![t] = o],
         UNCHANGED <<disk, nbentry, createLock, crashed>>,
         table' \in [Slot -> OFTEntries \cup {NULL}],
         files' \in [Fid -> OpenFiles \cup {NULL}], lost' \subseteq Sector,
         \A i \in Slot : Used(i)' <=> Used(i),
         \A i \in Slot : Used(i) => table'[i].name = table[i].name
                                    /\ table'[i].numthread = table[i].numthread,
         \A f \in Fid : files'[f] # NULL <=> files[f] # NULL,
         \A f \in Fid : files[f] # NULL => files'[f].path = files[f].path
  PROVE  CountInv'
<1>1. o.call # "create" /\ ~Hit(o) /\ o.call # "close" /\ o.call # "open"
  BY DEF Hit
<1>2. /\ op' \in [Thread -> Ops] /\ op'[t] = o
      /\ Shapes' /\ Overlap'
      /\ \A u \in Thread : u # t => op'[u] = Idle \/ op'[u].call = "create"
      /\ \A p : HitsOf(p) = IF Hit(op[t]) /\ op[t].path = p THEN {t} ELSE {}
      /\ \A p : HitsOf(p)' = IF Hit(o) /\ o.path = p THEN {t} ELSE {}
      /\ \A f : Closing(f) <=> op[t].call = "close" /\ op[t].fid = f
      /\ \A f : Closing(f)' <=> o.call = "close" /\ o.fid = f
      /\ (\E u \in Thread : op'[u].call = "open") => o.call = "open"
  BY <1>1, AloneStep
<1>3. FSTypeOK'
  BY <1>2 DEF CountInv, FSTypeOK
<1>4. CallsAgree'
  BY <1>2, AgreeAlone
<1>5. NamesDistinct'
  <2>1. \A i, j \in Slot : Used(i)' /\ Used(j)' /\ table'[i].name = table'[j].name => i = j
    BY DEF CountInv, NamesDistinct
  <2>2. nbentry' # -1 => table'[nbentry'] = NULL
    BY DEF CountInv, FSTypeOK, NamesDistinct, Used
  <2> QED BY <2>1, <2>2 DEF NamesDistinct
<1>6. \A p : HitsOf(p)' = HitsOf(p)
  BY <1>1, <1>2
<1>7. \A p : HandlesOf(p)' = HandlesOf(p)
  <2>1. \A f : ~Closing(f) /\ ~Closing(f)'
    BY <1>1, <1>2
  <2>2. \A p : HandlesOf(p)' = {f \in Fid : files'[f] # NULL /\ files'[f].path = p}
    BY <2>1 DEF HandlesOf
  <2>3. \A p : HandlesOf(p) = {f \in Fid : files[f] # NULL /\ files[f].path = p}
    BY <2>1 DEF HandlesOf
  <2> QED BY <2>2, <2>3
<1>8. \A i \in Slot, p \in Path : Used(i)' /\ table'[i].name = p =>
        table'[i].numthread = Cardinality(HandlesOf(p)') + Cardinality(HitsOf(p)')
  BY <1>6, <1>7 DEF CountInv, Counted
<1>9. \A f \in Fid, p \in Path : files'[f] # NULL /\ files'[f].path = p => ~NotOpen(p)'
  <2>1. \A p : NotOpen(p)' => NotOpen(p)
    BY DEF NotOpen
  <2> QED BY <2>1 DEF CountInv, Counted
<1>10. Counted'
  BY <1>1, <1>2, <1>8, <1>9 DEF Counted
<1> QED BY <1>2, <1>3, <1>4, <1>5, <1>10 DEF CountInv

\* FileSystem::Remove begins: the file is not in the table.
LEMMA RestartCounts ==
  ASSUME CountInv, NEW t \in Thread, Restart(t)
  PROVE  CountInv'
<1> DEFINE w == op[t]
           o0 == Begin(t, "fsremove", w.path, "root")
<1>1. /\ w.call = "remove" /\ w.pc = "fetch" /\ op' = [op EXCEPT ![t] = o0] /\ ~IsOpen(w.path)
      /\ UNCHANGED <<disk, table, nbentry, createLock, files, crashed, lost>>
  BY DEF Restart, Goto, OnlyLocal
<1>2. /\ Busy(t) /\ w.path \in Path /\ ~Hit(w)
  BY <1>1, Walker DEF WalkPcs
<1>3. Alone(t) /\ \A u \in Thread : u # t => op[u] = Idle
  BY <1>1, <1>2, NotCreateIsAlone
<1>4. NotOpen(w.path)
  BY <1>1, FindlIs, SlotsAndFids DEF IsOpen
<1>5. PICK p \in Path : p = w.path
  BY <1>2
<1>6. "fsremove" \in Call /\ "root" \in Pcs
  BY DEF Call, Pcs
<1>7. /\ o0 \in Ops /\ o0.call = "fsremove" /\ o0.path = p /\ o0.pc = "root"
      /\ o0.todo = Components[p]
  BY <1>5, <1>6, BeginTyped
<1>8. PICK o \in Ops : /\ op' = [op EXCEPT ![t] = o] /\ o.call = "fsremove" /\ o.path = p
                       /\ o.pc = "root" /\ o.todo = Components[p]
  BY <1>1, <1>7
<1>9. Shape(o)
  BY <1>8, ComponentsTyped DEF Shape, PathCalls, WalkPcs
<1>10. TableAgrees(o)'
  <2>1. NotOpen(p)'
    BY <1>1, <1>4, <1>5 DEF NotOpen, Used
  <2> QED BY <1>8, <2>1 DEF TableAgrees, Hit
<1>11. /\ table' \in [Slot -> OFTEntries \cup {NULL}]
       /\ files' \in [Fid -> OpenFiles \cup {NULL}] /\ lost' \subseteq Sector
       /\ \A i \in Slot : Used(i)' <=> Used(i)
       /\ UNCHANGED <<disk, nbentry, createLock, crashed>>
       /\ table' = table /\ files' = files
  BY <1>1 DEF CountInv, FSTypeOK, Used
<1>12. o.call \notin {"create", "open", "close"}
  BY <1>8
<1>13. op[t].call # "close" /\ ~Hit(op[t])
  BY <1>1, <1>2
<1> HIDE DEF w, o0
<1> QED BY <1>3, <1>8, <1>9, <1>10, <1>11, <1>12, <1>13, LonelyStep

\* The entry of a removed file is marked.
LEMMA ForgetCounts ==
  ASSUME CountInv, NEW t \in Thread, Forget(t)
  PROVE  CountInv'
<1> DEFINE w == op[t]
           tab == disk[DataOf(w.dirfile)].tab
           name == w.todo[1]
           s == FindName(tab, name)
           num == findl(w.path)
           o0 == [w EXCEPT !.pc = "wdir", !.tab = RemoveName(tab, name)]
<1>1. /\ w.call = "remove" /\ w.pc = "fetch" /\ IsOpen(w.path) /\ HasDir(w.dirfile) /\ s # -1
      /\ Fetch(t)
  BY DEF Forget
<1>2. /\ table' = [table EXCEPT ![num].ToBeDeleted = TRUE]
      /\ op' = [op EXCEPT ![t] = o0]
      /\ lost' = IF table[num].sector = s THEN lost ELSE lost \cup TreeOf(s)
      /\ UNCHANGED <<disk, nbentry, createLock, files, crashed>>
  BY <1>1 DEF Fetch, Goto
<1>3. /\ Busy(t) /\ w \in Ops /\ w.path \in Path /\ ~Hit(w) /\ Len(w.todo) \in {1, 2}
      /\ w.dirfile \in FileHeaders
  BY <1>1, Walker DEF WalkPcs, Ops
<1>4. Alone(t) /\ \A u \in Thread : u # t => op[u] = Idle
  BY <1>1, <1>3, NotCreateIsAlone
<1>5. num \in Slot /\ Used(num) /\ table[num] \in OFTEntries
  BY <1>1, FindlIs, EntriesTyped DEF IsOpen, CountInv
<1>6. tab \in Tabs /\ disk \in [Sector -> Blocks]
  BY <1>1, <1>3, HasDirIs DEF CountInv, FSTypeOK
<1>7. RemoveName(tab, name) \in Tabs
  BY <1>6, RemoveNameIs
<1>8. o0 \in Ops /\ o0.call = "remove" /\ o0.path = w.path /\ o0.pc = "wdir" /\ o0.todo = w.todo
  <2> HIDE DEF w, tab, name
  <2> QED BY <1>1, <1>3, <1>7 DEF Ops, Pcs
<1>9. PICK o \in Ops : /\ op' = [op EXCEPT ![t] = o] /\ o.call = "remove" /\ o.path \in Path
                       /\ o.pc = "wdir" /\ Len(o.todo) \in {1, 2}
  BY <1>2, <1>3, <1>8
<1>10. Shape(o) /\ o.call \notin {"create", "open", "close"}
  BY <1>9 DEF Shape
<1>11. TableAgrees(o)'
  BY <1>9 DEF TableAgrees, Hit
<1>12. lost' \subseteq Sector
  <2>1. s \in Sector
    BY <1>1, <1>6, FindNameIs
  <2>2. \A r \in Sector : SectorsOf(r) \subseteq Sector
    <3> SUFFICES ASSUME NEW r \in Sector PROVE SectorsOf(r) \subseteq Sector
      OBVIOUS
    <3>1. CASE IsKind(r, "hdr")
      <4>1. disk[r].secs \in Seq(Sector)
        BY <1>6, <3>1, KindsAre DEF FileHeaders
      <4>2. Range(disk[r].secs) \subseteq Sector
        BY <4>1, SeqRange
      <4> QED BY <4>2 DEF SectorsOf
    <3>2. CASE ~IsKind(r, "hdr")
      BY <3>2 DEF SectorsOf
    <3> QED BY <3>1, <3>2
  <2> HIDE DEF s
  <2>3. ASSUME IsKind(s, "hdr"), HasDir(disk[s])
        PROVE  UNION {SectorsOf(r) : r \in Range(disk[DataOf(disk[s])].tab)} \subseteq Sector
    <3>1. disk[s] \in FileHeaders
      BY <1>6, <2>3, KindsAre
    <3>2. disk[DataOf(disk[s])].tab \in Tabs
      BY <1>6, <2>3, <3>1, HasDirIs
    <3>3. Range(disk[DataOf(disk[s])].tab) \subseteq Sector
      BY <3>2, TabsAre DEF Range
    <3> QED BY <2>2, <3>3
  <2>4. TreeOf(s) \subseteq Sector
    BY <2>1, <2>2, <2>3 DEF TreeOf
  <2> QED BY <1>2, <2>4 DEF CountInv, FSTypeOK
<1> HIDE DEF w, tab, name, s, o0
<1>13. PICK n \in Slot : n = num /\ Used(n) /\ table[n] \in OFTEntries
  BY <1>5
<1>14. PICK e \in OFTEntries : e = [table[n] EXCEPT !.ToBeDeleted = TRUE]
  BY <1>13, EntriesTyped
<1> HIDE DEF num
<1>15. e.name = table[n].name /\ e.numthread = table[n].numthread /\ e # NULL
  BY <1>13, <1>14, EntriesTyped DEF OFTEntries
<1>16. /\ table' \in [Slot -> OFTEntries \cup {NULL}]
       /\ \A i \in Slot : table'[i] = IF i = n THEN e ELSE table[i]
  BY <1>2, <1>13, <1>14 DEF CountInv, FSTypeOK
<1>17. \A i \in Slot : Used(i)' <=> Used(i)
  BY <1>13, <1>15, <1>16 DEF Used
<1>18. \A i \in Slot : Used(i) => table'[i].name = table[i].name
                                  /\ table'[i].numthread = table[i].numthread
  BY <1>15, <1>16
<1>19. files' \in [Fid -> OpenFiles \cup {NULL}] /\ files' = files
       /\ UNCHANGED <<disk, nbentry, createLock, crashed>>
  BY <1>2 DEF CountInv, FSTypeOK
<1>20. op[t].call # "close" /\ ~Hit(op[t])
  BY <1>1, <1>3 DEF w
<1> QED BY <1>4, <1>9, <1>10, <1>11, <1>12, <1>16, <1>17, <1>18, <1>19, <1>20, LonelyStep

\* A write takes a free sector for the file.
LEMMA GrowCounts ==
  ASSUME CountInv, NEW t \in Thread, Grow(t)
  PROVE  CountInv'
<1> DEFINE w == op[t]
           used == disk[MapData].used
           more == Allocate(used, 1)
           h == Header(FALSE, w.hdr.secs \o more)
           o0 == [w EXCEPT !.pc = "whdr", !.hdr = h, !.map = used \cup Range(more)]
<1>1. /\ w.call = "write" /\ w.pc = "map" /\ IsKind(MapData, "map") /\ CanAllocate(used, 1)
      /\ op' = [op EXCEPT ![t] = o0]
      /\ files' = [files EXCEPT ![w.fid].hdr = h]
      /\ lost' = lost \cup Range(more)
      /\ UNCHANGED <<disk, table, nbentry, createLock, crashed>>
  BY DEF Grow, GrowSectors, Goto
<1>2. Busy(t) /\ w \in Ops /\ w.path \in Path /\ ~Hit(w) /\ w.fid \in Fid
  BY <1>1, Writer
<1>3. Alone(t) /\ \A u \in Thread : u # t => op[u] = Idle
  BY <1>1, <1>2, NotCreateIsAlone
<1>4. files[w.fid] # NULL
  BY <1>1 DEF CountInv, CallsAgree, TableAgrees
<1>5. used \in SUBSET Sector
  BY <1>1, KindsAre DEF CountInv, FSTypeOK
<1>6. more \in Seq(Sector) /\ Range(more) \subseteq Sector
  BY <1>1, AllocateFinds DEF Clear
<1>7. w.hdr.secs \o more \in Seq(Sector)
  <2>1. w.hdr.secs \in Seq(Sector)
    BY <1>2 DEF Ops, FileHeaders
  <2> HIDE DEF w, more
  <2> QED BY <1>6, <2>1, ConcatProperties
<1>8. h \in FileHeaders
  <2> HIDE DEF w, more
  <2> QED BY <1>7, HeaderTyped
<1> HIDE DEF h
<1>9. o0 \in Ops /\ o0.call = "write" /\ o0.path = w.path /\ o0.pc = "whdr" /\ o0.fid = w.fid
  <2>1. used \cup Range(more) \in SUBSET Sector
    BY <1>5, <1>6
  <2> HIDE DEF w, used, more
  <2> QED BY <1>1, <1>2, <1>8, <2>1 DEF Ops, Pcs
<1>10. PICK f \in Fid : f = w.fid /\ files[f] # NULL
  BY <1>2, <1>4
<1>11. PICK o \in Ops : /\ op' = [op EXCEPT ![t] = o] /\ o.call = "write" /\ o.path \in Path
                        /\ o.pc = "whdr" /\ o.fid = f
  BY <1>1, <1>2, <1>9, <1>10
<1>12. Shape(o) /\ o.call \notin {"create", "open", "close"}
  BY <1>11 DEF Shape
<1>13. files[f] \in OpenFiles
  BY <1>10, EntriesTyped DEF CountInv
<1>14. PICK g \in OpenFiles : g = [files[f] EXCEPT !.hdr = h]
  BY <1>8, <1>13, EntriesTyped
<1>15. g # NULL /\ g.path = files[f].path
  BY <1>13, <1>14, EntriesTyped DEF OpenFiles
<1>16. /\ files' \in [Fid -> OpenFiles \cup {NULL}]
       /\ \A r \in Fid : files'[r] = IF r = f THEN g ELSE files[r]
  BY <1>1, <1>10, <1>14 DEF CountInv, FSTypeOK
<1>17. TableAgrees(o)'
  BY <1>11, <1>15, <1>16 DEF TableAgrees, Hit
<1>18. /\ \A r \in Fid : files'[r] # NULL <=> files[r] # NULL
       /\ \A r \in Fid : files[r] # NULL => files'[r].path = files[r].path
  BY <1>10, <1>15, <1>16
<1>19. /\ table' \in [Slot -> OFTEntries \cup {NULL}] /\ table' = table
       /\ lost' \subseteq Sector
       /\ \A i \in Slot : Used(i)' <=> Used(i)
       /\ UNCHANGED <<disk, nbentry, createLock, crashed>>
  BY <1>1, <1>6 DEF CountInv, FSTypeOK, Used
<1>20. op[t].call # "close" /\ ~Hit(op[t])
  BY <1>1, <1>2 DEF w
<1> HIDE DEF w, used, more, o0
<1> QED BY <1>3, <1>11, <1>12, <1>16, <1>17, <1>18, <1>19, <1>20, LonelyStep

\* The last program has closed a removed file, and the map is written: the
\* entry and the id go.
LEMMA CloseFileCounts ==
  ASSUME CountInv, NEW t \in Thread, op[t].call = "close", op[t].pc = "wmap",
         NEW s, NEW what \in Blocks, Write(t, s, what)
  PROVE  CountInv'
<1> DEFINE w == op[t]
<1>1. Busy(t) /\ w \in Ops /\ w.path \in Path /\ ~Hit(w) /\ w.fid \in Fid
  BY Writer
<1>2. Alone(t) /\ \A u \in Thread : u # t => op[u] = Idle
  BY <1>1, NotCreateIsAlone
<1>3. AfterWrite(w.call, w.pc) = "idle"
  BY Writes
<1>4. /\ disk' = [r \in Sector |-> IF r = s THEN what
                                   ELSE IF r \in Freed(s, what) THEN Data ELSE disk[r]]
      /\ op' = [op EXCEPT ![t] = Idle]
      /\ createLock' = IF createLock = t THEN NULL ELSE createLock
      /\ table' = [table EXCEPT ![w.sector] = NULL]
      /\ files' = [files EXCEPT ![w.fid] = NULL]
      /\ lost' = lost \ Freed(s, what)
      /\ UNCHANGED <<nbentry, crashed>>
  BY <1>3 DEF Write, Goto
<1>5. createLock' = createLock
  BY <1>4 DEF CountInv, Overlap
<1>6. PICK p \in Path, f \in Fid : p = w.path /\ f = w.fid
  BY <1>1
<1>7. /\ files[f] # NULL /\ files[f].path = p
      /\ w.sector \in Slot /\ Used(w.sector) /\ table[w.sector].name = p
      /\ table[w.sector].numthread = 0
  BY <1>6 DEF CountInv, CallsAgree, TableAgrees
<1>8. PICK n \in Slot : n = w.sector /\ Used(n) /\ table[n].name = p /\ table[n].numthread = 0
  BY <1>7
<1>9. Shape(Idle) /\ Idle.call # "create" /\ Idle \in Ops /\ ~Hit(Idle) /\ Idle.call # "close"
      /\ Idle.call # "open"
  BY IdleTyped DEF Shape, Call, Hit
<1>10. /\ op' \in [Thread -> Ops] /\ op'[t] = Idle
       /\ Shapes' /\ Overlap'
       /\ \A u \in Thread : u # t => op'[u] = Idle \/ op'[u].call = "create"
       /\ \A q : HitsOf(q) = IF Hit(op[t]) /\ op[t].path = q THEN {t} ELSE {}
       /\ \A q : HitsOf(q)' = IF Hit(Idle) /\ Idle.path = q THEN {t} ELSE {}
       /\ \A g : Closing(g) <=> op[t].call = "close" /\ op[t].fid = g
       /\ \A g : Closing(g)' <=> Idle.call = "close" /\ Idle.fid = g
       /\ (\E u \in Thread : op'[u].call = "open") => Idle.call = "open"
  BY <1>2, <1>4, <1>5, <1>9, AloneStep
<1>11. /\ \A q : HitsOf(q) = {} /\ HitsOf(q)' = {}
       /\ \A g : Closing(g) <=> g = f
       /\ \A g : ~Closing(g)'
       /\ ~ \E u \in Thread : op'[u].call = "open"
  BY <1>1, <1>6, <1>9, <1>10
<1> HIDE DEF w
<1>12. FSTypeOK'
  <2>1. disk' \in [Sector -> Blocks]
    <3>1. Data \in Blocks
      BY DEF Blocks
    <3> QED BY <1>4, <3>1 DEF CountInv, FSTypeOK
  <2>2. table' \in [Slot -> OFTEntries \cup {NULL}] /\ files' \in [Fid -> OpenFiles \cup {NULL}]
    BY <1>4 DEF CountInv, FSTypeOK
  <2>3. lost' \subseteq Sector
    BY <1>4 DEF CountInv, FSTypeOK
  <2>4. crashed' \in BOOLEAN /\ nbentry' \in Slot \cup {-1} /\ createLock' \in Thread \cup {NULL}
    BY <1>4, <1>5 DEF CountInv, FSTypeOK
  <2> QED BY <1>10, <2>1, <2>2, <2>3, <2>4 DEF FSTypeOK
<1>13. CallsAgree'
  <2>1. TableAgrees(Idle)'
    BY OthersAgree
  <2> QED BY <1>10, <2>1, AgreeAlone
<1>14. \A i \in Slot : table'[i] = IF i = n THEN NULL ELSE table[i]
  BY <1>4, <1>8 DEF CountInv, FSTypeOK
<1>15. \A g \in Fid : files'[g] = IF g = f THEN NULL ELSE files[g]
  BY <1>4, <1>6 DEF CountInv, FSTypeOK
<1>16. \A i \in Slot : Used(i)' <=> Used(i) /\ i # n
  BY <1>14 DEF Used
<1>17. NamesDistinct'
  <2>1. \A i, j \in Slot : Used(i)' /\ Used(j)' /\ table'[i].name = table'[j].name => i = j
    BY <1>14, <1>16 DEF CountInv, NamesDistinct
  <2>2. nbentry' # -1 => table'[nbentry'] = NULL
    BY <1>4, <1>14 DEF CountInv, FSTypeOK, NamesDistinct
  <2> QED BY <2>1, <2>2 DEF NamesDistinct
<1>18. \A q : HandlesOf(q)' = HandlesOf(q)
  <2>1. \A q : HandlesOf(q)' = {g \in Fid : files'[g] # NULL /\ files'[g].path = q}
    BY <1>11 DEF HandlesOf
  <2>2. \A q : HandlesOf(q) = {g \in Fid : files[g] # NULL /\ files[g].path = q /\ g # f}
    BY <1>11 DEF HandlesOf
  <2>3. \A q : \A g \in Fid : files'[g] # NULL /\ files'[g].path = q
                              <=> files[g] # NULL /\ files[g].path = q /\ g # f
    BY <1>15
  <2> QED BY <2>1, <2>2, <2>3
\* nobody has the file open any more
<1>19. HandlesOf(p) = {}
  <2>1. IsFiniteSet(HandlesOf(p)) /\ Cardinality(HandlesOf(p)) \in Nat
        /\ Cardinality(HitsOf(p)) \in Nat
    BY HitsFinite
  <2>2. 0 = Cardinality(HandlesOf(p)) + Cardinality(HitsOf(p))
    BY <1>8 DEF CountInv, Counted
  <2>3. Cardinality(HandlesOf(p)) = 0
    BY <2>1, <2>2
  <2> QED BY <2>1, <2>3, FS_EmptySet
<1>20. Counted'
  <2>1. ASSUME NEW i \in Slot, NEW q \in Path, Used(i)', table'[i].name = q
        PROVE  table'[i].numthread = Cardinality(HandlesOf(q)') + Cardinality(HitsOf(q)')
    <3>1. Used(i) /\ i # n /\ table'[i] = table[i] /\ table[i].name = q
      BY <1>14, <1>16, <2>1
    <3>2. HandlesOf(q)' = HandlesOf(q) /\ HitsOf(q)' = HitsOf(q)
      BY <1>11, <1>18
    <3> QED BY <3>1, <3>2 DEF CountInv, Counted
  <2>2. ASSUME NEW g \in Fid, NEW q \in Path, files'[g] # NULL, files'[g].path = q
        PROVE  ~NotOpen(q)'
    <3>1. files[g] # NULL /\ files[g].path = q /\ g # f
      BY <1>15, <2>2
    <3>2. g \in HandlesOf(q)
      BY <1>11, <3>1 DEF HandlesOf
    <3>3. q # p
      BY <1>19, <3>2
    <3>4. PICK i \in Slot : Used(i) /\ table[i].name = q
      BY <3>1 DEF CountInv, Counted, NotOpen
    <3>5. i # n
      BY <1>8, <3>3, <3>4
    <3>6. Used(i)' /\ table'[i].name = q
      BY <1>14, <1>16, <3>4, <3>5
    <3> QED BY <3>6 DEF NotOpen
  <2> QED BY <1>11, <2>1, <2>2 DEF Counted
<1> QED BY <1>10, <1>12, <1>13, <1>17, <1>20 DEF CountInv

\* The writes to the disk.
LEMMA WritesCount ==
  ASSUME CountInv, NEW t \in Thread,
         WriteHeader(t) \/ WriteDir(t) \/ WriteMap(t) \/ WriteData(t) \/ WriteNewDir(t)
  PROVE  CountInv'
<1> DEFINE w == op[t]
<1>1. w.pc \in {"whdr", "wnew", "wdir", "wmap", "wdata"}
  BY DEF WriteHeader, WriteDir, WriteMap, WriteData, WriteNewDir, At
<1>2. /\ w \in Ops
      /\ w.pc \in {"whdr", "wnew", "wdir", "wdata"} => w.call # "close"
  BY <1>1, Writer
<1>3. ASSUME NEW s, NEW what \in Blocks, Write(t, s, what) PROVE CountInv'
  <2>1. CASE w.call = "close"
    <3>1. w.pc = "wmap"
      BY <1>1, <1>2, <2>1
    <3> QED BY <1>3, <2>1, <3>1, CloseFileCounts
  <2>2. CASE w.call # "close"
    <3>1. /\ KeepsCalls(t) /\ disk' \in [Sector -> Blocks] /\ lost' \subseteq Sector
          /\ crashed' \in BOOLEAN
      BY <1>1, <1>3, <2>2, WriteKeeps
    <3> QED BY <3>1, KeepsCallsCounts
  <2> QED BY <2>1, <2>2
<1>4. /\ w.hdr \in Blocks /\ Dir(w.tab) \in Blocks /\ Map(w.map) \in Blocks
      /\ Data \in Blocks /\ Dir(Empty) \in Blocks
  <2>1. Empty \in Tabs
    BY IdleTyped DEF Idle, Ops
  <2>2. w.hdr \in FileHeaders /\ w.tab \in Tabs /\ w.map \in SUBSET Sector
    BY <1>2 DEF Ops
  <2> HIDE DEF w
  <2> QED BY <2>1, <2>2 DEF Blocks, Dir, Map
<1>5. \E s : \E what \in Blocks : Write(t, s, what)
  BY <1>4 DEF WriteHeader, WriteDir, WriteMap, WriteData, WriteNewDir
<1> QED BY <1>3, <1>5

\* Every step of a call in progress keeps the invariant.
LEMMA StepCounts ==
  ASSUME CountInv, NEW t \in Thread, Step(t)
  PROVE  CountInv'
<1>1. ASSUME Reads(t) PROVE CountInv'
  <2>1. KeepsCalls(t) /\ disk' \in [Sector -> Blocks] /\ crashed' \in BOOLEAN /\ lost' \subseteq Sector
    BY <1>1 DEF Reads, CountInv, FSTypeOK
  <2> QED BY <2>1, KeepsCallsCounts
<1>2. CASE AcquireCreate(t)
  BY <1>2, AcquireCounts
<1>3. CASE FetchRoot(t) \/ FetchSubHeader(t) \/ FetchSub(t) \/ OpenDirFile(t)
  BY <1>1, <1>3, WalkSteps
<1>4. CASE Fetch(t)
  BY <1>1, <1>4, FetchReads, RestartCounts, ForgetCounts
<1>5. CASE FetchHeader(t) \/ OpenVictim(t) \/ FetchVictim(t)
  BY <1>1, <1>5, HeaderSteps
<1>6. CASE NewFile(t)
  BY <1>6, NewFileCounts
<1>7. CASE FetchMap(t)
  BY <1>1, <1>7, MapReads, GrowCounts
<1>8. CASE WriteHeader(t) \/ WriteDir(t) \/ WriteMap(t) \/ WriteData(t) \/ WriteNewDir(t)
  BY <1>8, WritesCount
<1>9. CASE OpenNewDir(t)
  BY <1>1, <1>9, NewDirReads
<1> QED BY <1>2, <1>3, <1>4, <1>5, <1>6, <1>7, <1>8, <1>9 DEF Step

\* At the beginning nothing is open and no call is in progress.
LEMMA InitCounts == Init => CountInv
<1> SUFFICES ASSUME Init PROVE CountInv
  OBVIOUS
<1>1. op = [t \in Thread |-> Idle] /\ table = [i \in Slot |-> NULL] /\ nbentry = 0
      /\ createLock = NULL /\ files = [f \in Fid |-> NULL] /\ crashed = FALSE /\ lost = {}
  BY DEF Init
<1>2. disk \in [Sector -> Blocks]
  <2>1. Header(FALSE, <<MapData>>) \in Blocks /\ Header(TRUE, <<RootData>>) \in Blocks
    <3>1. MapData \in Sector /\ RootData \in Sector
      BY Sectors DEF System
    <3>2. <<MapData>> \in Seq(Sector) /\ <<RootData>> \in Seq(Sector)
      BY <3>1
    <3> QED BY <3>2, HeaderTyped DEF Blocks
  <2>2. Map(System) \in Blocks
    BY Sectors DEF Blocks, Map
  <2>3. Dir(Empty) \in Blocks /\ Data \in Blocks
    BY IdleTyped DEF Idle, Ops, Blocks, Dir
  <2> QED BY <2>1, <2>2, <2>3 DEF Init
<1>3. FSTypeOK
  <2>1. op \in [Thread -> Ops] /\ table \in [Slot -> OFTEntries \cup {NULL}]
        /\ files \in [Fid -> OpenFiles \cup {NULL}] /\ nbentry \in Slot \cup {-1}
    BY <1>1, IdleTyped, SlotsAndFids
  <2> QED BY <1>1, <1>2, <2>1 DEF FSTypeOK
<1>4. \A t \in Thread : op[t] = Idle
  BY <1>1
<1>5. Shapes /\ CallsAgree
  BY <1>4, IdleTyped DEF Shapes, Shape, CallsAgree, TableAgrees, Hit, Call
<1>6. Overlap
  <2>1. NULL \notin Thread
    BY FileSystemAssumption
  <2> QED BY <1>1, <1>4, <2>1, IdleTyped DEF Overlap, Busy, Call
<1>7. NamesDistinct
  BY <1>1, SlotsAndFids DEF NamesDistinct, Used
<1>8. Counted
  BY <1>1, <1>4, IdleTyped DEF Counted, Used, Call
<1> QED BY <1>3, <1>5, <1>6, <1>7, <1>8 DEF CountInv

\* A step of any thread keeps the invariant.
LEMMA NextCounts == CallsApart /\ CountInv /\ [Next]_vars => CountInv'
<1> SUFFICES ASSUME CallsApart, CountInv, [Next]_vars PROVE CountInv'
  OBVIOUS
<1>1. CASE Next
  <2>1. ASSUME NEW t \in Thread, NEW p \in Path,
               \/ \E n \in Sizes : SysCreate(t, p, n)
               \/ SysOpen(t, p)
               \/ \E call \in Call : SysPath(t, call, p)
        PROVE  CountInv'
    <3>1. CASE SysOpen(t, p) /\ findl(p) # -1
      BY <3>1, HitCounts
    <3>2. CASE ~(SysOpen(t, p) /\ findl(p) # -1)
      <4>1. PICK f : f \in Fid
        BY FileSystemAssumption DEF Fid
      <4> QED BY <2>1, <3>2, <4>1, BeginSteps
    <3> QED BY <3>1, <3>2
  <2>2. ASSUME NEW t \in Thread, NEW f \in Fid, SysClose(t, f) \/ SysGrow(t, f)
        PROVE  CountInv'
    <3>1. CASE SysClose(t, f)
      BY <3>1, CloseCounts
    <3>2. CASE SysGrow(t, f)
      <4>1. files[f] # NULL
        BY <3>2 DEF SysGrow
      <4>2. files[f].path \in Path
        BY <4>1, EntriesTyped DEF CountInv
      <4> QED BY <3>2, <4>2, BeginSteps
    <3> QED BY <2>2, <3>1, <3>2
  <2>3. ASSUME NEW t \in Thread, Step(t) PROVE CountInv'
    BY <2>3, StepCounts
  <2> QED BY <1>1, <2>1, <2>2, <2>3 DEF Next
<1>2. CASE UNCHANGED vars
  <2>1. Stay /\ UNCHANGED <<disk, crashed, lost>>
    BY <1>2 DEF vars, Stay
  <2>2. disk' \in [Sector -> Blocks] /\ crashed' \in BOOLEAN /\ lost' \subseteq Sector
    BY <2>1 DEF CountInv, FSTypeOK
  <2>3. CASE Thread = {}
    BY <2>1, <2>2, <2>3 DEF Stay, CountInv, FSTypeOK, Shapes, CallsAgree, TableAgrees, NotOpen,
             Used, Overlap, Busy, NamesDistinct, Counted, HandlesOf, HitsOf, Closing
  <2>4. ASSUME NEW t \in Thread PROVE CountInv'
    BY <2>1, <2>2, KeepsCallsCounts DEF KeepsCalls
  <2> QED BY <2>3, <2>4
<1> QED BY <1>1, <1>2


-----------------------------------------------------------------------------
(* Theorems *)

\* The variables keep their types: what is on the disk is a header, a
\* directory, a map or data, and the calls have sectors in hand.
THEOREM FSTyped == CallsApart => (FSSpec => []FSTypeOK)
<1> SUFFICES ASSUME CallsApart PROVE FSSpec => []FSTypeOK
  OBVIOUS
<1>1. CountInv => FSTypeOK
  BY DEF CountInv
<1>2. CountInv /\ [Next]_vars => CountInv'
  BY NextCounts
<1> QED BY <1>1, <1>2, InitCounts, PTL DEF FSSpec

\* The count of an entry of OpenFileTable, which decides when a removed file
\* is deleted, is the number of programs that have the file open (oftable.cc,
\* Open and Close), and a file that is open is in the table.
THEOREM HandlesCountedHolds == CallsApart => (FSSpec => []HandlesCounted)
<1> SUFFICES ASSUME CallsApart PROVE FSSpec => []HandlesCounted
  OBVIOUS
<1>1. CountInv => HandlesCounted
  BY CountedIs DEF CountInv
<1>2. CountInv /\ [Next]_vars => CountInv'
  BY NextCounts
<1> QED BY <1>1, <1>2, InitCounts, PTL DEF FSSpec

=============================================================================
