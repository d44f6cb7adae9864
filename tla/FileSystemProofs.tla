-------------------------- MODULE FileSystemProofs --------------------------
(***************************************************************************)
(* The steps of module FileSystem keep the invariant FSInv, for any        *)
(* threads, paths, sectors and sizes: no call fails, no sector has two     *)
(* owners, the free map is right, and open files keep their data.          *)
(***************************************************************************)
EXTENDS FileDiskProofs

-----------------------------------------------------------------------------
(* The calls in progress *)

\* a call that has nothing in hand
Silent(o) == VictimOf(o) = {} /\ PendingOf(o) = {} /\ DroppedBy(o) = {}

\* A call that only reads has nothing in hand, nor has one that waits.
LEMMA SilentCalls ==
  ASSUME NEW o
  PROVE  /\ o = Idle => Silent(o)
         /\ o.pc \in WalkPcs \cup {"idle", "lock", "hdr", "newfile", "dirfile2", "empty", "map",
                                   "newdir", "wnew", "wdata"} => Silent(o)
         /\ o.pc = "whdr" /\ o.call # "write" => Silent(o)
         /\ o.pc = "wmap" /\ o.call \notin {"create", "mkdir", "write"} => Silent(o)
         /\ o.pc = "wdir" /\ o.call \notin {"rmdir", "fsremove", "remove"} => Silent(o)
         /\ o.call \in {"open", "close"} => Silent(o)
<1>1. o = Idle => o.pc = "idle"
  BY IdleTyped
<1> QED BY <1>1 DEF Silent, VictimOf, PendingOf, DroppedBy, WalkPcs

\* What the calls have in hand is what the one has that is not silent.
LEMMA OnlyOne ==
  ASSUME NEW t \in Thread, NEW O, \A u \in Thread : u # t => Silent(O[u])
  PROVE  /\ UNION {VictimOf(O[u]) : u \in Thread} = VictimOf(O[t])
         /\ UNION {PendingOf(O[u]) : u \in Thread} = PendingOf(O[t])
         /\ UNION {DroppedBy(O[u]) : u \in Thread} = DroppedBy(O[t])
BY DEF Silent

\* A step of a silent call to another silent state changes nothing of that.
LEMMA StillSilent ==
  ASSUME FSTypeOK, NEW t \in Thread, NEW o, op' = [op EXCEPT ![t] = o], Silent(op[t]), Silent(o)
  PROVE  Victims' = Victims /\ Pending' = Pending /\ Dropped' = Dropped
<1>1. op \in [Thread -> Ops]
  BY DEF FSTypeOK
<1>2. \A u \in Thread : op'[u] = IF u = t THEN o ELSE op[u]
  BY <1>1
<1>3. \A u \in Thread : /\ VictimOf(op'[u]) = VictimOf(op[u])
                        /\ PendingOf(op'[u]) = PendingOf(op[u])
                        /\ DroppedBy(op'[u]) = DroppedBy(op[u])
  BY <1>2 DEF Silent
<1> QED BY <1>3 DEF Victims, Pending, Dropped

\* In a call that is not a Create waiting, nor an Open, the others are silent.
LEMMA OthersSilent ==
  ASSUME CountInv, NEW t \in Thread, Busy(t)
  PROVE  /\ op[t].call # "open" /\ op[t].pc # "lock" =>
              /\ \A u \in Thread : u # t => Silent(op[u])
              /\ Victims = VictimOf(op[t]) /\ Pending = PendingOf(op[t])
              /\ Dropped = DroppedBy(op[t])
         /\ Silent(op[t]) => Victims = {} /\ Dropped = {}
<1>1. \A u \in Thread : u # t => op[u] = Idle \/ op[u].call \in {"create", "open"}
  BY DEF CountInv, Overlap, Busy
<1>2. ASSUME op[t].call # "open", op[t].pc # "lock", NEW u \in Thread, u # t
      PROVE  Silent(op[u])
  <2>1. CASE op[u] = Idle
    BY <2>1, SilentCalls
  <2>2. CASE op[u] # Idle
    <3>1. /\ op[u].call \in {"create", "open"} /\ op[t].call \in {"create", "open"}
      BY <1>2, <2>2 DEF CountInv, Overlap, Busy
    <3>2. CASE op[u].call = "open"
      BY <3>2, SilentCalls
    <3>3. CASE op[u].call = "create"
      <4>1. createLock = t
        BY <1>2, <3>1 DEF CountInv, Overlap
      <4>2. op[u].pc = "lock"
        BY <1>2, <3>3, <4>1 DEF CountInv, Overlap
      <4> QED BY <4>2, SilentCalls
    <3> QED BY <3>1, <3>2, <3>3
  <2> QED BY <2>1, <2>2
<1>3. ASSUME op[t].call # "open", op[t].pc # "lock"
      PROVE  Victims = VictimOf(op[t]) /\ Pending = PendingOf(op[t]) /\ Dropped = DroppedBy(op[t])
  <2>1. \A u \in Thread : u # t => Silent(op[u])
    BY <1>2, <1>3
  <2> QED BY <2>1, OnlyOne DEF Victims, Pending, Dropped
<1>4. ASSUME Silent(op[t]) PROVE Victims = {} /\ Dropped = {}
  <2>1. ASSUME NEW u \in Thread PROVE VictimOf(op[u]) = {} /\ DroppedBy(op[u]) = {}
    <3>1. CASE u = t
      BY <1>4, <3>1 DEF Silent
    <3>2. CASE op[u] = Idle
      BY <3>2, SilentCalls DEF Silent
    <3>3. CASE op[u].call \in {"create", "open"}
      BY <3>3 DEF VictimOf, DroppedBy
    <3> QED BY <1>1, <3>1, <3>2, <3>3
  <2> QED BY <2>1 DEF Victims, Dropped
<1> QED BY <1>2, <1>3, <1>4

\* What a Create knows is of the disk; no other call cares for the table.
LEMMA CreateStays ==
  ASSUME NEW D, NEW T, NEW F, NEW L, NEW o, CallOK(D, T, F, L, o), o = Idle \/ o.call = "create",
         NEW U, NEW G, NEW M
  PROVE  CallOK(D, U, G, M, o)
<1>1. CASE o = Idle
  BY <1>1 DEF CallOK
<1>2. CASE o.call = "create"
  BY <1>2 DEF CallOK
<1> QED BY <1>1, <1>2

\* An Open goes on undisturbed while a file is created.
LEMMA OpenStays ==
  ASSUME NEW D, NEW H, NEW V, Good(D, H, V), NEW E, KeepsFiles(D, E, H),
         NEW T, NEW F, NEW L, NEW M, NEW o, CallOK(D, T, F, L, o), o.call = "open"
  PROVE  CallOK(E, T, F, M, o)
<1>1. /\ \A s \in H \cup {DirectorySector} : E[s] = D[s]
      /\ \A d \in DirsOf(D) : d \in DirsOf(E) /\ E[d] = D[d]
      /\ \A d, n, s : NamedAt(D, d, n, s) => NamedAt(E, d, n, s) /\ E[s] = D[s]
  <2>1. \A d \in DirsOf(D) : d \in H \/ d = DirectorySector
    BY DirsAre
  <2>2. \A d, n, s : NamedAt(D, d, n, s) => s \in H
    BY NamesAre
  <2> QED BY <2>1, <2>2 DEF KeepsFiles
<1>2. \A p, d, n : Leads(D, p, d, n) => Leads(E, p, d, n)
  BY <1>1 DEF Leads
<1>3. o # Idle
  BY IdleTyped DEF Call
<1>4. AtDir(D, o) => AtDir(E, o)
  BY <1>1, <1>2 DEF AtDir
<1>5. InDir(D, o) => InDir(E, o)
  BY <1>1, <1>4 DEF InDir, AtDir
<1>6. Found(D, o) => Found(E, o) /\ E[o.sector] = D[o.sector]
  BY <1>1 DEF Found
<1>7. CASE o.call \in PathCalls /\ Walking(D, o)
  <2>1. CASE o.pc = "root" /\ o.todo = Components[o.path]
    BY <1>7, <2>1 DEF CallOK, Walking
  <2>2. CASE /\ o.pc \in {"subhdr", "subdir"}
             /\ Len(Components[o.path]) = 2 /\ o.todo = <<Components[o.path][2]>>
             /\ NamedAt(D, DirectorySector, Components[o.path][1], o.cur)
             /\ o.pc = "subdir" => DirAt(D, o.cur) /\ o.dirfile = D[o.cur]
    <3>1. NamedAt(E, DirectorySector, Components[o.path][1], o.cur) /\ E[o.cur] = D[o.cur]
      BY <1>1, <2>2
    <3>2. DirAt(D, o.cur) => DirAt(E, o.cur)
      BY <3>1 DEF DirAt, HdrAt
    <3> QED BY <1>7, <2>2, <3>1, <3>2 DEF CallOK, Walking
  <2>3. CASE o.pc = "dirfile" /\ AtDir(D, o)
    BY <1>4, <1>7, <2>3 DEF CallOK, Walking
  <2>4. CASE o.pc = "fetch" /\ InDir(D, o)
    BY <1>5, <1>7, <2>4 DEF CallOK, Walking
  <2> QED BY <1>7, <2>1, <2>2, <2>3, <2>4 DEF Walking
<1>8. CASE Opening(D, o)
  <2>1. Opening(E, o)
    BY <1>5, <1>6, <1>8 DEF Opening
  <2> QED BY <2>1 DEF CallOK
<1> QED BY <1>3, <1>7, <1>8 DEF CallOK

\* A step that only goes on in the variables of a call that has nothing in
\* hand.
LEMMA LocalStep ==
  ASSUME FSInv, CountInv', NEW t \in Thread, NEW o, op' = [op EXCEPT ![t] = o],
         UNCHANGED <<disk, table, files, lost, crashed>>, Silent(op[t]), Silent(o),
         CallOK(disk, table, files, lost, o)
  PROVE  FSInv'
<1>1. op \in [Thread -> Ops] /\ FSTypeOK
  BY DEF FSInv, CountInv, FSTypeOK
<1>2. \A u \in Thread : op'[u] = IF u = t THEN o ELSE op[u]
  BY <1>1
<1>3. Victims' = Victims /\ Pending' = Pending /\ Dropped' = Dropped
  BY <1>1, StillSilent
<1>4. DiskInv(disk, table, files, lost, Victims, Pending, Dropped) /\ ~crashed
  BY DEF FSInv
<1>5. DiskInv(disk', table', files', lost', Victims', Pending', Dropped')
  BY <1>3, <1>4
<1>6. \A u \in Thread : CallOK(disk', table', files', lost', op'[u])
  BY <1>2 DEF FSInv, CallsOK
<1> QED BY <1>4, <1>5, <1>6 DEF FSInv, CallsOK

\* A step that changes the table and the ids beside Creates.
LEMMA TableMove ==
  ASSUME FSInv, CountInv', NEW t \in Thread, NEW o, op' = [op EXCEPT ![t] = o],
         UNCHANGED <<disk, crashed>>, Silent(op[t]), Silent(o), Alone(t),
         DiskInv(disk, table', files', lost', Victims, Pending, Dropped),
         CallOK(disk, table', files', lost', o)
  PROVE  FSInv'
<1>1. op \in [Thread -> Ops] /\ FSTypeOK
  BY DEF FSInv, CountInv, FSTypeOK
<1>2. \A u \in Thread : op'[u] = IF u = t THEN o ELSE op[u]
  BY <1>1
<1>3. Victims' = Victims /\ Pending' = Pending /\ Dropped' = Dropped
  BY <1>1, StillSilent
<1>4. DiskInv(disk', table', files', lost', Victims', Pending', Dropped')
  BY <1>3
<1>5. ASSUME NEW u \in Thread PROVE CallOK(disk, table', files', lost', op'[u])
  <2>1. CASE u = t
    BY <1>2, <2>1
  <2>2. CASE u # t
    <3>1. op'[u] = op[u] /\ (op[u] = Idle \/ op[u].call = "create")
      BY <1>2, <2>2 DEF Alone
    <3>2. CallOK(disk, table, files, lost, op[u])
      BY DEF FSInv, CallsOK
    <3>3. CallOK(disk, table', files', lost', op[u])
      BY <3>1, <3>2, CreateStays
    <3> QED BY <3>1, <3>3
  <2> QED BY <2>1, <2>2
<1>6. \A u \in Thread : CallOK(disk', table', files', lost', op'[u])
  BY <1>5
<1>7. ~crashed'
  BY DEF FSInv
<1> QED BY <1>4, <1>6, <1>7 DEF FSInv, CallsOK

\* A step of a call beside which the others have nothing in hand and care
\* for nothing that changes.
LEMMA SoleStep ==
  ASSUME FSInv, CountInv', NEW t \in Thread, NEW o, op' = [op EXCEPT ![t] = o], ~crashed',
         \A u \in Thread : u # t => Silent(op[u]) /\ CallOK(disk', table', files', lost', op[u]),
         DiskInv(disk', table', files', lost', VictimOf(o), PendingOf(o), DroppedBy(o)),
         CallOK(disk', table', files', lost', o)
  PROVE  FSInv'
<1>1. op \in [Thread -> Ops]
  BY DEF FSInv, CountInv, FSTypeOK
<1>2. \A u \in Thread : op'[u] = IF u = t THEN o ELSE op[u]
  BY <1>1
<1>3. \A u \in Thread : u # t => Silent(op'[u])
  BY <1>2
<1>4. op'[t] = o
  BY <1>2
<1>5. /\ Victims' = VictimOf(o) /\ Pending' = PendingOf(o) /\ Dropped' = DroppedBy(o)
  <2>1. /\ UNION {VictimOf(op'[u]) : u \in Thread} = VictimOf(op'[t])
        /\ UNION {PendingOf(op'[u]) : u \in Thread} = PendingOf(op'[t])
        /\ UNION {DroppedBy(op'[u]) : u \in Thread} = DroppedBy(op'[t])
    BY <1>3, OnlyOne
  <2> QED BY <1>4, <2>1 DEF Victims, Pending, Dropped
<1>6. DiskInv(disk', table', files', lost', Victims', Pending', Dropped')
  BY <1>5
<1>7. \A u \in Thread : CallOK(disk', table', files', lost', op'[u])
  BY <1>2
<1> QED BY <1>6, <1>7 DEF FSInv, CallsOK

\* The others of a call that is neither a Create nor an Open are idle.
LEMMA IdleOthers ==
  ASSUME NEW t, \A u \in Thread : u # t => op[u] = Idle, NEW D, NEW T, NEW F, NEW L
  PROVE  \A u \in Thread : u # t => Silent(op[u]) /\ CallOK(D, T, F, L, op[u])
BY SilentCalls DEF CallOK

\* What a call that has got to a disk access knows.
LEMMA Places ==
  ASSUME NEW D, NEW T, NEW F, NEW L, NEW o, CallOK(D, T, F, L, o)
  PROVE  /\ o.pc = "root" => o.call \in PathCalls /\ o.todo = Components[o.path]
         /\ o.pc \in {"subhdr", "subdir"} =>
              /\ o.call \in PathCalls
              /\ Len(Components[o.path]) = 2 /\ o.todo = <<Components[o.path][2]>>
              /\ NamedAt(D, DirectorySector, Components[o.path][1], o.cur)
              /\ o.pc = "subdir" => DirAt(D, o.cur) /\ o.dirfile = D[o.cur]
         /\ o.pc = "dirfile" => o.call \in PathCalls /\ AtDir(D, o)
         /\ o.pc = "fetch" => o.call \in PathCalls /\ InDir(D, o)
         /\ o.pc = "hdr" => InDir(D, o) /\ Found(D, o) /\ o.call \in {"open", "rmdir", "fsremove"}
                            /\ (o.call # "open" => o.tab = TabAt(D, o.cur))
         /\ o.pc = "newfile" => o.call = "open" /\ Opening(D, o)
         /\ o.pc \in {"dirfile2", "empty"} =>
              /\ o.call = "rmdir" /\ InDir(D, o) /\ Found(D, o) /\ o.tab = TabAt(D, o.cur)
              /\ DirAt(D, o.sector) /\ (o.pc = "empty" => o.hdr = D[o.sector])
<1>1. o = Idle => o.pc = "idle"
  BY IdleTyped
<1>2. o.pc = "root" => o.call \in PathCalls /\ o.todo = Components[o.path]
  BY <1>1 DEF CallOK, Walking, Making, Opening, Removing, Forgetting, Writing, Freeing
<1>3. o.pc \in {"subhdr", "subdir"} =>
              /\ o.call \in PathCalls
              /\ Len(Components[o.path]) = 2 /\ o.todo = <<Components[o.path][2]>>
              /\ NamedAt(D, DirectorySector, Components[o.path][1], o.cur)
              /\ o.pc = "subdir" => DirAt(D, o.cur) /\ o.dirfile = D[o.cur]
  BY <1>1 DEF CallOK, Walking, Making, Opening, Removing, Forgetting, Writing, Freeing
<1>4. o.pc = "dirfile" => o.call \in PathCalls /\ AtDir(D, o)
  BY <1>1 DEF CallOK, Walking, Making, Opening, Removing, Forgetting, Writing, Freeing
<1>5. o.pc = "fetch" => o.call \in PathCalls /\ InDir(D, o)
  BY <1>1 DEF CallOK, Walking, Making, Opening, Removing, Forgetting, Writing, Freeing
<1>6. o.pc = "hdr" => InDir(D, o) /\ Found(D, o) /\ o.call \in {"open", "rmdir", "fsremove"}
                            /\ (o.call # "open" => o.tab = TabAt(D, o.cur))
  BY <1>1 DEF CallOK, Walking, Making, Opening, Removing, Forgetting, Writing, Freeing
<1>7. o.pc = "newfile" => o.call = "open" /\ Opening(D, o)
  BY <1>1 DEF CallOK, Walking, Making, Opening, Removing, Forgetting, Writing, Freeing
<1>8. o.pc \in {"dirfile2", "empty"} =>
              /\ o.call = "rmdir" /\ InDir(D, o) /\ Found(D, o) /\ o.tab = TabAt(D, o.cur)
              /\ DirAt(D, o.sector) /\ (o.pc = "empty" => o.hdr = D[o.sector])
  BY <1>1 DEF CallOK, Walking, Making, Opening, Removing, Forgetting, Writing, Freeing
<1> QED BY <1>2, <1>3, <1>4, <1>5, <1>6, <1>7, <1>8

\* What a call that has got to the map, or to a write, knows.
LEMMA WritePlaces ==
  ASSUME NEW D, NEW T, NEW F, NEW L, NEW o, CallOK(D, T, F, L, o)
  PROVE  /\ o.call \in {"create", "mkdir"} /\ o.pc \in {"map", "whdr", "newdir", "wnew", "wdir", "wmap"} =>
              Making(D, o)
         /\ o.call \in {"rmdir", "fsremove"} /\ o.pc \in {"map", "wmap", "wdir"} => Removing(D, o)
         /\ o.call = "remove" /\ o.pc = "wdir" => Forgetting(D, T, L, o)
         /\ o.call = "write" => Writing(D, F, L, o)
         /\ o.call = "close" => Freeing(D, T, o)
<1>1. o = Idle => o.pc = "idle" /\ o.call \notin Call
  BY IdleTyped
<1>2. o.call \in {"create", "mkdir"} /\ o.pc \in {"map", "whdr", "newdir", "wnew", "wdir", "wmap"} =>
              Making(D, o)
  BY <1>1 DEF CallOK, Walking
<1>3. o.call \in {"rmdir", "fsremove"} /\ o.pc \in {"map", "wmap", "wdir"} => Removing(D, o)
  BY <1>1 DEF CallOK, Walking
<1>4. o.call = "remove" /\ o.pc = "wdir" => Forgetting(D, T, L, o)
  BY <1>1 DEF CallOK, Walking
<1>5. o.call = "write" => Writing(D, F, L, o)
  BY <1>1 DEF CallOK, Walking, Call, PathCalls
<1>6. o.call = "close" => Freeing(D, T, o)
  BY <1>1 DEF CallOK, Walking, Call, PathCalls
<1> QED BY <1>2, <1>3, <1>4, <1>5, <1>6

\* What a call that reads relies on.
LEMMA Reader ==
  ASSUME FSInv, NEW t \in Thread, Busy(t), Silent(op[t])
  PROVE  /\ DiskInv(disk, table, files, lost, {}, Pending, {}) /\ Typed(disk, table, files, lost)
         /\ Good(disk, Heads(disk, table), {}) /\ NamesApart(disk) /\ ~crashed
         /\ disk \in [Sector -> Blocks] /\ op \in [Thread -> Ops] /\ op[t] \in Ops
         /\ op[t].call # "open" /\ op[t].pc # "lock" => Pending = {}
         /\ CallOK(disk, table, files, lost, op[t])
<1>1. /\ CountInv /\ ~crashed /\ DiskInv(disk, table, files, lost, Victims, Pending, Dropped)
      /\ CallOK(disk, table, files, lost, op[t])
  BY DEF FSInv, CallsOK
<1>2. Typed(disk, table, files, lost) /\ op \in [Thread -> Ops] /\ disk \in [Sector -> Blocks]
  BY <1>1 DEF CountInv, FSTypeOK, Typed
<1>3. Victims = {} /\ Dropped = {}
  BY <1>1, OthersSilent
<1>4. op[t].call # "open" /\ op[t].pc # "lock" => Pending = {}
  BY <1>1, OthersSilent DEF Silent
<1>5. DiskInv(disk, table, files, lost, {}, Pending, {})
  BY <1>1, <1>3
<1>6. Good(disk, Heads(disk, table), {})
  BY <1>2, <1>5, InvIs
<1> QED BY <1>1, <1>2, <1>4, <1>5, <1>6 DEF DiskInv

\* An error return ends a call that has nothing in hand.
LEMMA FailKeeps ==
  ASSUME FSInv, CountInv', NEW t \in Thread, Silent(op[t]), Fail(t)
  PROVE  FSInv'
<1>1. op' = [op EXCEPT ![t] = Idle] /\ UNCHANGED <<disk, table, files, lost, crashed>>
  BY DEF Fail, Return, Goto
<1>2. Silent(Idle) /\ CallOK(disk, table, files, lost, Idle)
  BY SilentCalls DEF CallOK
<1> QED BY <1>1, <1>2, LocalStep

\* A call goes on in its own variables.
LEMMA GotoKeeps ==
  ASSUME FSInv, CountInv', NEW t \in Thread, Silent(op[t]), NEW o, Goto(t, o), OnlyLocal,
         Silent(o), CallOK(disk, table, files, lost, o)
  PROVE  FSInv'
<1>1. op' = [op EXCEPT ![t] = o] /\ UNCHANGED <<disk, table, files, lost, crashed>>
  BY DEF Goto, OnlyLocal
<1> QED BY <1>1, LocalStep

\* The rest of a path of two names.
LEMMA TailOfTwo ==
  ASSUME NEW S, NEW q \in Seq(S), Len(q) = 2
  PROVE  Head(q) = q[1] /\ Tail(q) = <<q[2]>> /\ Tail(q) \in Seq(S)
<1>1. q # <<>> /\ q[2] \in S
  BY SeqRange
<1>2. Head(q) = q[1]
  OBVIOUS
<1>3. Tail(q) \in Seq(S) /\ Len(Tail(q)) = 1
  <2>1. Tail(q) \in Seq(S) /\ Len(Tail(q)) = Len(q) - 1
    BY <1>1, HeadTailProperties
  <2> QED BY <2>1
<1>4. Tail(q)[1] = q[2]
  <2>1. \A i \in 1..Len(Tail(q)) : Tail(q)[i] = q[i + 1]
    BY <1>1, HeadTailProperties
  <2>2. \A n : n = 1 => 1 \in 1..n /\ 1 + 1 = 2
    OBVIOUS
  <2> QED BY <1>3, <2>1, <2>2
<1>5. Tail(q) = <<q[2]>>
  <2>1. PICK r \in Seq(S) : r = Tail(q) /\ Len(r) = 1 /\ r[1] = q[2]
    BY <1>3, <1>4
  <2>2. PICK x \in S : x = q[2]
    BY <1>1
  <2>3. r \in [1..1 -> S]
    BY <2>1, LenProperties
  <2>4. <<x>> \in [1..1 -> S] /\ <<x>>[1] = x
    OBVIOUS
  <2>5. r = <<x>>
    <3>1. \A i \in 1..1 : i = 1
      OBVIOUS
    <3>2. \A i \in 1..1 : r[i] = <<x>>[i]
      BY <2>1, <2>2, <2>4, <3>1
    <3> QED BY <2>3, <2>4, <3>2
  <2> QED BY <2>1, <2>2, <2>5
<1> QED BY <1>2, <1>3, <1>5

\* the directory cur is on the way that a call has to go
OnTheWay(D, o, cur) ==
  /\ cur \in DirsOf(D) /\ Len(o.todo) \in {1, 2}
  /\ Len(o.todo) = 1 => Leads(D, o.path, cur, o.todo[1])
  /\ Len(o.todo) = 2 => cur = DirectorySector /\ o.todo = Components[o.path]

\* One turn of the loop of FindDir: the directory is there, or there is a name.
LEMMA WalkKeeps ==
  ASSUME FSInv, CountInv', NEW t \in Thread, op[t].pc \in {"root", "subdir"},
         NEW cur, OnTheWay(disk, op[t], cur), Walk(t, cur, TabAt(disk, cur), op[t].todo)
  PROVE  FSInv'
<1>1. Silent(op[t])
  BY SilentCalls DEF WalkPcs
<1>2. /\ Busy(t) /\ op[t] \in Ops /\ op[t].call \in PathCalls /\ op[t].path \in Path
      /\ Len(op[t].todo) \in {1, 2}
  BY Walker DEF FSInv, WalkPcs
<1>3. Good(disk, Heads(disk, table), {}) /\ disk \in [Sector -> Blocks] /\ FixedOK(disk)
  BY <1>1, <1>2, Reader DEF Good
<1>4. /\ cur \in DirsOf(disk)
      /\ Len(op[t].todo) = 1 => Leads(disk, op[t].path, cur, op[t].todo[1])
      /\ Len(op[t].todo) = 2 => cur = DirectorySector /\ op[t].todo = Components[op[t].path]
  BY DEF OnTheWay
<1>5. TabAt(disk, cur) \in Tabs
  BY <1>3, <1>4, DirsAre
<1>6. CASE Len(op[t].todo) = 1
  <2>1. PICK o \in Ops : o = [op[t] EXCEPT !.pc = "dirfile", !.cur = cur, !.todo = op[t].todo]
    <3>1. cur \in Sector
      BY <1>3, <1>4, DirsAre
    <3> QED BY <1>2, <3>1 DEF Ops, Pcs
  <2>2. /\ o.pc = "dirfile" /\ o.cur = cur /\ o.todo = op[t].todo /\ o.call = op[t].call
        /\ o.path = op[t].path
    BY <1>2, <2>1 DEF Ops
  <2>3. Goto(t, o) /\ OnlyLocal
    BY <1>6, <2>1 DEF Walk
  <2>4. AtDir(disk, o)
    BY <1>4, <1>6, <2>2 DEF AtDir
  <2>5. CallOK(disk, table, files, lost, o)
    BY <1>2, <2>2, <2>4 DEF CallOK, Walking
  <2>6. Silent(o)
    BY <2>2, SilentCalls DEF WalkPcs
  <2> QED BY <1>1, <2>3, <2>5, <2>6, GotoKeeps
<1>7. CASE Len(op[t].todo) = 2
  <2>1. CASE FindName(TabAt(disk, cur), Head(op[t].todo)) = -1
    <3>1. Fail(t)
      BY <1>7, <2>1 DEF Walk
    <3> QED BY <1>1, <3>1, FailKeeps
  <2>2. CASE FindName(TabAt(disk, cur), Head(op[t].todo)) # -1
    <3>1. PICK todo \in Seq(Name) : todo = op[t].todo /\ todo = Components[op[t].path] /\ Len(todo) = 2
      BY <1>2, <1>4, <1>7 DEF Ops
    <3>2. Head(todo) = todo[1] /\ Tail(todo) = <<todo[2]>> /\ Tail(todo) \in Seq(Name)
      BY <3>1, TailOfTwo
    <3>3. PICK s : s = FindName(TabAt(disk, cur), Head(op[t].todo))
      OBVIOUS
    <3>4. todo[1] \in DOMAIN TabAt(disk, cur) /\ TabAt(disk, cur)[todo[1]] = s /\ s \in Sector
      BY <1>5, <2>2, <3>1, <3>2, <3>3, FindNameIs
    <3>5. NamedAt(disk, DirectorySector, todo[1], s)
      BY <1>4, <1>7, <3>4 DEF NamedAt
    <3>6. PICK o \in Ops : o = [op[t] EXCEPT !.pc = "subhdr", !.todo = Tail(op[t].todo), !.cur = s]
      <4>1. Tail(op[t].todo) \in Seq(Name)
        BY <3>1, <3>2
      <4> QED BY <1>2, <3>4, <4>1 DEF Ops, Pcs
    <3>7. /\ o.pc = "subhdr" /\ o.cur = s /\ o.todo = <<todo[2]>> /\ o.call = op[t].call
          /\ o.path = op[t].path
      BY <1>2, <3>1, <3>2, <3>6 DEF Ops
    <3>8. Goto(t, o) /\ OnlyLocal
      <4>1. Len(op[t].todo) # 1
        BY <1>7
      <4> QED BY <2>2, <3>3, <3>6, <4>1 DEF Walk
    <3>9. Walking(disk, o)
      BY <3>1, <3>5, <3>7 DEF Walking
    <3>10. CallOK(disk, table, files, lost, o)
      BY <1>2, <3>7, <3>9 DEF CallOK
    <3>11. Silent(o)
      BY <3>7, SilentCalls DEF WalkPcs
    <3> QED BY <1>1, <3>8, <3>10, <3>11, GotoKeeps
  <2> QED BY <2>1, <2>2
<1> QED BY <1>2, <1>6, <1>7

\* FindDir from the root directory.
LEMMA RootKeeps ==
  ASSUME FSInv, CountInv', NEW t \in Thread, FetchRoot(t)
  PROVE  FSInv'
<1>1. op[t].pc = "root" /\ Silent(op[t])
  BY SilentCalls DEF FetchRoot, At, WalkPcs
<1>2. /\ Busy(t) /\ op[t] \in Ops /\ op[t].call \in PathCalls /\ op[t].path \in Path
      /\ Len(op[t].todo) \in {1, 2}
  BY <1>1, Walker DEF FSInv, WalkPcs
<1>3. disk \in [Sector -> Blocks] /\ FixedOK(disk) /\ CallOK(disk, table, files, lost, op[t])
  BY <1>1, <1>2, Reader DEF Good
<1>4. op[t].todo = Components[op[t].path]
  BY <1>1, <1>3, Places
<1>5. IsKind(RootData, "dir")
  BY <1>3, FixedIs DEF IsKind, FixedOK
<1>6. DirectorySector \in DirsOf(disk) /\ TabAt(disk, DirectorySector) = disk[RootData].tab
  BY <1>3, FixedIs
<1>7. Walk(t, DirectorySector, TabAt(disk, DirectorySector), op[t].todo)
  BY <1>5, <1>6 DEF FetchRoot
<1>8. OnTheWay(disk, op[t], DirectorySector)
  BY <1>2, <1>4, <1>6 DEF OnTheWay, Leads
<1> QED BY <1>1, <1>7, <1>8, WalkKeeps

\* FindDir reads the header of a directory below the root.
LEMMA SubHeaderKeeps ==
  ASSUME FSInv, CountInv', NEW t \in Thread, FetchSubHeader(t)
  PROVE  FSInv'
<1>1. op[t].pc = "subhdr" /\ Silent(op[t])
  BY SilentCalls DEF FetchSubHeader, At, WalkPcs
<1>2. Busy(t) /\ op[t] \in Ops
  BY <1>1, Walker DEF FSInv, WalkPcs
<1>3. /\ CallOK(disk, table, files, lost, op[t]) /\ Good(disk, Heads(disk, table), {})
      /\ DiskInv(disk, table, files, lost, {}, Pending, {}) /\ Typed(disk, table, files, lost)
  BY <1>1, <1>2, Reader
<1>4. /\ op[t].call \in PathCalls
      /\ Len(Components[op[t].path]) = 2 /\ op[t].todo = <<Components[op[t].path][2]>>
      /\ NamedAt(disk, DirectorySector, Components[op[t].path][1], op[t].cur)
  BY <1>1, <1>3, Places
<1>5. HdrAt(disk, op[t].cur) /\ disk \in [Sector -> Blocks]
  <2>1. op[t].cur \in Heads(disk, table)
    BY <1>3, <1>4, NamesAre
  <2> QED BY <1>3, <2>1, InvIs
<1>6. CASE ~disk[op[t].cur].isdir
  <2>1. Fail(t)
    BY <1>5, <1>6 DEF FetchSubHeader, IsKind, HdrAt
  <2> QED BY <1>1, <2>1, FailKeeps
<1>7. CASE disk[op[t].cur].isdir
  <2>1. PICK o \in Ops : o = [op[t] EXCEPT !.pc = "subdir", !.dirfile = disk[op[t].cur]]
    <3>1. disk[op[t].cur] \in FileHeaders
      BY <1>5, DiskTyped
    <3> QED BY <1>2, <3>1 DEF Ops, Pcs
  <2>2. /\ o.pc = "subdir" /\ o.cur = op[t].cur /\ o.todo = op[t].todo /\ o.call = op[t].call
        /\ o.path = op[t].path /\ o.dirfile = disk[op[t].cur]
    BY <1>2, <2>1 DEF Ops
  <2>3. Goto(t, o) /\ OnlyLocal
    BY <1>5, <1>7, <2>1 DEF FetchSubHeader, IsKind, HdrAt
  <2>4. DirAt(disk, o.cur)
    BY <1>5, <1>7, <2>2 DEF DirAt
  <2>5. CallOK(disk, table, files, lost, o)
    BY <1>4, <2>2, <2>4 DEF CallOK, Walking
  <2>6. Silent(o)
    BY <2>2, SilentCalls DEF WalkPcs
  <2> QED BY <1>1, <2>3, <2>5, <2>6, GotoKeeps
<1> QED BY <1>6, <1>7

\* FindDir reads a directory below the root.
LEMMA SubKeeps ==
  ASSUME FSInv, CountInv', NEW t \in Thread, FetchSub(t)
  PROVE  FSInv'
<1>1. op[t].pc = "subdir" /\ Silent(op[t])
  BY SilentCalls DEF FetchSub, At, WalkPcs
<1>2. Busy(t) /\ op[t] \in Ops /\ Len(op[t].todo) \in {1, 2}
  BY <1>1, Walker DEF FSInv, WalkPcs
<1>3. /\ CallOK(disk, table, files, lost, op[t]) /\ Good(disk, Heads(disk, table), {})
      /\ disk \in [Sector -> Blocks] /\ FixedOK(disk)
  BY <1>1, <1>2, Reader DEF Good
<1>4. /\ Len(Components[op[t].path]) = 2 /\ op[t].todo = <<Components[op[t].path][2]>>
      /\ NamedAt(disk, DirectorySector, Components[op[t].path][1], op[t].cur)
      /\ DirAt(disk, op[t].cur) /\ op[t].dirfile = disk[op[t].cur]
  BY <1>1, <1>3, Places
<1>5. op[t].cur \in DirsOf(disk)
  <2>1. op[t].cur \in Range(disk[RootData].tab)
    BY <1>3, <1>4, RootNames DEF Range
  <2> QED BY <1>4, <2>1 DEF DirsOf
<1>6. HasDir(op[t].dirfile) /\ disk[DataOf(op[t].dirfile)].tab = TabAt(disk, op[t].cur)
  BY <1>3, <1>4, <1>5, DirsAre DEF HasDir, IsKind, DataOf, TabAt
<1>7. Walk(t, op[t].cur, TabAt(disk, op[t].cur), op[t].todo)
  BY <1>6 DEF FetchSub
<1>8. OnTheWay(disk, op[t], op[t].cur)
  <2>1. Len(op[t].todo) = 1 /\ op[t].todo[1] = Components[op[t].path][2]
    BY <1>4
  <2>2. Leads(disk, op[t].path, op[t].cur, op[t].todo[1])
    BY <1>4, <2>1 DEF Leads
  <2> QED BY <1>5, <2>1, <2>2 DEF OnTheWay
<1> QED BY <1>1, <1>7, <1>8, WalkKeeps

\* OpenFile dirfile(dirsector): the header of the directory.
LEMMA DirFileKeeps ==
  ASSUME FSInv, CountInv', NEW t \in Thread, OpenDirFile(t)
  PROVE  FSInv'
<1>1. op[t].pc = "dirfile" /\ Silent(op[t])
  BY SilentCalls DEF OpenDirFile, At, WalkPcs
<1>2. Busy(t) /\ op[t] \in Ops
  BY <1>1, Walker DEF FSInv, WalkPcs
<1>3. /\ CallOK(disk, table, files, lost, op[t]) /\ Good(disk, Heads(disk, table), {})
      /\ disk \in [Sector -> Blocks]
  BY <1>1, <1>2, Reader
<1>4. op[t].call \in PathCalls /\ AtDir(disk, op[t])
  BY <1>1, <1>3, Places
<1>5. DirAt(disk, op[t].cur) /\ disk[op[t].cur] \in FileHeaders
  BY <1>3, <1>4, DirsAre DEF AtDir
<1>6. PICK o \in Ops : o = [op[t] EXCEPT !.pc = "fetch", !.dirfile = disk[op[t].cur]]
  BY <1>2, <1>5 DEF Ops, Pcs
<1>7. /\ o.pc = "fetch" /\ o.cur = op[t].cur /\ o.todo = op[t].todo /\ o.call = op[t].call
      /\ o.path = op[t].path /\ o.dirfile = disk[op[t].cur]
  BY <1>2, <1>6 DEF Ops
<1>8. Goto(t, o) /\ OnlyLocal
  BY <1>5, <1>6 DEF OpenDirFile, IsKind, DirAt, HdrAt
<1>9. InDir(disk, o)
  BY <1>4, <1>7 DEF InDir, AtDir
<1>10. CallOK(disk, table, files, lost, o)
  BY <1>4, <1>7, <1>9 DEF CallOK, Walking
<1>11. Silent(o)
  BY <1>7, SilentCalls DEF WalkPcs
<1> QED BY <1>1, <1>8, <1>10, <1>11, GotoKeeps

\* What is read at the directory that a call is in.
LEMMA AtTheDir ==
  ASSUME NEW H, NEW V, Good(disk, H, V), NEW o, InDir(disk, o)
  PROVE  /\ o.cur \in DirsOf(disk) /\ o.dirfile = disk[o.cur] /\ HasDir(o.dirfile)
         /\ disk[DataOf(o.dirfile)].tab = TabAt(disk, o.cur) /\ TabAt(disk, o.cur) \in Tabs
         /\ DataOf(o.dirfile) = disk[o.cur].secs[1]
         /\ Leads(disk, o.path, o.cur, o.todo[1]) /\ Len(o.todo) = 1
         /\ \A s : s = FindName(TabAt(disk, o.cur), o.todo[1]) =>
              /\ s # -1 => s \in Sector /\ NamedAt(disk, o.cur, o.todo[1], s)
              /\ s = -1 => IsNew(disk, o)
<1>1. o.cur \in DirsOf(disk) /\ o.dirfile = disk[o.cur]
      /\ Leads(disk, o.path, o.cur, o.todo[1]) /\ Len(o.todo) = 1
  BY DEF InDir, AtDir
<1>2. HasDir(o.dirfile) /\ disk[DataOf(o.dirfile)].tab = TabAt(disk, o.cur)
      /\ DataOf(o.dirfile) = disk[o.cur].secs[1] /\ TabAt(disk, o.cur) \in Tabs
  BY <1>1, DirsAre DEF HasDir, IsKind, DataOf, TabAt
<1>3. ASSUME NEW s, s = FindName(TabAt(disk, o.cur), o.todo[1])
      PROVE  /\ s # -1 => s \in Sector /\ NamedAt(disk, o.cur, o.todo[1], s)
             /\ s = -1 => IsNew(disk, o)
  BY <1>1, <1>2, <1>3, FindNameIs DEF NamedAt, IsNew
<1> QED BY <1>1, <1>2, <1>3

\* A call at the directory where it looks for its last name.
LEMMA Fetcher ==
  ASSUME FSInv, NEW t \in Thread, op[t].pc = "fetch"
  PROVE  /\ Busy(t) /\ op[t] \in Ops /\ op[t].call \in PathCalls /\ op[t].path \in Path
         /\ Silent(op[t]) /\ InDir(disk, op[t]) /\ Good(disk, Heads(disk, table), {})
         /\ DiskInv(disk, table, files, lost, {}, Pending, {}) /\ Typed(disk, table, files, lost)
         /\ NamesApart(disk)
         /\ op[t].call # "open" => Pending = {}
<1>1. Silent(op[t]) /\ op[t].pc \in WalkPcs
  BY SilentCalls DEF WalkPcs
<1>2. /\ Busy(t) /\ op[t] \in Ops /\ op[t].call \in PathCalls /\ op[t].path \in Path
  BY <1>1, Walker DEF FSInv
<1>3. /\ CallOK(disk, table, files, lost, op[t]) /\ Good(disk, Heads(disk, table), {})
      /\ DiskInv(disk, table, files, lost, {}, Pending, {}) /\ Typed(disk, table, files, lost)
      /\ NamesApart(disk)
      /\ op[t].call # "open" => Pending = {}
  BY <1>1, <1>2, Reader
<1>4. InDir(disk, op[t])
  BY <1>3, Places
<1> QED BY <1>1, <1>2, <1>3, <1>4

\* The name is there, or it is not; what the calls but Remove do then.
LEMMA FetchIs ==
  ASSUME FSInv, NEW t \in Thread, Fetch(t), NEW o, o = op[t], NEW tab, tab = TabAt(disk, o.cur),
         NEW s, s = FindName(tab, o.todo[1])
  PROVE  \/ Fail(t)
         \/ /\ o.call \in {"create", "mkdir"} /\ s = -1 /\ OnlyLocal
            /\ Goto(t, [o EXCEPT !.pc = "map", !.tab = tab, !.sector = s])
         \/ /\ o.call \in {"open", "rmdir", "fsremove"} /\ s # -1 /\ OnlyLocal
            /\ Goto(t, [o EXCEPT !.pc = "hdr", !.tab = tab, !.sector = s])
         \/ Restart(t) \/ Forget(t)
<1>1. op[t].pc = "fetch"
  BY DEF Fetch, At
<1>2. /\ Good(disk, Heads(disk, table), {}) /\ InDir(disk, o) /\ o.call \in PathCalls
  BY <1>1, Fetcher
<1>3. HasDir(o.dirfile) /\ disk[DataOf(o.dirfile)].tab = tab
  BY <1>2, AtTheDir
<1>4. o.call \in {"create", "mkdir"} \/ o.call \in {"open", "rmdir", "fsremove"} \/ o.call = "remove"
  BY <1>2 DEF PathCalls
<1>5. CASE o.call \in {"create", "mkdir"}
  BY <1>3, <1>5 DEF Fetch
<1>6. CASE o.call \in {"open", "rmdir", "fsremove"}
  BY <1>3, <1>6 DEF Fetch
<1>7. CASE o.call = "remove" /\ s = -1
  BY <1>3, <1>7 DEF Fetch
<1>8. CASE o.call = "remove" /\ s # -1 /\ ~IsOpen(o.path)
  <2>1. Goto(t, Begin(t, "fsremove", o.path, "root")) /\ OnlyLocal
    BY <1>3, <1>8 DEF Fetch
  <2> QED BY <1>1, <1>8, <2>1 DEF Restart
<1>9. CASE o.call = "remove" /\ s # -1 /\ IsOpen(o.path)
  BY <1>1, <1>3, <1>9 DEF Forget
<1> QED BY <1>4, <1>5, <1>6, <1>7, <1>8, <1>9

\* FileSystem::Remove starts from the path again.
LEMMA RestartKeeps ==
  ASSUME FSInv, CountInv', NEW t \in Thread, Restart(t)
  PROVE  FSInv'
<1>1. op[t].pc = "fetch" /\ Goto(t, Begin(t, "fsremove", op[t].path, "root")) /\ OnlyLocal
  BY DEF Restart
<1>2. Silent(op[t]) /\ op[t].path \in Path
  BY <1>1, Fetcher
<1>3. "fsremove" \in Call /\ "root" \in Pcs
  BY DEF Call, Pcs
<1>4. PICK o : o = Begin(t, "fsremove", op[t].path, "root")
  OBVIOUS
<1>5. o.call = "fsremove" /\ o.path = op[t].path /\ o.pc = "root" /\ o.todo = Components[op[t].path]
  BY <1>2, <1>3, <1>4, BeginTyped
<1>6. Silent(o)
  BY <1>5, SilentCalls DEF WalkPcs
<1>7. CallOK(disk, table, files, lost, o)
  BY <1>5 DEF CallOK, Walking, PathCalls
<1> QED BY <1>1, <1>2, <1>4, <1>6, <1>7, GotoKeeps

\* The sectors of a file or directory, and of the files in a directory.
LEMMA TreeIs ==
  ASSUME disk \in [Sector -> Blocks], NEW s, HdrOK(disk, s)
  PROVE  TreeAt(disk, s) \subseteq TreeOf(s)
<1>1. \A r : IsKind(r, "hdr") <=> HdrAt(disk, r)
  BY DEF IsKind, HdrAt
<1>2. \A r : SectorsOf(r) = SecsAt(disk, r)
  BY <1>1 DEF SectorsOf, SecsAt
<1>3. IsKind(s, "hdr") /\ disk[s].secs \in Seq(Sector) /\ Range(disk[s].secs) \cap System = {}
  BY <1>1, DiskTyped DEF HdrOK
<1>4. CASE DirAt(disk, s)
  <2>1. disk[s].secs # <<>> /\ disk[disk[s].secs[1]].kind = "dir"
    BY <1>4 DEF HdrOK, DirAt
  <2>2. disk[s].secs[1] \in Sector
    BY <1>3, <2>1, SeqRange
  <2>3. HasDir(disk[s])
    BY <2>1, <2>2 DEF HasDir, IsKind
  <2>4. TreeOf(s) = SectorsOf(s) \cup UNION {SectorsOf(r) : r \in Range(disk[DataOf(disk[s])].tab)}
    BY <1>3, <2>3 DEF TreeOf
  <2>5. TreeAt(disk, s) = SecsAt(disk, s) \cup UNION {SecsAt(disk, r) : r \in Range(TabAt(disk, s))}
    BY <1>4 DEF TreeAt
  <2>6. disk[DataOf(disk[s])].tab = TabAt(disk, s)
    BY DEF DataOf, TabAt
  <2> QED BY <1>2, <2>4, <2>5, <2>6
<1>5. CASE ~DirAt(disk, s)
  BY <1>2, <1>5 DEF TreeAt, TreeOf
<1> QED BY <1>4, <1>5

\* OpenFileTable::Remove finds the file in the table: the entry is marked.
LEMMA ForgetKeeps ==
  ASSUME FSInv, CountInv', NEW t \in Thread, Forget(t)
  PROVE  FSInv'
<1>1. /\ op[t].call = "remove" /\ op[t].pc = "fetch" /\ IsOpen(op[t].path) /\ HasDir(op[t].dirfile)
      /\ Fetch(t)
  BY DEF Forget
<1>2. PICK w : w = op[t]
  OBVIOUS
<1>3. PICK tab : tab = TabAt(disk, w.cur)
  OBVIOUS
<1>4. PICK s : s = FindName(tab, w.todo[1])
  OBVIOUS
<1>5. PICK k : k = findl(w.path)
  OBVIOUS
<1>6. /\ Busy(t) /\ w \in Ops /\ w.path \in Path /\ InDir(disk, w) /\ Good(disk, Heads(disk, table), {})
      /\ DiskInv(disk, table, files, lost, {}, {}, {}) /\ Typed(disk, table, files, lost)
  BY <1>1, <1>2, Fetcher
<1>7. /\ disk[DataOf(w.dirfile)].tab = tab /\ tab \in Tabs
      /\ (s # -1 => s \in Sector /\ NamedAt(disk, w.cur, w.todo[1], s))
  BY <1>3, <1>4, <1>6, AtTheDir
<1>8. s # -1
  BY <1>1, <1>2, <1>4, <1>7 DEF Forget
<1>9. /\ table' = [table EXCEPT ![k].ToBeDeleted = TRUE]
      /\ op' = [op EXCEPT ![t] = [w EXCEPT !.pc = "wdir", !.tab = RemoveName(tab, w.todo[1])]]
      /\ lost' = IF table[k].sector = s THEN lost ELSE lost \cup TreeOf(s)
      /\ UNCHANGED <<disk, files, crashed>>
  <2>1. /\ table' = [table EXCEPT ![k].ToBeDeleted = TRUE]
        /\ op' = [op EXCEPT ![t] = [w EXCEPT !.pc = "wdir", !.tab = RemoveName(tab, w.todo[1])]]
    BY <1>1, <1>2, <1>4, <1>5, <1>7, <1>8 DEF Fetch, Goto
  <2>2. lost' = IF table[k].sector = s THEN lost ELSE lost \cup TreeOf(s)
    BY <1>1, <1>2, <1>4, <1>5, <1>7, <1>8 DEF Fetch
  <2>3. UNCHANGED <<disk, files, crashed>>
    BY <1>1, <1>2, <1>4, <1>5, <1>7, <1>8 DEF Fetch
  <2> QED BY <2>1, <2>2, <2>3
<1>10. PICK o \in Ops : o = [w EXCEPT !.pc = "wdir", !.tab = RemoveName(tab, w.todo[1])]
  <2>1. RemoveName(tab, w.todo[1]) \in Tabs
    BY <1>7, RemoveNameIs
  <2> QED BY <1>6, <2>1 DEF Ops, Pcs
<1>11. /\ o.call = "remove" /\ o.pc = "wdir" /\ o.path = w.path /\ o.cur = w.cur
       /\ o.dirfile = w.dirfile /\ o.todo = w.todo /\ o.tab = RemoveName(tab, w.todo[1])
  BY <1>1, <1>2, <1>6, <1>10 DEF Ops
<1>12. k \in Slot /\ table[k] # NULL /\ table[k].name = w.path
  <2>1. findl(w.path) # -1
    BY <1>1, <1>2 DEF IsOpen
  <2>2. k \in Slot /\ Used(k) /\ table[k].name = w.path
    BY <1>5, <2>1, FindlIs
  <2> QED BY <2>2 DEF Used
<1>13. Marking(table, table', k) /\ lost \subseteq lost'
  BY <1>9, <1>12 DEF Marking
<1>14. /\ DiskInv(disk, table', files, lost', {}, {}, {table[k].name})
       /\ table'[k] # NULL /\ table'[k].name = table[k].name /\ table'[k].sector = table[k].sector
       /\ table'[k].ToBeDeleted
  BY <1>6, <1>13, EntryMarked
<1>15. VictimOf(o) = {} /\ PendingOf(o) = {} /\ DroppedBy(o) = {w.path}
  BY <1>11 DEF VictimOf, PendingOf, DroppedBy
<1>16. DiskInv(disk', table', files', lost', VictimOf(o), PendingOf(o), DroppedBy(o))
  BY <1>9, <1>12, <1>14, <1>15
<1>17. table'[k].sector = s \/ TreeAt(disk, s) \subseteq lost'
  <2>1. CASE table[k].sector = s
    BY <1>14, <2>1
  <2>2. CASE table[k].sector # s
    <3>1. s \in Heads(disk, table)
      BY <1>6, <1>7, <1>8, NamesAre
    <3>2. HdrOK(disk, s) /\ disk \in [Sector -> Blocks]
      BY <1>6, <3>1, InvIs
    <3>3. TreeAt(disk, s) \subseteq TreeOf(s)
      BY <3>2, TreeIs
    <3> QED BY <1>9, <2>2, <3>3
  <2> QED BY <2>1, <2>2
<1>18. InDir(disk, o)
  BY <1>6, <1>11 DEF InDir, AtDir
<1>19. Forgetting(disk, table', lost', o)
  <2>1. /\ s \in Sector /\ NamedAt(disk, o.cur, o.todo[1], s)
        /\ table'[k] # NULL /\ table'[k].name = o.path /\ table'[k].ToBeDeleted
    BY <1>7, <1>8, <1>11, <1>12, <1>14
  <2>2. o.tab = RemoveName(TabAt(disk, o.cur), o.todo[1])
    BY <1>3, <1>11
  <2> QED BY <1>11, <1>12, <1>17, <1>18, <2>1, <2>2 DEF Forgetting
<1>20. CallOK(disk', table', files', lost', o)
  BY <1>9, <1>11, <1>19 DEF CallOK
<1>21. \A u \in Thread : u # t => op[u] = Idle
  <2>1. CountInv
    BY DEF FSInv
  <2> QED BY <1>1, <1>6, <2>1, NotCreateIsAlone
<1>22. \A u \in Thread : u # t => Silent(op[u]) /\ CallOK(disk', table', files', lost', op[u])
  BY <1>21, IdleOthers
<1>23. ~crashed'
  BY <1>9 DEF FSInv
<1>24. op' = [op EXCEPT ![t] = o]
  BY <1>9, <1>10
<1> QED BY <1>16, <1>20, <1>22, <1>23, <1>24, SoleStep

\* A call reads the directory that it looks for its last name in.
LEMMA FetchKeeps ==
  ASSUME FSInv, CountInv', NEW t \in Thread, Fetch(t)
  PROVE  FSInv'
<1>1. op[t].pc = "fetch"
  BY DEF Fetch, At
<1>2. PICK w : w = op[t]
  OBVIOUS
<1>3. PICK tab : tab = TabAt(disk, w.cur)
  OBVIOUS
<1>4. PICK s : s = FindName(tab, w.todo[1])
  OBVIOUS
<1>5. /\ Busy(t) /\ w \in Ops /\ Silent(op[t]) /\ InDir(disk, w)
      /\ Good(disk, Heads(disk, table), {})
  BY <1>1, <1>2, Fetcher
<1>6. /\ tab \in Tabs /\ (s # -1 => s \in Sector /\ NamedAt(disk, w.cur, w.todo[1], s))
      /\ (s = -1 => IsNew(disk, w))
  BY <1>3, <1>4, <1>5, AtTheDir
<1>7. ASSUME NEW pc \in {"map", "hdr"}, Goto(t, [w EXCEPT !.pc = pc, !.tab = tab, !.sector = s]),
             OnlyLocal, pc = "map" => w.call \in {"create", "mkdir"} /\ s = -1,
             pc = "hdr" => w.call \in {"open", "rmdir", "fsremove"} /\ s # -1
      PROVE  FSInv'
  <2>1. PICK o \in Ops : o = [w EXCEPT !.pc = pc, !.tab = tab, !.sector = s]
    <3>1. s \in Sector \/ s = -1
      BY <1>6
    <3>2. Sector \subseteq Int /\ -1 \in Int
      BY Sectors
    <3>3. s \in Int
      BY <3>1, <3>2
    <3> QED BY <1>5, <1>6, <1>7, <3>3 DEF Ops, Pcs
  <2>2. /\ o.call = w.call /\ o.pc = pc /\ o.path = w.path /\ o.cur = w.cur /\ o.sector = s
        /\ o.dirfile = w.dirfile /\ o.todo = w.todo /\ o.tab = tab
    BY <1>5, <2>1 DEF Ops
  <2>3. InDir(disk, o)
    BY <1>5, <2>2 DEF InDir, AtDir
  <2>4. CASE pc = "map"
    <3>1. IsNew(disk, o) /\ o.tab = TabAt(disk, o.cur)
      BY <1>3, <1>6, <1>7, <2>2, <2>4 DEF IsNew
    <3>2. Making(disk, o)
      BY <2>2, <2>3, <2>4, <3>1 DEF Making
    <3>3. CallOK(disk, table, files, lost, o)
      BY <1>7, <2>2, <2>4, <3>2 DEF CallOK
    <3>4. Silent(o)
      BY <2>2, <2>4, SilentCalls
    <3> QED BY <1>5, <1>7, <2>1, <3>3, <3>4, GotoKeeps
  <2>5. CASE pc = "hdr"
    <3>1. Found(disk, o) /\ o.tab = TabAt(disk, o.cur)
      BY <1>3, <1>6, <1>7, <2>2, <2>5 DEF Found
    <3>2. Opening(disk, o) /\ Removing(disk, o)
      BY <2>2, <2>3, <2>5, <3>1 DEF Opening, Removing
    <3>3. CallOK(disk, table, files, lost, o)
      BY <1>7, <2>2, <2>5, <3>2 DEF CallOK
    <3>4. Silent(o)
      BY <2>2, <2>5, SilentCalls
    <3> QED BY <1>5, <1>7, <2>1, <3>3, <3>4, GotoKeeps
  <2> QED BY <1>7, <2>4, <2>5
<1>8. \/ Fail(t)
      \/ /\ w.call \in {"create", "mkdir"} /\ s = -1 /\ OnlyLocal
         /\ Goto(t, [w EXCEPT !.pc = "map", !.tab = tab, !.sector = s])
      \/ /\ w.call \in {"open", "rmdir", "fsremove"} /\ s # -1 /\ OnlyLocal
         /\ Goto(t, [w EXCEPT !.pc = "hdr", !.tab = tab, !.sector = s])
      \/ Restart(t) \/ Forget(t)
  BY <1>2, <1>3, <1>4, FetchIs
<1>9. CASE Fail(t)
  BY <1>5, <1>9, FailKeeps
<1>10. CASE /\ w.call \in {"create", "mkdir"} /\ s = -1 /\ OnlyLocal
            /\ Goto(t, [w EXCEPT !.pc = "map", !.tab = tab, !.sector = s])
  BY <1>7, <1>10
<1>11. CASE /\ w.call \in {"open", "rmdir", "fsremove"} /\ s # -1 /\ OnlyLocal
            /\ Goto(t, [w EXCEPT !.pc = "hdr", !.tab = tab, !.sector = s])
  BY <1>7, <1>11
<1> QED BY <1>8, <1>9, <1>10, <1>11, RestartKeeps, ForgetKeeps

\* A call at the header of the file that it has found.
LEMMA Holder ==
  ASSUME FSInv, NEW t \in Thread, op[t].pc \in {"hdr", "dirfile2", "empty"}
  PROVE  /\ Busy(t) /\ op[t] \in Ops /\ Silent(op[t]) /\ op[t].call \in {"open", "rmdir", "fsremove"}
         /\ InDir(disk, op[t]) /\ Found(disk, op[t])
         /\ op[t].sector \in Heads(disk, table) /\ HdrAt(disk, op[t].sector)
         /\ HdrOK(disk, op[t].sector) /\ disk[op[t].sector] \in FileHeaders
         /\ disk[op[t].sector].isdir \in BOOLEAN /\ IsKind(op[t].sector, "hdr")
         /\ op[t].call # "open" => op[t].tab = TabAt(disk, op[t].cur)
         /\ op[t].pc \in {"dirfile2", "empty"} => op[t].call = "rmdir" /\ DirAt(disk, op[t].sector)
         /\ op[t].pc = "empty" => op[t].hdr = disk[op[t].sector]
         /\ disk \in [Sector -> Blocks]
<1>1. Silent(op[t])
  BY SilentCalls
<1>2. Busy(t) /\ op[t] \in Ops
  BY Walker DEF FSInv
<1>3. /\ CallOK(disk, table, files, lost, op[t]) /\ Good(disk, Heads(disk, table), {})
      /\ DiskInv(disk, table, files, lost, {}, Pending, {}) /\ Typed(disk, table, files, lost)
      /\ disk \in [Sector -> Blocks]
  BY <1>1, <1>2, Reader
<1>4. /\ InDir(disk, op[t]) /\ Found(disk, op[t]) /\ op[t].call \in {"open", "rmdir", "fsremove"}
      /\ op[t].call # "open" => op[t].tab = TabAt(disk, op[t].cur)
  <2>1. CASE op[t].pc = "hdr"
    BY <1>3, <2>1, Places
  <2>2. CASE op[t].pc \in {"dirfile2", "empty"}
    BY <1>3, <2>2, Places
  <2> QED BY <2>1, <2>2
<1>5. /\ op[t].pc \in {"dirfile2", "empty"} => op[t].call = "rmdir" /\ DirAt(disk, op[t].sector)
      /\ op[t].pc = "empty" => op[t].hdr = disk[op[t].sector]
  BY <1>3, Places
<1>6. op[t].sector \in Heads(disk, table)
  BY <1>3, <1>4, NamesAre DEF Found
<1>7. HdrAt(disk, op[t].sector) /\ HdrOK(disk, op[t].sector)
  BY <1>3, <1>6, InvIs
<1>8. disk[op[t].sector] \in FileHeaders /\ disk[op[t].sector].isdir \in BOOLEAN
  BY <1>3, <1>7, DiskTyped
<1>9. IsKind(op[t].sector, "hdr")
  BY <1>7 DEF HdrAt, IsKind
<1> QED BY <1>1, <1>2, <1>3, <1>4, <1>5, <1>6, <1>7, <1>8, <1>9

\* The header of the named file is read.
LEMMA HeaderKeeps ==
  ASSUME FSInv, CountInv', NEW t \in Thread, FetchHeader(t)
  PROVE  FSInv'
<1>1. op[t].pc = "hdr"
  BY DEF FetchHeader, At
<1>2. PICK w : w = op[t]
  OBVIOUS
<1>3. /\ Busy(t) /\ w \in Ops /\ Silent(op[t]) /\ w.call \in {"open", "rmdir", "fsremove"}
      /\ InDir(disk, w) /\ Found(disk, w) /\ HdrAt(disk, w.sector)
      /\ disk[w.sector] \in FileHeaders /\ disk[w.sector].isdir \in BOOLEAN
      /\ IsKind(w.sector, "hdr")
      /\ w.call # "open" => w.tab = TabAt(disk, w.cur)
  BY <1>1, <1>2, Holder
<1>4. \/ Fail(t)
      \/ /\ OnlyLocal /\ w.call = "rmdir" /\ disk[w.sector].isdir
         /\ Goto(t, [w EXCEPT !.pc = "dirfile2", !.hdr = disk[w.sector]])
      \/ /\ OnlyLocal /\ w.call = "fsremove" /\ ~disk[w.sector].isdir
         /\ Goto(t, [w EXCEPT !.pc = "map", !.hdr = disk[w.sector]])
      \/ /\ OnlyLocal /\ w.call = "open" /\ ~disk[w.sector].isdir
         /\ Goto(t, [w EXCEPT !.pc = "newfile", !.hdr = disk[w.sector]])
  <2>1. CASE disk[w.sector].isdir
    BY <1>2, <1>3, <2>1 DEF FetchHeader
  <2>2. CASE ~disk[w.sector].isdir
    BY <1>2, <1>3, <2>2 DEF FetchHeader
  <2> QED BY <2>1, <2>2
<1>5. ASSUME NEW pc \in {"dirfile2", "map", "newfile"}, OnlyLocal,
             Goto(t, [w EXCEPT !.pc = pc, !.hdr = disk[w.sector]]),
             pc = "dirfile2" => w.call = "rmdir" /\ disk[w.sector].isdir,
             pc = "map" => w.call = "fsremove" /\ ~disk[w.sector].isdir,
             pc = "newfile" => w.call = "open" /\ ~disk[w.sector].isdir
      PROVE  FSInv'
  <2>1. PICK o \in Ops : o = [w EXCEPT !.pc = pc, !.hdr = disk[w.sector]]
    BY <1>3, <1>5 DEF Ops, Pcs
  <2>2. /\ o.call = w.call /\ o.pc = pc /\ o.path = w.path /\ o.cur = w.cur /\ o.sector = w.sector
        /\ o.dirfile = w.dirfile /\ o.todo = w.todo /\ o.tab = w.tab /\ o.hdr = disk[w.sector]
    BY <1>3, <2>1 DEF Ops
  <2>3. InDir(disk, o) /\ Found(disk, o)
    BY <1>3, <2>2 DEF InDir, AtDir, Found
  <2>4. Silent(o)
    BY <2>2, SilentCalls
  <2>5. CallOK(disk, table, files, lost, o)
    <3>1. CASE pc = "dirfile2"
      <4>1. o.tab = TabAt(disk, o.cur) /\ DirAt(disk, o.sector)
        BY <1>3, <1>5, <2>2, <3>1 DEF DirAt
      <4>2. Removing(disk, o)
        BY <1>5, <2>2, <2>3, <3>1, <4>1 DEF Removing
      <4> QED BY <1>5, <2>2, <3>1, <4>2 DEF CallOK
    <3>2. CASE pc = "map"
      <4>1. o.tab = TabAt(disk, o.cur) /\ ~DirAt(disk, o.sector)
        BY <1>3, <1>5, <2>2, <3>2 DEF DirAt
      <4>2. Doomed(disk, o)
        BY <1>5, <2>2, <3>2, <4>1 DEF Doomed
      <4>3. Removing(disk, o)
        BY <2>2, <2>3, <3>2, <4>1, <4>2 DEF Removing
      <4> QED BY <1>5, <2>2, <3>2, <4>3 DEF CallOK
    <3>3. CASE pc = "newfile"
      <4>1. Opening(disk, o)
        BY <1>5, <2>2, <2>3, <3>3 DEF Opening
      <4> QED BY <1>5, <2>2, <3>3, <4>1 DEF CallOK
    <3> QED BY <3>1, <3>2, <3>3
  <2> QED BY <1>3, <1>5, <2>1, <2>4, <2>5, GotoKeeps
<1>6. CASE Fail(t)
  BY <1>3, <1>6, FailKeeps
<1> QED BY <1>4, <1>5, <1>6

\* Rmdir reads the header of the directory that it removes.
LEMMA VictimKeeps ==
  ASSUME FSInv, CountInv', NEW t \in Thread, OpenVictim(t)
  PROVE  FSInv'
<1>1. op[t].pc = "dirfile2"
  BY DEF OpenVictim, At
<1>2. PICK w : w = op[t]
  OBVIOUS
<1>3. /\ Busy(t) /\ w \in Ops /\ Silent(op[t]) /\ w.call = "rmdir"
      /\ InDir(disk, w) /\ Found(disk, w) /\ DirAt(disk, w.sector)
      /\ disk[w.sector] \in FileHeaders /\ IsKind(w.sector, "hdr")
      /\ w.tab = TabAt(disk, w.cur)
  BY <1>1, <1>2, Holder
<1>4. PICK o \in Ops : o = [w EXCEPT !.pc = "empty", !.hdr = disk[w.sector]]
  BY <1>3 DEF Ops, Pcs
<1>5. /\ o.call = w.call /\ o.pc = "empty" /\ o.path = w.path /\ o.cur = w.cur /\ o.sector = w.sector
      /\ o.dirfile = w.dirfile /\ o.todo = w.todo /\ o.tab = w.tab /\ o.hdr = disk[w.sector]
  BY <1>3, <1>4 DEF Ops
<1>6. OnlyLocal /\ Goto(t, o)
  BY <1>2, <1>3, <1>4 DEF OpenVictim
<1>7. InDir(disk, o) /\ Found(disk, o)
  BY <1>3, <1>5 DEF InDir, AtDir, Found
<1>8. Removing(disk, o)
  BY <1>3, <1>5, <1>7 DEF Removing
<1>9. CallOK(disk, table, files, lost, o)
  BY <1>3, <1>5, <1>8 DEF CallOK
<1>10. Silent(o)
  BY <1>5, SilentCalls
<1> QED BY <1>3, <1>6, <1>9, <1>10, GotoKeeps

\* Rmdir looks whether the directory is empty.
LEMMA EmptyKeeps ==
  ASSUME FSInv, CountInv', NEW t \in Thread, FetchVictim(t)
  PROVE  FSInv'
<1>1. op[t].pc = "empty"
  BY DEF FetchVictim, At
<1>2. PICK w : w = op[t]
  OBVIOUS
<1>3. /\ Busy(t) /\ w \in Ops /\ Silent(op[t]) /\ w.call = "rmdir"
      /\ InDir(disk, w) /\ Found(disk, w) /\ DirAt(disk, w.sector) /\ HdrOK(disk, w.sector)
      /\ w.tab = TabAt(disk, w.cur) /\ w.hdr = disk[w.sector] /\ disk \in [Sector -> Blocks]
  BY <1>1, <1>2, Holder
<1>4. HasDir(w.hdr) /\ disk[DataOf(w.hdr)].tab = TabAt(disk, w.sector)
  <2>1. disk[w.sector].secs # <<>> /\ disk[disk[w.sector].secs[1]].kind = "dir"
    BY <1>3 DEF HdrOK, DirAt
  <2>2. disk[w.sector].secs \in Seq(Sector)
    BY <1>3, DiskTyped DEF DirAt
  <2>3. disk[w.sector].secs[1] \in Sector
    BY <2>1, <2>2, SeqRange
  <2> QED BY <1>3, <2>1, <2>3 DEF HasDir, IsKind, DataOf, TabAt
<1>5. CASE DOMAIN TabAt(disk, w.sector) # {}
  <2>1. Fail(t)
    BY <1>2, <1>4, <1>5 DEF FetchVictim
  <2> QED BY <1>3, <2>1, FailKeeps
<1>6. CASE DOMAIN TabAt(disk, w.sector) = {}
  <2>1. PICK o \in Ops : o = [w EXCEPT !.pc = "map"]
    BY <1>3 DEF Ops, Pcs
  <2>2. /\ o.call = w.call /\ o.pc = "map" /\ o.path = w.path /\ o.cur = w.cur
        /\ o.sector = w.sector
        /\ o.dirfile = w.dirfile /\ o.todo = w.todo /\ o.tab = w.tab /\ o.hdr = w.hdr
    BY <1>3, <2>1 DEF Ops
  <2>3. OnlyLocal /\ Goto(t, o)
    BY <1>2, <1>4, <1>6, <2>1 DEF FetchVictim
  <2>4. InDir(disk, o) /\ Found(disk, o)
    BY <1>3, <2>2 DEF InDir, AtDir, Found
  <2>5. Doomed(disk, o)
    BY <1>3, <1>6, <2>2 DEF Doomed
  <2>6. Removing(disk, o)
    BY <1>3, <2>2, <2>4, <2>5 DEF Removing
  <2>7. CallOK(disk, table, files, lost, o)
    BY <1>3, <2>2, <2>6 DEF CallOK
  <2>8. Silent(o)
    BY <2>2, SilentCalls
  <2> QED BY <1>3, <2>3, <2>7, <2>8, GotoKeeps
<1> QED BY <1>5, <1>6

\* An Open that has found its file, or the one of the table.
LEMMA Opener ==
  ASSUME FSInv, NEW t \in Thread, op[t].pc = "newfile"
  PROVE  /\ Busy(t) /\ op[t] \in Ops /\ Silent(op[t]) /\ op[t].call = "open" /\ op[t].path \in Path
         /\ Alone(t) /\ TableAgrees(op[t])
         /\ DiskInv(disk, table, files, lost, {}, Pending, {}) /\ Typed(disk, table, files, lost)
         /\ Victims = {} /\ Dropped = {} /\ Opening(disk, op[t])
         /\ \E f \in Fid : files[f] = NULL
         /\ disk \in [Sector -> Blocks] /\ Good(disk, Heads(disk, table), {})
         /\ nbentry # -1 => nbentry \in Slot /\ table[nbentry] = NULL
<1>1. Silent(op[t]) /\ CountInv
  BY SilentCalls DEF FSInv
<1>2. op[t].call = "open"
  <2>1. CallOK(disk, table, files, lost, op[t])
    BY DEF FSInv, CallsOK
  <2> QED BY <2>1, Places
<1>3. Busy(t)
  BY <1>2, IdleTyped DEF Busy, Call
<1>4. /\ DiskInv(disk, table, files, lost, {}, Pending, {}) /\ Typed(disk, table, files, lost)
      /\ disk \in [Sector -> Blocks] /\ Good(disk, Heads(disk, table), {}) /\ op[t] \in Ops
      /\ CallOK(disk, table, files, lost, op[t])
  BY <1>1, <1>3, Reader
<1>5. Opening(disk, op[t])
  BY <1>4, Places
<1>6. Victims = {} /\ Dropped = {}
  BY <1>1, <1>3, OthersSilent
<1>7. Alone(t)
  BY <1>1, <1>2, <1>3, NotCreateIsAlone
<1>8. TableAgrees(op[t]) /\ \E f \in Fid : files[f] = NULL
  BY <1>1, <1>2 DEF CountInv, CallsAgree, Counted
<1>9. nbentry # -1 => nbentry \in Slot /\ table[nbentry] = NULL
  BY <1>1 DEF CountInv, FSTypeOK, NamesDistinct
<1>10. op[t].path \in Path
  BY <1>1, <1>3 DEF CountInv, Shapes, Shape, Busy
<1> QED BY <1>1, <1>2, <1>3, <1>4, <1>5, <1>6, <1>7, <1>8, <1>9, <1>10

\* A new OpenFile, and an entry for it if the table has none.
LEMMA NewFileKeeps ==
  ASSUME OneSpelling, FSInv, CountInv', NEW t \in Thread, NewFile(t)
  PROVE  FSInv'
<1>1. op[t].pc = "newfile"
  BY DEF NewFile, At
<1>2. PICK w : w = op[t]
  OBVIOUS
<1>3. /\ Busy(t) /\ w \in Ops /\ Silent(op[t]) /\ w.call = "open" /\ w.path \in Path
      /\ Alone(t) /\ TableAgrees(w)
      /\ DiskInv(disk, table, files, lost, {}, Pending, {}) /\ Typed(disk, table, files, lost)
      /\ Victims = {} /\ Dropped = {} /\ Opening(disk, w)
      /\ disk \in [Sector -> Blocks] /\ Good(disk, Heads(disk, table), {})
      /\ nbentry # -1 => nbentry \in Slot /\ table[nbentry] = NULL
  BY <1>1, <1>2, Opener
<1>4. PICK f \in Fid : f = NewFid /\ files[f] = NULL
  BY <1>1, Opener, NewFidIs
<1>5. Silent(Idle) /\ CallOK(disk, table', files', lost', Idle)
  BY SilentCalls DEF CallOK
<1>6. ASSUME NEW k \in Slot, NEW U, DiskInv(disk, U, files, lost, {}, Pending, {}),
             Typed(disk, U, files, lost),
             U[k] # NULL, U[k].name = w.path, U[k].sector = w.sector, IsKind(w.sector, "hdr"),
             table' = U, files' = [files EXCEPT ![f] = Handle(w.path, w.sector)],
             op' = [op EXCEPT ![t] = Idle], UNCHANGED <<disk, crashed, lost>>
      PROVE  FSInv'
  <2>1. PICK h : h = Handle(w.path, w.sector)
    OBVIOUS
  <2>2. h = [path |-> U[k].name, sector |-> U[k].sector, hdr |-> disk[U[k].sector]]
    BY <1>6, <2>1 DEF Handle
  <2>3. \A g \in Fid : files'[g] = IF g = f THEN h ELSE files[g]
    <3>1. files \in [Fid -> OpenFiles \cup {NULL}]
      BY <1>3 DEF Typed
    <3> QED BY <1>6, <2>1, <3>1
  <2>4. DiskInv(disk, U, files', lost, {}, Pending, {})
    <3>1. /\ Typed(disk, U, files, lost) /\ DiskInv(disk, U, files, lost, {}, Pending, {})
          /\ U[k] # NULL
      BY <1>6
    <3>2. files[f] = NULL
      BY <1>4
    <3>3. PICK G : G = files'
      OBVIOUS
    <3>4. \A g \in Fid : G[g] = IF g = f THEN h ELSE files[g]
      BY <2>3, <3>3
    <3>5. DiskInv(disk, U, G, lost, {}, Pending, {})
      BY <2>2, <3>1, <3>2, <3>4, HandleGiven
    <3> QED BY <3>3, <3>5
  <2>5. DiskInv(disk, table', files', lost', Victims, Pending, Dropped)
    BY <1>3, <1>6, <2>4
  <2> QED BY <1>3, <1>5, <1>6, <2>5, TableMove
<1>7. CASE w.todo = <<>>
  <2>1. PICK k \in Slot : table[k] # NULL /\ table[k].name = w.path /\ table[k].sector = w.sector
    BY <1>3, <1>7 DEF TableAgrees, Hit, Used
  <2>2. IsKind(w.sector, "hdr")
    <3>1. HdrAt(disk, table[k].sector)
      BY <1>3, <2>1, InvIs
    <3> QED BY <2>1, <3>1 DEF HdrAt, IsKind
  <2>3. /\ table' = table /\ files' = [files EXCEPT ![f] = Handle(w.path, w.sector)]
        /\ op' = [op EXCEPT ![t] = Idle] /\ UNCHANGED <<disk, crashed, lost>>
    BY <1>2, <1>4, <1>7, <2>2 DEF NewFile, Return, Goto
  <2> QED BY <1>3, <1>6, <2>1, <2>2, <2>3
<1>8. CASE w.todo # <<>>
  <2>1. NotOpen(w.path) /\ nbentry # -1
    BY <1>3, <1>8 DEF TableAgrees
  <2>2. /\ InDir(disk, w) /\ Found(disk, w) /\ w.hdr = disk[w.sector] /\ ~w.hdr.isdir
    <3>1. w.pc = "newfile"
      BY <1>1, <1>2
    <3> QED BY <1>3, <1>8, <3>1 DEF Opening
  <2>3. NamedAt(disk, w.cur, w.todo[1], w.sector) /\ Leads(disk, w.path, w.cur, w.todo[1])
    BY <2>2 DEF InDir, AtDir, Found
  <2>4. HdrAt(disk, w.sector) /\ w.sector \in Sector /\ disk[w.sector] \in FileHeaders
    <3>1. w.sector \in Heads(disk, table)
      BY <1>3, <2>3, NamesAre
    <3>2. HdrAt(disk, w.sector)
      BY <1>3, <3>1, InvIs
    <3> QED BY <1>3, <3>2, DiskTyped
  <2>5. IsKind(w.sector, "hdr")
    BY <2>4 DEF HdrAt, IsKind
  <2>6. PICK k \in Slot : k = nbentry /\ table[k] = NULL
    BY <1>3, <2>1
  <2>7. PICK e : e = NewEntry(w.path, w.sector, disk[w.sector])
    OBVIOUS
  <2>8. PICK U : U = [table EXCEPT ![k] = e]
    OBVIOUS
  <2>9. /\ table' = U /\ files' = [files EXCEPT ![f] = Handle(w.path, w.sector)]
        /\ op' = [op EXCEPT ![t] = Idle] /\ UNCHANGED <<disk, crashed, lost>>
    <3>1. table' = U
      BY <1>2, <1>8, <2>1, <2>2, <2>5, <2>6, <2>7, <2>8 DEF NewFile
    <3>2. /\ files' = [files EXCEPT ![f] = Handle(w.path, w.sector)]
          /\ op' = [op EXCEPT ![t] = Idle] /\ UNCHANGED <<disk, crashed, lost>>
      BY <1>2, <1>4, <2>1, <2>5 DEF NewFile, Return, Goto
    <3> QED BY <3>1, <3>2
  <2>10. table \in [Slot -> OFTEntries \cup {NULL}]
    BY <1>3 DEF Typed
  <2>11. e \in OFTEntries /\ e.name = w.path /\ e.sector = w.sector /\ e # NULL
    <3>1. e \in OFTEntries
      BY <1>3, <2>4, <2>7 DEF NewEntry, OFTEntries
    <3> QED BY <2>7, <3>1, EntriesTyped DEF NewEntry
  <2>12. \A i \in Slot : U[i] = IF i = k THEN e ELSE table[i]
    BY <2>8, <2>10
  <2>13. U \in [Slot -> OFTEntries \cup {NULL}]
    BY <2>8, <2>10, <2>11
  <2>14. Typed(disk, U, files, lost)
    BY <1>3, <2>13 DEF Typed
  <2>15. \A i \in Slot : table[i] # NULL => table[i].name # w.path
    BY <2>1 DEF NotOpen, Used
  <2>16. ~disk[w.sector].isdir
    BY <2>2
  <2>17. DiskInv(disk, U, files, lost, {}, Pending, {})
    BY <1>3, <2>3, <2>6, <2>7, <2>12, <2>15, <2>16, EntryMade
  <2>18. U[k] # NULL /\ U[k].name = w.path /\ U[k].sector = w.sector
    BY <2>11, <2>12
  <2> QED BY <1>6, <2>5, <2>9, <2>14, <2>17, <2>18
<1> QED BY <1>7, <1>8

-----------------------------------------------------------------------------
(* The map is read *)

\* A call that reads the map.
LEMMA MapReader ==
  ASSUME FSInv, NEW t \in Thread, op[t].pc = "map"
  PROVE  /\ Busy(t) /\ op[t] \in Ops /\ Silent(op[t]) /\ TableAgrees(op[t]) /\ CountInv
         /\ op[t].call \in {"create", "mkdir", "rmdir", "fsremove", "write", "close"}
         /\ op[t].call \in {"create", "mkdir", "rmdir", "fsremove"} => op[t].todo[1] \in Name
         /\ op[t].call \in {"write", "close"} => op[t].fid \in Fid
         /\ DiskInv(disk, table, files, lost, {}, {}, {}) /\ Typed(disk, table, files, lost)
         /\ disk \in [Sector -> Blocks] /\ Good(disk, Heads(disk, table), {})
         /\ CallOK(disk, table, files, lost, op[t])
         /\ IsKind(MapData, "map") /\ UsedIn(disk) = disk[MapData].used
         /\ UsedIn(disk) \subseteq Sector
<1>1. Silent(op[t]) /\ CountInv
  BY SilentCalls DEF FSInv
<1>2. /\ Busy(t) /\ op[t] \in Ops
      /\ op[t].call \in {"create", "mkdir", "rmdir", "fsremove"} => Len(op[t].todo) \in {1, 2}
      /\ op[t].call \in {"write", "close"} => op[t].fid \in Fid
      /\ op[t].call \in {"create", "mkdir", "rmdir", "fsremove", "write", "close"}
  BY <1>1, Writer
<1>3. /\ DiskInv(disk, table, files, lost, {}, Pending, {}) /\ Typed(disk, table, files, lost)
      /\ disk \in [Sector -> Blocks] /\ Good(disk, Heads(disk, table), {})
      /\ CallOK(disk, table, files, lost, op[t]) /\ Pending = {}
  <2>1. op[t].call # "open"
    BY <1>2
  <2> QED BY <1>1, <1>2, <2>1, Reader
<1>4. op[t].call \in {"create", "mkdir", "rmdir", "fsremove"} => op[t].todo[1] \in Name
  BY <1>2, FirstName
<1>5. TableAgrees(op[t])
  BY <1>1 DEF CountInv, CallsAgree
<1>6. FixedOK(disk)
  BY <1>3 DEF Good
<1>7. IsKind(MapData, "map") /\ UsedIn(disk) = disk[MapData].used
  BY <1>6, Sectors DEF FixedOK, IsKind, UsedIn, System
<1>8. UsedIn(disk) \subseteq Sector
  BY <1>3, <1>6, FixedIs
<1> QED BY <1>1, <1>2, <1>3, <1>4, <1>5, <1>7, <1>8

\* Create and Mkdir choose sectors that nothing has.
LEMMA NewSectorsKeep ==
  ASSUME FSInv, CountInv', NEW t \in Thread, op[t].pc = "map", op[t].call \in {"create", "mkdir"},
         NEW n \in Nat, NEW isdir \in BOOLEAN, isdir <=> op[t].call = "mkdir", isdir => n = 1,
         NewFileSectors(t, UsedIn(disk), n, isdir)
  PROVE  FSInv'
<1>1. PICK w : w = op[t]
  OBVIOUS
<1>2. /\ Busy(t) /\ w \in Ops /\ Silent(op[t]) /\ w.todo[1] \in Name
      /\ disk \in [Sector -> Blocks] /\ Good(disk, Heads(disk, table), {})
      /\ CallOK(disk, table, files, lost, w) /\ UsedIn(disk) \subseteq Sector
  BY <1>1, MapReader
<1>3. Making(disk, w)
  BY <1>1, <1>2, WritePlaces
<1>4. InDir(disk, w) /\ w.tab = TabAt(disk, w.cur) /\ IsNew(disk, w)
  BY <1>1, <1>3 DEF Making
<1>5. PICK used : used = UsedIn(disk)
  OBVIOUS
<1>6. PICK s : s = Find(used)
  OBVIOUS
<1>7. PICK u : u = used \cup {s}
  OBVIOUS
<1>8. PICK secs : secs = Allocate(u, n)
  OBVIOUS
<1>9. CASE s = -1 \/ ~HasSpace(w.tab) \/ ~CanAllocate(u, n)
  <2>1. Fail(t)
    BY <1>1, <1>5, <1>6, <1>7, <1>9 DEF NewFileSectors
  <2> QED BY <1>2, <2>1, FailKeeps
<1>10. CASE ~(s = -1 \/ ~HasSpace(w.tab) \/ ~CanAllocate(u, n))
  <2>1. s \in Sector \ used
    BY <1>6, <1>10, FindSector DEF Clear
  <2>2. CanAllocate(u, n)
    BY <1>10
  <2>3. /\ secs \in Seq(Sector) /\ Len(secs) = n /\ Range(secs) \subseteq Clear(u)
        /\ \A i, j \in DOMAIN secs : secs[i] = secs[j] => i = j
    BY <1>8, <2>2, AllocateFinds
  <2>4. Injective(secs)
    BY <2>3 DEF Injective
  <2>5. Range(secs) \cap used = {} /\ s \notin Range(secs) /\ Range(secs) \subseteq Sector
    BY <1>7, <2>3 DEF Clear
  <2>6. PICK tab : tab = AddName(w.tab, w.todo[1], s)
    OBVIOUS
  <2>7. tab \in Tabs
    <3>1. w.tab \in Tabs
      BY <1>2 DEF Ops
    <3> QED BY <1>2, <2>1, <2>6, <3>1, AddNameIs
  <2>8. PICK h \in FileHeaders : h = Header(isdir, secs)
    BY <2>3, HeaderTyped
  <2>9. PICK m \in SUBSET Sector : m = u \cup Range(secs)
    BY <1>2, <1>5, <1>7, <2>1, <2>5
  <2>10. PICK o \in Ops : o = [w EXCEPT !.pc = "whdr", !.sector = s, !.tab = tab, !.hdr = h, !.map = m]
    <3>1. Sector \subseteq Int
      BY Sectors
    <3>2. s \in Int
      BY <2>1, <3>1
    <3> QED BY <1>2, <2>7, <2>8, <2>9, <3>2 DEF Ops, Pcs
  <2>11. /\ o.call = w.call /\ o.pc = "whdr" /\ o.path = w.path /\ o.cur = w.cur /\ o.sector = s
         /\ o.dirfile = w.dirfile /\ o.todo = w.todo /\ o.tab = tab /\ o.hdr = h /\ o.map = m
    BY <1>2, <2>10 DEF Ops
  <2>12. Goto(t, o) /\ OnlyLocal
    BY <1>1, <1>5, <1>6, <1>7, <1>8, <1>10, <2>6, <2>8, <2>9, <2>10 DEF NewFileSectors
  <2>13. InDir(disk, o)
    BY <1>4, <2>11 DEF InDir, AtDir
  <2>14. IsNew(disk, o) /\ Adds(disk, o)
    <3>1. IsNew(disk, o)
      BY <1>4, <2>11 DEF IsNew
    <3> QED BY <1>4, <2>6, <2>11, <3>1 DEF Adds
  <2>15. h.secs = secs /\ (h.isdir <=> isdir)
    BY <2>8 DEF Header
  <2>16. isdir => secs # <<>>
    <3>1. isdir => Len(secs) \in {1, 2}
      BY <2>3
    <3> QED BY <3>1, NotEmpty
  <2>17. NewSectors(disk, o)
    <3>1. o.sector \in Sector \ UsedIn(disk)
      BY <1>5, <2>1, <2>11
    <3>2. Range(o.hdr.secs) \cap UsedIn(disk) = {} /\ o.sector \notin Range(o.hdr.secs)
      BY <1>5, <2>5, <2>11, <2>15
    <3>3. Injective(o.hdr.secs)
      BY <2>4, <2>11, <2>15
    <3>4. o.map = UsedIn(disk) \cup {o.sector} \cup Range(o.hdr.secs)
      BY <1>5, <1>7, <2>9, <2>11, <2>15
    <3>5. (o.hdr.isdir <=> o.call = "mkdir") /\ (o.call = "mkdir" => o.hdr.secs # <<>>)
      BY <1>1, <2>11, <2>15, <2>16
    <3> QED BY <3>1, <3>2, <3>3, <3>4, <3>5 DEF NewSectors
  <2>18. Making(disk, o)
    BY <2>11, <2>13, <2>14, <2>17 DEF Making
  <2>19. CallOK(disk, table, files, lost, o)
    BY <1>1, <2>11, <2>18 DEF CallOK
  <2>20. Silent(o)
    BY <1>1, <2>11, SilentCalls
  <2> QED BY <1>2, <2>12, <2>19, <2>20, GotoKeeps
<1> QED BY <1>9, <1>10

\* FileSystem::Remove and Rmdir give marked sectors back.
LEMMA FreeFileKeeps ==
  ASSUME FSInv, CountInv', NEW t \in Thread, op[t].pc = "map", op[t].call \in {"rmdir", "fsremove"},
         FreeFileSectors(t, UsedIn(disk))
  PROVE  FSInv'
<1>1. PICK w : w = op[t]
  OBVIOUS
<1>2. /\ Busy(t) /\ w \in Ops /\ Silent(op[t]) /\ w.todo[1] \in Name
      /\ DiskInv(disk, table, files, lost, {}, {}, {}) /\ Typed(disk, table, files, lost)
      /\ disk \in [Sector -> Blocks] /\ Good(disk, Heads(disk, table), {})
      /\ CallOK(disk, table, files, lost, w) /\ UsedIn(disk) \subseteq Sector
  BY <1>1, MapReader
<1>3. Removing(disk, w)
  BY <1>1, <1>2, WritePlaces
<1>4. /\ InDir(disk, w) /\ Found(disk, w) /\ w.tab = TabAt(disk, w.cur) /\ w.hdr = disk[w.sector]
      /\ Doomed(disk, w)
  BY <1>1, <1>3 DEF Removing
<1>5. w.sector \in Heads(disk, table)
  BY <1>2, <1>4, NamesAre DEF Found
<1>6. HdrAt(disk, w.sector) /\ SecsAt(disk, w.sector) \subseteq UsedIn(disk)
  BY <1>2, <1>5, InvIs, InUseIs
<1>7. SecsAt(disk, w.sector) = {w.sector} \cup Range(w.hdr.secs)
  BY <1>4, <1>6 DEF SecsAt
<1>8. CanDeallocate(UsedIn(disk), w.hdr)
  BY <1>6, <1>7 DEF CanDeallocate
<1>9. PICK tab \in Tabs : tab = RemoveName(w.tab, w.todo[1])
  <2>1. w.tab \in Tabs
    BY <1>2 DEF Ops
  <2> QED BY <2>1, RemoveNameIs
<1>10. PICK m \in SUBSET Sector : m = Deallocate(UsedIn(disk), w.hdr) \ {w.sector}
  BY <1>2 DEF Deallocate
<1>11. m = UsedIn(disk) \ SecsAt(disk, w.sector)
  BY <1>7, <1>10 DEF Deallocate
<1>12. PICK o \in Ops : o = [w EXCEPT !.pc = "wmap", !.map = m, !.tab = tab]
  BY <1>2, <1>9, <1>10 DEF Ops, Pcs
<1>13. /\ o.call = w.call /\ o.pc = "wmap" /\ o.path = w.path /\ o.cur = w.cur
       /\ o.sector = w.sector
       /\ o.dirfile = w.dirfile /\ o.todo = w.todo /\ o.tab = tab /\ o.hdr = w.hdr /\ o.map = m
  BY <1>2, <1>12 DEF Ops
<1>14. Goto(t, o) /\ OnlyLocal
  BY <1>1, <1>8, <1>9, <1>10, <1>12 DEF FreeFileSectors
<1>15. InDir(disk, o) /\ Found(disk, o) /\ Doomed(disk, o)
  BY <1>4, <1>13 DEF InDir, AtDir, Found, Doomed
<1>16. Removing(disk, o)
  BY <1>4, <1>9, <1>11, <1>13, <1>15 DEF Removing
<1>17. CallOK(disk, table, files, lost, o)
  BY <1>1, <1>13, <1>16 DEF CallOK
<1>18. Silent(o)
  BY <1>1, <1>13, SilentCalls
<1> QED BY <1>2, <1>14, <1>17, <1>18, GotoKeeps

\* The destructor of an entry gives back marked sectors.
LEMMA FreeEntryKeeps ==
  ASSUME FSInv, CountInv', NEW t \in Thread, op[t].pc = "map", op[t].call = "close",
         FreeEntrySectors(t, UsedIn(disk))
  PROVE  FSInv'
<1>1. PICK w : w = op[t]
  OBVIOUS
<1>2. /\ Busy(t) /\ w \in Ops /\ Silent(op[t]) /\ TableAgrees(w)
      /\ DiskInv(disk, table, files, lost, {}, {}, {}) /\ Typed(disk, table, files, lost)
      /\ UsedIn(disk) \subseteq Sector
  BY <1>1, MapReader
<1>3. w.sector \in Slot /\ table[w.sector] # NULL
  BY <1>1, <1>2 DEF TableAgrees, Used
<1>4. PICK e : e = table[w.sector]
  OBVIOUS
<1>5. EntryOK(disk, lost, {}, e) /\ e.sector \in Heads(disk, table)
  BY <1>2, <1>3, <1>4, InvIs
<1>6. HdrAt(disk, e.sector) /\ Range(e.file.secs) \subseteq Range(disk[e.sector].secs)
  BY <1>5 DEF EntryOK
<1>7. SecsAt(disk, e.sector) \subseteq UsedIn(disk)
  BY <1>2, <1>5, InUseIs
<1>8. CanDeallocate(UsedIn(disk), e.file)
  BY <1>6, <1>7 DEF CanDeallocate, SecsAt
<1>9. PICK m \in SUBSET Sector : m = Deallocate(UsedIn(disk), e.file) \ {e.sector}
  BY <1>2 DEF Deallocate
<1>10. m = UsedIn(disk) \ ({table[w.sector].sector} \cup Range(table[w.sector].file.secs))
  BY <1>4, <1>9 DEF Deallocate
<1>11. PICK o \in Ops : o = [w EXCEPT !.pc = "wmap", !.map = m]
  BY <1>2, <1>9 DEF Ops, Pcs
<1>12. /\ o.call = w.call /\ o.pc = "wmap" /\ o.sector = w.sector /\ o.map = m
  BY <1>2, <1>11 DEF Ops
<1>13. Goto(t, o) /\ OnlyLocal
  BY <1>1, <1>4, <1>8, <1>9, <1>11 DEF FreeEntrySectors
<1>14. Freeing(disk, table, o)
  BY <1>10, <1>12 DEF Freeing
<1>15. CallOK(disk, table, files, lost, o)
  BY <1>1, <1>12, <1>14 DEF CallOK
<1>16. Silent(o)
  BY <1>1, <1>12, SilentCalls
<1> QED BY <1>2, <1>13, <1>15, <1>16, GotoKeeps

\* A sequence of one element.
LEMMA OneOnly ==
  ASSUME NEW S, NEW q \in Seq(S), Len(q) = 1
  PROVE  \E x \in S : q = <<x>> /\ Range(q) = {x}
<1>1. \A n : n = 1 => 1 \in 1..n
  OBVIOUS
<1>2. q[1] \in S
  BY <1>1, SeqRange
<1>3. PICK x \in S : x = q[1]
  BY <1>2
<1>4. q \in [1..1 -> S]
  BY LenProperties
<1>5. <<x>> \in [1..1 -> S] /\ <<x>>[1] = x
  OBVIOUS
<1>6. q = <<x>>
  <2>1. \A i \in 1..1 : i = 1
    OBVIOUS
  <2>2. \A i \in 1..1 : q[i] = <<x>>[i]
    BY <1>3, <1>5, <2>1
  <2> QED BY <1>4, <1>5, <2>2
<1>7. Range(<<x>>) = {x}
  BY DEF Range
<1> QED BY <1>6, <1>7

\* A handle grows by a sector that nothing has.
LEMMA GrowKeeps ==
  ASSUME FSInv, CountInv', NEW t \in Thread, Grow(t)
  PROVE  FSInv'
<1>1. /\ op[t].call = "write" /\ op[t].pc = "map"
      /\ CanAllocate(disk[MapData].used, 1) /\ GrowSectors(t, disk[MapData].used)
  BY DEF Grow
<1>2. PICK w : w = op[t]
  OBVIOUS
<1>3. /\ Busy(t) /\ w \in Ops /\ TableAgrees(w) /\ CountInv
      /\ w.fid \in Fid
      /\ DiskInv(disk, table, files, lost, {}, {}, {}) /\ Typed(disk, table, files, lost)
      /\ CallOK(disk, table, files, lost, w)
      /\ UsedIn(disk) = disk[MapData].used /\ UsedIn(disk) \subseteq Sector
  BY <1>1, <1>2, MapReader
<1>4. PICK f \in Fid : f = w.fid
  BY <1>3
<1>5. files[f] # NULL
  BY <1>1, <1>2, <1>3, <1>4 DEF TableAgrees
<1>6. Writing(disk, files, lost, w)
  BY <1>1, <1>2, <1>3, WritePlaces
<1>7. w.sector = files[f].sector /\ w.hdr = files[f].hdr
  BY <1>4, <1>6 DEF Writing
<1>8. files[f] \in OpenFiles /\ files[f].hdr.secs \in Seq(Sector)
  BY <1>3, <1>5, InvIs
<1>9. PICK used : used = UsedIn(disk)
  OBVIOUS
<1>10. PICK more \in Seq(Sector) : more = Allocate(used, 1) /\ Len(more) = 1 /\ Range(more) \subseteq Clear(used)
  BY <1>1, <1>3, <1>9, AllocateFinds
<1>11. PICK x \in Sector : more = <<x>> /\ Range(more) = {x}
  BY <1>10, OneOnly
<1>12. x \in Sector \ UsedIn(disk)
  BY <1>9, <1>10, <1>11 DEF Clear
<1>13. PICK q \in Seq(Sector) : q = w.hdr.secs \o <<x>>
  <2>1. w.hdr.secs \in Seq(Sector)
    BY <1>7, <1>8
  <2>2. w.hdr.secs \o more \in Seq(Sector)
    BY <1>10, <2>1, ConcatProperties
  <2> QED BY <1>11, <2>2
<1>14. q = Append(w.hdr.secs, x)
  BY <1>7, <1>8, <1>13
<1>15. LastOf(q) = x /\ q # <<>>
  BY <1>7, <1>8, <1>14, OneSectorMore
<1>16. PICK h \in FileHeaders : h = Header(FALSE, q)
  BY HeaderTyped
<1>17. h.secs = q
  BY <1>16 DEF Header
<1>18. PICK m \in SUBSET Sector : m = used \cup {x}
  BY <1>3, <1>9, <1>11
<1>19. PICK o \in Ops : o = [w EXCEPT !.pc = "whdr", !.hdr = h, !.map = m]
  BY <1>3, <1>16, <1>18 DEF Ops, Pcs
<1>20. /\ o.call = w.call /\ o.pc = "whdr" /\ o.fid = w.fid /\ o.sector = w.sector /\ o.hdr = h
       /\ o.map = m
  BY <1>3, <1>19 DEF Ops
<1>21. /\ op' = [op EXCEPT ![t] = o]
       /\ files' = [files EXCEPT ![f].hdr = h]
       /\ lost' = lost \cup {x}
       /\ UNCHANGED <<disk, table, crashed>>
  <2>1. op' = [op EXCEPT ![t] = o]
    <3>1. GrowSectors(t, used) /\ CanAllocate(used, 1)
      BY <1>1, <1>3, <1>9
    <3>2. op' = [op EXCEPT ![t] = [w EXCEPT !.pc = "whdr",
                                            !.hdr = Header(FALSE, w.hdr.secs \o more),
                                            !.map = used \cup Range(more)]]
      BY <1>2, <1>10, <3>1 DEF GrowSectors, Goto
    <3>3. Header(FALSE, w.hdr.secs \o more) = h /\ used \cup Range(more) = m
      BY <1>11, <1>13, <1>16, <1>18
    <3> QED BY <1>19, <3>2, <3>3
  <2>2. files' = [files EXCEPT ![f].hdr = h]
    BY <1>1, <1>2, <1>3, <1>4, <1>9, <1>10, <1>11, <1>13, <1>16 DEF GrowSectors
  <2>3. lost' = lost \cup {x} /\ UNCHANGED <<disk, table, crashed>>
    BY <1>1, <1>2, <1>3, <1>9, <1>10, <1>11 DEF GrowSectors
  <2> QED BY <2>1, <2>2, <2>3
<1>22. PICK e : e = [files[f] EXCEPT !.hdr = h]
  OBVIOUS
<1>23. e.path = files[f].path /\ e.sector = files[f].sector /\ e.hdr = h
  BY <1>8, <1>22 DEF OpenFiles
<1>24. PICK G : G = files'
  OBVIOUS
<1>25. \A g \in Fid : G[g] = IF g = f THEN e ELSE files[g]
  <2>1. files \in [Fid -> OpenFiles \cup {NULL}]
    BY <1>3 DEF Typed
  <2> QED BY <1>21, <1>22, <1>24, <2>1
<1>26. e.hdr = Header(FALSE, files[f].hdr.secs \o <<x>>)
  BY <1>7, <1>13, <1>16, <1>23
<1>27. DiskInv(disk, table, G, lost \cup {x}, {}, {x}, {})
  <2>1. Typed(disk, table, files, lost) /\ DiskInv(disk, table, files, lost, {}, {}, {})
    BY <1>3
  <2>2. OneMoreSector(disk, files, G, f, e, x)
    BY <1>5, <1>12, <1>23, <1>25, <1>26 DEF OneMoreSector
  <2> QED BY <2>1, <2>2, HandleGrown
<1>28. VictimOf(o) = {} /\ PendingOf(o) = {x} /\ DroppedBy(o) = {}
  BY <1>1, <1>2, <1>15, <1>17, <1>20 DEF VictimOf, PendingOf, DroppedBy
<1>29. DiskInv(disk', table', files', lost', VictimOf(o), PendingOf(o), DroppedBy(o))
  BY <1>21, <1>24, <1>27, <1>28
<1>30. Writing(disk, files', lost', o)
  <2>1. o.sector = files'[o.fid].sector /\ o.hdr = files'[o.fid].hdr
    BY <1>4, <1>7, <1>20, <1>23, <1>24, <1>25
  <2>2. o.hdr.secs # <<>> /\ LastOf(o.hdr.secs) = x
    BY <1>15, <1>17, <1>20
  <2>3. x \in lost' /\ o.map = UsedIn(disk) \cup {x}
    BY <1>9, <1>18, <1>20, <1>21
  <2> QED BY <1>12, <1>20, <2>1, <2>2, <2>3 DEF Writing
<1>31. CallOK(disk', table', files', lost', o)
  BY <1>1, <1>2, <1>20, <1>21, <1>30 DEF CallOK
<1>32. \A u \in Thread : u # t => op[u] = Idle
  BY <1>1, <1>3, NotCreateIsAlone
<1>33. \A u \in Thread : u # t => Silent(op[u]) /\ CallOK(disk', table', files', lost', op[u])
  BY <1>32, IdleOthers
<1>34. ~crashed'
  BY <1>21 DEF FSInv
<1> QED BY <1>21, <1>29, <1>31, <1>33, <1>34, SoleStep

\* The map is read.
LEMMA MapKeeps ==
  ASSUME FSInv, CountInv', NEW t \in Thread, FetchMap(t)
  PROVE  FSInv'
<1>1. op[t].pc = "map"
  BY DEF FetchMap, At
<1>2. /\ op[t] \in Ops /\ Silent(op[t]) /\ IsKind(MapData, "map") /\ UsedIn(disk) = disk[MapData].used
      /\ op[t].call \in {"create", "mkdir", "rmdir", "fsremove", "write", "close"}
  BY <1>1, MapReader
<1>3. CASE op[t].call = "create"
  <2>1. NewFileSectors(t, UsedIn(disk), op[t].size, FALSE)
    BY <1>2, <1>3 DEF FetchMap
  <2>2. op[t].size \in Nat
    BY <1>2 DEF Ops
  <2> QED BY <1>1, <1>3, <2>1, <2>2, NewSectorsKeep
<1>4. CASE op[t].call = "mkdir"
  <2>1. NewFileSectors(t, UsedIn(disk), 1, TRUE)
    BY <1>2, <1>4 DEF FetchMap
  <2>2. 1 \in Nat /\ TRUE \in BOOLEAN
    OBVIOUS
  <2> QED BY <1>1, <1>4, <2>1, <2>2, NewSectorsKeep
<1>5. CASE op[t].call \in {"rmdir", "fsremove"}
  <2>1. FreeFileSectors(t, UsedIn(disk))
    BY <1>2, <1>5 DEF FetchMap
  <2> QED BY <1>1, <1>5, <2>1, FreeFileKeeps
<1>6. CASE op[t].call = "close"
  <2>1. FreeEntrySectors(t, UsedIn(disk))
    BY <1>2, <1>6 DEF FetchMap
  <2> QED BY <1>1, <1>6, <2>1, FreeEntryKeeps
<1>7. CASE op[t].call = "write"
  <2>1. GrowSectors(t, UsedIn(disk))
    BY <1>2, <1>7 DEF FetchMap
  <2>2. CASE CanAllocate(UsedIn(disk), 1)
    <3>1. Grow(t)
      BY <1>1, <1>2, <1>7, <2>1, <2>2 DEF Grow
    <3> QED BY <3>1, GrowKeeps
  <2>3. CASE ~CanAllocate(UsedIn(disk), 1)
    <3>1. Fail(t)
      BY <2>1, <2>3 DEF GrowSectors
    <3> QED BY <1>2, <3>1, FailKeeps
  <2> QED BY <2>2, <2>3
<1> QED BY <1>2, <1>3, <1>4, <1>5, <1>6, <1>7

-----------------------------------------------------------------------------
(* Create and Mkdir write *)

\* A write that is not to the map changes one sector, and ends no close.
LEMMA PutIs ==
  ASSUME NEW t \in Thread, NEW s, NEW what, Write(t, s, what), s # MapData, op[t].call # "close"
  PROVE  /\ disk' = Put(disk, s, what) /\ UNCHANGED <<table, files, lost, crashed>>
         /\ op' = [op EXCEPT ![t] = IF AfterWrite(op[t].call, op[t].pc) = "idle" THEN Idle
                                    ELSE [op[t] EXCEPT !.pc = AfterWrite(op[t].call, op[t].pc)]]
<1>1. Freed(s, what) = {}
  BY DEF Freed
<1>2. disk' = Put(disk, s, what)
  BY <1>1 DEF Write, Put
<1>3. UNCHANGED <<table, files, lost, crashed>>
  BY <1>1 DEF Write
<1> QED BY <1>2, <1>3 DEF Write, Goto

\* A write of the map.
LEMMA RemapIs ==
  ASSUME NEW t \in Thread, NEW u, Write(t, MapData, Map(u))
  PROVE  /\ Remapped(disk, disk', u) /\ lost' = lost \ (UsedIn(disk) \ u) /\ UNCHANGED crashed
         /\ op' = [op EXCEPT ![t] = IF AfterWrite(op[t].call, op[t].pc) = "idle" THEN Idle
                                    ELSE [op[t] EXCEPT !.pc = AfterWrite(op[t].call, op[t].pc)]]
         /\ op[t].call # "close" => UNCHANGED <<table, files>>
         /\ op[t].call = "close" /\ AfterWrite(op[t].call, op[t].pc) = "idle" =>
              /\ table' = [table EXCEPT ![op[t].sector] = NULL]
              /\ files' = [files EXCEPT ![op[t].fid] = NULL]
<1>1. Freed(MapData, Map(u)) = UsedIn(disk) \ u
  BY DEF Freed, Map, UsedIn
<1>2. Remapped(disk, disk', u)
  BY <1>1 DEF Write, Remapped
<1>3. lost' = lost \ (UsedIn(disk) \ u) /\ UNCHANGED crashed
  BY <1>1 DEF Write
<1>4. op' = [op EXCEPT ![t] = IF AfterWrite(op[t].call, op[t].pc) = "idle" THEN Idle
                              ELSE [op[t] EXCEPT !.pc = AfterWrite(op[t].call, op[t].pc)]]
  BY DEF Write, Goto
<1>5. op[t].call # "close" => UNCHANGED <<table, files>>
  BY DEF Write
<1>6. op[t].call = "close" /\ AfterWrite(op[t].call, op[t].pc) = "idle" =>
              /\ table' = [table EXCEPT ![op[t].sector] = NULL]
              /\ files' = [files EXCEPT ![op[t].fid] = NULL]
  BY DEF Write
<1> QED BY <1>2, <1>3, <1>4, <1>5, <1>6

\* A call that is past its reads.
LEMMA WriterIs ==
  ASSUME FSInv, NEW t \in Thread, op[t].pc \in {"newdir", "whdr", "wnew", "wdir", "wmap", "wdata"}
  PROVE  /\ Busy(t) /\ op[t] \in Ops /\ TableAgrees(op[t]) /\ CountInv /\ op[t].path \in Path
         /\ op[t].call # "open"
         /\ \A u \in Thread : u # t => Silent(op[u])
         /\ Victims = VictimOf(op[t]) /\ Pending = PendingOf(op[t]) /\ Dropped = DroppedBy(op[t])
         /\ op[t].call \notin {"open", "create"} =>
              Alone(t) /\ \A u \in Thread : u # t => op[u] = Idle
         /\ DiskInv(disk, table, files, lost, VictimOf(op[t]), PendingOf(op[t]), DroppedBy(op[t]))
         /\ Silent(op[t]) => DiskInv(disk, table, files, lost, {}, {}, {})
         /\ Typed(disk, table, files, lost) /\ disk \in [Sector -> Blocks]
         /\ Good(disk, Heads(disk, table), VictimOf(op[t]))
         /\ CallOK(disk, table, files, lost, op[t]) /\ op \in [Thread -> Ops]
         /\ op[t].call \in {"create", "mkdir", "rmdir", "fsremove", "remove"} => op[t].todo[1] \in Name
         /\ op[t].call \in {"write", "close"} => op[t].fid \in Fid
<1>1. CountInv /\ CallOK(disk, table, files, lost, op[t])
  BY DEF FSInv, CallsOK
<1>2. /\ Busy(t) /\ op[t] \in Ops /\ op[t].path \in Path
      /\ op[t].call \in {"create", "mkdir", "rmdir", "fsremove", "remove"} => Len(op[t].todo) \in {1, 2}
      /\ op[t].call \in {"write", "close"} => op[t].fid \in Fid
      /\ op[t].call # "open"
  BY <1>1, Writer
<1>3. /\ \A u \in Thread : u # t => Silent(op[u])
      /\ Victims = VictimOf(op[t]) /\ Pending = PendingOf(op[t])
      /\ Dropped = DroppedBy(op[t])
  BY <1>1, <1>2, OthersSilent
<1>4. TableAgrees(op[t])
  BY <1>1 DEF CountInv, CallsAgree
<1>5. op[t].call \notin {"open", "create"} =>
         Alone(t) /\ \A u \in Thread : u # t => op[u] = Idle
  BY <1>1, <1>2, NotCreateIsAlone
<1>6. DiskInv(disk, table, files, lost, VictimOf(op[t]), PendingOf(op[t]), DroppedBy(op[t]))
  BY <1>3 DEF FSInv
<1>7. Silent(op[t]) => DiskInv(disk, table, files, lost, {}, {}, {})
  BY <1>6 DEF Silent
<1>8. Typed(disk, table, files, lost) /\ disk \in [Sector -> Blocks] /\ op \in [Thread -> Ops]
  BY <1>1 DEF CountInv, FSTypeOK, Typed
<1>9. Good(disk, Heads(disk, table), VictimOf(op[t]))
  BY <1>6, <1>8, InvIs
<1>10. op[t].call \in {"create", "mkdir", "rmdir", "fsremove", "remove"} => op[t].todo[1] \in Name
  BY <1>2, FirstName
<1> QED BY <1>1, <1>2, <1>3, <1>4, <1>5, <1>6, <1>7, <1>8, <1>9, <1>10

\* While one Create or Mkdir writes, the other calls go on undisturbed.
LEMMA OthersGoOn ==
  ASSUME FSInv, NEW t \in Thread, op[t].pc \in {"newdir", "whdr", "wnew", "wdir", "wmap", "wdata"},
         op[t].call \in {"create", "mkdir"}, NEW E, KeepsFiles(disk, E, Heads(disk, table)),
         NEW M
  PROVE  \A u \in Thread : u # t => Silent(op[u]) /\ CallOK(E, table, files, M, op[u])
<1>1. /\ Busy(t) /\ CountInv /\ Good(disk, Heads(disk, table), VictimOf(op[t]))
      /\ \A u \in Thread : u # t => Silent(op[u])
  BY WriterIs
<1>2. ASSUME NEW u \in Thread, u # t PROVE CallOK(E, table, files, M, op[u])
  <2>1. CallOK(disk, table, files, lost, op[u])
    BY DEF FSInv, CallsOK
  <2>2. CASE op[u] = Idle
    BY <2>2 DEF CallOK
  <2>3. CASE op[u] # Idle
    <3>1. op[u].call \in {"create", "open"} /\ op[t].call \in {"create", "open"}
      BY <1>1, <1>2, <2>3 DEF CountInv, Overlap, Busy
    <3>2. CASE op[u].call = "open"
      BY <1>1, <2>1, <3>2, OpenStays
    <3>3. CASE op[u].call = "create"
      <4>1. createLock = t
        BY <1>1, <3>1 DEF CountInv, Overlap
      <4>2. op[u].pc = "lock"
        BY <1>1, <1>2, <3>3, <4>1 DEF CountInv, Overlap
      <4>3. op[u].todo = Components[op[u].path]
        BY <2>1, <2>3, <4>2 DEF CallOK, Walking, Making, Opening, Removing, Forgetting, Writing, Freeing
      <4> QED BY <3>3, <4>2, <4>3 DEF CallOK
    <3> QED BY <3>1, <3>2, <3>3
  <2> QED BY <2>2, <2>3
<1> QED BY <1>1, <1>2

\* What a call knows of its directory it knows after a write that keeps the
\* names and headers.
LEMMA StaysInDir ==
  ASSUME NEW D, NEW H, NEW V, Good(D, H, V), NEW E, KeepsFiles(D, E, H), NEW o, InDir(D, o)
  PROVE  InDir(E, o)
<1>1. o.cur \in DirsOf(D) /\ Len(o.todo) = 1 /\ Leads(D, o.path, o.cur, o.todo[1])
      /\ o.dirfile = D[o.cur]
  BY DEF InDir, AtDir
<1>2. o.cur \in H \cup {DirectorySector}
  BY <1>1, DirsAre
<1>3. o.cur \in DirsOf(E) /\ E[o.cur] = D[o.cur]
  BY <1>1, <1>2 DEF KeepsFiles
<1>4. Leads(E, o.path, o.cur, o.todo[1])
  BY <1>1 DEF Leads, KeepsFiles
<1> QED BY <1>1, <1>3, <1>4 DEF InDir, AtDir

\* The tree of files is the same: all names and headers are kept.
LEMMA SameTreeKeeps ==
  ASSUME NEW D, NEW E, NEW H, FixedOK(D), FixedOK(E), SameTree(D, E), \A s \in H : E[s] = D[s]
  PROVE  KeepsFiles(D, E, H)
BY DEF FixedOK, SameTree, KeepsFiles

\* A sector that is not marked is written.
LEMMA UnusedWritten ==
  ASSUME NEW D, NEW T, NEW F, NEW L, Typed(D, T, F, L), DiskInv(D, T, F, L, {}, {}, {}),
         NEW b \in Sector \ UsedIn(D), NEW what, NEW E, E = Put(D, b, what)
  PROVE  /\ DiskInv(E, T, F, L, {}, {}, {}) /\ UsedIn(E) = UsedIn(D)
         /\ KeepsFiles(D, E, Heads(D, T))
         /\ E[b] = what /\ \A r \in Sector : r # b => E[r] = D[r]
         /\ \A o : InDir(D, o) => /\ InDir(E, o)
                                  /\ Adds(D, o) => Adds(E, o)
         /\ \A o : NewSectors(D, o) => NewSectors(E, o)
<1>1. PlainSector(D, Heads(D, T), b)
  BY PlainSectors
<1>2. /\ DiskInv(E, T, F, L, {}, {}, {}) /\ SameTree(D, E) /\ UsedIn(E) = UsedIn(D)
      /\ \A s \in Heads(D, T) : E[s] = D[s]
  BY <1>1, DataWritten
<1>3. KeepsFiles(D, E, Heads(D, T))
  BY <1>2, SameTreeKeeps DEF DiskInv
<1>4. E[b] = what /\ \A r \in Sector : r # b => E[r] = D[r]
  BY DEF Put
<1>5. Good(D, Heads(D, T), {})
  BY InvIs
<1>6. ASSUME NEW o, InDir(D, o) PROVE InDir(E, o) /\ (Adds(D, o) => Adds(E, o))
  <2>1. InDir(E, o)
    BY <1>3, <1>5, <1>6, StaysInDir
  <2>2. TabAt(E, o.cur) = TabAt(D, o.cur)
    BY <1>2, <1>6 DEF SameTree, InDir, AtDir
  <2> QED BY <2>1, <2>2 DEF Adds, IsNew
<1>7. \A o : NewSectors(D, o) => NewSectors(E, o)
  BY <1>2 DEF NewSectors
<1> QED BY <1>2, <1>3, <1>4, <1>6, <1>7

\* What a Create or Mkdir has chosen and written.
LEMMA Maker ==
  ASSUME FSInv, NEW t \in Thread, op[t].pc \in {"newdir", "whdr", "wnew", "wdir", "wmap"},
         op[t].call \in {"create", "mkdir"}
  PROVE  /\ op[t] \in Ops /\ Making(disk, op[t]) /\ InDir(disk, op[t]) /\ NewSectors(disk, op[t])
         /\ op[t].pc # "wmap" => Adds(disk, op[t])
         /\ op[t].pc \in {"newdir", "wnew", "wdir", "wmap"} => disk[op[t].sector] = op[t].hdr
         /\ op[t].pc = "wdir" /\ op[t].call = "mkdir" => disk[op[t].hdr.secs[1]] = Dir(Empty)
         /\ op[t].pc = "wmap" => Found(disk, op[t])
         /\ op[t].sector \in Sector /\ op[t].sector # MapData
         /\ op[t].pc # "wmap" => Silent(op[t]) /\ DiskInv(disk, table, files, lost, {}, {}, {})
         /\ System \subseteq UsedIn(disk)
<1>1. op[t] \in Ops /\ CallOK(disk, table, files, lost, op[t])
  BY WriterIs
<1>2. Making(disk, op[t])
  BY <1>1, WritePlaces
<1>3. /\ InDir(disk, op[t]) /\ NewSectors(disk, op[t])
      /\ op[t].pc # "wmap" => Adds(disk, op[t])
      /\ op[t].pc \in {"newdir", "wnew", "wdir", "wmap"} => disk[op[t].sector] = op[t].hdr
      /\ op[t].pc = "wdir" /\ op[t].call = "mkdir" => disk[op[t].hdr.secs[1]] = Dir(Empty)
      /\ op[t].pc = "wmap" => Found(disk, op[t])
  BY <1>2 DEF Making
<1>4. FixedOK(disk) /\ disk \in [Sector -> Blocks]
  BY WriterIs DEF Good
<1>5. System \subseteq UsedIn(disk) /\ MapData \in System
  BY <1>4, FixedIs
<1>6. op[t].sector \in Sector /\ op[t].sector # MapData
  BY <1>3, <1>5 DEF NewSectors
<1>7. op[t].pc # "wmap" => Silent(op[t])
  BY SilentCalls
<1>8. op[t].pc # "wmap" => DiskInv(disk, table, files, lost, {}, {}, {})
  BY <1>7, WriterIs
<1> QED BY <1>1, <1>2, <1>3, <1>5, <1>6, <1>7, <1>8

\* The header of a new file or directory is written.
LEMMA MakeHeaderKeeps ==
  ASSUME FSInv, CountInv', NEW t \in Thread, WriteHeader(t), op[t].call \in {"create", "mkdir"}
  PROVE  FSInv'
<1>1. op[t].pc = "whdr" /\ Write(t, op[t].sector, op[t].hdr)
  BY DEF WriteHeader, At
<1>2. PICK w : w = op[t]
  OBVIOUS
<1>3. /\ w \in Ops /\ InDir(disk, w) /\ NewSectors(disk, w) /\ Adds(disk, w)
      /\ w.sector # MapData /\ DiskInv(disk, table, files, lost, {}, {}, {})
  BY <1>1, <1>2, Maker
<1>4. PICK pc \in Pcs : /\ pc = AfterWrite(w.call, w.pc) /\ pc # "idle"
                        /\ w.call = "create" => pc = "wdir"
                        /\ w.call = "mkdir" => pc = "newdir"
  BY <1>1, <1>2, Writes DEF Pcs
<1>5. PICK o \in Ops : o = [w EXCEPT !.pc = pc]
  BY <1>3 DEF Ops
<1>6. /\ o.call = w.call /\ o.pc = pc /\ o.path = w.path /\ o.cur = w.cur /\ o.sector = w.sector
      /\ o.dirfile = w.dirfile /\ o.todo = w.todo /\ o.tab = w.tab /\ o.hdr = w.hdr /\ o.map = w.map
  BY <1>3, <1>5 DEF Ops
<1>7. /\ disk' = Put(disk, w.sector, w.hdr) /\ UNCHANGED <<table, files, lost, crashed>>
      /\ op' = [op EXCEPT ![t] = o]
  <2>1. op[t].call # "close"
    OBVIOUS
  <2> QED BY <1>1, <1>2, <1>3, <1>4, <1>5, <2>1, PutIs
<1>8. PICK E : E = disk'
  OBVIOUS
<1>9. /\ DiskInv(E, table, files, lost, {}, {}, {})
      /\ KeepsFiles(disk, E, Heads(disk, table))
      /\ E[w.sector] = w.hdr
      /\ InDir(disk, w) => InDir(E, w) /\ (Adds(disk, w) => Adds(E, w))
      /\ NewSectors(disk, w) => NewSectors(E, w)
  <2>1. E = Put(disk, w.sector, w.hdr) /\ w.sector \in Sector \ UsedIn(disk)
    BY <1>3, <1>7, <1>8 DEF NewSectors
  <2>2. Typed(disk, table, files, lost)
    BY <1>1, WriterIs
  <2> QED BY <1>3, <2>1, <2>2, UnusedWritten
<1>10. InDir(E, o) /\ NewSectors(E, o) /\ Adds(E, o) /\ E[o.sector] = o.hdr
  BY <1>3, <1>6, <1>9 DEF InDir, AtDir, NewSectors, Adds, IsNew
<1>11. Making(E, o)
  <2>1. w.call = "create" \/ w.call = "mkdir"
    BY <1>2
  <2> QED BY <1>4, <1>6, <1>10, <2>1 DEF Making
<1>12. CallOK(disk', table', files', lost', o)
  BY <1>2, <1>6, <1>7, <1>8, <1>11 DEF CallOK
<1>13. VictimOf(o) = {} /\ PendingOf(o) = {} /\ DroppedBy(o) = {}
  BY <1>2, <1>4, <1>6 DEF VictimOf, PendingOf, DroppedBy
<1>14. DiskInv(disk', table', files', lost', VictimOf(o), PendingOf(o), DroppedBy(o))
  BY <1>7, <1>8, <1>9, <1>13
<1>15. \A u \in Thread : u # t => Silent(op[u]) /\ CallOK(disk', table', files', lost', op[u])
  <2>1. \A u \in Thread : u # t => Silent(op[u]) /\ CallOK(E, table, files, lost, op[u])
    BY <1>1, <1>9, OthersGoOn
  <2> QED BY <1>7, <1>8, <2>1
<1>16. ~crashed'
  BY <1>7 DEF FSInv
<1> QED BY <1>7, <1>12, <1>14, <1>15, <1>16, SoleStep

\* Mkdir reads the header of the new directory back.
LEMMA NewDirKeeps ==
  ASSUME FSInv, CountInv', NEW t \in Thread, OpenNewDir(t)
  PROVE  FSInv'
<1>1. op[t].pc = "newdir"
  BY DEF OpenNewDir, At
<1>2. PICK w : w = op[t]
  OBVIOUS
<1>3. w.call = "mkdir"
  BY <1>1, <1>2, Writer DEF FSInv
<1>4. /\ w \in Ops /\ InDir(disk, w) /\ NewSectors(disk, w) /\ Adds(disk, w) /\ Silent(op[t])
      /\ w.sector \in Sector /\ disk[w.sector] = w.hdr
  BY <1>1, <1>2, <1>3, Maker
<1>5. w.hdr \in FileHeaders
  BY <1>4 DEF Ops
<1>6. IsKind(w.sector, "hdr")
  BY <1>4, <1>5 DEF FileHeaders, IsKind
<1>7. PICK o \in Ops : o = [w EXCEPT !.pc = "wnew", !.hdr = w.hdr]
  BY <1>4, <1>5 DEF Ops, Pcs
<1>8. /\ o.call = w.call /\ o.pc = "wnew" /\ o.path = w.path /\ o.cur = w.cur /\ o.sector = w.sector
      /\ o.dirfile = w.dirfile /\ o.todo = w.todo /\ o.tab = w.tab /\ o.hdr = w.hdr /\ o.map = w.map
  BY <1>4, <1>7 DEF Ops
<1>9. Goto(t, o) /\ OnlyLocal
  BY <1>2, <1>4, <1>6, <1>7 DEF OpenNewDir
<1>10. InDir(disk, o) /\ NewSectors(disk, o) /\ Adds(disk, o) /\ disk[o.sector] = o.hdr
  BY <1>4, <1>8 DEF InDir, AtDir, NewSectors, Adds, IsNew
<1>11. Making(disk, o)
  BY <1>8, <1>10 DEF Making
<1>12. CallOK(disk, table, files, lost, o)
  BY <1>3, <1>8, <1>11 DEF CallOK
<1>13. Silent(o)
  BY <1>8, SilentCalls
<1> QED BY <1>4, <1>9, <1>12, <1>13, GotoKeeps

\* Mkdir writes the empty directory.
LEMMA WriteNewDirKeeps ==
  ASSUME FSInv, CountInv', NEW t \in Thread, WriteNewDir(t)
  PROVE  FSInv'
<1>1. op[t].pc = "wnew" /\ Write(t, DataOf(op[t].hdr), Dir(Empty))
  BY DEF WriteNewDir, At
<1>2. PICK w : w = op[t]
  OBVIOUS
<1>3. w.call = "mkdir"
  BY <1>1, <1>2, Writer DEF FSInv
<1>4. /\ w \in Ops /\ InDir(disk, w) /\ NewSectors(disk, w) /\ Adds(disk, w)
      /\ disk[w.sector] = w.hdr /\ DiskInv(disk, table, files, lost, {}, {}, {})
      /\ System \subseteq UsedIn(disk) /\ w.sector \in Sector
  BY <1>1, <1>2, <1>3, Maker
<1>5. PICK b \in Sector : b = DataOf(w.hdr) /\ b \in Range(w.hdr.secs)
  <2>1. w.hdr.secs \in Seq(Sector) /\ w.hdr.secs # <<>>
    BY <1>3, <1>4 DEF Ops, FileHeaders, NewSectors
  <2>2. w.hdr.secs[1] \in Range(w.hdr.secs) /\ Range(w.hdr.secs) \subseteq Sector
    BY <2>1, SeqRange
  <2> QED BY <2>2 DEF DataOf
<1>6. b \notin UsedIn(disk) /\ b # w.sector /\ b # MapData
  <2>1. MapData \in System
    BY DEF System
  <2> QED BY <1>4, <1>5, <2>1 DEF NewSectors
<1>7. PICK o \in Ops : o = [w EXCEPT !.pc = "wdir"]
  BY <1>4 DEF Ops, Pcs
<1>8. /\ o.call = w.call /\ o.pc = "wdir" /\ o.path = w.path /\ o.cur = w.cur /\ o.sector = w.sector
      /\ o.dirfile = w.dirfile /\ o.todo = w.todo /\ o.tab = w.tab /\ o.hdr = w.hdr /\ o.map = w.map
  BY <1>4, <1>7 DEF Ops
<1>9. /\ disk' = Put(disk, b, Dir(Empty)) /\ UNCHANGED <<table, files, lost, crashed>>
      /\ op' = [op EXCEPT ![t] = o]
  <2>1. AfterWrite(op[t].call, op[t].pc) = "wdir" /\ op[t].call # "close"
    BY <1>1, <1>2, <1>3, Writes
  <2>2. Write(t, b, Dir(Empty))
    BY <1>1, <1>2, <1>5
  <2> QED BY <1>2, <1>6, <1>7, <2>1, <2>2, PutIs
<1>10. PICK E : E = disk'
  OBVIOUS
<1>11. /\ DiskInv(E, table, files, lost, {}, {}, {})
       /\ KeepsFiles(disk, E, Heads(disk, table))
       /\ E[b] = Dir(Empty) /\ \A r \in Sector : r # b => E[r] = disk[r]
       /\ InDir(disk, w) => InDir(E, w) /\ (Adds(disk, w) => Adds(E, w))
       /\ NewSectors(disk, w) => NewSectors(E, w)
  <2>1. E = Put(disk, b, Dir(Empty)) /\ b \in Sector \ UsedIn(disk)
    BY <1>6, <1>9, <1>10
  <2>2. Typed(disk, table, files, lost)
    BY <1>1, WriterIs
  <2> QED BY <1>4, <2>1, <2>2, UnusedWritten
<1>12. E[w.sector] = w.hdr
  BY <1>4, <1>6, <1>11
<1>13. InDir(E, o) /\ NewSectors(E, o) /\ Adds(E, o) /\ E[o.sector] = o.hdr
  BY <1>4, <1>8, <1>11, <1>12 DEF InDir, AtDir, NewSectors, Adds, IsNew
<1>14. E[o.hdr.secs[1]] = Dir(Empty)
  BY <1>5, <1>8, <1>11 DEF DataOf
<1>15. Making(E, o)
  BY <1>8, <1>13, <1>14 DEF Making
<1>16. CallOK(disk', table', files', lost', o)
  BY <1>3, <1>8, <1>9, <1>10, <1>15 DEF CallOK
<1>17. VictimOf(o) = {} /\ PendingOf(o) = {} /\ DroppedBy(o) = {}
  BY <1>3, <1>8 DEF VictimOf, PendingOf, DroppedBy
<1>18. DiskInv(disk', table', files', lost', VictimOf(o), PendingOf(o), DroppedBy(o))
  BY <1>9, <1>10, <1>11, <1>17
<1>19. \A u \in Thread : u # t => Silent(op[u]) /\ CallOK(disk', table', files', lost', op[u])
  <2>1. \A u \in Thread : u # t => Silent(op[u]) /\ CallOK(E, table, files, lost, op[u])
    BY <1>1, <1>2, <1>3, <1>11, OthersGoOn
  <2> QED BY <1>9, <1>10, <2>1
<1>20. ~crashed'
  BY <1>9 DEF FSInv
<1> QED BY <1>9, <1>16, <1>18, <1>19, <1>20, SoleStep

\* The new name is written.
LEMMA MakeNameKeeps ==
  ASSUME FSInv, CountInv', NEW t \in Thread, WriteDir(t), op[t].call \in {"create", "mkdir"}
  PROVE  FSInv'
<1>1. op[t].pc = "wdir" /\ Write(t, DataOf(op[t].dirfile), Dir(op[t].tab))
  BY DEF WriteDir, At
<1>2. PICK w : w = op[t]
  OBVIOUS
<1>3. /\ w \in Ops /\ InDir(disk, w) /\ NewSectors(disk, w) /\ Adds(disk, w)
      /\ disk[w.sector] = w.hdr /\ DiskInv(disk, table, files, lost, {}, {}, {})
      /\ w.call = "mkdir" => disk[w.hdr.secs[1]] = Dir(Empty)
  BY <1>1, <1>2, Maker
<1>4. /\ Good(disk, Heads(disk, table), {}) /\ Typed(disk, table, files, lost)
      /\ disk \in [Sector -> Blocks] /\ w.todo[1] \in Name
  <2>1. Typed(disk, table, files, lost) /\ w.todo[1] \in Name
    BY <1>1, <1>2, WriterIs
  <2> QED BY <1>3, <2>1, InvIs
<1>5. PICK c \in DirsOf(disk) : c = w.cur /\ DataOf(w.dirfile) = disk[c].secs[1]
  BY <1>3, <1>4, AtTheDir
<1>6. PICK n \in Name : n = w.todo[1]
  BY <1>4
<1>7. PICK x \in Sector : x = w.sector /\ x \notin UsedIn(disk)
  BY <1>3 DEF NewSectors
<1>8. n \notin DOMAIN TabAt(disk, c) /\ w.tab = AddName(TabAt(disk, c), n, x)
  BY <1>3, <1>5, <1>6, <1>7 DEF Adds, IsNew
<1>9. FreshFile(disk, x)
  <2>1. w.hdr \in FileHeaders
    BY <1>3 DEF Ops
  <2>2. HdrAt(disk, x)
    BY <1>3, <1>7, <2>1 DEF FileHeaders, HdrAt
  <2>3. /\ Injective(w.hdr.secs) /\ x \notin Range(w.hdr.secs)
        /\ Range(w.hdr.secs) \cap UsedIn(disk) = {}
        /\ w.hdr.isdir => w.hdr.secs # <<>> /\ w.call = "mkdir"
    BY <1>3, <1>7 DEF NewSectors
  <2> QED BY <1>3, <1>7, <2>2, <2>3 DEF FreshFile
<1>10. disk[c].secs[1] # MapData
  BY <1>4, DirsApart
<1>11. PICK o \in Ops : o = [w EXCEPT !.pc = "wmap"]
  BY <1>3 DEF Ops, Pcs
<1>12. /\ o.call = w.call /\ o.pc = "wmap" /\ o.path = w.path /\ o.cur = w.cur
       /\ o.sector = w.sector
       /\ o.dirfile = w.dirfile /\ o.todo = w.todo /\ o.tab = w.tab /\ o.hdr = w.hdr /\ o.map = w.map
  BY <1>3, <1>11 DEF Ops
<1>13. /\ disk' = Put(disk, disk[c].secs[1], Dir(AddName(TabAt(disk, c), n, x)))
       /\ UNCHANGED <<table, files, lost, crashed>>
       /\ op' = [op EXCEPT ![t] = o]
  <2>1. AfterWrite(op[t].call, op[t].pc) = "wmap" /\ op[t].call # "close"
    BY <1>1, Writes
  <2>2. Write(t, disk[c].secs[1], Dir(AddName(TabAt(disk, c), n, x)))
    BY <1>1, <1>2, <1>5, <1>8
  <2> QED BY <1>2, <1>10, <1>11, <2>1, <2>2, PutIs
<1>14. PICK E : E = disk'
  OBVIOUS
<1>15. /\ DiskInv(E, table, files, lost, {}, {x} \cup Range(disk[x].secs), {})
       /\ NamedAt(E, c, n, x) /\ E[x] = disk[x]
       /\ UsedIn(E) = UsedIn(disk) /\ KeepsFiles(disk, E, Heads(disk, table))
  <2>1. E = Put(disk, disk[c].secs[1], Dir(AddName(TabAt(disk, c), n, x)))
    BY <1>13, <1>14
  <2>2. Typed(disk, table, files, lost) /\ DiskInv(disk, table, files, lost, {}, {}, {})
    BY <1>3, <1>4
  <2>3. n \notin DOMAIN TabAt(disk, c)
    BY <1>8
  <2> QED BY <1>9, <2>1, <2>2, <2>3, FileNamed
<1>16. InDir(E, w)
  BY <1>3, <1>4, <1>15, StaysInDir
<1>17. InDir(E, o) /\ NewSectors(E, o) /\ E[o.sector] = o.hdr /\ Found(E, o)
  <2>1. InDir(E, o)
    BY <1>12, <1>16 DEF InDir, AtDir
  <2>2. NewSectors(E, o)
    BY <1>3, <1>12, <1>15 DEF NewSectors
  <2>3. E[o.sector] = o.hdr
    BY <1>3, <1>7, <1>12, <1>15
  <2>4. Found(E, o)
    BY <1>5, <1>6, <1>7, <1>12, <1>15 DEF Found
  <2> QED BY <2>1, <2>2, <2>3, <2>4
<1>18. Making(E, o)
  BY <1>12, <1>17 DEF Making
<1>19. CallOK(disk', table', files', lost', o)
  BY <1>2, <1>12, <1>13, <1>14, <1>18 DEF CallOK
<1>20. VictimOf(o) = {} /\ PendingOf(o) = {x} \cup Range(disk[x].secs) /\ DroppedBy(o) = {}
  BY <1>2, <1>3, <1>7, <1>12 DEF VictimOf, PendingOf, DroppedBy
<1>21. DiskInv(disk', table', files', lost', VictimOf(o), PendingOf(o), DroppedBy(o))
  BY <1>13, <1>14, <1>15, <1>20
<1>22. \A u \in Thread : u # t => Silent(op[u]) /\ CallOK(disk', table', files', lost', op[u])
  <2>1. \A u \in Thread : u # t => Silent(op[u]) /\ CallOK(E, table, files, lost, op[u])
    BY <1>1, <1>15, OthersGoOn
  <2> QED BY <1>13, <1>14, <2>1
<1>23. ~crashed'
  BY <1>13 DEF FSInv
<1> QED BY <1>13, <1>19, <1>21, <1>22, <1>23, SoleStep

\* When the map marks sectors, the files are kept.
LEMMA MarkingKeeps ==
  ASSUME NEW D, NEW T, NEW F, NEW L, NEW P \in SUBSET Sector, Typed(D, T, F, L),
         DiskInv(D, T, F, L, {}, P, {}), NEW E, Remapped(D, E, UsedIn(D) \cup P),
         \A x \in P : x \in L \/ \E r \in Owners(D, T) : x \in SecsAt(D, r)
  PROVE  DiskInv(E, T, F, L, {}, {}, {}) /\ KeepsFiles(D, E, Heads(D, T))
<1>1. /\ DiskInv(E, T, F, L, {}, {}, {}) /\ SameTree(D, E)
      /\ \A s \in Heads(D, T) : E[s] = D[s]
  BY SectorsMarked
<1>2. FixedOK(D) /\ FixedOK(E)
  BY <1>1 DEF DiskInv
<1> QED BY <1>1, <1>2, SameTreeKeeps

\* The map marks the sectors of the new file or directory.
LEMMA MakeMapKeeps ==
  ASSUME FSInv, CountInv', NEW t \in Thread, WriteMap(t), op[t].call \in {"create", "mkdir"}
  PROVE  FSInv'
<1>1. op[t].pc = "wmap" /\ Write(t, MapData, Map(op[t].map))
  BY DEF WriteMap, At
<1>2. PICK w : w = op[t]
  OBVIOUS
<1>3. /\ w \in Ops /\ NewSectors(disk, w) /\ disk[w.sector] = w.hdr /\ Found(disk, w)
      /\ w.sector \in Sector
  BY <1>1, <1>2, Maker
<1>4. PICK P \in SUBSET Sector : P = {w.sector} \cup Range(w.hdr.secs)
  <2>1. w.hdr.secs \in Seq(Sector)
    BY <1>3 DEF Ops, FileHeaders
  <2> QED BY <1>3, <2>1, SeqRange
<1>5. VictimOf(w) = {} /\ PendingOf(w) = P /\ DroppedBy(w) = {}
  BY <1>1, <1>2, <1>4 DEF VictimOf, PendingOf, DroppedBy
<1>6. /\ DiskInv(disk, table, files, lost, {}, P, {}) /\ Typed(disk, table, files, lost)
      /\ disk \in [Sector -> Blocks]
  BY <1>1, <1>2, <1>5, WriterIs
<1>7. w.map = UsedIn(disk) \cup P
  BY <1>3, <1>4 DEF NewSectors
<1>8. /\ Remapped(disk, disk', UsedIn(disk) \cup P) /\ UNCHANGED <<table, files, lost, crashed>>
      /\ op' = [op EXCEPT ![t] = Idle]
  <2>1. AfterWrite(op[t].call, op[t].pc) = "idle" /\ op[t].call # "close"
    BY <1>1, Writes
  <2>2. Write(t, MapData, Map(UsedIn(disk) \cup P))
    BY <1>1, <1>2, <1>7
  <2>3. lost' = lost \ (UsedIn(disk) \ (UsedIn(disk) \cup P))
    BY <2>2, RemapIs
  <2> QED BY <2>1, <2>2, <2>3, RemapIs
<1>9. w.sector \in Owners(disk, table) /\ P = SecsAt(disk, w.sector)
  <2>1. w.sector \in Owners(disk, table)
    <3>1. Good(disk, Heads(disk, table), {})
      BY <1>6, InvIs
    <3>2. HasName(disk, w.sector)
      BY <1>3, <3>1, NamesAre DEF Found
    <3> QED BY <1>3, <3>2 DEF Owners
  <2>2. w.hdr \in FileHeaders
    BY <1>3 DEF Ops
  <2>3. HdrAt(disk, w.sector)
    BY <1>3, <2>2 DEF HdrAt, FileHeaders
  <2> QED BY <1>3, <1>4, <2>1, <2>3 DEF SecsAt
<1>10. PICK E : E = disk'
  OBVIOUS
<1>11. DiskInv(E, table, files, lost, {}, {}, {}) /\ KeepsFiles(disk, E, Heads(disk, table))
  <2>1. Remapped(disk, E, UsedIn(disk) \cup P)
    BY <1>8, <1>10
  <2>2. \A x \in P : x \in lost \/ \E r \in Owners(disk, table) : x \in SecsAt(disk, r)
    BY <1>9
  <2>3. Typed(disk, table, files, lost) /\ DiskInv(disk, table, files, lost, {}, P, {})
    BY <1>6
  <2> QED BY <2>1, <2>2, <2>3, MarkingKeeps
<1>12. KeepsFiles(disk, E, Heads(disk, table))
  BY <1>11
<1>13. /\ VictimOf(Idle) = {} /\ PendingOf(Idle) = {} /\ DroppedBy(Idle) = {}
  BY SilentCalls DEF Silent
<1>14. DiskInv(disk', table', files', lost', VictimOf(Idle), PendingOf(Idle), DroppedBy(Idle))
  BY <1>8, <1>10, <1>11, <1>13
<1>15. CallOK(disk', table', files', lost', Idle)
  BY DEF CallOK
<1>16. \A u \in Thread : u # t => Silent(op[u]) /\ CallOK(disk', table', files', lost', op[u])
  <2>1. \A u \in Thread : u # t => Silent(op[u]) /\ CallOK(E, table, files, lost, op[u])
    BY <1>1, <1>12, OthersGoOn
  <2> QED BY <1>8, <1>10, <2>1
<1>17. ~crashed'
  BY <1>8 DEF FSInv
<1> QED BY <1>8, <1>14, <1>15, <1>16, <1>17, SoleStep

-----------------------------------------------------------------------------
(* A file that grows *)

\* What a write that grows a file has in hand.
LEMMA GrowerIs ==
  ASSUME FSInv, NEW t \in Thread, op[t].call = "write", op[t].pc \in {"whdr", "wmap", "wdata"}
  PROVE  /\ op[t] \in Ops /\ op[t].fid \in Fid /\ files[op[t].fid] # NULL
         /\ Writing(disk, files, lost, op[t])
         /\ op[t].sector = files[op[t].fid].sector /\ op[t].hdr = files[op[t].fid].hdr
         /\ op[t].sector \in Heads(disk, table) /\ op[t].sector # MapData
         /\ op[t].sector \in Sector
         /\ ~op[t].hdr.isdir /\ op[t].hdr.secs \in Seq(Sector) /\ op[t].hdr.secs # <<>>
         /\ op[t].pc # "wdata" => PendingOf(op[t]) = {LastOf(op[t].hdr.secs)}
         /\ op[t].pc = "wdata" => PendingOf(op[t]) = {}
         /\ DiskInv(disk, table, files, lost, {}, PendingOf(op[t]), {})
         /\ Typed(disk, table, files, lost) /\ disk \in [Sector -> Blocks]
         /\ \A u \in Thread : u # t => op[u] = Idle
<1>1. /\ op[t] \in Ops /\ op[t].fid \in Fid /\ TableAgrees(op[t])
      /\ CallOK(disk, table, files, lost, op[t])
      /\ DiskInv(disk, table, files, lost, VictimOf(op[t]), PendingOf(op[t]), DroppedBy(op[t]))
      /\ Typed(disk, table, files, lost) /\ disk \in [Sector -> Blocks]
      /\ \A u \in Thread : u # t => op[u] = Idle
  BY WriterIs
<1>2. files[op[t].fid] # NULL
  BY <1>1 DEF TableAgrees
<1>3. Writing(disk, files, lost, op[t])
  BY <1>1, WritePlaces
<1>4. /\ op[t].sector = files[op[t].fid].sector /\ op[t].hdr = files[op[t].fid].hdr
      /\ op[t].hdr.secs # <<>>
  BY <1>3 DEF Writing
<1>5. VictimOf(op[t]) = {} /\ DroppedBy(op[t]) = {}
  BY DEF VictimOf, DroppedBy
<1>6. DiskInv(disk, table, files, lost, {}, PendingOf(op[t]), {})
  BY <1>1, <1>5
<1>7. /\ op[t].sector \in Heads(disk, table) /\ op[t].hdr.secs \in Seq(Sector)
      /\ HandleOK(disk, Heads(disk, table), PendingOf(op[t]), files[op[t].fid])
      /\ Good(disk, Heads(disk, table), {})
  BY <1>1, <1>2, <1>4, <1>6, InvIs
<1>8. ~op[t].hdr.isdir
  BY <1>4, <1>7 DEF HandleOK
<1>9. op[t].sector # MapData /\ op[t].sector \in Sector
  <2>1. MapData \in System
    BY DEF System
  <2> QED BY <1>7, <2>1 DEF Good, HeadsOK
<1>10. /\ op[t].pc # "wdata" => PendingOf(op[t]) = {LastOf(op[t].hdr.secs)}
       /\ op[t].pc = "wdata" => PendingOf(op[t]) = {}
  BY <1>5 DEF PendingOf
<1> QED BY <1>1, <1>2, <1>3, <1>4, <1>6, <1>7, <1>8, <1>9, <1>10

\* The header of a file that grows is written.
LEMMA GrowHeaderKeeps ==
  ASSUME FSInv, CountInv', NEW t \in Thread, WriteHeader(t), op[t].call = "write"
  PROVE  FSInv'
<1>1. op[t].pc = "whdr" /\ Write(t, op[t].sector, op[t].hdr)
  BY DEF WriteHeader, At
<1>2. PICK w : w = op[t]
  OBVIOUS
<1>3. PICK P : P = PendingOf(w)
  OBVIOUS
<1>4. /\ w \in Ops /\ w.fid \in Fid /\ files[w.fid] # NULL /\ Writing(disk, files, lost, w)
      /\ w.sector = files[w.fid].sector /\ w.hdr = files[w.fid].hdr
      /\ w.sector # MapData /\ w.hdr.secs # <<>> /\ P = {LastOf(w.hdr.secs)}
      /\ DiskInv(disk, table, files, lost, {}, P, {}) /\ Typed(disk, table, files, lost)
      /\ \A u \in Thread : u # t => op[u] = Idle
  BY <1>1, <1>2, <1>3, GrowerIs
<1>5. PICK o \in Ops : o = [w EXCEPT !.pc = "wmap"]
  BY <1>4 DEF Ops, Pcs
<1>6. /\ o.call = "write" /\ o.pc = "wmap" /\ o.sector = w.sector /\ o.hdr = w.hdr /\ o.map = w.map
      /\ o.fid = w.fid
  BY <1>2, <1>4, <1>5 DEF Ops
<1>7. /\ disk' = Put(disk, w.sector, w.hdr) /\ UNCHANGED <<table, files, lost, crashed>>
      /\ op' = [op EXCEPT ![t] = o]
  <2>1. AfterWrite(op[t].call, op[t].pc) = "wmap" /\ op[t].call # "close"
    BY <1>1, Writes
  <2> QED BY <1>1, <1>2, <1>4, <1>5, <2>1, PutIs
<1>8. PICK E : E = disk'
  OBVIOUS
<1>9. DiskInv(E, table, files, lost, {}, P, {}) /\ E[w.sector] = w.hdr
  <2>1. PICK f \in Fid : f = w.fid /\ files[f] # NULL
    BY <1>4
  <2>2. E = Put(disk, files[f].sector, files[f].hdr)
    BY <1>4, <1>7, <1>8, <2>1
  <2>3. Typed(disk, table, files, lost) /\ DiskInv(disk, table, files, lost, {}, P, {})
    BY <1>4
  <2>4. DiskInv(E, table, files, lost, {}, P, {}) /\ E[files[f].sector] = files[f].hdr
    BY <2>1, <2>2, <2>3, HeaderWritten
  <2> QED BY <1>4, <2>1, <2>4
<1>10. UsedIn(E) = UsedIn(disk)
  <2>1. MapData \in Sector
    BY Sectors DEF System
  <2> QED BY <1>4, <1>7, <1>8, <2>1 DEF Put, UsedIn
<1>11. Writing(E, files, lost, o)
  <2>1. /\ LastOf(w.hdr.secs) \notin UsedIn(disk) /\ LastOf(w.hdr.secs) \in lost
        /\ w.map = UsedIn(disk) \cup {LastOf(w.hdr.secs)}
    BY <1>1, <1>2, <1>4 DEF Writing
  <2> QED BY <1>4, <1>6, <1>9, <1>10, <2>1 DEF Writing
<1>12. CallOK(disk', table', files', lost', o)
  BY <1>6, <1>7, <1>8, <1>11 DEF CallOK
<1>13. VictimOf(o) = {} /\ PendingOf(o) = P /\ DroppedBy(o) = {}
  BY <1>4, <1>6 DEF VictimOf, PendingOf, DroppedBy
<1>14. DiskInv(disk', table', files', lost', VictimOf(o), PendingOf(o), DroppedBy(o))
  BY <1>7, <1>8, <1>9, <1>13
<1>15. \A u \in Thread : u # t => Silent(op[u]) /\ CallOK(disk', table', files', lost', op[u])
  BY <1>4, IdleOthers
<1>16. ~crashed'
  BY <1>7 DEF FSInv
<1> QED BY <1>7, <1>12, <1>14, <1>15, <1>16, SoleStep

\* The map marks the sector that a file has grown by.
LEMMA GrowMapKeeps ==
  ASSUME FSInv, CountInv', NEW t \in Thread, WriteMap(t), op[t].call = "write"
  PROVE  FSInv'
<1>1. op[t].pc = "wmap" /\ Write(t, MapData, Map(op[t].map))
  BY DEF WriteMap, At
<1>2. PICK w : w = op[t]
  OBVIOUS
<1>3. PICK P : P = PendingOf(w)
  OBVIOUS
<1>4. /\ w \in Ops /\ w.fid \in Fid /\ files[w.fid] # NULL /\ Writing(disk, files, lost, w)
      /\ w.sector = files[w.fid].sector /\ w.hdr = files[w.fid].hdr /\ w.hdr.secs \in Seq(Sector)
      /\ w.sector \in Heads(disk, table) /\ w.hdr.secs # <<>> /\ P = {LastOf(w.hdr.secs)}
      /\ DiskInv(disk, table, files, lost, {}, P, {}) /\ Typed(disk, table, files, lost)
      /\ \A u \in Thread : u # t => op[u] = Idle
  BY <1>1, <1>2, <1>3, GrowerIs
<1>5. /\ LastOf(w.hdr.secs) \in lost /\ w.map = UsedIn(disk) \cup P /\ disk[w.sector] = w.hdr
  BY <1>1, <1>2, <1>4 DEF Writing
<1>6. P \in SUBSET Sector
  BY <1>4, SeqRange DEF LastOf
<1>7. PICK o \in Ops : o = [w EXCEPT !.pc = "wdata"]
  BY <1>4 DEF Ops, Pcs
<1>8. /\ o.call = "write" /\ o.pc = "wdata" /\ o.sector = w.sector /\ o.hdr = w.hdr
      /\ o.fid = w.fid
  BY <1>2, <1>4, <1>7 DEF Ops
<1>9. /\ Remapped(disk, disk', UsedIn(disk) \cup P) /\ UNCHANGED <<table, files, lost, crashed>>
      /\ op' = [op EXCEPT ![t] = o]
  <2>1. AfterWrite(op[t].call, op[t].pc) = "wdata" /\ op[t].call # "close"
    BY <1>1, Writes
  <2>2. Write(t, MapData, Map(UsedIn(disk) \cup P))
    BY <1>1, <1>2, <1>5
  <2>3. lost' = lost \ (UsedIn(disk) \ (UsedIn(disk) \cup P))
    BY <2>2, RemapIs
  <2>4. lost' = lost
    BY <2>3
  <2> QED BY <1>2, <1>7, <2>1, <2>2, <2>4, RemapIs
<1>10. PICK E : E = disk'
  OBVIOUS
<1>11. /\ DiskInv(E, table, files, lost, {}, {}, {})
       /\ \A s \in Heads(disk, table) : E[s] = disk[s]
  <2>1. Remapped(disk, E, UsedIn(disk) \cup P)
    BY <1>9, <1>10
  <2>2. \A x \in P : x \in lost \/ \E r \in Owners(disk, table) : x \in SecsAt(disk, r)
    BY <1>4, <1>5
  <2>3. Typed(disk, table, files, lost) /\ DiskInv(disk, table, files, lost, {}, P, {})
    BY <1>4
  <2> QED BY <1>6, <2>1, <2>2, <2>3, SectorsMarked
<1>12. Writing(E, files, lost, o)
  BY <1>4, <1>5, <1>8, <1>11 DEF Writing
<1>13. CallOK(disk', table', files', lost', o)
  BY <1>8, <1>9, <1>10, <1>12 DEF CallOK
<1>14. VictimOf(o) = {} /\ PendingOf(o) = {} /\ DroppedBy(o) = {}
  BY <1>8 DEF VictimOf, PendingOf, DroppedBy
<1>15. DiskInv(disk', table', files', lost', VictimOf(o), PendingOf(o), DroppedBy(o))
  BY <1>9, <1>10, <1>11, <1>14
<1>16. \A u \in Thread : u # t => Silent(op[u]) /\ CallOK(disk', table', files', lost', op[u])
  BY <1>4, IdleOthers
<1>17. ~crashed'
  BY <1>9 DEF FSInv
<1> QED BY <1>9, <1>13, <1>15, <1>16, <1>17, SoleStep

\* The data of the sector that a file has grown by are written.
LEMMA GrowDataKeeps ==
  ASSUME FSInv, CountInv', NEW t \in Thread, WriteData(t)
  PROVE  FSInv'
<1>1. op[t].pc = "wdata" /\ Write(t, LastOf(op[t].hdr.secs), Data)
  BY DEF WriteData, At, LastOf
<1>2. PICK w : w = op[t]
  OBVIOUS
<1>3. w.call = "write"
  BY <1>1, <1>2, Writer DEF FSInv
<1>4. /\ w \in Ops /\ Writing(disk, files, lost, w) /\ w.hdr.secs \in Seq(Sector)
      /\ w.sector \in Heads(disk, table) /\ w.hdr.secs # <<>> /\ ~w.hdr.isdir /\ PendingOf(w) = {}
      /\ Typed(disk, table, files, lost)
      /\ \A u \in Thread : u # t => op[u] = Idle
      /\ DiskInv(disk, table, files, lost, {}, PendingOf(w), {})
  BY <1>1, <1>2, <1>3, GrowerIs
<1>5. DiskInv(disk, table, files, lost, {}, {}, {})
  BY <1>4
<1>6. disk[w.sector] = w.hdr
  BY <1>1, <1>2, <1>4 DEF Writing
<1>7. PICK b : b = LastOf(w.hdr.secs) /\ b \in Range(w.hdr.secs)
  BY <1>4, SeqRange DEF LastOf
<1>8. PlainSector(disk, Heads(disk, table), b)
  BY <1>4, <1>5, <1>6, <1>7, PlainSectors
<1>9. b # MapData
  BY <1>8 DEF PlainSector, System
<1>10. /\ disk' = Put(disk, b, Data) /\ UNCHANGED <<table, files, lost, crashed>>
       /\ op' = [op EXCEPT ![t] = Idle]
  <2>1. AfterWrite(op[t].call, op[t].pc) = "idle" /\ op[t].call # "close"
    BY <1>1, <1>2, <1>3, Writes
  <2>2. Write(t, b, Data)
    BY <1>1, <1>2, <1>7
  <2> QED BY <1>9, <2>1, <2>2, PutIs
<1>11. PICK E : E = disk'
  OBVIOUS
<1>12. DiskInv(E, table, files, lost, {}, {}, {})
  <2>1. E = Put(disk, b, Data)
    BY <1>10, <1>11
  <2> QED BY <1>4, <1>5, <1>8, <2>1, DataWritten
<1>13. /\ VictimOf(Idle) = {} /\ PendingOf(Idle) = {} /\ DroppedBy(Idle) = {}
  BY SilentCalls DEF Silent
<1>14. DiskInv(disk', table', files', lost', VictimOf(Idle), PendingOf(Idle), DroppedBy(Idle))
  BY <1>10, <1>11, <1>12, <1>13
<1>15. CallOK(disk', table', files', lost', Idle)
  BY DEF CallOK
<1>16. \A u \in Thread : u # t => Silent(op[u]) /\ CallOK(disk', table', files', lost', op[u])
  BY <1>4, IdleOthers
<1>17. ~crashed'
  BY <1>10 DEF FSInv
<1> QED BY <1>10, <1>14, <1>15, <1>16, <1>17, SoleStep

-----------------------------------------------------------------------------
(* A file or directory that is removed *)

\* Rmdir is about a directory; FileSystem::Remove is for files that are not
\* in the table.
Unopened(T, o) == o.call = "rmdir" \/ \A i \in Slot : T[i] # NULL => T[i].name # o.path

\* What Rmdir and FileSystem::Remove give back belongs to nobody else.
LEMMA DoomedIsFree ==
  ASSUME OneSpelling, NEW D, NEW T, NEW F, NEW L, Typed(D, T, F, L),
         DiskInv(D, T, F, L, {}, {}, {}), NEW o, InDir(D, o), Found(D, o), Doomed(D, o),
         Unopened(T, o), o.path \in Path
  PROVE  /\ ToFree(D, T, F, {o.sector}, SecsAt(D, o.sector))
         /\ o.sector \in Sector /\ SecsAt(D, o.sector) \subseteq UsedIn(D)
         /\ o.sector \in SecsAt(D, o.sector)
         /\ o.cur \in DirsOf(D) /\ o.cur # o.sector
<1>1. PICK x : x = o.sector
  OBVIOUS
<1>2. /\ Good(D, Heads(D, T), {}) /\ HeadsOK(D, Heads(D, T), {}) /\ NamesApart(D)
      /\ TableOK(D, T, L, {})
  BY InvIs DEF DiskInv
<1>3. NamedAt(D, o.cur, o.todo[1], x)
  BY <1>1 DEF Found
<1>4. x \in Heads(D, T) /\ x \in Sector /\ o.cur \in Sector /\ o.todo[1] \in Name
  BY <1>2, <1>3, NamesAre
<1>5. HdrOK(D, x) /\ HdrAt(D, x) /\ x \in SecsAt(D, x)
  BY <1>4, InvIs
<1>6. Leads(D, o.path, o.cur, o.todo[1]) /\ o.cur \in DirsOf(D)
  BY DEF InDir, AtDir
<1>7. \A i \in Slot : T[i] # NULL => T[i].sector # x
  <2> SUFFICES ASSUME NEW i \in Slot, T[i] # NULL, T[i].sector = x
               PROVE  FALSE
    OBVIOUS
  <2>1. EntryOK(D, L, {}, T[i]) /\ T[i].name \in Path
    BY InvIs
  <2>2. ~D[x].isdir /\ Leads(D, T[i].name, o.cur, o.todo[1])
    BY <1>3, <1>4, <2>1 DEF EntryOK
  <2>3. T[i].name = o.path
    BY <1>2, <1>6, <2>1, <2>2, LeadsApart
  <2>4. o.call # "rmdir"
    BY <1>1, <2>2 DEF Doomed, DirAt
  <2> QED BY <2>3, <2>4 DEF Unopened
<1>8. SecsAt(D, x) \subseteq UsedIn(D)
  BY <1>4, InUseIs
<1>9. SecsAt(D, x) \cap System = {}
  <2>1. x \notin System
    BY <1>2, <1>4 DEF HeadsOK
  <2> QED BY <1>5, <2>1 DEF SecsAt, HdrOK
<1>10. \A k \in Heads(D, T) : k # x => SecsAt(D, k) \cap SecsAt(D, x) = {}
  BY <1>2, <1>4 DEF HeadsOK
<1>11. ASSUME NEW f \in Fid, F[f] # NULL
       PROVE  Mine(F[f]) \cap SecsAt(D, x) = {}
  <2>1. EntryFor(T, L, F[f]) /\ HandleOK(D, Heads(D, T), {}, F[f])
    BY <1>11, InvIs
  <2>2. F[f].sector # x
    BY <1>7, <2>1 DEF EntryFor
  <2> QED BY <1>4, <2>1, <2>2 DEF HandleOK
<1>12. DirAt(D, x) => DOMAIN TabAt(D, x) = {}
  BY <1>1 DEF Doomed
<1>13. ToFree(D, T, F, {x}, SecsAt(D, x))
  BY <1>7, <1>8, <1>9, <1>10, <1>11, <1>12 DEF ToFree, NotHeld
<1>14. o.cur # x
  <2>1. DirAt(D, o.cur)
    BY <1>2, <1>6, DirsAre
  <2>2. o.todo[1] \in DOMAIN TabAt(D, o.cur)
    BY <1>3 DEF NamedAt
  <2> QED BY <1>12, <2>1, <2>2
<1> QED BY <1>1, <1>4, <1>5, <1>6, <1>8, <1>13, <1>14

\* Rmdir and FileSystem::Remove give the sectors back.
LEMMA DoomMapKeeps ==
  ASSUME OneSpelling, FSInv, CountInv', NEW t \in Thread, WriteMap(t),
         op[t].call \in {"rmdir", "fsremove"}
  PROVE  FSInv'
<1>1. op[t].pc = "wmap" /\ Write(t, MapData, Map(op[t].map))
  BY DEF WriteMap, At
<1>2. PICK w : w = op[t]
  OBVIOUS
<1>3. /\ w \in Ops /\ w.path \in Path /\ TableAgrees(w) /\ Silent(w)
      /\ CallOK(disk, table, files, lost, w) /\ Typed(disk, table, files, lost)
      /\ \A u \in Thread : u # t => op[u] = Idle
  BY <1>1, <1>2, WriterIs, SilentCalls
<1>4. DiskInv(disk, table, files, lost, {}, {}, {})
  BY <1>1, <1>2, <1>3, WriterIs
<1>5. Removing(disk, w)
  BY <1>1, <1>2, <1>3, WritePlaces
<1>6. /\ InDir(disk, w) /\ Found(disk, w) /\ Doomed(disk, w)
      /\ w.tab = RemoveName(TabAt(disk, w.cur), w.todo[1])
      /\ w.map = UsedIn(disk) \ SecsAt(disk, w.sector)
  BY <1>1, <1>2, <1>5 DEF Removing
<1>7. Unopened(table, w)
  BY <1>2, <1>3 DEF Unopened, TableAgrees, NotOpen, Used
<1>8. PICK X : X = SecsAt(disk, w.sector)
  OBVIOUS
<1>9. /\ ToFree(disk, table, files, {w.sector}, X)
      /\ w.sector \in Sector /\ X \subseteq UsedIn(disk)
      /\ w.sector \in X /\ w.cur \in DirsOf(disk) /\ w.cur # w.sector
  BY <1>3, <1>4, <1>6, <1>7, <1>8, DoomedIsFree
<1>10. PICK o \in Ops : o = [w EXCEPT !.pc = "wdir"]
  BY <1>3 DEF Ops, Pcs
<1>11. /\ o.call = w.call /\ o.pc = "wdir" /\ o.path = w.path /\ o.cur = w.cur /\ o.sector = w.sector
       /\ o.dirfile = w.dirfile /\ o.todo = w.todo /\ o.tab = w.tab
  BY <1>3, <1>10 DEF Ops
<1>12. /\ Remapped(disk, disk', UsedIn(disk) \ X) /\ UNCHANGED <<table, files, crashed>>
       /\ lost' = lost \ X /\ op' = [op EXCEPT ![t] = o]
  <2>1. AfterWrite(op[t].call, op[t].pc) = "wdir" /\ op[t].call # "close"
    BY <1>1, Writes
  <2>2. Write(t, MapData, Map(UsedIn(disk) \ X))
    BY <1>1, <1>2, <1>6, <1>8
  <2>3. lost' = lost \ (UsedIn(disk) \ (UsedIn(disk) \ X))
    BY <2>2, RemapIs
  <2>4. lost' = lost \ X
    BY <1>9, <2>3
  <2> QED BY <1>2, <1>10, <2>1, <2>2, <2>4, RemapIs
<1>13. PICK E : E = disk'
  OBVIOUS
<1>14. PICK W : W = {w.sector}
  OBVIOUS
<1>15. /\ DiskInv(E, table, files, lost \ X, W, W, {}) /\ UsedIn(E) = UsedIn(disk) \ X
       /\ w.cur \in DirsOf(E) /\ E[w.cur] = disk[w.cur] /\ TabAt(E, w.cur) = TabAt(disk, w.cur)
       /\ NamedAt(disk, w.cur, w.todo[1], w.sector) => NamedAt(E, w.cur, w.todo[1], w.sector)
       /\ Leads(disk, w.path, w.cur, w.todo[1]) => Leads(E, w.path, w.cur, w.todo[1])
  <2>1. Remapped(disk, E, UsedIn(disk) \ X)
    BY <1>12, <1>13
  <2>2. ToFree(disk, table, files, W, X)
    BY <1>9, <1>14
  <2>3. /\ DiskInv(E, table, files, lost \ X, W, W, {}) /\ UsedIn(E) = UsedIn(disk) \ X
        /\ \A d \in DirsOf(disk) : d \notin W =>
             d \in DirsOf(E) /\ E[d] = disk[d] /\ TabAt(E, d) = TabAt(disk, d)
        /\ \A d, n, s : NamedAt(E, d, n, s) <=> NamedAt(disk, d, n, s)
        /\ \A p, d, n : Leads(E, p, d, n) <=> Leads(disk, p, d, n)
    BY <1>3, <1>4, <2>1, <2>2, SectorsFreed
  <2>4. w.cur \notin W
    BY <1>9, <1>14
  <2> QED BY <1>9, <2>3, <2>4
<1>16. InDir(E, o) /\ Found(E, o)
  <2>1. Leads(E, o.path, o.cur, o.todo[1]) /\ Len(o.todo) = 1
    BY <1>6, <1>11, <1>15 DEF InDir, AtDir
  <2>2. o.cur \in DirsOf(E) /\ o.dirfile = E[o.cur]
    BY <1>6, <1>11, <1>15 DEF InDir
  <2>3. NamedAt(E, o.cur, o.todo[1], o.sector)
    BY <1>6, <1>11, <1>15 DEF Found
  <2> QED BY <2>1, <2>2, <2>3 DEF InDir, AtDir, Found
<1>17. o.sector \notin UsedIn(E) /\ o.tab = RemoveName(TabAt(E, o.cur), o.todo[1])
  BY <1>6, <1>9, <1>11, <1>15
<1>18. Removing(E, o)
  BY <1>11, <1>16, <1>17 DEF Removing
<1>19. CallOK(disk', table', files', lost', o)
  BY <1>2, <1>11, <1>12, <1>13, <1>18 DEF CallOK
<1>20. VictimOf(o) = W /\ PendingOf(o) = W /\ DroppedBy(o) = {}
  BY <1>2, <1>11, <1>14 DEF VictimOf, PendingOf, DroppedBy
<1>21. DiskInv(disk', table', files', lost', VictimOf(o), PendingOf(o), DroppedBy(o))
  BY <1>12, <1>13, <1>15, <1>20
<1>22. \A u \in Thread : u # t => Silent(op[u]) /\ CallOK(disk', table', files', lost', op[u])
  BY <1>3, IdleOthers
<1>23. ~crashed'
  BY <1>12 DEF FSInv
<1> QED BY <1>12, <1>19, <1>21, <1>22, <1>23, SoleStep

\* The directory without the name is written back.
NameOut(D, o) == InDir(D, o) /\ o.tab = RemoveName(TabAt(D, o.cur), o.todo[1])

\* A name that may go goes.
LEMMA NameGoes ==
  ASSUME FSInv, CountInv', NEW t \in Thread, WriteDir(t),
         op[t].call \in {"rmdir", "fsremove", "remove"}, NameOut(disk, op[t]),
         NEW V, NEW R, DiskInv(disk, table, files, lost, V, V, R),
         NEW x, MayGo(disk, table, lost, V, R, op[t].cur, op[t].todo[1], x)
  PROVE  FSInv'
<1>1. op[t].pc = "wdir" /\ Write(t, DataOf(op[t].dirfile), Dir(op[t].tab))
  BY DEF WriteDir, At
<1>2. PICK w : w = op[t]
  OBVIOUS
<1>3. PICK c, n : c = w.cur /\ n = w.todo[1]
  OBVIOUS
<1>4. /\ Typed(disk, table, files, lost) /\ \A u \in Thread : u # t => op[u] = Idle
  BY <1>1, WriterIs
<1>5. c \in DirsOf(disk) /\ w.dirfile = disk[c] /\ w.tab = RemoveName(TabAt(disk, c), n)
  BY <1>2, <1>3 DEF NameOut, InDir, AtDir
<1>6. disk[c].secs[1] # MapData
  <2>1. Good(disk, Heads(disk, table), V)
    BY <1>4, InvIs
  <2> QED BY <1>5, <2>1, DirsApart
<1>7. Write(t, disk[c].secs[1], Dir(RemoveName(TabAt(disk, c), n)))
  BY <1>1, <1>2, <1>5 DEF DataOf
<1>8. AfterWrite(op[t].call, op[t].pc) = "idle" /\ op[t].call # "close"
  BY <1>1, Writes
<1>9. /\ disk' = Put(disk, disk[c].secs[1], Dir(RemoveName(TabAt(disk, c), n)))
      /\ UNCHANGED <<table, files, lost, crashed>> /\ op' = [op EXCEPT ![t] = Idle]
  BY <1>6, <1>7, <1>8, PutIs
<1>10. PICK E : E = disk'
  OBVIOUS
<1>11. DiskInv(E, table, files, lost, {}, {}, {})
  <2>1. E = Put(disk, disk[c].secs[1], Dir(RemoveName(TabAt(disk, c), n)))
    BY <1>9, <1>10
  <2>2. MayGo(disk, table, lost, V, R, c, n, x)
    BY <1>2, <1>3
  <2> QED BY <1>4, <1>5, <2>1, <2>2, NameGone
<1>12. VictimOf(Idle) = {} /\ PendingOf(Idle) = {} /\ DroppedBy(Idle) = {}
  BY SilentCalls DEF Silent
<1>13. DiskInv(disk', table', files', lost', VictimOf(Idle), PendingOf(Idle), DroppedBy(Idle))
  BY <1>9, <1>10, <1>11, <1>12
<1>14. CallOK(disk', table', files', lost', Idle)
  BY DEF CallOK
<1>15. \A u \in Thread : u # t => Silent(op[u]) /\ CallOK(disk', table', files', lost', op[u])
  BY <1>4, IdleOthers
<1>16. ~crashed'
  BY <1>9 DEF FSInv
<1> QED BY <1>9, <1>13, <1>14, <1>15, <1>16, SoleStep

\* Rmdir and FileSystem::Remove, which have given the sectors back, forget
\* the name.
LEMMA DoomNameKeeps ==
  ASSUME FSInv, CountInv', NEW t \in Thread, WriteDir(t), op[t].call \in {"rmdir", "fsremove"}
  PROVE  FSInv'
<1>1. op[t].pc = "wdir"
  BY DEF WriteDir, At
<1>2. PICK w : w = op[t]
  OBVIOUS
<1>3. PICK x : x = w.sector
  OBVIOUS
<1>4. PICK V : V = {x}
  OBVIOUS
<1>5. VictimOf(w) = V /\ PendingOf(w) = V /\ DroppedBy(w) = {}
  BY <1>1, <1>2, <1>3, <1>4 DEF VictimOf, PendingOf, DroppedBy
<1>6. /\ CallOK(disk, table, files, lost, w) /\ Typed(disk, table, files, lost)
      /\ DiskInv(disk, table, files, lost, V, V, {})
  BY <1>1, <1>2, <1>5, WriterIs
<1>7. Removing(disk, w)
  BY <1>1, <1>2, <1>6, WritePlaces
<1>8. /\ NameOut(disk, w) /\ NamedAt(disk, w.cur, w.todo[1], x) /\ x \notin UsedIn(disk)
  BY <1>1, <1>2, <1>3, <1>7 DEF Removing, NameOut, Found
<1>9. Good(disk, Heads(disk, table), V)
  BY <1>6, InvIs
<1>10. x \in Heads(disk, table) /\ x \notin System
  BY <1>8, <1>9, NamesAre
<1>11. SecsAt(disk, x) = {x}
  <2>1. disk[x] = Data
    BY <1>4, <1>6, <1>10 DEF DiskInv, HeadsOK
  <2> QED BY <2>1 DEF SecsAt, HdrAt, Data
<1>12. ASSUME NEW m, NEW r, NamedAt(disk, x, m, r) PROVE FALSE
  <2>1. x \in DirsOf(disk)
    BY <1>12 DEF NamedAt
  <2>2. x = DirectorySector \/ x \notin V
    BY <1>9, <2>1, DirsAre
  <2> QED BY <1>4, <1>10, <2>2 DEF System
<1>13. MayGo(disk, table, lost, V, {}, w.cur, w.todo[1], x)
  BY <1>4, <1>8, <1>11, <1>12 DEF MayGo
<1> QED BY <1>2, <1>6, <1>8, <1>13, NameGoes

\* OpenFileTable::Remove forgets the name of a file that stays until it is
\* closed.
LEMMA ForgetNameKeeps ==
  ASSUME FSInv, CountInv', NEW t \in Thread, WriteDir(t), op[t].call = "remove"
  PROVE  FSInv'
<1>1. op[t].pc = "wdir"
  BY DEF WriteDir, At
<1>2. PICK w : w = op[t]
  OBVIOUS
<1>3. PICK R : R = {w.path}
  OBVIOUS
<1>4. VictimOf(w) = {} /\ PendingOf(w) = {} /\ DroppedBy(w) = R
  BY <1>1, <1>2, <1>3 DEF VictimOf, PendingOf, DroppedBy
<1>5. /\ CallOK(disk, table, files, lost, w) /\ Typed(disk, table, files, lost)
      /\ DiskInv(disk, table, files, lost, {}, {}, R) /\ disk \in [Sector -> Blocks]
  BY <1>1, <1>2, <1>4, WriterIs
<1>6. Forgetting(disk, table, lost, w)
  BY <1>1, <1>2, <1>5, WritePlaces
<1>7. NameOut(disk, w) /\ Leads(disk, w.path, w.cur, w.todo[1])
  BY <1>6 DEF Forgetting, NameOut, InDir, AtDir
<1>8. PICK s \in Sector, i \in Slot :
       /\ NamedAt(disk, w.cur, w.todo[1], s)
       /\ table[i] # NULL /\ table[i].name = w.path /\ table[i].ToBeDeleted
       /\ table[i].sector = s \/ TreeAt(disk, s) \subseteq lost
  BY <1>6 DEF Forgetting
<1>9. Good(disk, Heads(disk, table), {})
  BY <1>5, InvIs
<1>10. ASSUME NEW r \in Sector, r = s \/ \E m : NamedAt(disk, s, m, r)
       PROVE  \/ \E j \in Slot : table[j] # NULL /\ table[j].sector = r /\ table[j].ToBeDeleted
              \/ SecsAt(disk, r) \cap UsedIn(disk) \subseteq lost
  <2>1. ASSUME NEW m, NamedAt(disk, s, m, r)
        PROVE  DirAt(disk, s) /\ r \in Range(TabAt(disk, s))
    <3>1. s \in DirsOf(disk)
      BY <2>1 DEF NamedAt
    <3>2. DirAt(disk, s)
      BY <1>9, <3>1, DirsAre
    <3> QED BY <2>1, <3>2 DEF NamedAt, Range
  <2>2. CASE table[i].sector = s
    <3>1. EntryOK(disk, lost, R, table[i])
      BY <1>5, <1>8, InvIs
    <3>2. ~DirAt(disk, s)
      BY <2>2, <3>1 DEF EntryOK, DirAt
    <3>3. r = s
      BY <1>10, <2>1, <3>2
    <3> QED BY <1>8, <2>2, <3>3
  <2>3. CASE TreeAt(disk, s) \subseteq lost
    <3>1. SecsAt(disk, r) \subseteq TreeAt(disk, s)
      <4>1. CASE r = s
        BY <4>1 DEF TreeAt
      <4>2. CASE \E m : NamedAt(disk, s, m, r)
        <5>1. DirAt(disk, s) /\ r \in Range(TabAt(disk, s))
          BY <2>1, <4>2
        <5> QED BY <5>1 DEF TreeAt
      <4> QED BY <1>10, <4>1, <4>2
    <3> QED BY <2>3, <3>1
  <2> QED BY <1>8, <2>2, <2>3
<1>11. MayGo(disk, table, lost, {}, R, w.cur, w.todo[1], s)
  BY <1>3, <1>7, <1>8, <1>10 DEF MayGo
<1> QED BY <1>2, <1>5, <1>7, <1>11, NameGoes

\* When the last program closes a removed file, nobody else has it open.
LEMMA LastCloseIs ==
  ASSUME CountInv, NEW t \in Thread, op[t].call = "close", op[t].pc = "wmap",
         NEW U, U = [table EXCEPT ![op[t].sector] = NULL],
         NEW G, G = [files EXCEPT ![op[t].fid] = NULL]
  PROVE  LastClose(table, files, U, G, op[t].sector, op[t].fid)
<1>1. PICK w : w = op[t]
  OBVIOUS
<1>2. /\ Busy(t) /\ w \in Ops /\ w.path \in Path /\ w.fid \in Fid
  BY <1>1, Writer
<1>3. \A u \in Thread : u # t => op[u] = Idle
  BY <1>2, NotCreateIsAlone
<1>4. /\ files[w.fid] # NULL /\ files[w.fid].path = w.path
      /\ w.sector \in Slot /\ Used(w.sector) /\ table[w.sector].name = w.path
      /\ table[w.sector].ToBeDeleted /\ table[w.sector].numthread = 0
  BY <1>1 DEF CountInv, CallsAgree, TableAgrees
<1>5. HandlesOf(w.path) = {}
  <2>1. IsFiniteSet(HandlesOf(w.path)) /\ Cardinality(HandlesOf(w.path)) \in Nat
        /\ Cardinality(HitsOf(w.path)) \in Nat
    BY HitsFinite
  <2>2. 0 = Cardinality(HandlesOf(w.path)) + Cardinality(HitsOf(w.path))
    BY <1>2, <1>4 DEF CountInv, Counted
  <2>3. Cardinality(HandlesOf(w.path)) = 0
    BY <2>1, <2>2
  <2> QED BY <2>1, <2>3, FS_EmptySet
<1>6. \A g : Closing(g) => g = w.fid
  <2>1. Idle.call # "close"
    BY IdleTyped DEF Call
  <2> QED BY <1>1, <1>3, <2>1 DEF Closing
<1>7. \A g \in Fid : files[g] # NULL /\ files[g].path = w.path => g = w.fid
  <2> SUFFICES ASSUME NEW g \in Fid, files[g] # NULL, files[g].path = w.path, g # w.fid
               PROVE  FALSE
    OBVIOUS
  <2>1. g \in HandlesOf(w.path)
    BY <1>6 DEF HandlesOf
  <2> QED BY <1>5, <2>1
<1>8. \A i \in Slot : table[i] # NULL /\ table[i].name = table[w.sector].name => i = w.sector
  BY <1>4 DEF CountInv, NamesDistinct, Used
<1>9. /\ w.sector \in Slot /\ table[w.sector] # NULL /\ table[w.sector].ToBeDeleted
      /\ \A g \in Fid : files[g] # NULL /\ files[g].path = table[w.sector].name => g = w.fid
  BY <1>4, <1>7 DEF Used
<1> QED BY <1>1, <1>2, <1>8, <1>9 DEF LastClose

\* The sectors of a removed file are given back when the last program closes
\* it.
LEMMA CloseMapKeeps ==
  ASSUME FSInv, CountInv', NEW t \in Thread, WriteMap(t), op[t].call = "close"
  PROVE  FSInv'
<1>1. op[t].pc = "wmap" /\ Write(t, MapData, Map(op[t].map))
  BY DEF WriteMap, At
<1>2. PICK k, f : k = op[t].sector /\ f = op[t].fid
  OBVIOUS
<1>3. Silent(op[t])
  BY <1>1, SilentCalls
<1>4. /\ CallOK(disk, table, files, lost, op[t]) /\ Typed(disk, table, files, lost)
      /\ \A u \in Thread : u # t => op[u] = Idle
      /\ DiskInv(disk, table, files, lost, {}, {}, {}) /\ CountInv
  BY <1>1, <1>3, WriterIs
<1>5. PICK X : X = SectorsIn(table[k])
  OBVIOUS
<1>6. op[t].map = UsedIn(disk) \ X
  <2>1. Freeing(disk, table, op[t])
    BY <1>4, WritePlaces
  <2> QED BY <1>1, <1>2, <1>5, <2>1 DEF Freeing, SectorsIn
<1>7. AfterWrite(op[t].call, op[t].pc) = "idle"
  BY <1>1, Writes
<1>8. /\ table' = [table EXCEPT ![op[t].sector] = NULL]
      /\ files' = [files EXCEPT ![op[t].fid] = NULL]
      /\ Remapped(disk, disk', UsedIn(disk) \ X)
      /\ lost' = lost \ (UsedIn(disk) \ (UsedIn(disk) \ X))
      /\ UNCHANGED crashed /\ op' = [op EXCEPT ![t] = Idle]
  <2>1. Write(t, MapData, Map(UsedIn(disk) \ X))
    BY <1>1, <1>6
  <2> QED BY <1>7, <2>1, RemapIs
<1>9. PICK U, G, E : U = table' /\ G = files' /\ E = disk'
  OBVIOUS
<1>10. LastClose(table, files, U, G, k, f)
  <2>1. U = [table EXCEPT ![op[t].sector] = NULL]
    BY <1>8, <1>9
  <2>2. G = [files EXCEPT ![op[t].fid] = NULL]
    BY <1>8, <1>9
  <2>3. LastClose(table, files, U, G, op[t].sector, op[t].fid)
    BY <1>1, <1>4, <2>1, <2>2, LastCloseIs
  <2> QED BY <1>2, <2>3
<1>11. X \subseteq UsedIn(disk)
  <2>1. k \in Slot /\ table[k] # NULL
    BY <1>10 DEF LastClose
  <2>2. /\ table[k].sector \in Heads(disk, table) /\ HdrAt(disk, table[k].sector)
        /\ EntryOK(disk, lost, {}, table[k])
    BY <1>4, <2>1, InvIs
  <2>3. SecsAt(disk, table[k].sector) \subseteq UsedIn(disk)
    BY <1>4, <2>2, InUseIs
  <2> QED BY <1>5, <2>2, <2>3 DEF SectorsIn, SecsAt, EntryOK
<1>12. lost' = lost \ X
  BY <1>8, <1>11
<1>13. DiskInv(E, U, G, lost \ X, {}, {}, {})
  <2>1. Remapped(disk, E, UsedIn(disk) \ SectorsIn(table[k]))
    BY <1>5, <1>8, <1>9
  <2>2. DiskInv(E, U, G, lost \ SectorsIn(table[k]), {}, {}, {})
    BY <1>4, <1>10, <2>1, EntryFreed
  <2> QED BY <1>5, <2>2
<1>14. VictimOf(Idle) = {} /\ PendingOf(Idle) = {} /\ DroppedBy(Idle) = {}
  BY SilentCalls DEF Silent
<1>15. DiskInv(disk', table', files', lost', VictimOf(Idle), PendingOf(Idle), DroppedBy(Idle))
  BY <1>9, <1>12, <1>13, <1>14
<1>16. CallOK(disk', table', files', lost', Idle)
  BY DEF CallOK
<1>17. \A u \in Thread : u # t => Silent(op[u]) /\ CallOK(disk', table', files', lost', op[u])
  BY <1>4, IdleOthers
<1>18. ~crashed'
  BY <1>8 DEF FSInv
<1> QED BY <1>8, <1>15, <1>16, <1>17, <1>18, SoleStep

-----------------------------------------------------------------------------
(* The steps of the calls *)

\* Every write to the disk keeps the invariant.
LEMMA WritesKeep ==
  ASSUME OneSpelling, FSInv, CountInv', NEW t \in Thread,
         WriteHeader(t) \/ WriteDir(t) \/ WriteMap(t) \/ WriteData(t)
           \/ OpenNewDir(t) \/ WriteNewDir(t)
  PROVE  FSInv'
<1>1. CountInv
  BY DEF FSInv
<1>2. CASE WriteHeader(t)
  <2>1. op[t].pc = "whdr"
    BY <1>2 DEF WriteHeader, At
  <2>2. op[t].call \in {"create", "mkdir"} \/ op[t].call = "write"
    BY <1>1, <2>1, Writer
  <2> QED BY <1>2, <2>2, MakeHeaderKeeps, GrowHeaderKeeps
<1>3. CASE WriteDir(t)
  <2>1. op[t].pc = "wdir"
    BY <1>3 DEF WriteDir, At
  <2>2. op[t].call \in {"create", "mkdir"} \/ op[t].call \in {"rmdir", "fsremove"} \/ op[t].call = "remove"
    BY <1>1, <2>1, Writer
  <2> QED BY <1>3, <2>2, MakeNameKeeps, DoomNameKeeps, ForgetNameKeeps
<1>4. CASE WriteMap(t)
  <2>1. op[t].pc = "wmap"
    BY <1>4 DEF WriteMap, At
  <2>2. \/ op[t].call \in {"create", "mkdir"} \/ op[t].call \in {"rmdir", "fsremove"}
        \/ op[t].call = "write" \/ op[t].call = "close"
    BY <1>1, <2>1, Writer
  <2> QED BY <1>4, <2>2, MakeMapKeeps, DoomMapKeeps, GrowMapKeeps, CloseMapKeeps
<1>5. CASE WriteData(t)
  BY <1>5, GrowDataKeeps
<1>6. CASE OpenNewDir(t)
  BY <1>6, NewDirKeeps
<1>7. CASE WriteNewDir(t)
  BY <1>7, WriteNewDirKeeps
<1> QED BY <1>2, <1>3, <1>4, <1>5, <1>6, <1>7

\* A Create gets its lock.
LEMMA AcquireKeeps ==
  ASSUME FSInv, CountInv', NEW t \in Thread, AcquireCreate(t)
  PROVE  FSInv'
<1>1. op[t].pc = "lock" /\ Goto(t, [op[t] EXCEPT !.pc = "root"])
      /\ UNCHANGED <<disk, table, nbentry, files, crashed, lost>>
  BY DEF AcquireCreate, At
<1>2. PICK w : w = op[t]
  OBVIOUS
<1>3. w \in Ops /\ CallOK(disk, table, files, lost, w)
  BY <1>2 DEF FSInv, CountInv, FSTypeOK, CallsOK
<1>4. w # Idle
  BY <1>1, <1>2, IdleTyped
<1>5. w.call = "create" /\ w.todo = Components[w.path]
  BY <1>1, <1>2, <1>3, <1>4
     DEF CallOK, Walking, Making, Opening, Removing, Forgetting, Writing, Freeing
<1>6. PICK o \in Ops : o = [w EXCEPT !.pc = "root"]
  BY <1>3 DEF Ops, Pcs
<1>7. o.call = "create" /\ o.pc = "root" /\ o.todo = Components[o.path]
  BY <1>3, <1>5, <1>6 DEF Ops
<1>8. CallOK(disk, table, files, lost, o)
  BY <1>7 DEF CallOK, Walking, PathCalls
<1>9. Silent(op[t]) /\ Silent(o)
  BY <1>1, <1>7, SilentCalls DEF WalkPcs
<1>10. op' = [op EXCEPT ![t] = o]
  BY <1>1, <1>2, <1>6 DEF Goto
<1>11. UNCHANGED <<disk, table, files, lost, crashed>>
  BY <1>1
<1> QED BY <1>8, <1>9, <1>10, <1>11, LocalStep

\* Every step of a call in progress keeps the invariant.
LEMMA StepKeeps ==
  ASSUME OneSpelling, FSInv, CountInv', NEW t \in Thread, Step(t)
  PROVE  FSInv'
<1>1. CASE AcquireCreate(t)
  BY <1>1, AcquireKeeps
<1>2. CASE FetchRoot(t) \/ FetchSubHeader(t) \/ FetchSub(t) \/ OpenDirFile(t)
  BY <1>2, RootKeeps, SubHeaderKeeps, SubKeeps, DirFileKeeps
<1>3. CASE Fetch(t) \/ FetchHeader(t) \/ NewFile(t)
  BY <1>3, FetchKeeps, HeaderKeeps, NewFileKeeps
<1>4. CASE OpenVictim(t) \/ FetchVictim(t) \/ FetchMap(t)
  BY <1>4, VictimKeeps, EmptyKeeps, MapKeeps
<1>5. CASE WriteHeader(t) \/ WriteDir(t) \/ WriteMap(t) \/ WriteData(t)
           \/ OpenNewDir(t) \/ WriteNewDir(t)
  BY <1>5, WritesKeep
<1> QED BY <1>1, <1>2, <1>3, <1>4, <1>5 DEF Step

\* A call begins that has found nothing in the table yet.
LEMMA BeginKeeps ==
  ASSUME CallsApart, FSInv, CountInv', NEW t \in Thread, NEW p \in Path, NEW f \in Fid,
         \/ \E n \in Sizes : SysCreate(t, p, n)
         \/ \E call \in Call : SysPath(t, call, p)
         \/ SysOpen(t, p) /\ findl(p) = -1
         \/ SysGrow(t, f)
  PROVE  FSInv'
<1>0. CountInv
  BY DEF FSInv
<1>1. ASSUME NEW o, op[t] = Idle, Silent(o), CallOK(disk, table, files, lost, o),
             op' = [op EXCEPT ![t] = o],
             UNCHANGED <<disk, table, nbentry, createLock, files, crashed, lost>>
      PROVE  FSInv'
  <2>1. Silent(op[t])
    BY <1>1, SilentCalls
  <2>2. UNCHANGED <<disk, table, files, lost, crashed>>
    BY <1>1
  <2> QED BY <1>1, <2>1, <2>2, LocalStep
<1>2. CASE \E n \in Sizes : SysCreate(t, p, n)
  <2>1. PICK n \in Sizes : SysCreate(t, p, n)
    BY <1>2
  <2>2. "create" \in Call /\ "lock" \in Pcs
    BY DEF Call, Pcs
  <2>3. PICK b \in Ops : b = Begin(t, "create", p, "lock")
    BY <2>2, BeginTyped
  <2>4. b.call = "create" /\ b.path = p /\ b.pc = "lock" /\ b.todo = Components[p]
    BY <2>2, <2>3, BeginTyped
  <2>5. PICK o : o = [b EXCEPT !.size = n]
    OBVIOUS
  <2>6. o.call = "create" /\ o.path = p /\ o.pc = "lock" /\ o.todo = Components[p]
    BY <2>4, <2>5 DEF Ops
  <2>7. op' = [op EXCEPT ![t] = o] /\ MayStart(t, "create")
        /\ UNCHANGED <<disk, table, nbentry, createLock, files, crashed, lost>>
    BY <2>1, <2>3, <2>5 DEF SysCreate, Goto, OnlyLocal
  <2>8. op[t] = Idle
    BY <2>7 DEF MayStart
  <2>9. Silent(o)
    BY <2>6, SilentCalls
  <2>10. CallOK(disk, table, files, lost, o)
    BY <2>6 DEF CallOK
  <2> QED BY <1>1, <2>7, <2>8, <2>9, <2>10
<1>3. CASE \E call \in Call : SysPath(t, call, p)
  <2>1. PICK call \in Call : SysPath(t, call, p)
    BY <1>3
  <2>2. "root" \in Pcs
    BY DEF Pcs
  <2>3. PICK o : o = Begin(t, call, p, "root")
    OBVIOUS
  <2>4. o.call = call /\ o.path = p /\ o.pc = "root" /\ o.todo = Components[p]
    BY <2>2, <2>3, BeginTyped
  <2>5. op' = [op EXCEPT ![t] = o] /\ MayStart(t, call) /\ call \in {"remove", "mkdir", "rmdir"}
        /\ UNCHANGED <<disk, table, nbentry, createLock, files, crashed, lost>>
    BY <2>1, <2>3 DEF SysPath, Goto, OnlyLocal
  <2>6. op[t] = Idle
    BY <2>5 DEF MayStart
  <2>7. Silent(o)
    BY <2>4, SilentCalls DEF WalkPcs
  <2>8. CallOK(disk, table, files, lost, o)
    BY <2>4, <2>5 DEF CallOK, Walking, PathCalls
  <2> QED BY <1>1, <2>5, <2>6, <2>7, <2>8
<1>4. CASE SysOpen(t, p) /\ findl(p) = -1
  <2>1. "root" \in Pcs /\ "open" \in Call
    BY DEF Pcs, Call
  <2>2. PICK o : o = Begin(t, "open", p, "root")
    OBVIOUS
  <2>3. o.call = "open" /\ o.path = p /\ o.pc = "root" /\ o.todo = Components[p]
    BY <2>1, <2>2, BeginTyped
  <2>4. op' = [op EXCEPT ![t] = o] /\ MayStart(t, "open")
        /\ UNCHANGED <<disk, table, nbentry, createLock, files, crashed, lost>>
    BY <1>4, <2>2 DEF SysOpen, Goto
  <2>5. op[t] = Idle
    BY <2>4 DEF MayStart
  <2>6. Silent(o)
    BY <2>3, SilentCalls DEF WalkPcs
  <2>7. CallOK(disk, table, files, lost, o)
    BY <2>3 DEF CallOK, Walking, PathCalls
  <2> QED BY <1>1, <2>4, <2>5, <2>6, <2>7
<1>5. CASE SysGrow(t, f)
  <2>1. "map" \in Pcs /\ "write" \in Call
    BY DEF Pcs, Call
  <2>2. files[f] # NULL
    BY <1>5 DEF SysGrow
  <2>3. PICK h : h = files[f]
    OBVIOUS
  <2>4. h.path \in Path
    BY <1>0, <2>2, <2>3, EntriesTyped DEF CountInv
  <2>5. PICK b \in Ops : b = Begin(t, "write", h.path, "map")
    BY <2>1, <2>4, BeginTyped
  <2>6. b.call = "write" /\ b.pc = "map"
    BY <2>1, <2>4, <2>5, BeginTyped
  <2>7. PICK o : o = [b EXCEPT !.fid = f, !.sector = h.sector, !.hdr = h.hdr]
    OBVIOUS
  <2>8. o.call = "write" /\ o.pc = "map" /\ o.fid = f /\ o.sector = h.sector /\ o.hdr = h.hdr
    BY <2>6, <2>7 DEF Ops
  <2>9. op' = [op EXCEPT ![t] = o] /\ MayStart(t, "write")
        /\ UNCHANGED <<disk, table, nbentry, createLock, files, crashed, lost>>
    BY <1>5, <2>3, <2>5, <2>7 DEF SysGrow, Goto, OnlyLocal
  <2>10. op[t] = Idle
    BY <2>9 DEF MayStart
  <2>11. Silent(o)
    BY <2>8, SilentCalls
  <2>12. CallOK(disk, table, files, lost, o)
    BY <2>3, <2>8 DEF CallOK, Writing
  <2> QED BY <1>1, <2>9, <2>10, <2>11, <2>12
<1> QED BY <1>2, <1>3, <1>4, <1>5

\* The entry of slot k is e now, which differs in the count.
Recounted(T, U, k, e) ==
  /\ k \in Slot /\ T[k] # NULL /\ e # NULL /\ U = [T EXCEPT ![k] = e]
  /\ e.name = T[k].name /\ e.sector = T[k].sector /\ e.file = T[k].file
  /\ e.ToBeDeleted <=> T[k].ToBeDeleted

\* Then the entries are the same but for the count.
LEMMA RecountedIs ==
  ASSUME NEW T \in [Slot -> OFTEntries \cup {NULL}], NEW U, NEW k, NEW e, Recounted(T, U, k, e)
  PROVE  SameEntries(T, U)
<1>1. \A i \in Slot : U[i] = IF i = k THEN e ELSE T[i]
  BY DEF Recounted
<1> QED BY <1>1 DEF Recounted, SameEntries

\* An Open finds the file in the table.
LEMMA HitKeeps ==
  ASSUME CallsApart, FSInv, CountInv', NEW t \in Thread, NEW p \in Path,
         SysOpen(t, p), findl(p) # -1
  PROVE  FSInv'
<1>1. "open" \in Call /\ "newfile" \in Pcs
  BY DEF Call, Pcs
<1>2. CountInv
  BY DEF FSInv
<1>3. PICK k : k = findl(p)
  OBVIOUS
<1>4. k \in Slot /\ Used(k) /\ table[k].name = p /\ table[k] \in OFTEntries
  BY <1>2, <1>3, FindlIs, EntriesTyped DEF CountInv
<1>5. PICK b \in Ops : b = Begin(t, "open", p, "newfile")
  BY <1>1, BeginTyped
<1>6. b.call = "open" /\ b.pc = "newfile"
  BY <1>1, <1>5, BeginTyped
<1>7. PICK o : o = [b EXCEPT !.todo = <<>>, !.sector = table[k].sector]
  OBVIOUS
<1>8. o.call = "open" /\ o.pc = "newfile" /\ o.todo = <<>>
  BY <1>6, <1>7 DEF Ops
<1>9. PICK e : e = OneMore(table[k])
  OBVIOUS
<1>10. /\ MayStart(t, "open") /\ op' = [op EXCEPT ![t] = o]
       /\ table' = [table EXCEPT ![k] = e]
       /\ UNCHANGED <<disk, files, crashed, lost>>
  BY <1>3, <1>5, <1>7, <1>9 DEF SysOpen, Goto
<1>11. /\ e.name = table[k].name /\ e.sector = table[k].sector /\ e.file = table[k].file
       /\ e.ToBeDeleted = table[k].ToBeDeleted /\ e \in OFTEntries
  BY <1>4, <1>9 DEF OneMore, OFTEntries
<1>12. e # NULL
  BY <1>11, EntriesTyped
<1>13. table[k] # NULL
  BY <1>4 DEF Used
<1>14. Typed(disk, table, files, lost)
  BY <1>2 DEF CountInv, FSTypeOK, Typed
<1>15. PICK U : U = table'
  OBVIOUS
<1>16. SameEntries(table, U)
  <2>1. U = [table EXCEPT ![k] = e]
    BY <1>10, <1>15
  <2>2. Recounted(table, U, k, e)
    BY <1>4, <1>11, <1>12, <1>13, <2>1 DEF Recounted
  <2>3. table \in [Slot -> OFTEntries \cup {NULL}]
    BY <1>14 DEF Typed
  <2> QED BY <2>2, <2>3, RecountedIs
<1>17. DiskInv(disk, U, files, lost, Victims, Pending, Dropped)
  <2>1. DiskInv(disk, table, files, lost, Victims, Pending, Dropped)
    BY DEF FSInv
  <2>2. \A g \in Fid : files[g] # NULL => files[g] = files[g]
    OBVIOUS
  <2> QED BY <1>14, <1>16, <2>1, <2>2, EntriesKept
<1>18. DiskInv(disk, table', files', lost', Victims, Pending, Dropped)
  BY <1>10, <1>15, <1>17
<1>19. Alone(t) /\ op[t] = Idle
  BY <1>1, <1>10, StarterIsAlone
<1>20. Silent(op[t]) /\ Silent(o)
  BY <1>8, <1>19, SilentCalls
<1>21. CallOK(disk, table', files', lost', o)
  BY <1>8 DEF CallOK, Opening
<1>22. UNCHANGED <<disk, crashed>>
  BY <1>10
<1> QED BY <1>10, <1>18, <1>19, <1>20, <1>21, <1>22, TableMove

\* A file is closed.
LEMMA CloseKeeps ==
  ASSUME CallsApart, FSInv, CountInv', NEW t \in Thread, NEW f \in Fid, SysClose(t, f)
  PROVE  FSInv'
<1>1. MayStart(t, "close") /\ files[f] # NULL /\ "close" \in Call
      /\ UNCHANGED <<disk, crashed, lost>>
  BY DEF SysClose, Call
<1>2. Alone(t) /\ op[t] = Idle /\ \A u \in Thread : u # t => op[u] = Idle
  BY <1>1, StarterIsAlone
<1>3. \A u \in Thread : op[u] = Idle
  BY <1>2
<1>4. (\A g \in Fid : ~Closing(g)) /\ (\A q : HitsOf(q) = {})
  BY <1>3, IdleTyped DEF Closing, HitsOf, Hit, Call
<1>5. CountInv
  BY DEF FSInv
<1>6. PICK p, k : p = files[f].path /\ k = findl(files[f].path)
  OBVIOUS
<1>7. /\ p \in Path /\ k \in Slot /\ Used(k) /\ table[k].name = p
      /\ table[k] \in OFTEntries /\ table[k].numthread \in Nat \ {0}
      /\ table[k].numthread <= 1 => HandlesOf(p) \ {f} = {}
  <2>1. HitsOf(files[f].path) = {}
    BY <1>4
  <2> QED BY <1>1, <1>4, <1>5, <1>6, <2>1, OneOfThem
<1>8. k # -1 /\ table[k] # NULL
  BY <1>7, SlotsAndFids DEF Used
<1>9. PICK last \in BOOLEAN : last <=> table[k].numthread <= 1
  OBVIOUS
<1>10. PICK e : e = OneLess(table[k])
  OBVIOUS
<1>11. /\ e.name = table[k].name /\ e.sector = table[k].sector /\ e.file = table[k].file
       /\ e.ToBeDeleted = table[k].ToBeDeleted /\ e \in OFTEntries
  BY <1>7, <1>10 DEF OneLess, OFTEntries
<1>12. e # NULL
  BY <1>11, EntriesTyped
<1>13. Typed(disk, table, files, lost) /\ op \in [Thread -> Ops]
  BY <1>5 DEF CountInv, FSTypeOK, Typed
<1>14. \/ /\ last /\ table[k].ToBeDeleted
          /\ table' = [table EXCEPT ![k] = e]
          /\ op' = [op EXCEPT ![t] = [Begin(t, "close", p, "map") EXCEPT !.sector = k, !.fid = f]]
          /\ files' = files
       \/ /\ last /\ ~table[k].ToBeDeleted
          /\ table' = [table EXCEPT ![k] = NULL]
          /\ files' = [files EXCEPT ![f] = NULL] /\ op' = op
       \/ /\ table' = [table EXCEPT ![k] = e]
          /\ files' = [files EXCEPT ![f] = NULL] /\ op' = op
  <2>1. CASE last /\ table[k].ToBeDeleted
    BY <1>6, <1>8, <1>9, <1>10, <2>1 DEF SysClose, Goto
  <2>2. CASE last /\ ~table[k].ToBeDeleted
    BY <1>6, <1>8, <1>9, <2>2 DEF SysClose
  <2>3. CASE ~last
    BY <1>6, <1>8, <1>9, <1>10, <2>3 DEF SysClose
  <2> QED BY <2>1, <2>2, <2>3
<1>15. PICK U, G : U = table' /\ G = files'
  OBVIOUS
<1>16. /\ DiskInv(disk, table, files, lost, Victims, Pending, Dropped)
       /\ table \in [Slot -> OFTEntries \cup {NULL}] /\ files \in [Fid -> OpenFiles \cup {NULL}]
  BY <1>13 DEF FSInv, Typed
<1>17. ASSUME U = [table EXCEPT ![k] = e] PROVE SameEntries(table, U)
  <2>1. Recounted(table, U, k, e)
    BY <1>7, <1>8, <1>11, <1>12, <1>17 DEF Recounted
  <2> QED BY <1>16, <2>1, RecountedIs
<1>18. ASSUME G = [files EXCEPT ![f] = NULL]
       PROVE  \A g \in Fid : G[g] # NULL => G[g] = files[g]
  BY <1>16, <1>18
<1>19. ASSUME DiskInv(disk, U, G, lost, Victims, Pending, Dropped), NEW o, Silent(o),
              op' = [op EXCEPT ![t] = o], CallOK(disk, table', files', lost', o)
       PROVE  FSInv'
  <2>1. DiskInv(disk, table', files', lost', Victims, Pending, Dropped)
    BY <1>1, <1>15, <1>19
  <2>2. Silent(op[t])
    BY <1>2, SilentCalls
  <2>3. UNCHANGED <<disk, crashed>>
    BY <1>1
  <2> QED BY <1>2, <1>19, <2>1, <2>2, <2>3, TableMove
<1>20. ASSUME op' = op, DiskInv(disk, U, G, lost, Victims, Pending, Dropped)
       PROVE  FSInv'
  <2>1. op' = [op EXCEPT ![t] = Idle]
    BY <1>2, <1>13, <1>20
  <2>2. Silent(Idle)
    BY SilentCalls
  <2>3. CallOK(disk, table', files', lost', Idle)
    BY DEF CallOK
  <2> QED BY <1>19, <1>20, <2>1, <2>2, <2>3
<1>21. CASE /\ last /\ table[k].ToBeDeleted
            /\ table' = [table EXCEPT ![k] = e]
            /\ op' = [op EXCEPT ![t] = [Begin(t, "close", p, "map") EXCEPT !.sector = k, !.fid = f]]
            /\ files' = files
  <2>1. "map" \in Pcs
    BY DEF Pcs
  <2>2. PICK b \in Ops : b = Begin(t, "close", p, "map")
    BY <1>1, <1>7, <2>1, BeginTyped
  <2>3. b.call = "close" /\ b.pc = "map"
    BY <1>1, <1>7, <2>1, <2>2, BeginTyped
  <2>4. PICK o : o = [b EXCEPT !.sector = k, !.fid = f]
    OBVIOUS
  <2>5. o.call = "close" /\ o.pc = "map"
    BY <2>3, <2>4 DEF Ops
  <2>6. op' = [op EXCEPT ![t] = o]
    BY <1>21, <2>2, <2>4
  <2>7. Silent(o)
    BY <2>5, SilentCalls
  <2>8. CallOK(disk, table', files', lost', o)
    BY <2>5 DEF CallOK, Freeing
  <2>9. SameEntries(table, U) /\ \A g \in Fid : G[g] # NULL => G[g] = files[g]
    BY <1>15, <1>17, <1>21
  <2>10. DiskInv(disk, U, G, lost, Victims, Pending, Dropped)
    BY <1>13, <1>16, <2>9, EntriesKept
  <2> QED BY <1>19, <2>6, <2>7, <2>8, <2>10
<1>22. CASE /\ last /\ ~table[k].ToBeDeleted
            /\ table' = [table EXCEPT ![k] = NULL]
            /\ files' = [files EXCEPT ![f] = NULL] /\ op' = op
  <2>1. \A g \in Fid : files[g] # NULL /\ files[g].path = table[k].name => g = f
    <3> SUFFICES ASSUME NEW g \in Fid, files[g] # NULL, files[g].path = table[k].name, g # f
                 PROVE  FALSE
      OBVIOUS
    <3>1. g \in HandlesOf(p) \ {f}
      BY <1>4, <1>7 DEF HandlesOf
    <3> QED BY <1>7, <1>9, <1>22, <3>1
  <2>2. U = [table EXCEPT ![k] = NULL] /\ G = [files EXCEPT ![f] = NULL]
    BY <1>15, <1>22
  <2>3. LastOut(table, files, U, G, k, f)
    BY <1>7, <1>8, <1>22, <2>1, <2>2 DEF LastOut
  <2>4. DiskInv(disk, U, G, lost, Victims, Pending, Dropped)
    BY <1>13, <1>16, <2>3, EntryLeaves
  <2> QED BY <1>20, <1>22, <2>4
<1>23. CASE /\ table' = [table EXCEPT ![k] = e]
            /\ files' = [files EXCEPT ![f] = NULL] /\ op' = op
  <2>1. SameEntries(table, U) /\ \A g \in Fid : G[g] # NULL => G[g] = files[g]
    BY <1>15, <1>17, <1>18, <1>23
  <2>2. DiskInv(disk, U, G, lost, Victims, Pending, Dropped)
    BY <1>13, <1>16, <2>1, EntriesKept
  <2> QED BY <1>20, <1>23, <2>2
<1> QED BY <1>14, <1>21, <1>22, <1>23

\* A call begins.
LEMMA StartKeeps ==
  ASSUME CallsApart, FSInv, CountInv', NEW t \in Thread,
         \/ \E p \in Path : \/ \E n \in Sizes : SysCreate(t, p, n)
                            \/ SysOpen(t, p)
                            \/ \E call \in Call : SysPath(t, call, p)
         \/ \E f \in Fid : SysClose(t, f) \/ SysGrow(t, f)
  PROVE  FSInv'
<1>1. ASSUME NEW p \in Path,
             \/ \E n \in Sizes : SysCreate(t, p, n)
             \/ SysOpen(t, p)
             \/ \E call \in Call : SysPath(t, call, p)
      PROVE  FSInv'
  <2>1. CASE SysOpen(t, p) /\ findl(p) # -1
    BY <2>1, HitKeeps
  <2>2. CASE ~(SysOpen(t, p) /\ findl(p) # -1)
    <3>1. PICK f : f \in Fid
      BY FileSystemAssumption DEF Fid
    <3> QED BY <1>1, <2>2, <3>1, BeginKeeps
  <2> QED BY <2>1, <2>2
<1>2. ASSUME NEW f \in Fid, SysClose(t, f) \/ SysGrow(t, f)
      PROVE  FSInv'
  <2>1. CASE SysClose(t, f)
    BY <2>1, CloseKeeps
  <2>2. CASE SysGrow(t, f)
    <3>1. files[f] # NULL /\ CountInv
      BY <2>2 DEF SysGrow, FSInv
    <3>2. files[f].path \in Path
      BY <3>1, EntriesTyped DEF CountInv
    <3> QED BY <2>2, <3>2, BeginKeeps
  <2> QED BY <1>2, <2>1, <2>2
<1> QED BY <1>1, <1>2

\* A step of any thread keeps the invariant.
LEMMA NextKeeps == CallsApart /\ OneSpelling /\ FSInv /\ [Next]_vars => FSInv'
<1> SUFFICES ASSUME CallsApart, OneSpelling, FSInv, [Next]_vars PROVE FSInv'
  OBVIOUS
<1>1. CountInv'
  BY NextCounts DEF FSInv
<1>2. CASE Next
  <2>1. PICK t \in Thread :
          \/ \E p \in Path : \/ \E n \in Sizes : SysCreate(t, p, n)
                             \/ SysOpen(t, p)
                             \/ \E call \in Call : SysPath(t, call, p)
          \/ \E f \in Fid : SysClose(t, f) \/ SysGrow(t, f)
          \/ Step(t)
    BY <1>2 DEF Next
  <2>2. CASE Step(t)
    BY <1>1, <2>2, StepKeeps
  <2>3. CASE ~Step(t)
    BY <1>1, <2>1, <2>3, StartKeeps
  <2> QED BY <2>2, <2>3
<1>3. CASE UNCHANGED vars
  <2>1. UNCHANGED <<disk, table, files, lost, op, crashed>>
    BY <1>3 DEF vars
  <2>2. Victims' = Victims /\ Pending' = Pending /\ Dropped' = Dropped
    BY <2>1 DEF Victims, Pending, Dropped
  <2>3. /\ DiskInv(disk, table, files, lost, Victims, Pending, Dropped) /\ ~crashed
        /\ \A t \in Thread : CallOK(disk, table, files, lost, op[t])
    BY DEF FSInv, CallsOK
  <2>4. DiskInv(disk', table', files', lost', Victims', Pending', Dropped') /\ ~crashed'
    BY <2>1, <2>2, <2>3
  <2>5. \A t \in Thread : CallOK(disk', table', files', lost', op'[t])
    BY <2>1, <2>3
  <2> QED BY <1>1, <2>4, <2>5 DEF FSInv, CallsOK
<1> QED BY <1>2, <1>3

\* The formatter leaves a disk without files.
LEMMA InitKeeps == Init => FSInv
<1> SUFFICES ASSUME Init PROVE FSInv
  OBVIOUS
<1>1. CountInv
  BY InitCounts
<1>2. /\ table = [i \in Slot |-> NULL] /\ files = [f \in Fid |-> NULL]
      /\ op = [t \in Thread |-> Idle] /\ ~crashed
  BY DEF Init
<1>3. PICK D : D = disk
  OBVIOUS
<1>4. D \in [Sector -> Blocks]
  BY <1>1, <1>3 DEF CountInv, FSTypeOK
<1>5. /\ D[FreeMapSector] = Header(FALSE, <<MapData>>)
      /\ D[DirectorySector] = Header(TRUE, <<RootData>>)
      /\ D[MapData] = Map(System) /\ D[RootData] = Dir(Empty)
  <2>1. System \subseteq Sector
    BY Sectors
  <2>2. /\ FreeMapSector \in Sector /\ DirectorySector \in Sector /\ MapData \in Sector
        /\ RootData \in Sector
    BY <2>1 DEF System
  <2>3. /\ FreeMapSector = 0 /\ DirectorySector = 1 /\ MapData = 2 /\ RootData = 3
    BY DEF FreeMapSector, DirectorySector, MapData, RootData
  <2>4. D = [s \in Sector |->
               CASE s = FreeMapSector   -> Header(FALSE, <<MapData>>)
                 [] s = DirectorySector -> Header(TRUE, <<RootData>>)
                 [] s = MapData         -> Map(System)
                 [] s = RootData        -> Dir(Empty)
                 [] OTHER               -> Data]
    BY <1>3 DEF Init
  <2>5. D[FreeMapSector] = Header(FALSE, <<MapData>>)
    BY <2>2, <2>3, <2>4
  <2>6. D[DirectorySector] = Header(TRUE, <<RootData>>)
    BY <2>2, <2>3, <2>4
  <2>7. D[MapData] = Map(System)
    BY <2>2, <2>3, <2>4
  <2>8. D[RootData] = Dir(Empty)
    BY <2>2, <2>3, <2>4
  <2> QED BY <2>5, <2>6, <2>7, <2>8
<1>6. FixedOK(D)
  <2>1. Map(System).used = System /\ Map(System).kind = "map" /\ Dir(Empty).kind = "dir"
    BY DEF Map, Dir
  <2> QED BY <1>5, <2>1 DEF FixedOK, UsedIn
<1>7. D[RootData].tab = Empty /\ DOMAIN Empty = {}
  BY <1>5 DEF Dir, Empty
<1>8. DirsOf(D) = {DirectorySector}
  BY <1>7 DEF DirsOf, Range
<1>9. \A d, n, s : ~NamedAt(D, d, n, s)
  <2>1. TabAt(D, DirectorySector) = D[RootData].tab
    BY <1>4, <1>6, FixedIs
  <2> QED BY <1>7, <1>8, <2>1 DEF NamedAt
<1>10. \A i \in Slot : table[i] = NULL
  BY <1>2
<1>11. \A f \in Fid : files[f] = NULL
  BY <1>2
<1>12. Heads(D, table) = {} /\ Owners(D, table) = {}
  BY <1>9, <1>10 DEF Heads, Owners, HasName, Held
<1>13. DiskInv(D, table, files, lost, {}, {}, {})
  <2>1. HeadsOK(D, Heads(D, table), {}) /\ MarksOK(D, Heads(D, table), {})
    BY <1>12 DEF HeadsOK, MarksOK
  <2>2. NamesApart(D)
    BY <1>9 DEF NamesApart
  <2>3. LeaksOK(D, Owners(D, table), lost)
    <3>1. UsedIn(D) = System
      BY <1>5 DEF UsedIn, Map
    <3> QED BY <3>1 DEF LeaksOK
  <2>4. TableOK(D, table, lost, {}) /\ HandlesOK(D, table, files, {}, lost)
    BY <1>10, <1>11 DEF TableOK, HandlesOK
  <2> QED BY <1>6, <2>1, <2>2, <2>3, <2>4 DEF DiskInv
<1>14. \A t \in Thread : op[t] = Idle
  BY <1>2
<1>15. Victims = {} /\ Pending = {} /\ Dropped = {}
  <2>1. \A t \in Thread : Silent(op[t])
    BY <1>14, SilentCalls
  <2> QED BY <2>1 DEF Silent, Victims, Pending, Dropped
<1>16. CallsOK
  BY <1>14 DEF CallsOK, CallOK
<1>17. DiskInv(disk, table, files, lost, Victims, Pending, Dropped)
  BY <1>3, <1>13, <1>15
<1> QED BY <1>1, <1>2, <1>16, <1>17 DEF FSInv

-----------------------------------------------------------------------------
(* What the invariant says of the files *)

\* What a sector leads to, in the words of the module.
LEMMA SectorsAre ==
  /\ \A s : IsKind(s, "hdr") <=> HdrAt(disk, s)
  /\ \A s : SectorsOf(s) = SecsAt(disk, s)
<1>1. \A s : IsKind(s, "hdr") <=> HdrAt(disk, s)
  BY DEF IsKind, HdrAt
<1> QED BY <1>1 DEF SectorsOf, SecsAt

\* A sequence without repetitions has as many elements as its length says.
LEMMA CountInjective ==
  ASSUME NEW S, NEW q \in Seq(S), Injective(q)
  PROVE  IsFiniteSet(Range(q)) /\ Cardinality(Range(q)) = Len(q)
<1>1. Len(q) \in Nat /\ DOMAIN q = 1..Len(q) /\ q \in [1..Len(q) -> S]
  BY LenProperties
<1>2. q \in [1..Len(q) -> Range(q)]
  BY <1>1 DEF Range
<1>3. q \in Injection(1..Len(q), Range(q))
  BY <1>1, <1>2 DEF Injective, Injection, IsInjective
<1>4. q \in Surjection(1..Len(q), Range(q))
  BY <1>1, <1>2 DEF Range, Surjection
<1>5. ExistsBijection(1..Len(q), Range(q))
  BY <1>3, <1>4 DEF Bijection, ExistsBijection
<1> QED BY <1>1, <1>5, FS_CountingElements, FS_NatBijection

\* A file has as many sectors as its header has, and one for the header.
LEMMA CountSectors ==
  ASSUME NEW D \in [Sector -> Blocks], NEW s, HdrOK(D, s)
  PROVE  Cardinality(SecsAt(D, s)) = 1 + Len(D[s].secs)
<1>1. HdrAt(D, s) /\ Injective(D[s].secs) /\ s \notin Range(D[s].secs)
  BY DEF HdrOK
<1>2. D[s].secs \in Seq(Sector)
  BY <1>1, DiskTyped
<1>3. IsFiniteSet(Range(D[s].secs)) /\ Cardinality(Range(D[s].secs)) = Len(D[s].secs)
  BY <1>1, <1>2, CountInjective
<1>4. Cardinality(Range(D[s].secs) \cup {s}) = Cardinality(Range(D[s].secs)) + 1
  BY <1>1, <1>3, FS_AddElement
<1>5. SecsAt(D, s) = Range(D[s].secs) \cup {s}
  BY <1>1 DEF SecsAt
<1>6. Len(D[s].secs) \in Nat
  BY <1>2, LenProperties
<1> QED BY <1>3, <1>4, <1>5, <1>6

\* What has a name, as the module and as the invariant say it.
LEMMA NamedAre ==
  ASSUME FSInv
  PROVE  /\ \A file \in Named : \E d \in Sector, n \in Name, s \in Sector :
              file = <<d, n, s>> /\ NamedAt(disk, d, n, s)
         /\ \A d, n, s : NamedAt(disk, d, n, s) => <<d, n, s>> \in Named
<1>1. Typed(disk, table, files, lost)
      /\ DiskInv(disk, table, files, lost, Victims, Pending, Dropped)
  BY DEF FSInv, CountInv, FSTypeOK, Typed
<1>2. Good(disk, Heads(disk, table), Victims) /\ disk \in [Sector -> Blocks] /\ FixedOK(disk)
  BY <1>1, InvIs DEF DiskInv
<1>3. TabAt(disk, DirectorySector) = disk[RootData].tab /\ DirectorySector \in DirsOf(disk)
  BY <1>2, FixedIs
<1> DEFINE root == disk[RootData].tab
           subs == {s \in Range(root) : IsKind(s, "hdr") /\ disk[s].isdir}
           Tab(s) == disk[DataOf(disk[s])].tab
<1>4. DirsOf(disk) = {DirectorySector} \cup subs
  BY SectorsAre DEF DirsOf, DirAt
<1>5. \A s : Tab(s) = TabAt(disk, s)
  BY DEF TabAt, DataOf
<1>6. Named = {<<DirectorySector, n, root[n]>> : n \in DOMAIN root}
                \cup UNION {{<<s, n, Tab(s)[n]>> : n \in DOMAIN Tab(s)} : s \in subs}
  BY DEF Named
<1> HIDE DEF root, subs, Tab
<1>7. root = TabAt(disk, DirectorySector)
  BY <1>3 DEF root
<1>8. ASSUME NEW file \in Named
      PROVE  \E d, n, s : file = <<d, n, s>> /\ NamedAt(disk, d, n, s)
  <2>1. CASE \E n \in DOMAIN root : file = <<DirectorySector, n, root[n]>>
    BY <1>3, <1>7, <2>1 DEF NamedAt
  <2>2. CASE \E s \in subs : \E n \in DOMAIN Tab(s) : file = <<s, n, Tab(s)[n]>>
    BY <1>4, <1>5, <2>2 DEF NamedAt
  <2> QED BY <1>6, <2>1, <2>2
<1>9. ASSUME NEW d, NEW n, NEW s, NamedAt(disk, d, n, s) PROVE <<d, n, s>> \in Named
  <2>1. d \in DirsOf(disk) /\ n \in DOMAIN TabAt(disk, d) /\ s = TabAt(disk, d)[n]
    BY <1>9 DEF NamedAt
  <2>2. CASE d = DirectorySector
    BY <1>6, <1>7, <2>1, <2>2
  <2>3. CASE d \in subs
    <3>1. n \in DOMAIN Tab(d) /\ s = Tab(d)[n]
      BY <1>5, <2>1
    <3> QED BY <1>6, <2>3, <3>1
  <2> QED BY <1>4, <2>1, <2>2, <2>3
<1>10. \A d, n, s : NamedAt(disk, d, n, s) => d \in Sector /\ n \in Name /\ s \in Sector
  BY <1>2, NamesAre
<1> QED BY <1>8, <1>9, <1>10

\* A file that is open and has lost its name is an entry, and has none.
LEMMA NamelessAre ==
  ASSUME FSInv
  PROVE  /\ \A file \in Nameless : \E i \in Slot :
              /\ file = <<NULL, i, table[i].sector>> /\ table[i] # NULL
              /\ table[i].ToBeDeleted /\ \A d, n : ~NamedAt(disk, d, n, table[i].sector)
         /\ Quiet => \A i \in Slot : table[i] # NULL /\ table[i].ToBeDeleted =>
              <<NULL, i, table[i].sector>> \in Nameless
<1>1. Typed(disk, table, files, lost)
      /\ DiskInv(disk, table, files, lost, Victims, Pending, Dropped)
  BY DEF FSInv, CountInv, FSTypeOK, Typed
<1>2. Good(disk, Heads(disk, table), Victims)
  BY <1>1, InvIs
<1>3. ASSUME NEW file \in Nameless
      PROVE  \E i \in Slot :
              /\ file = <<NULL, i, table[i].sector>> /\ table[i] # NULL
              /\ table[i].ToBeDeleted /\ \A d, n : ~NamedAt(disk, d, n, table[i].sector)
  <2>1. PICK i \in Slot : /\ file = <<NULL, i, table[i].sector>>
                          /\ table[i] # NULL /\ table[i].ToBeDeleted
                          /\ \A t \in Thread : ~(op[t].call = "remove" /\ op[t].path = table[i].name)
    BY DEF Nameless
  <2>2. EntryOK(disk, lost, Dropped, table[i])
    BY <1>1, <2>1, InvIs
  <2>3. table[i].name \notin Dropped
    BY <2>1 DEF Dropped, DroppedBy
  <2>4. ASSUME NEW d, NEW n, NamedAt(disk, d, n, table[i].sector) PROVE FALSE
    <3>1. d \in Sector /\ n \in Name
      BY <1>2, <2>4, NamesAre
    <3> QED BY <2>1, <2>2, <2>3, <2>4, <3>1 DEF EntryOK
  <2> QED BY <2>1, <2>4
<1>4. ASSUME Quiet, NEW i \in Slot, table[i] # NULL, table[i].ToBeDeleted
      PROVE  <<NULL, i, table[i].sector>> \in Nameless
  <2>1. \A t \in Thread : op[t].call # "remove"
    BY <1>4, IdleTyped DEF Quiet, Call
  <2> QED BY <1>4, <2>1 DEF Nameless
<1> QED BY <1>3, <1>4

\* No call has anything in hand when the disk is quiet.
LEMMA QuietIs ==
  ASSUME Quiet
  PROVE  Victims = {} /\ Pending = {} /\ Dropped = {}
<1>1. ASSUME NEW t \in Thread PROVE Silent(op[t])
  <2>1. op[t].call \in {NULL, "open"} /\ NULL \notin Call
    BY IdleTyped DEF Quiet
  <2>2. op[t].call \notin {"create", "mkdir", "write", "rmdir", "fsremove", "remove"}
    BY <2>1 DEF Call
  <2> QED BY <2>2 DEF Silent, VictimOf, PendingOf, DroppedBy
<1> QED BY <1>1 DEF Silent, Victims, Pending, Dropped

\* What every live file is, whoever is at work.
LEMMA LiveIs ==
  ASSUME FSInv, NEW file \in Live
  PROVE  file[3] \in Heads(disk, table) /\ file[3] \in Sector
<1>1. Typed(disk, table, files, lost)
      /\ DiskInv(disk, table, files, lost, Victims, Pending, Dropped)
  BY DEF FSInv, CountInv, FSTypeOK, Typed
<1>2. Good(disk, Heads(disk, table), Victims) /\ Heads(disk, table) \subseteq Sector
  BY <1>1, InvIs
<1>3. CASE file \in Named
  <2>1. PICK d \in Sector, n \in Name, s \in Sector : file = <<d, n, s>> /\ NamedAt(disk, d, n, s)
    BY <1>3, NamedAre
  <2>2. file[3] = s
    BY <2>1
  <2> QED BY <1>2, <2>1, <2>2, NamesAre
<1>4. CASE file \in Nameless
  <2>1. PICK i \in Slot : file = <<NULL, i, table[i].sector>> /\ table[i] # NULL
    BY <1>4, NamelessAre
  <2>2. file[3] = table[i].sector
    BY <2>1
  <2> QED BY <1>1, <1>2, <2>1, <2>2, InvIs
<1> QED BY <1>3, <1>4 DEF Live

\* Two files that are live are at different sectors.
LEMMA LiveApart ==
  ASSUME FSInv, NEW f1 \in Live, NEW f2 \in Live, f1[3] = f2[3]
  PROVE  f1 = f2
<1>1. NamesApart(disk) /\ TableOK(disk, table, lost, Dropped)
  BY DEF FSInv, DiskInv
<1>2. \A f \in Named : \E d \in Sector, n \in Name, s \in Sector :
        f = <<d, n, s>> /\ f[3] = s /\ NamedAt(disk, d, n, s)
  BY NamedAre
<1>3. \A f \in Nameless : \E i \in Slot :
        /\ f = <<NULL, i, table[i].sector>> /\ f[3] = table[i].sector /\ table[i] # NULL
        /\ \A d, n : ~NamedAt(disk, d, n, table[i].sector)
  BY NamelessAre
<1>4. ASSUME f1 \in Named, f2 \in Named PROVE f1 = f2
  <2>1. PICK d \in Sector, n \in Name, s \in Sector :
          f1 = <<d, n, s>> /\ f1[3] = s /\ NamedAt(disk, d, n, s)
    BY <1>2, <1>4
  <2>2. PICK e \in Sector, m \in Name, r \in Sector :
          f2 = <<e, m, r>> /\ f2[3] = r /\ NamedAt(disk, e, m, r)
    BY <1>2, <1>4
  <2>3. s = r
    BY <2>1, <2>2
  <2>4. d = e /\ n = m
    BY <1>1, <2>1, <2>2, <2>3 DEF NamesApart
  <2> QED BY <2>1, <2>2, <2>3, <2>4
<1>5. ASSUME f1 \in Nameless, f2 \in Nameless PROVE f1 = f2
  <2>1. PICK i \in Slot :
          f1 = <<NULL, i, table[i].sector>> /\ f1[3] = table[i].sector /\ table[i] # NULL
    BY <1>3, <1>5
  <2>2. PICK j \in Slot :
          f2 = <<NULL, j, table[j].sector>> /\ f2[3] = table[j].sector /\ table[j] # NULL
    BY <1>3, <1>5
  <2>3. table[i].sector = table[j].sector
    BY <2>1, <2>2
  <2>4. i = j
    BY <1>1, <2>1, <2>2, <2>3 DEF TableOK
  <2> QED BY <2>1, <2>2, <2>4
<1>6. ASSUME NEW g \in Named, NEW h \in Nameless PROVE g[3] # h[3]
  <2>1. PICK d \in Sector, n \in Name, s \in Sector :
          g = <<d, n, s>> /\ g[3] = s /\ NamedAt(disk, d, n, s)
    BY <1>2, <1>6
  <2>2. PICK i \in Slot :
          h[3] = table[i].sector /\ \A e, m : ~NamedAt(disk, e, m, table[i].sector)
    BY <1>3, <1>6
  <2> QED BY <2>1, <2>2
<1>7. f1 \in Named \cup Nameless /\ f2 \in Named \cup Nameless
  BY DEF Live
<1> QED BY <1>4, <1>5, <1>6, <1>7

\* No two files share a sector.
LEMMA SectorsApart == FSInv => NoSectorShared
<1> SUFFICES ASSUME FSInv PROVE NoSectorShared
  OBVIOUS
<1>1. /\ HeadsOK(disk, Heads(disk, table), Victims) /\ disk \in [Sector -> Blocks]
  BY DEF FSInv, DiskInv, CountInv, FSTypeOK
<1>2. ASSUME Quiet, NEW file \in Live
      PROVE  /\ IsKind(file[3], "hdr")
             /\ Cardinality(SectorsOf(file[3])) = 1 + Len(disk[file[3]].secs)
             /\ SectorsOf(file[3]) \cap System = {}
  <2>1. file[3] \in Heads(disk, table)
    BY LiveIs
  <2>2. Victims = {}
    BY <1>2, QuietIs
  <2>3. HdrOK(disk, file[3]) /\ file[3] \notin System
    BY <1>1, <2>1, <2>2 DEF HeadsOK
  <2>4. SectorsOf(file[3]) = SecsAt(disk, file[3]) /\ IsKind(file[3], "hdr")
    BY <2>3, SectorsAre DEF HdrOK
  <2>5. Cardinality(SecsAt(disk, file[3])) = 1 + Len(disk[file[3]].secs)
    BY <1>1, <2>3, CountSectors
  <2>6. SecsAt(disk, file[3]) \cap System = {}
    BY <2>3 DEF HdrOK, SecsAt
  <2> QED BY <2>4, <2>5, <2>6
<1>3. ASSUME NEW f1 \in Live, NEW f2 \in Live, f1 # f2
      PROVE  SectorsOf(f1[3]) \cap SectorsOf(f2[3]) = {}
  <2>1. f1[3] # f2[3]
    BY <1>3, LiveApart
  <2>2. f1[3] \in Heads(disk, table) /\ f2[3] \in Heads(disk, table)
    BY LiveIs
  <2>3. SecsAt(disk, f1[3]) \cap SecsAt(disk, f2[3]) = {}
    BY <1>1, <2>1, <2>2 DEF HeadsOK
  <2>4. SectorsOf(f1[3]) = SecsAt(disk, f1[3]) /\ SectorsOf(f2[3]) = SecsAt(disk, f2[3])
    BY SectorsAre
  <2> QED BY <2>3, <2>4
<1> QED BY <1>2, <1>3 DEF NoSectorShared

\* The map of free sectors is right between the calls that change it.
LEMMA MapIsRight == FSInv => FreeMapIsRight
<1> SUFFICES ASSUME FSInv, Quiet PROVE InUse \subseteq Marked /\ Marked \ InUse \subseteq lost
  BY DEF FreeMapIsRight
<1>1. DiskInv(disk, table, files, lost, {}, {}, {}) /\ Typed(disk, table, files, lost)
  BY QuietIs DEF FSInv, CountInv, FSTypeOK, Typed
<1>2. Marked = UsedIn(disk)
  BY DEF Marked, UsedIn
<1>3. InUse = System \cup UNION {SecsAt(disk, file[3]) : file \in Live}
  BY SectorsAre DEF InUse
<1>4. InUse \subseteq Marked
  <2>1. System \subseteq UsedIn(disk)
    BY <1>1, InUseIs
  <2>2. ASSUME NEW file \in Live PROVE SecsAt(disk, file[3]) \subseteq UsedIn(disk)
    <3>1. file[3] \in Heads(disk, table)
      BY LiveIs
    <3> QED BY <1>1, <3>1, InUseIs
  <2> QED BY <1>2, <1>3, <2>1, <2>2
<1>5. ASSUME NEW s \in Marked, s \notin InUse PROVE s \in lost
  <2>1. s \in System \cup lost \/ \E r \in Owners(disk, table) : s \in SecsAt(disk, r)
    BY <1>1, <1>2, <1>5 DEF DiskInv, LeaksOK
  <2>2. ASSUME NEW r \in Owners(disk, table) PROVE SecsAt(disk, r) \subseteq InUse
    <3>1. CASE HasName(disk, r)
      <4>1. PICK d \in Sector, n \in Name : NamedAt(disk, d, n, r)
        BY <3>1 DEF HasName
      <4>2. <<d, n, r>> \in Live
        BY <4>1, NamedAre DEF Live
      <4>3. <<d, n, r>>[3] = r
        OBVIOUS
      <4> QED BY <1>3, <4>2, <4>3
    <3>2. CASE \E i \in Slot : table[i] # NULL /\ table[i].sector = r /\ table[i].ToBeDeleted
      <4>1. PICK i \in Slot : table[i] # NULL /\ table[i].sector = r /\ table[i].ToBeDeleted
        BY <3>2
      <4>2. <<NULL, i, r>> \in Live
        BY <4>1, NamelessAre DEF Live
      <4>3. <<NULL, i, r>>[3] = r
        OBVIOUS
      <4> QED BY <1>3, <4>2, <4>3
    <3> QED BY <3>1, <3>2 DEF Owners
  <2> QED BY <1>3, <1>5, <2>1, <2>2
<1> QED BY <1>4, <1>5

\* Programs keep the sectors of the files that they have open.
LEMMA OpenFilesKeep == FSInv => OpenFilesKeepTheirData
<1> SUFFICES ASSUME FSInv, NEW f \in Fid, files[f] # NULL
             PROVE  /\ Quiet => Mine(files[f]) \subseteq Marked
                    /\ \A file \in Live :
                         file[3] # files[f].sector => Mine(files[f]) \cap SectorsOf(file[3]) = {}
  BY DEF OpenFilesKeepTheirData, Mine
<1>1. Typed(disk, table, files, lost)
      /\ DiskInv(disk, table, files, lost, Victims, Pending, Dropped)
  BY DEF FSInv, CountInv, FSTypeOK, Typed
<1>2. HandleOK(disk, Heads(disk, table), Pending, files[f])
  BY <1>1, InvIs
<1>3. Quiet => Mine(files[f]) \subseteq Marked
  <2>1. Marked = UsedIn(disk)
    BY DEF Marked, UsedIn
  <2> QED BY <1>2, <2>1, QuietIs DEF HandleOK
<1>4. ASSUME NEW file \in Live, file[3] # files[f].sector
      PROVE  Mine(files[f]) \cap SectorsOf(file[3]) = {}
  <2>1. file[3] \in Heads(disk, table)
    BY LiveIs
  <2>2. SectorsOf(file[3]) = SecsAt(disk, file[3])
    BY SectorsAre
  <2> QED BY <1>2, <1>4, <2>1, <2>2 DEF HandleOK
<1> QED BY <1>3, <1>4

-----------------------------------------------------------------------------
(* Theorems *)

\* No ASSERT of the file system fails, and no sector is taken for what it is
\* not: every header, directory and map that a call reads is one (FindDir,
\* Open, Remove, Rmdir), and Deallocate frees marked sectors.
THEOREM NotCrashedHolds == CallsApart /\ OneSpelling => (FSSpec => []NotCrashed)
<1> SUFFICES ASSUME CallsApart, OneSpelling PROVE FSSpec => []NotCrashed
  OBVIOUS
<1>1. FSInv => NotCrashed
  BY DEF FSInv, NotCrashed
<1>2. FSInv /\ [Next]_vars => FSInv'
  BY NextKeeps
<1> QED BY <1>1, <1>2, InitKeeps, PTL DEF FSSpec

\* Every sector belongs to one file or directory (filesys.cc, Create and
\* Mkdir; bitmap.cc, Find).
THEOREM NoSectorSharedHolds == CallsApart /\ OneSpelling => (FSSpec => []NoSectorShared)
<1> SUFFICES ASSUME CallsApart, OneSpelling PROVE FSSpec => []NoSectorShared
  OBVIOUS
<1>1. FSInv => NoSectorShared
  BY SectorsApart
<1>2. FSInv /\ [Next]_vars => FSInv'
  BY NextKeeps
<1> QED BY <1>1, <1>2, InitKeeps, PTL DEF FSSpec

\* Between the calls that change the disk, the free map marks what the files
\* use and nothing else but the sectors that are known to be lost.
THEOREM FreeMapIsRightHolds == CallsApart /\ OneSpelling => (FSSpec => []FreeMapIsRight)
<1> SUFFICES ASSUME CallsApart, OneSpelling PROVE FSSpec => []FreeMapIsRight
  OBVIOUS
<1>1. FSInv => FreeMapIsRight
  BY MapIsRight
<1>2. FSInv /\ [Next]_vars => FSInv'
  BY NextKeeps
<1> QED BY <1>1, <1>2, InitKeeps, PTL DEF FSSpec

\* A program that has a file open keeps its sectors, even when another one
\* removes the file (oftable.cc, Remove).
THEOREM OpenFilesKeepTheirDataHolds ==
  CallsApart /\ OneSpelling => (FSSpec => []OpenFilesKeepTheirData)
<1> SUFFICES ASSUME CallsApart, OneSpelling PROVE FSSpec => []OpenFilesKeepTheirData
  OBVIOUS
<1>1. FSInv => OpenFilesKeepTheirData
  BY OpenFilesKeep
<1>2. FSInv /\ [Next]_vars => FSInv'
  BY NextKeeps
<1> QED BY <1>1, <1>2, InitKeeps, PTL DEF FSSpec

=============================================================================
