------------------------------ MODULE FileData ------------------------------
(***************************************************************************)
(* The bytes of one file: the file header and its format on the disk       *)
(* (filesys/filehdr.cc), OpenFile with ReadAt and WriteAt on whole and     *)
(* partial sectors and the growth of files (filesys/openfile.cc), the copy *)
(* of a file from the host (filesys/fsmisc.cc).                            *)
(*                                                                         *)
(* Each handle (OpenFile) has a copy of the header of its own, read when   *)
(* the file was opened.  Calls run one at a time here: an action is a whole*)
(* call.  (Nothing makes them wait for each other, FileLock of the open    *)
(* file table has no caller; module FileSystem has the interleavings.)     *)
(***************************************************************************)
EXTENDS Integers, Sequences, FiniteSets, Functions, Folds

CONSTANTS
  NumSectors,       \* NUM_SECTORS; sector 0 holds the header of the file
  SectorSize,       \* in bytes
  DatasInFirstSector, DatasInSector,  \* sector numbers per header sector
  MaxDataSectors,   \* MAX_DATA_SECTORS
  TransferSize,     \* bytes that Copy moves at a time
  Byte,             \* values of a byte
  Junk,             \* what was never written
  Handle, Writers,  \* handles, and those that write
  InitialSizes,     \* sizes of new files
  WriteSizes,       \* bytes that a call transfers
  Positions,        \* where programs seek to
  MaxLength,        \* bound on the length of the file
  CrossHeaders,     \* may a file grow into another header sector?
  NULL

Sector == 0..(NumSectors - 1)
MaxHeaderSectors == 1 + (MaxDataSectors - DatasInFirstSector + DatasInSector - 1)
                          \div DatasInSector

ASSUME FileDataAssumption ==
  /\ {NumSectors, SectorSize, DatasInFirstSector, DatasInSector,
      MaxDataSectors, TransferSize} \subseteq Nat \ {0}
  /\ DatasInFirstSector <= DatasInSector
  /\ Writers \subseteq Handle
  /\ InitialSizes \cup WriteSizes \cup Positions \cup {MaxLength} \subseteq Nat
  /\ CrossHeaders \in BOOLEAN
  /\ Junk \notin Byte \cup Sector

VARIABLES
  disk,     \* the contents of each sector
  used,     \* the free map: sectors that are marked
  hdr,      \* the header of each open handle, NULL for a closed one
  seek,     \* seekPosition of each handle
  content   \* history: the bytes of the file, NULL if there is none

vars == <<disk, used, hdr, seek, content>>

-----------------------------------------------------------------------------
(* FileHeader.  dataSectors and headerSectors are arrays, with Junk where  *)
(* nothing was stored.                                                     *)

Smaller(a, b) == IF a < b THEN a ELSE b
divRoundUp(n, s)   == IF n <= 0 THEN 0 ELSE (n + s - 1) \div s
divRoundDown(n, s) == n \div s

HeaderSectorsFor(n) == divRoundUp(n - DatasInFirstSector, DatasInSector)

NewArrays ==
  [dataSectors   |-> [i \in 0..(MaxDataSectors - 1) |-> Junk],
   headerSectors |-> [i \in 0..(MaxHeaderSectors - 1) |-> Junk]]

\* n calls of freeMap->Find(): the lowest clear bits, in this order
FindN(map, n) ==
  LET free == Sector \ map
  IN  CHOOSE q \in [0..(n - 1) -> free] :
        /\ \A i, j \in 0..(n - 1) : i < j => q[i] < q[j]
        /\ \A s \in free \ Range(q) : \A i \in 0..(n - 1) : q[i] < s

\* the entries q of an array, from index k on
Store(array, k, q) ==
  [i \in DOMAIN array |-> IF i - k \in DOMAIN q THEN q[i - k] ELSE array[i]]

NumClear(map) == Cardinality(Sector \ map)

\* Allocate and reAllocate take first the header sectors, then the data
Extend(h, map, nh, ns) ==
  LET heads == FindN(map, nh)
      datas == FindN(map \cup Range(heads), ns)
  IN  [map |-> map \cup Range(heads) \cup Range(datas),
       hdr |-> [h EXCEPT
         !.headerSectors = Store(@, h.numHeaderSectors, heads),
         !.dataSectors = Store(@, h.numSectors, datas),
         !.numSectors = @ + ns, !.numHeaderSectors = @ + nh]]

NewHeader(n) ==
  [numBytes |-> n, numSectors |-> 0, numHeaderSectors |-> 0,
   dataSectors |-> NewArrays.dataSectors,
   headerSectors |-> NewArrays.headerSectors]

CanAllocate(map, n) ==
  LET ns == divRoundUp(n, SectorSize)
  IN  NumClear(map) >= ns + HeaderSectorsFor(ns)
Allocate(map, n) ==
  LET ns == divRoundUp(n, SectorSize)
  IN  Extend(NewHeader(n), map, HeaderSectorsFor(ns), ns)

\* reAllocate: the size is changed before it is known that there is space,
\* and the header sectors are those that the old number of sectors needs
reAllocate(h, map, n) ==
  LET ns == divRoundUp(n, SectorSize) - h.numSectors
      nh == HeaderSectorsFor(h.numSectors) - h.numHeaderSectors
      g  == [h EXCEPT !.numBytes = n]
  IN  IF NumClear(map) < ns + nh THEN [ok |-> FALSE, map |-> map, hdr |-> g]
      ELSE [ok |-> TRUE, map |-> Extend(g, map, nh, ns).map,
            hdr |-> Extend(g, map, nh, ns).hdr]

\* Mutant: the header sectors stay marked.
DeallocateData(map, h) ==
  map \ {h.dataSectors[i] : i \in 0..(h.numSectors - 1)}

\* the sectors that a header describes
SectorsIn(h) == {h.dataSectors[i] : i \in 0..(h.numSectors - 1)}
                \cup {h.headerSectors[i] : i \in 0..(h.numHeaderSectors - 1)}
Deallocate(map, h) == map \ SectorsIn(h)

MaxFileLength(h) == h.numSectors * SectorSize
ByteToSector(h, i) == h.dataSectors[divRoundDown(i, SectorSize)]

(* The format on the disk: the first sector has the counts and the first   *)
(* sector numbers, each further one more numbers and its successor.        *)

\* Mutant: the length is recorded in whole sectors.
FirstSectorRounded(h) ==
  [numBytes |-> MaxFileLength(h), numSectors |-> h.numSectors,
   numHeaderSectors |-> h.numHeaderSectors,
   datas |-> [i \in 0..(DatasInFirstSector - 1) |-> h.dataSectors[i]],
   next |-> h.headerSectors[0]]

FirstSector(h) ==
  [numBytes |-> h.numBytes, numSectors |-> h.numSectors,
   numHeaderSectors |-> h.numHeaderSectors,
   datas |-> [i \in 0..(DatasInFirstSector - 1) |-> h.dataSectors[i]],
   next |-> h.headerSectors[0]]

\* Mutant: the entries of every further header sector start at the same place.
DataIndexStuck(i, j) == DatasInFirstSector + j

\* index in dataSectors of entry j of header sector i
DataIndex(i, j) == DatasInFirstSector + i * DatasInSector + j

NextSector(h, i) ==
  [datas |-> [j \in 0..(DatasInSector - 1) |->
                IF DataIndex(i, j) < MaxDataSectors
                THEN h.dataSectors[DataIndex(i, j)] ELSE Junk],
   next |-> IF i + 1 < h.numHeaderSectors THEN h.headerSectors[i + 1] ELSE 0]

WriteBack(dsk, h) ==
  [s \in Sector |->
     IF s = 0 THEN FirstSector(h)
     ELSE IF \E i \in 0..(h.numHeaderSectors - 1) : h.headerSectors[i] = s
     THEN NextSector(h, CHOOSE i \in 0..(h.numHeaderSectors - 1) :
                          h.headerSectors[i] = s)
     ELSE dsk[s]]

\* FetchFrom: the chain of header sectors is followed numHeaderSectors times
FetchFrom(dsk) ==
  LET f == dsk[0]
      chain[i \in 0..(f.numHeaderSectors - 1)] ==
        IF i = 0 THEN f.next ELSE dsk[chain[i - 1]].next
      data(k) ==
        IF k < DatasInFirstSector THEN f.datas[k]
        ELSE LET i == (k - DatasInFirstSector) \div DatasInSector
                 j == (k - DatasInFirstSector) % DatasInSector
             IN  IF i < f.numHeaderSectors THEN dsk[chain[i]].datas[j] ELSE Junk
  IN  [numBytes |-> f.numBytes, numSectors |-> f.numSectors,
       numHeaderSectors |-> f.numHeaderSectors,
       dataSectors |-> [k \in 0..(MaxDataSectors - 1) |-> data(k)],
       headerSectors |-> Store(NewArrays.headerSectors, 0, chain)]

-----------------------------------------------------------------------------
(* OpenFile *)

\* byte i of the file that header h describes
ByteAt(dsk, h, i) ==
  LET s == ByteToSector(h, i)
  IN  IF s \in Sector THEN dsk[s][i % SectorSize] ELSE Junk

\* ReadAt: a sequence of at most n bytes
ReadAt(dsk, h, pos, n) ==
  IF n <= 0 \/ pos >= h.numBytes THEN <<>>
  ELSE [i \in 1..(Smaller(pos + n, h.numBytes) - pos) |->
          ByteAt(dsk, h, pos + i - 1)]

\* Mutant: a partial last sector is not read before it is written.
KeptOnlyFirst(first, last, firstAligned, lastAligned) ==
  IF firstAligned THEN {} ELSE {first}

\* the sectors that WriteAt reads, to keep the bytes around those it writes
Kept(first, last, firstAligned, lastAligned) ==
  (IF firstAligned THEN {} ELSE {first})
    \cup (IF lastAligned THEN {} ELSE {last})

\* the disk after WriteAt has written bytes at pos through header h
Overwrite(dsk, h, pos, bytes) ==
  LET n == Len(bytes)
      first == divRoundDown(pos, SectorSize)
      last  == divRoundDown(pos + n - 1, SectorSize)
      kept  == Kept(first, last, pos = first * SectorSize,
                    pos + n = (last + 1) * SectorSize)
      Image(k) == [b \in 0..(SectorSize - 1) |->
        LET i == k * SectorSize + b
        IN  IF i \in pos..(pos + n - 1) THEN bytes[i - pos + 1]
            ELSE IF k \in kept /\ i < h.numBytes THEN ByteAt(dsk, h, i)
            ELSE Junk]
  IN  [s \in Sector |->
         IF \E k \in first..last : h.dataSectors[k] = s
         THEN Image(CHOOSE k \in first..last : h.dataSectors[k] = s)
         ELSE dsk[s]]

\* WriteAt: the new disk, free map and header, and the bytes written
WriteAt(dsk, map, h, pos, bytes) ==
  LET n   == Len(bytes)
      re  == reAllocate(h, map, pos + n)
      fit == IF re.ok THEN bytes ELSE SubSeq(bytes, 1, h.numBytes - pos)
      big == [h EXCEPT !.numBytes = IF pos + n > @ THEN pos + n ELSE @]
  IN  IF n <= 0 \/ pos > h.numBytes
      THEN [disk |-> dsk, map |-> map, hdr |-> h, n |-> 0]
      ELSE IF pos + n > MaxFileLength(h)
      THEN [disk |-> Overwrite(IF re.ok THEN WriteBack(dsk, re.hdr) ELSE dsk,
                               re.hdr, pos, fit),
            map |-> re.map, hdr |-> re.hdr, n |-> Len(fit)]
      ELSE [disk |-> Overwrite(dsk, big, pos, bytes), map |-> map,
            hdr |-> big, n |-> n]

-----------------------------------------------------------------------------
(* The calls *)

Blank == [b \in 0..(SectorSize - 1) |-> Junk]

Init ==
  /\ disk = [s \in Sector |-> Blank]
  /\ used = {0}
  /\ hdr = [h \in Handle |-> NULL]
  /\ seek = [h \in Handle |-> 0]
  /\ content = NULL

Opened == {h \in Handle : hdr[h] /= NULL}

\* Create: the sectors of the new file are not cleared
Create(n) ==
  LET new == Allocate(used, n)
  IN
  /\ content = NULL /\ CanAllocate(used, n)
  /\ disk' = WriteBack(disk, new.hdr)
  /\ used' = new.map
  /\ content' = ReadAt(disk, new.hdr, 0, n)
  /\ UNCHANGED <<hdr, seek>>

\* Copy: the file is created with its length, then written piece by piece
Copy(bytes) ==
  LET n   == Len(bytes)
      new == Allocate(used, n)
      dsk == WriteBack(disk, new.hdr)
      h   == FetchFrom(dsk)
      Piece(k) == SubSeq(bytes, k * TransferSize + 1,
                         Smaller((k + 1) * TransferSize, n))
      after[k \in 0..divRoundUp(n, TransferSize)] ==
        IF k = 0 THEN [disk |-> dsk, map |-> new.map, hdr |-> h, n |-> 0]
        ELSE LET w == WriteAt(after[k - 1].disk, after[k - 1].map,
                              after[k - 1].hdr, after[k - 1].n, Piece(k - 1))
             IN  [w EXCEPT !.n = @ + after[k - 1].n]
      end == after[divRoundUp(n, TransferSize)]
  IN
  /\ content = NULL /\ CanAllocate(used, n)
  /\ disk' = end.disk /\ used' = end.map
  /\ content' = bytes
  /\ UNCHANGED <<hdr, seek>>

\* a file that nobody has open is removed; what is left in its sectors is
\* Junk to the next file
Remove ==
  /\ content /= NULL /\ Opened = {}
  /\ used' = Deallocate(used, FetchFrom(disk))
  /\ disk' = [s \in Sector |-> IF s \in used' THEN disk[s] ELSE Blank]
  /\ content' = NULL
  /\ UNCHANGED <<hdr, seek>>

\* OpenFile: the length that the disk has is that of the file from now on
Open(h) ==
  LET new == FetchFrom(disk)
  IN
  /\ content /= NULL /\ hdr[h] = NULL
  /\ hdr' = [hdr EXCEPT ![h] = new]
  /\ seek' = [seek EXCEPT ![h] = 0]
  /\ content' = IF h \in Writers THEN SubSeq(content, 1, new.numBytes)
                ELSE content
  /\ UNCHANGED <<disk, used>>

Close(h) ==
  /\ hdr[h] /= NULL
  /\ hdr' = [hdr EXCEPT ![h] = NULL]
  /\ seek' = [seek EXCEPT ![h] = 0]
  /\ UNCHANGED <<disk, used, content>>

Seek(h, k) ==
  /\ hdr[h] /= NULL
  /\ seek' = [seek EXCEPT ![h] = k]
  /\ UNCHANGED <<disk, used, hdr, content>>

Read(h, n) ==
  /\ hdr[h] /= NULL
  /\ seek' = [seek EXCEPT ![h] = @ + Len(ReadAt(disk, hdr[h], @, n))]
  /\ UNCHANGED <<disk, used, hdr, content>>

\* what the file holds after bytes are written at pos
Updated(old, pos, bytes) ==
  LET end == pos + Len(bytes)
  IN  [i \in DOMAIN old \cup (pos + 1)..end |->
         IF i \in (pos + 1)..end THEN bytes[i - pos] ELSE old[i]]

\* the writes that the run looks at
MayWrite(h, end) ==
  /\ h \in Writers /\ end <= MaxLength
  /\ \/ CrossHeaders \/ end <= MaxFileLength(hdr[h])
     \/ HeaderSectorsFor(divRoundUp(end, SectorSize)) = hdr[h].numHeaderSectors

Write(h, n, v) ==
  LET bytes == [i \in 1..n |-> v]
      w == WriteAt(disk, used, hdr[h], seek[h], bytes)
  IN
  /\ hdr[h] /= NULL /\ MayWrite(h, seek[h] + n)
  /\ disk' = w.disk /\ used' = w.map
  /\ hdr' = [hdr EXCEPT ![h] = w.hdr]
  /\ seek' = [seek EXCEPT ![h] = @ + w.n]
  /\ content' = Updated(content, seek[h], SubSeq(bytes, 1, w.n))

Next ==
  \/ \E n \in InitialSizes :
       \/ Create(n)
       \/ \E v, w \in Byte : Copy([i \in 1..n |-> IF i % 3 = 0 THEN v ELSE w])
  \/ Remove
  \/ \E h \in Handle :
       \/ Open(h) \/ Close(h)
       \/ \E k \in Positions : Seek(h, k)
       \/ \E n \in WriteSizes : Read(h, n) \/ \E v \in Byte : Write(h, n, v)

FDSpec == Init /\ [][Next]_vars

-----------------------------------------------------------------------------
(* Properties *)

Bytes(h) == ReadAt(disk, h, 0, MaxLength)
IsPrefixOf(a, b) == Len(a) <= Len(b) /\ \A i \in DOMAIN a : a[i] = b[i]

\* In whatever pieces a handle has written, aligned or not: it reads exactly
\* what was written, and another one reads the same up to the length that the
\* file had when it was opened.
HandlesSeeTheFile ==
  \A h \in Opened : IF h \in Writers THEN Bytes(hdr[h]) = content
                    ELSE IsPrefixOf(Bytes(hdr[h]), content)

\* The header on the disk always describes the file: who opens it next finds
\* the bytes that were written, up to the length that was last recorded.
DiskDescribesTheFile ==
  content /= NULL => IsPrefixOf(Bytes(FetchFrom(disk)), content)

\* The sectors that the header names are distinct, none is the header's own,
\* and they are exactly those that are marked in the free map.
SectorsAccounted ==
  LET h == FetchFrom(disk)
  IN  IF content = NULL THEN used = {0}
      ELSE /\ Cardinality(SectorsIn(h)) = h.numSectors + h.numHeaderSectors
           /\ 0 \notin SectorsIn(h)
           /\ used = SectorsIn(h) \cup {0}
=============================================================================
