---------------------------- MODULE FlatFSProofs ----------------------------
(***************************************************************************)
(* Proofs about the file system, for every number of entries and handles,  *)
(* every sector and disk size and every set of names and buffers.          *)
(***************************************************************************)
EXTENDS FlatFS, ArithmeticLemmas, TLAPS

(***************************************************************************)
(* Sectors, names and the search loops.                                    *)
(***************************************************************************)
LEMMA DivNat == \A p \in Nat : p \div SectorSize \in Nat
BY GeometryAssumption

LEMMA ModNat == \A p \in Nat : p % SectorSize \in 0 .. SectorSize - 1
BY GeometryAssumption

LEMMA SectorsOfNat ==
  \A s \in Nat : SectorsOf(s) \in Nat /\ (SectorsOf(s) = 0 <=> s = 0)
BY GeometryAssumption DEF SectorsOf

LEMMA NormalizeType ==
  ASSUME NEW u \in UserNames
  PROVE  /\ Normalize(u) \in KernelName /\ OpenedName(Normalize(u)) \in KernelName
         /\ Normalize(u).stem # "" /\ OpenedName(Normalize(u)).stem # ""
<1>1. u.stem \in NamePart /\ u.c16 \in NamePart /\ u.rest \in NamePart
      /\ "" \in NamePart /\ u.stem # ""
  BY NamesAssumption DEF NamePart
<1> QED
  BY <1>1 DEF Normalize, OpenedName, KernelName

LEMMA ConstantTypes ==
  /\ ZeroSector \in Sector /\ NoCache \in Cache
  /\ NoName \in KernelName /\ ZeroDirent \in Dirent /\ ClosedFile \in OpenFile
<1>1. ZeroSector \in Sector
  BY DEF ZeroSector, Sector, Byte
<1>2. NoCache \in Cache
  BY <1>1 DEF NoCache, Cache
<1>3. NoName \in KernelName
  BY DEF NoName, KernelName, NamePart
<1>4. ZeroDirent \in Dirent
  BY <1>3 DEF ZeroDirent, Dirent
<1>5. ClosedFile \in OpenFile
  BY <1>2, SlotsAssumption DEF ClosedFile, OpenFile, Slots
<1> QED
  BY <1>1, <1>2, <1>3, <1>4, <1>5

LEMMA ZeroIsFree ==
  /\ ZeroDirent.name.stem = "" /\ ZeroDirent.size = 0
  /\ ClosedFile.used = FALSE /\ ClosedFile.mode = "read"
BY DEF ZeroDirent, NoName, ClosedFile

LEMMA InitEmpty == Init => Used = {} /\ \A fd \in Fds : ~ofiles[fd].used
BY ZeroIsFree DEF Init, Used

LEMMA SlotsType == Slots \subseteq Nat /\ Fds \subseteq Nat
BY SlotsAssumption DEF Slots, Fds

LEMMA FindType ==
  ASSUME NEW n, Exists(n)
  PROVE  fs_find(n) \in Used /\ NameEqCi(dir[fs_find(n)].name, n)
<1>1. Matches(n) \subseteq Nat /\ Matches(n) # {}
  BY SlotsType, Zenon DEF Exists, Matches, Used
<1>2. Min(Matches(n)) \in Matches(n)
  BY <1>1, MinNat
<1> QED
  BY <1>2 DEF fs_find, Matches

LEMMA FreeSlotType ==
  ASSUME Room
  PROVE  FreeSlot \in Slots \ Used
<1>1. Slots \ Used \subseteq Nat /\ Slots \ Used # {}
  BY SlotsType, Zenon DEF Room, Used
<1> QED
  BY <1>1, MinNat DEF FreeSlot

LEMMA SaveSlotType ==
  ASSUME NEW n, Exists(n) \/ Room
  PROVE  SaveSlot(n) \in Slots
BY FindType, FreeSlotType DEF SaveSlot, Used

LEMMA AllocType ==
  ASSUME FreeFds # {}
  PROVE  alloc_fd \in Fds /\ ~ofiles[alloc_fd].used
<1>1. FreeFds \subseteq Nat
  BY SlotsType DEF FreeFds
<1>2. alloc_fd \in FreeFds
  BY <1>1, MinNat DEF alloc_fd
<1> QED
  BY <1>2 DEF FreeFds

LEMMA EndOfType ==
  ASSUME dir \in [Slots -> Dirent], NEW i \in Slots
  PROVE  EndOf(i) \in Nat /\ EndOf(i) >= dir[i].start
BY SectorsOfNat DEF EndOf, Dirent

\* What fs_next_free and fs_next_free_excl return: a sector past every extent.
LEMMA NextFreeType ==
  ASSUME dir \in [Slots -> Dirent], NEW excl
  PROVE  /\ fs_next_free(excl) \in Nat
         /\ fs_next_free(excl) >= DataLba
         /\ \A i \in Used \ {excl} : EndOf(i) <= fs_next_free(excl)
<1> DEFINE f == [i \in 0 .. NSlots - 1 |-> EndOf(i)]
           S == {DataLba} \cup {EndOf(i) : i \in Used \ {excl}}
<1>1. f \in [0 .. NSlots - 1 -> Nat]
  BY EndOfType DEF Slots
<1>2. PICK b \in Nat : \A i \in 0 .. NSlots - 1 : f[i] <= b
  <2> HIDE DEF f
  <2> QED
    BY <1>1, BoundExists, SlotsAssumption
<1>3. S \subseteq Nat /\ S # {}
  BY EndOfType, GeometryAssumption DEF Used
<1>4. DataLba + b \in Nat /\ \A y \in S : y <= DataLba + b
  <2>1. ASSUME NEW i \in Used \ {excl} PROVE EndOf(i) <= b
    BY <1>2 DEF Used, Slots
  <2>2. ASSUME NEW i \in Used \ {excl} PROVE EndOf(i) \in Nat
    BY EndOfType DEF Used
  <2> QED
    BY <2>1, <2>2, GeometryAssumption
<1>5. Max(S) \in S /\ \A y \in S : y <= Max(S)
  <2> HIDE DEF S
  <2> QED
    BY <1>3, <1>4, MaxNat
<1>6. fs_next_free(excl) = Max(S)
  BY DEF fs_next_free
<1>7. DataLba \in S /\ \A i \in Used \ {excl} : EndOf(i) \in S
  OBVIOUS
<1> HIDE DEF S
<1> QED
  BY <1>3, <1>5, <1>6, <1>7, GeometryAssumption

(***************************************************************************)
(* The type invariant.                                                     *)
(***************************************************************************)
LEMMA LbaAtType ==
  ASSUME NEW f \in OpenFile, NEW p \in Nat
  PROVE  LbaAt(f, p) \in Nat
BY DivNat DEF LbaAt, OpenFile

LEMMA ReadSectorType ==
  ASSUME NEW d \in [Lbas -> Sector], NEW lba \in Int
  PROVE  ReadSector(d, lba) \in Sector
BY ConstantTypes, GeometryAssumption DEF ReadSector, RangeOk, Lbas

LEMMA FlushedType ==
  ASSUME TypeOK, NEW fd \in Fds
  PROVE  Flushed(ofiles[fd]) \in [Lbas -> Sector]
<1>1. ofiles[fd].cache.sector \in Sector
  BY DEF TypeOK, OpenFile, Cache
<1> QED
  BY <1>1 DEF TypeOK, Flushed, WriteSector

LEMMA ViewTypes ==
  ASSUME TypeOK, NEW fd \in Fds, NEW d \in [Lbas -> Sector], NEW lba \in Nat
  PROVE  /\ ReadView(ofiles[fd], lba) \in Sector
         /\ WriteView(ofiles[fd], d, lba) \in Sector
<1>1. ofiles[fd].cache.sector \in Sector
  BY DEF TypeOK, OpenFile, Cache
<1>2. ReadSector(disk, lba) \in Sector /\ ReadSector(d, lba) \in Sector
  BY ReadSectorType DEF TypeOK
<1> QED
  BY <1>1, <1>2, ConstantTypes DEF ReadView, WriteView

LEMMA WriteBufferType ==
  ASSUME TypeOK, NEW lba \in Nat, NEW count \in Nat, NEW buf \in Buffers
  PROVE  WriteBuffer(lba, count, buf) \in [Lbas -> Sector]
<1> DEFINE New(l) == [o \in 0 .. SectorSize - 1 |->
                        LET p == (l - lba) * SectorSize + o + 1
                        IN  IF p <= Len(buf) THEN buf[p] ELSE Junk]
<1>1. ASSUME NEW l \in Lbas, l \in lba .. lba + count - 1
      PROVE  New(l) \in Sector
  <2>1. l - lba \in Nat
    BY <1>1
  <2>2. ASSUME NEW o \in 0 .. SectorSize - 1
        PROVE  (l - lba) * SectorSize + o + 1 \in Nat \ {0}
    BY <2>1, GeometryAssumption
  <2>3. buf \in Seq(Data)
    BY InputAssumption
  <2> QED
    BY <2>2, <2>3 DEF Sector, Byte
<1> HIDE DEF New
<1>2. WriteBuffer(lba, count, buf) =
        IF ~RangeOk(lba, count) THEN disk
        ELSE [l \in Lbas |-> IF l \in lba .. lba + count - 1 THEN New(l) ELSE disk[l]]
  BY DEF WriteBuffer, New
<1> QED
  BY <1>1, <1>2 DEF TypeOK

LEMMA SaveStartType ==
  ASSUME dir \in [Slots -> Dirent], NEW n, NEW size \in Nat
  PROVE  SaveStart(n, size) \in Nat /\ OpenStart(n) \in Nat
BY NextFreeType, FindType DEF SaveStart, OpenStart, FitsInPlace, Used, Dirent

\* Data that does not stay in place goes past every other file.
LEMMA StartPastOthers ==
  ASSUME dir \in [Slots -> Dirent], NEW n, NEW j \in Used \ {SaveSlot(n)}
  PROVE  /\ EndOf(j) <= OpenStart(n)
         /\ \A size : ~FitsInPlace(n, size) => EndOf(j) <= SaveStart(n, size)
<1>1. j # -1
  <2>1. j \in Slots
    BY DEF Used
  <2> QED
    BY <2>1 DEF Slots
<1>2. EndOf(j) <= OpenStart(n)
  <2>1. CASE Exists(n)
    BY <2>1, NextFreeType DEF OpenStart, SaveSlot
  <2>2. CASE ~Exists(n)
    BY <1>1, <2>2, NextFreeType DEF OpenStart
  <2> QED
    BY <2>1, <2>2
<1> QED
  BY <1>2 DEF OpenStart, SaveStart

LEMMA SaveTypes ==
  ASSUME TypeOK, NEW u \in UserNames, NEW buf \in Buffers, Save(u, buf)
  PROVE  TypeOK'
<1>1. Len(buf) \in Nat
  BY InputAssumption
<1>2. SaveStart(Normalize(u), Len(buf)) \in Nat /\ SectorsOf(Len(buf)) \in Nat
  BY <1>1, SaveStartType, SectorsOfNat DEF TypeOK
<1>3. disk' \in [Lbas -> Sector]
  BY <1>2, WriteBufferType DEF Save
<1>4. SaveSlot(Normalize(u)) \in Slots
  BY SaveSlotType DEF Save
<1>5. [name |-> Normalize(u), start |-> SaveStart(Normalize(u), Len(buf)),
       size |-> Len(buf)] \in Dirent
  BY <1>1, <1>2, NormalizeType DEF Dirent
<1> QED
  BY <1>3, <1>4, <1>5 DEF Save, TypeOK

LEMMA OpenTypes ==
  ASSUME TypeOK, NEW u \in UserNames, OpenRead(u) \/ OpenWrite(u)
  PROVE  TypeOK'
<1> DEFINE n == Normalize(u)
<1>1. alloc_fd \in Fds
  BY AllocType DEF OpenRead, OpenWrite
<1>2. CASE OpenRead(u)
  <2>1. fs_find(n) \in Slots
    BY <1>2, FindType DEF OpenRead, Used
  <2>2. [used |-> TRUE, mode |-> "read", slot |-> fs_find(n),
         start |-> dir[fs_find(n)].start, size |-> dir[fs_find(n)].size,
         pos |-> 0, cache |-> NoCache] \in OpenFile
    BY <2>1, ConstantTypes DEF OpenFile, TypeOK, Dirent
  <2> QED
    BY <1>1, <1>2, <2>2 DEF OpenRead, TypeOK
<1>3. CASE OpenWrite(u)
  <2>1. SaveSlot(n) \in Slots
    BY <1>3, SaveSlotType DEF OpenWrite
  <2>2. OpenStart(n) \in Nat
    BY SaveStartType, 0 \in Nat DEF TypeOK
  <2>3. [name |-> OpenedName(n), start |-> OpenStart(n), size |-> 0] \in Dirent
    BY <2>2, NormalizeType DEF Dirent
  <2>4. [used |-> TRUE, mode |-> "write", slot |-> SaveSlot(n),
         start |-> OpenStart(n), size |-> 0, pos |-> 0, cache |-> NoCache]
          \in OpenFile
    BY <2>1, <2>2, ConstantTypes DEF OpenFile
  <2> QED
    BY <1>1, <1>3, <2>1, <2>3, <2>4 DEF OpenWrite, TypeOK
<1> QED
  BY <1>2, <1>3

\* A handle keeps its type when its position, its size and its cache change.
LEMMA MovedType ==
  ASSUME NEW f \in OpenFile, NEW p \in Nat, NEW s \in Nat, NEW c \in Cache
  PROVE  /\ [f EXCEPT !.pos = p, !.cache = c] \in OpenFile
         /\ [f EXCEPT !.pos = p, !.size = s, !.cache = c] \in OpenFile
BY DEF OpenFile

LEMMA FReadTypes ==
  ASSUME TypeOK, NEW fd \in Fds, NEW len \in Lengths, FRead(fd, len)
  PROVE  TypeOK'
<1> DEFINE f == ofiles[fd]
           end == f.pos + FReadLen(f, len)
           last == LbaAt(f, end - 1)
           c == [lba |-> last, dirty |-> FALSE, sector |-> ReadView(f, last)]
<1>1. f \in OpenFile /\ f.pos \in Nat /\ f.size \in Nat /\ f.pos < f.size
  BY DEF TypeOK, OpenFile, FRead
<1>2. len \in Nat \ {0}
  BY InputAssumption
<1>3. FReadLen(f, len) \in Nat \ {0}
  BY <1>1, <1>2, MinOfTwo DEF FReadLen
<1>4. end \in Nat /\ end - 1 \in Nat
  BY <1>1, <1>3
<1>5. last \in Nat
  BY <1>1, <1>4, LbaAtType
<1>6. c \in Cache
  BY <1>5, ViewTypes DEF Cache, TypeOK
<1>7. [f EXCEPT !.pos = end, !.cache = c] \in OpenFile
  BY <1>1, <1>4, <1>6, MovedType
<1>8. ofiles' = [ofiles EXCEPT ![fd] = [f EXCEPT !.pos = end, !.cache = c]]
  BY <1>1 DEF FRead, TypeOK
<1> HIDE DEF f, end, c
<1> QED
  BY <1>7, <1>8 DEF FRead, TypeOK

LEMMA FWriteTypes ==
  ASSUME TypeOK, NEW fd \in Fds, NEW buf \in Buffers, FWrite(fd, buf)
  PROVE  TypeOK'
<1> DEFINE f == ofiles[fd]
           end == f.pos + Len(buf)
           first == LbaAt(f, f.pos)
           last == LbaAt(f, end - 1)
           flushed == IF Cached(f, first) THEN disk ELSE Flushed(f)
           New(lba) ==
             [o \in 0 .. SectorSize - 1 |->
               LET p == (lba - f.start) * SectorSize + o
               IN  IF p \in f.pos .. end - 1 THEN buf[p - f.pos + 1]
                   ELSE WriteView(f, flushed, lba)[o]]
           Complete(lba) == (lba - f.start + 1) * SectorSize <= end
           c == IF Complete(last) THEN NoCache
                ELSE [lba |-> last, dirty |-> TRUE, sector |-> New(last)]
<1>1. f \in OpenFile /\ f.pos \in Nat /\ f.size \in Nat /\ f.start \in Nat
  BY DEF TypeOK, OpenFile
<1>2. buf \in Seq(Data) /\ Len(buf) \in Nat \ {0}
  BY InputAssumption DEF FWrite
<1>3. end \in Nat /\ end - 1 \in Nat
  BY <1>1, <1>2
<1>4. first \in Nat /\ last \in Nat
  BY <1>1, <1>3, LbaAtType
<1>5. flushed \in [Lbas -> Sector]
  BY FlushedType DEF TypeOK
<1>6. ASSUME NEW lba \in Nat PROVE New(lba) \in Sector
  <2>1. WriteView(f, flushed, lba) \in Sector
    BY <1>5, ViewTypes
  <2>2. ASSUME NEW p \in f.pos .. end - 1 PROVE buf[p - f.pos + 1] \in Data
    BY <1>1, <1>2
  <2> HIDE DEF f, end, flushed
  <2> QED
    BY <2>1, <2>2 DEF Sector, Byte
<1>7. \A l \in Lbas : l \in Nat
  BY GeometryAssumption DEF Lbas
<1>8. disk' = [l \in Lbas |-> IF l \in first .. last /\ Complete(l)
                              THEN New(l) ELSE flushed[l]]
  BY DEF FWrite
<1>9. ofiles' = [ofiles EXCEPT ![fd] =
                   [f EXCEPT !.pos = end, !.size = Max({f.size, end}), !.cache = c]]
  BY <1>1 DEF FWrite, TypeOK
<1>10. c \in Cache
  <2>1. CASE Complete(last)
    BY <2>1, ConstantTypes
  <2>2. CASE ~Complete(last)
    <3>1. New(last) \in Sector
      BY <1>4, <1>6
    <3> HIDE DEF New, last
    <3> QED
      BY <1>4, <2>2, <3>1 DEF Cache
  <2> QED
    BY <2>1, <2>2
<1>11. Max({f.size, end}) \in Nat
  <2> HIDE DEF f, end
  <2> QED
    BY <1>1, <1>3, TwoNats
<1>12. UNCHANGED dir
  BY DEF FWrite
<1> HIDE DEF f, end, first, last, flushed, New, Complete, c
<1>13. disk' \in [Lbas -> Sector]
  BY <1>5, <1>6, <1>7, <1>8
<1>14. [f EXCEPT !.pos = end, !.size = Max({f.size, end}), !.cache = c] \in OpenFile
  BY <1>1, <1>3, <1>10, <1>11, MovedType
<1> QED
  BY <1>9, <1>12, <1>13, <1>14 DEF TypeOK

LEMMA SeekTypes ==
  ASSUME TypeOK, NEW fd \in Fds, NEW pos \in Offsets, Seek(fd, pos)
  PROVE  TypeOK'
<1> DEFINE f == ofiles[fd]
           p == Min({Max({pos, 0}), f.size})
<1>1. f \in OpenFile /\ f.size \in Nat /\ pos \in Int
  BY InputAssumption DEF TypeOK, OpenFile
<1>2. Max({pos, 0}) \in Nat
  BY <1>1, MaxOfTwo
<1>3. p \in Nat
  <2> HIDE DEF f
  <2> QED
    BY <1>1, <1>2, TwoNats
<1>4. [f EXCEPT !.pos = p, !.cache = NoCache] \in OpenFile
  BY <1>1, <1>3, ConstantTypes, MovedType
<1>5. ofiles' = [ofiles EXCEPT ![fd] = [f EXCEPT !.pos = p, !.cache = NoCache]]
  BY DEF Seek, TypeOK
<1>6. disk' \in [Lbas -> Sector]
  BY FlushedType DEF Seek, TypeOK
<1>7. UNCHANGED dir
  BY DEF Seek
<1> HIDE DEF f, p
<1> QED
  BY <1>4, <1>5, <1>6, <1>7 DEF TypeOK

LEMMA CloseTypes ==
  ASSUME TypeOK, NEW fd \in Fds, Close(fd)
  PROVE  TypeOK'
<1> DEFINE f == ofiles[fd]
<1>1. f.slot \in Slots /\ f.start \in Nat /\ f.size \in Nat
  BY DEF TypeOK, OpenFile
<1>2. dir' \in [Slots -> Dirent]
  BY <1>1 DEF Close, TypeOK, Dirent
<1>3. disk' \in [Lbas -> Sector]
  BY FlushedType DEF Close, TypeOK
<1> QED
  BY <1>2, <1>3, ConstantTypes DEF Close, TypeOK

LEMMA EntryTypes ==
  ASSUME TypeOK, NEW u \in UserNames,
         Delete(u) \/ \E v \in UserNames : Rename(u, v)
  PROVE  TypeOK'
<1>1. fs_find(Normalize(u)) \in Slots
  BY FindType DEF Delete, Rename, Used
<1>2. CASE Delete(u)
  BY <1>1, <1>2, ConstantTypes DEF Delete, TypeOK
<1>3. ASSUME NEW v \in UserNames, Rename(u, v) PROVE TypeOK'
  BY <1>1, <1>3, NormalizeType DEF Rename, TypeOK, Dirent
<1> QED
  BY <1>2, <1>3

LEMMA TypeInit == Init => TypeOK
BY ConstantTypes DEF Init, TypeOK

LEMMA TypeStep == TypeOK /\ [Next]_vars => TypeOK'
<1> SUFFICES ASSUME TypeOK, [Next]_vars PROVE TypeOK'
  OBVIOUS
<1>1. CASE UNCHANGED vars
  BY <1>1 DEF vars, TypeOK
<1> QED
  BY <1>1, SaveTypes, EntryTypes, OpenTypes, FReadTypes, FWriteTypes, CloseTypes,
     SeekTypes DEF Next

\* Every call, with any arguments, leaves directory entries, sectors and open
\* files in range: no negative position or size, no handle on an entry that
\* does not exist.
THEOREM TypeCorrect == Spec => []TypeOK
BY TypeInit, TypeStep, PTL DEF Spec

\* Reading, writing and seeking change no more of a handle than its position,
\* its size and its cache.
SameFile(g) == /\ ofiles'[g].used = ofiles[g].used
               /\ ofiles'[g].mode = ofiles[g].mode
               /\ ofiles'[g].slot = ofiles[g].slot
               /\ ofiles'[g].start = ofiles[g].start

LEMMA TransferKeepsFile ==
  ASSUME TypeOK, NEW fd \in Fds,
         \/ \E len \in Lengths : FRead(fd, len)
         \/ \E buf \in Buffers : FWrite(fd, buf)
         \/ \E pos \in Offsets : Seek(fd, pos)
  PROVE  \A g \in Fds : SameFile(g)
<1>1. ASSUME NEW p, NEW z, NEW c,
             ofiles' = [ofiles EXCEPT ![fd].pos = p, ![fd].size = z, ![fd].cache = c]
      PROVE  \A g \in Fds : SameFile(g)
  BY <1>1 DEF TypeOK, OpenFile, SameFile
<1>2. ASSUME NEW p, NEW c,
             ofiles' = [ofiles EXCEPT ![fd].pos = p, ![fd].cache = c]
      PROVE  \A g \in Fds : SameFile(g)
  BY <1>2 DEF TypeOK, OpenFile, SameFile
<1>3. ASSUME NEW len \in Lengths, FRead(fd, len) PROVE \A g \in Fds : SameFile(g)
  BY <1>2, <1>3, Zenon DEF FRead
<1>4. ASSUME NEW buf \in Buffers, FWrite(fd, buf) PROVE \A g \in Fds : SameFile(g)
  BY <1>1, <1>4, Zenon DEF FWrite
<1>5. ASSUME NEW pos \in Offsets, Seek(fd, pos) PROVE \A g \in Fds : SameFile(g)
  BY <1>2, <1>5, Zenon DEF Seek
<1> QED
  BY <1>3, <1>4, <1>5

(***************************************************************************)
(* File data stays out of the directory's sectors.                         *)
(***************************************************************************)
LEMMA DataPastDirectoryInit == Init => DataPastDirectory
BY InitEmpty DEF DataPastDirectory

LEMMA DataPastDirectoryStep ==
  TypeOK /\ DataPastDirectory /\ [Next]_vars => DataPastDirectory'
<1> SUFFICES ASSUME TypeOK, DataPastDirectory, [Next]_vars
             PROVE  DataPastDirectory'
  OBVIOUS
<1>1. ASSUME NEW u \in UserNames, NEW buf \in Buffers, Save(u, buf)
      PROVE  DataPastDirectory'
  <2>1. SaveStart(Normalize(u), Len(buf)) >= DataLba
    BY NextFreeType, FindType
       DEF SaveStart, FitsInPlace, DataPastDirectory, TypeOK
  <2> QED
    BY <1>1, <2>1 DEF Save, DataPastDirectory, TypeOK, Used
<1>2. ASSUME NEW u \in UserNames, NEW v \in UserNames, Rename(u, v)
      PROVE  DataPastDirectory'
  <2>1. fs_find(Normalize(u)) \in Used
    BY <1>2, FindType DEF Rename
  <2>2. \A i \in Slots : dir'[i].start = dir[i].start
                      /\ (i # fs_find(Normalize(u)) => dir'[i].name = dir[i].name)
    BY <1>2, <2>1 DEF Rename, TypeOK, Dirent, Used
  <2>3. UNCHANGED ofiles
    BY <1>2 DEF Rename
  <2> QED
    BY <2>1, <2>2, <2>3 DEF DataPastDirectory, Used
<1>3. ASSUME NEW u \in UserNames, Delete(u)
      PROVE  DataPastDirectory'
  BY <1>3, ZeroIsFree DEF Delete, DataPastDirectory, TypeOK, Used
<1>4. ASSUME NEW u \in UserNames, OpenRead(u)
      PROVE  DataPastDirectory'
  <2>1. fs_find(Normalize(u)) \in Used
    BY <1>4, FindType DEF OpenRead
  <2> QED
    BY <1>4, <2>1 DEF OpenRead, DataPastDirectory, TypeOK, Used
<1>5. ASSUME NEW u \in UserNames, OpenWrite(u)
      PROVE  DataPastDirectory'
  <2>1. OpenStart(Normalize(u)) >= DataLba
    BY NextFreeType DEF OpenStart, TypeOK
  <2> QED
    BY <1>5, <2>1 DEF OpenWrite, DataPastDirectory, TypeOK, Used
<1>6. ASSUME NEW fd \in Fds, Close(fd)
      PROVE  DataPastDirectory'
  <2>1. \A g \in Fds : ofiles'[g].used => ofiles'[g].start >= DataLba
    BY <1>6 DEF Close, DataPastDirectory, TypeOK, ClosedFile
  <2>2. \A i \in Slots : dir'[i].name = dir[i].name
                      /\ (dir'[i].start = dir[i].start
                          \/ dir'[i].start = ofiles[fd].start)
    BY <1>6 DEF Close, TypeOK, Dirent
  <2>3. ofiles[fd].used
    BY <1>6 DEF Close
  <2> QED
    BY <2>1, <2>2, <2>3 DEF DataPastDirectory, Used
<1>7. ASSUME UNCHANGED dir, \A g \in Fds : SameFile(g)
      PROVE  DataPastDirectory'
  BY <1>7 DEF DataPastDirectory, Used, SameFile
<1>8. ASSUME NEW fd \in Fds, NEW len \in Lengths, FRead(fd, len)
      PROVE  DataPastDirectory'
  BY <1>7, <1>8, TransferKeepsFile DEF FRead
<1>9. ASSUME NEW fd \in Fds, NEW buf \in Buffers, FWrite(fd, buf)
      PROVE  DataPastDirectory'
  BY <1>7, <1>9, TransferKeepsFile DEF FWrite
<1>10. ASSUME NEW fd \in Fds, NEW pos \in Offsets, Seek(fd, pos)
       PROVE  DataPastDirectory'
  BY <1>7, <1>10, TransferKeepsFile DEF Seek
<1>11. CASE UNCHANGED vars
  BY <1>11 DEF vars, DataPastDirectory, Used
<1> QED
  BY <1>1, <1>2, <1>3, <1>4, <1>5, <1>6, <1>8, <1>9, <1>10, <1>11 DEF Next

\* Whatever programs do with names and handles, SYS_CLOSE through a handle
\* whose entry was deleted or taken by another file included, no entry and no
\* handle ever points into the sectors of the directory.
THEOREM DirectoryIsSafe == Spec => []DataPastDirectory
BY DataPastDirectoryInit, TypeCorrect, DataPastDirectoryStep, PTL DEF Spec

(***************************************************************************)
(* No two entries have the same name, when names are as short as SYS_OPEN  *)
(* assumes.                                                                *)
(***************************************************************************)
ShortNames == \A u \in UserNames : u.c16 = ""

\* Entry i gets the name n, which no other entry has.
LEMMA NameTaken ==
  ASSUME TypeOK, UniqueNames, NEW i \in Slots, NEW n,
         \A j \in Used : NameEqCi(dir[j].name, n) => j = i,
         \A j \in Slots : dir'[j].name = IF j = i THEN n ELSE dir[j].name
  PROVE  UniqueNames'
BY DEF UniqueNames, Used, NameEqCi

LEMMA OnlyMatch ==
  ASSUME UniqueNames, NEW n, Exists(n) \/ Room
  PROVE  \A j \in Used : NameEqCi(dir[j].name, n) => j = SaveSlot(n)
<1>1. CASE Exists(n)
  BY <1>1, FindType DEF UniqueNames, SaveSlot, NameEqCi
<1>2. CASE ~Exists(n)
  BY <1>2 DEF Exists, Matches
<1> QED
  BY <1>1, <1>2

LEMMA UniqueNamesStep ==
  ASSUME ShortNames
  PROVE  TypeOK /\ UniqueNames /\ [Next]_vars => UniqueNames'
<1> SUFFICES ASSUME TypeOK, UniqueNames, [Next]_vars PROVE UniqueNames'
  OBVIOUS
<1>1. ASSUME NEW u \in UserNames, NEW buf \in Buffers, Save(u, buf)
      PROVE  UniqueNames'
  <2>1. Exists(Normalize(u)) \/ Room
    BY <1>1 DEF Save
  <2>2. SaveSlot(Normalize(u)) \in Slots
    BY <2>1, SaveSlotType
  <2>3. \A j \in Slots : dir'[j].name =
          IF j = SaveSlot(Normalize(u)) THEN Normalize(u) ELSE dir[j].name
    BY <1>1, <2>2 DEF Save, TypeOK
  <2> QED
    BY <2>1, <2>2, <2>3, OnlyMatch, NameTaken
<1>2. ASSUME NEW u \in UserNames, OpenWrite(u)
      PROVE  UniqueNames'
  <2> DEFINE n == Normalize(u)
  <2>1. Exists(n) \/ Room
    BY <1>2 DEF OpenWrite
  <2>2. SaveSlot(n) \in Slots
    BY <2>1, SaveSlotType
  <2>3. n.stem = OpenedName(n).stem /\ n.c16 = OpenedName(n).c16
    BY DEF OpenedName, Normalize, ShortNames
  <2>4. \A j \in Used : NameEqCi(dir[j].name, OpenedName(n)) => j = SaveSlot(n)
    BY <2>1, <2>3, OnlyMatch DEF NameEqCi
  <2>5. \A j \in Slots : dir'[j].name =
          IF j = SaveSlot(n) THEN OpenedName(n) ELSE dir[j].name
    BY <1>2, <2>2 DEF OpenWrite, TypeOK
  <2> QED
    BY <2>2, <2>4, <2>5, NameTaken
<1>3. ASSUME NEW u \in UserNames, NEW v \in UserNames, Rename(u, v)
      PROVE  UniqueNames'
  <2>1. fs_find(Normalize(u)) \in Slots
    BY <1>3, FindType DEF Rename, Used
  <2>2. \A j \in Used : ~NameEqCi(dir[j].name, Normalize(v))
    BY <1>3 DEF Rename, Exists, Matches
  <2>3. \A j \in Slots : dir'[j].name =
          IF j = fs_find(Normalize(u)) THEN Normalize(v) ELSE dir[j].name
    BY <1>3, <2>1 DEF Rename, TypeOK, Dirent
  <2> QED
    BY <2>1, <2>2, <2>3, NameTaken
<1>4. ASSUME NEW u \in UserNames, Delete(u)
      PROVE  UniqueNames'
  BY <1>4, ZeroIsFree DEF Delete, UniqueNames, Used, TypeOK
<1>5. ASSUME NEW fd \in Fds, Close(fd)
      PROVE  UniqueNames'
  <2>1. \A j \in Slots : dir'[j].name = dir[j].name
    BY <1>5 DEF Close, TypeOK, Dirent
  <2> QED
    BY <2>1 DEF UniqueNames, Used
<1>6. ASSUME UNCHANGED dir PROVE UniqueNames'
  BY <1>6 DEF UniqueNames, Used
<1> QED
  BY <1>1, <1>2, <1>3, <1>4, <1>5, <1>6
     DEF Next, OpenRead, FRead, FWrite, Seek, vars

\* With names of at most 15 characters no sequence of saves, renames, deletes
\* and opens makes two entries that fs_find cannot tell apart.
THEOREM NamesStayUnique == ShortNames => (Spec => []UniqueNames)
<1> SUFFICES ASSUME ShortNames PROVE Spec => []UniqueNames
  OBVIOUS
<1>1. Init => UniqueNames
  BY InitEmpty DEF UniqueNames
<1>2. TypeOK /\ UniqueNames /\ [Next]_vars => UniqueNames'
  BY UniqueNamesStep
<1> QED
  BY <1>1, <1>2, TypeCorrect, PTL DEF Spec

(***************************************************************************)
(* A dirty sector is the one the handle stands in.                         *)
(***************************************************************************)
CacheAtPosition(f) ==
  /\ f.pos <= f.size
  /\ f.cache.dirty => /\ f.used /\ f.mode = "write"
                      /\ f.cache.lba = LbaAt(f, f.pos)
                      /\ f.pos % SectorSize # 0

\* The sector before position end is not complete: end lies inside it.
LEMMA PartialSector ==
  ASSUME NEW end \in Nat, ((end - 1) \div SectorSize + 1) * SectorSize > end
  PROVE  end \div SectorSize = (end - 1) \div SectorSize /\ end % SectorSize # 0
<1>1. PICK q \in Int : q = (end - 1) \div SectorSize
  BY DivMod, GeometryAssumption
<1>2. PICK r \in 0 .. SectorSize - 1 : r = (end - 1) % SectorSize
  BY DivMod, GeometryAssumption
<1>3. end - 1 = SectorSize * q + r /\ SectorSize * q \in Int
  BY <1>1, <1>2, DivMod, GeometryAssumption
<1>4. (q + 1) * SectorSize = SectorSize * q + SectorSize
  BY GeometryAssumption
<1>5. PICK m \in 0 .. SectorSize - 1 : end = SectorSize * q + m /\ m # 0
  <2>1. r + 1 \in 0 .. SectorSize - 1 /\ end = SectorSize * q + (r + 1) /\ r + 1 # 0
    BY <1>1, <1>3, <1>4, GeometryAssumption
  <2> QED
    BY <2>1
<1>6. end \div SectorSize = q /\ end % SectorSize = m
  <2>1. end \in Int /\ SectorSize \in Nat \ {0}
    BY GeometryAssumption
  <2> QED
    BY <1>5, <2>1, DivUnique, Zenon
<1> QED
  BY <1>1, <1>5, <1>6

LEMMA OneHandleChanges ==
  ASSUME TypeOK, DirtyCacheAtPosition, NEW fd \in Fds, NEW g,
         ofiles' = [ofiles EXCEPT ![fd] = g], CacheAtPosition(g)
  PROVE  DirtyCacheAtPosition'
<1>1. \A h \in Fds : CacheAtPosition(ofiles'[h])
  BY DEF TypeOK, DirtyCacheAtPosition, CacheAtPosition
<1> QED
  BY <1>1 DEF DirtyCacheAtPosition, CacheAtPosition, LbaAt

LEMMA CleanHandle ==
  ASSUME NEW f, ~f.cache.dirty, f.pos <= f.size
  PROVE  CacheAtPosition(f)
BY DEF CacheAtPosition

LEMMA FWriteCache ==
  ASSUME TypeOK, DirtyCacheAtPosition, NEW fd \in Fds, NEW buf \in Buffers,
         FWrite(fd, buf)
  PROVE  DirtyCacheAtPosition'
<1> DEFINE f == ofiles[fd]
           end == f.pos + Len(buf)
           last == LbaAt(f, end - 1)
           Complete(lba) == (lba - f.start + 1) * SectorSize <= end
           size == Max({f.size, end})
<1>1. f \in OpenFile /\ f.pos \in Nat /\ f.size \in Nat /\ f.start \in Nat
      /\ f.used /\ f.mode = "write"
  BY DEF TypeOK, OpenFile, FWrite
<1>2. end \in Nat \ {0} /\ end - 1 \in Nat
  <2>1. Len(buf) \in Nat
    BY InputAssumption
  <2>2. Len(buf) > 0
    BY Zenon DEF FWrite
  <2> QED
    BY <1>1, <2>1, <2>2
<1>3. size \in Nat /\ end <= size
  <2> HIDE DEF f, end
  <2> QED
    BY <1>1, <1>2, MaxOfTwo
<1>4. PICK sector :
        ofiles' = [ofiles EXCEPT ![fd] =
          [f EXCEPT !.pos = end, !.size = size,
                    !.cache = IF Complete(last) THEN NoCache
                              ELSE [lba |-> last, dirty |-> TRUE, sector |-> sector]]]
  BY <1>1 DEF FWrite, TypeOK
<1> DEFINE c == IF Complete(last) THEN NoCache
                ELSE [lba |-> last, dirty |-> TRUE, sector |-> sector]
           g == [f EXCEPT !.pos = end, !.size = size, !.cache = c]
<1>5. g.pos = end /\ g.size = size /\ g.cache = c /\ g.start = f.start
      /\ g.used /\ g.mode = "write"
  <2> HIDE DEF end, size, c, f
  <2> QED
    BY <1>1 DEF OpenFile
<1>6. CASE Complete(last)
  <2>1. ~g.cache.dirty /\ g.pos <= g.size
    BY <1>3, <1>5, <1>6 DEF NoCache
  <2> QED
    BY <1>4, <2>1, CleanHandle, OneHandleChanges
<1>7. CASE ~Complete(last)
  <2>1. last = f.start + (end - 1) \div SectorSize /\ (end - 1) \div SectorSize \in Nat
    BY <1>2, DivNat DEF LbaAt
  <2>2. ((end - 1) \div SectorSize + 1) * SectorSize > end
    <3>1. PICK q \in Nat : q = (end - 1) \div SectorSize
      BY <2>1
    <3>2. last - f.start + 1 = q + 1
      BY <1>1, <2>1, <3>1
    <3>3. ~ ((q + 1) * SectorSize <= end)
      BY <1>7, <3>2
    <3>4. (q + 1) * SectorSize \in Int
      BY <3>1, GeometryAssumption
    <3> HIDE DEF end
    <3> QED
      BY <1>2, <3>1, <3>3, <3>4
  <2>3. end \div SectorSize = (end - 1) \div SectorSize /\ end % SectorSize # 0
    <3> HIDE DEF end
    <3> QED
      BY <1>2, <2>2, PartialSector
  <2>4. g.cache.lba = last /\ last = LbaAt(g, g.pos)
    BY <1>5, <1>7, <2>1, <2>3 DEF LbaAt
  <2>5. CacheAtPosition(g)
    BY <1>3, <1>5, <2>3, <2>4 DEF CacheAtPosition
  <2> QED
    BY <1>4, <2>5, OneHandleChanges
<1> QED
  BY <1>6, <1>7

LEMMA FReadCache ==
  ASSUME TypeOK, DirtyCacheAtPosition, NEW fd \in Fds, NEW len \in Lengths,
         FRead(fd, len)
  PROVE  DirtyCacheAtPosition'
<1> DEFINE f == ofiles[fd]
           end == f.pos + FReadLen(f, len)
<1>1. f \in OpenFile /\ f.pos \in Nat /\ f.size \in Nat /\ f.pos < f.size
  BY DEF TypeOK, OpenFile, FRead
<1>2. end <= f.size
  BY <1>1, InputAssumption, MinOfTwo DEF FReadLen
<1> DEFINE last == LbaAt(f, end - 1)
           c == [lba |-> last, dirty |-> FALSE, sector |-> ReadView(f, last)]
           g == [f EXCEPT !.pos = end, !.cache = c]
<1>3. ofiles' = [ofiles EXCEPT ![fd] = g]
  BY <1>1 DEF FRead, TypeOK
<1>4. g.pos = end /\ g.size = f.size /\ g.cache = c
  <2> HIDE DEF end, f, c
  <2> QED
    BY <1>1 DEF OpenFile
<1>5. ~g.cache.dirty /\ g.pos <= g.size
  BY <1>2, <1>4
<1> QED
  BY <1>3, <1>5, CleanHandle, OneHandleChanges

LEMMA SeekCache ==
  ASSUME TypeOK, DirtyCacheAtPosition, NEW fd \in Fds, NEW pos \in Offsets,
         Seek(fd, pos)
  PROVE  DirtyCacheAtPosition'
<1> DEFINE f == ofiles[fd]
           p == Min({Max({pos, 0}), f.size})
           g == [f EXCEPT !.pos = p, !.cache = NoCache]
<1>1. f \in OpenFile /\ f.size \in Nat /\ pos \in Int
  BY InputAssumption DEF TypeOK, OpenFile
<1>2. Max({pos, 0}) \in Nat
  BY <1>1, MaxOfTwo
<1>3. p <= f.size
  <2>1. ASSUME NEW m \in Nat, NEW z \in Nat PROVE Min({m, z}) <= z
    BY MinOfTwo
  <2> QED
    BY <1>1, <1>2, <2>1
<1>4. ofiles' = [ofiles EXCEPT ![fd] = g]
  BY DEF Seek, TypeOK
<1>5. g.pos = p /\ g.size = f.size /\ g.cache = NoCache
  <2> HIDE DEF p, f
  <2> QED
    BY <1>1 DEF OpenFile
<1>6. ~g.cache.dirty /\ g.pos <= g.size
  BY <1>3, <1>5 DEF NoCache
<1> QED
  BY <1>4, <1>6, CleanHandle, OneHandleChanges

LEMMA OpenCloseCache ==
  ASSUME TypeOK, DirtyCacheAtPosition,
         \/ \E u \in UserNames : OpenRead(u) \/ OpenWrite(u)
         \/ \E fd \in Fds : Close(fd)
  PROVE  DirtyCacheAtPosition'
<1>1. ASSUME NEW u \in UserNames, OpenRead(u) PROVE DirtyCacheAtPosition'
  <2> DEFINE i == fs_find(Normalize(u))
             g == [used |-> TRUE, mode |-> "read", slot |-> i,
                   start |-> dir[i].start, size |-> dir[i].size,
                   pos |-> 0, cache |-> NoCache]
  <2>1. alloc_fd \in Fds /\ dir[i].size \in Nat
    BY <1>1, AllocType, FindType DEF OpenRead, Used, TypeOK, Dirent
  <2>2. ~g.cache.dirty /\ g.pos <= g.size
    BY <2>1 DEF NoCache
  <2>3. ofiles' = [ofiles EXCEPT ![alloc_fd] = g]
    BY <1>1 DEF OpenRead
  <2> QED
    BY <2>1, <2>2, <2>3, CleanHandle, OneHandleChanges
<1>2. ASSUME NEW u \in UserNames, OpenWrite(u) PROVE DirtyCacheAtPosition'
  <2> DEFINE n == Normalize(u)
             g == [used |-> TRUE, mode |-> "write", slot |-> SaveSlot(n),
                   start |-> OpenStart(n), size |-> 0, pos |-> 0, cache |-> NoCache]
  <2>1. alloc_fd \in Fds
    BY <1>2, AllocType DEF OpenWrite
  <2>2. ~g.cache.dirty /\ g.pos <= g.size
    BY DEF NoCache
  <2>3. ofiles' = [ofiles EXCEPT ![alloc_fd] = g]
    BY <1>2 DEF OpenWrite
  <2> QED
    BY <2>1, <2>2, <2>3, CleanHandle, OneHandleChanges
<1>3. ASSUME NEW fd \in Fds, Close(fd) PROVE DirtyCacheAtPosition'
  <2>1. ~ClosedFile.cache.dirty /\ ClosedFile.pos <= ClosedFile.size
    BY DEF ClosedFile, NoCache
  <2>2. ofiles' = [ofiles EXCEPT ![fd] = ClosedFile]
    BY <1>3 DEF Close
  <2> QED
    BY <2>1, <2>2, CleanHandle, OneHandleChanges
<1> QED
  BY <1>1, <1>2, <1>3

LEMMA DirtyCacheInit == Init => DirtyCacheAtPosition
BY DEF Init, DirtyCacheAtPosition, ClosedFile, NoCache

LEMMA DirtyCacheStep ==
  TypeOK /\ DirtyCacheAtPosition /\ [Next]_vars => DirtyCacheAtPosition'
<1> SUFFICES ASSUME TypeOK, DirtyCacheAtPosition, [Next]_vars
             PROVE  DirtyCacheAtPosition'
  OBVIOUS
<1>1. CASE UNCHANGED ofiles
  BY <1>1 DEF DirtyCacheAtPosition, LbaAt
<1> QED
  BY <1>1, FWriteCache, FReadCache, SeekCache, OpenCloseCache
     DEF Next, Save, Rename, Delete, vars

\* Whatever is read, written and repositioned through whichever handles, the
\* only unwritten bytes of a handle are in the sector at its position: a
\* sector is flushed before ofile_load_sector or SYS_SEEK moves on.
THEOREM DirtyCacheStaysAtPosition == Spec => []DirtyCacheAtPosition
BY DirtyCacheInit, TypeCorrect, DirtyCacheStep, PTL DEF Spec

=============================================================================
