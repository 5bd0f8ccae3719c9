------------------------------- MODULE FlatFS -------------------------------
(***************************************************************************)
(* The flat file system of the kernel (kernel/kernel.c): the directory     *)
(* array, the data sectors of the RAM disk and the table of open files,    *)
(* with one action per file system call.                                   *)
(*                                                                         *)
(* A system call runs behind an interrupt gate and none of these calls     *)
(* re-enables interrupts, so each one is atomic.  What interleaves are     *)
(* whole calls: of the threads of a program, and of successive programs,   *)
(* which share the open file table.  A call that fails returns -1 and      *)
(* changes nothing, so it is not a step.                                   *)
(*                                                                         *)
(* A sector holds SectorSize bytes instead of 512.  The RAM disk keeps     *)
(* NSectors data sectors after the directory, which ends at DataLba.       *)
(***************************************************************************)
EXTENDS Integers, Sequences, FiniteSets, FiniteSetsExt

CONSTANTS
  UserNames,   \* names as programs write them
  NSlots,      \* entries of dir[]
  OpenMax,     \* OPEN_MAX, entries of ofiles[]
  SectorSize,  \* bytes of a sector
  DataLba,     \* FS_DATA_LBA, the first data sector
  NSectors,    \* data sectors the RAM disk holds
  Data,        \* byte values that programs write
  Buffers,     \* byte sequences a program passes to SYS_SAVE or SYS_FWRITE
  Lengths,     \* lengths a program passes to SYS_FREAD
  Offsets,     \* positions a program passes to SYS_SEEK
  MaxSize,     \* bound: the largest file a program writes through a handle
  MaxLba       \* bound: the last sector at which a file is placed; freed
               \* sectors are not reused, so extents creep up for ever

ASSUME SlotsAssumption == NSlots \in Nat \ {0} /\ OpenMax \in Nat \ {0}
ASSUME GeometryAssumption ==
  SectorSize \in Nat \ {0} /\ DataLba \in Nat \ {0} /\ NSectors \in Nat
ASSUME InputAssumption ==
  /\ Data \subseteq Nat \ {0}
  /\ Buffers \subseteq Seq(Data)
  /\ Lengths \subseteq Nat \ {0}
  /\ Offsets \subseteq Int
  /\ MaxSize \in Nat /\ MaxLba \in Nat

(***************************************************************************)
(* Names.  A name is told apart by three parts: its first 15 characters,   *)
(* its 16th and the rest up to the 47th ("" where the name is shorter), and *)
(* by the case it is written in.                                           *)
(***************************************************************************)
NamePart == {""} \cup UNION {{u.stem, u.c16, u.rest} : u \in UserNames}
KernelName == [stem : NamePart, c16 : NamePart, rest : NamePart]

ASSUME NamesAssumption ==
  \A u \in UserNames : u.stem # "" /\ (u.c16 = "" => u.rest = "")

\* normalize_name: upper-cases, keeps all 47 characters.
Normalize(u) == [stem |-> u.stem, c16 |-> u.c16, rest |-> u.rest]

\* name[0] == 0 marks a free entry.
NoName == [stem |-> "", c16 |-> "", rest |-> ""]

\* name_eq_ci stops after 16 characters.
NameEqCi(a, b) == a.stem = b.stem /\ a.c16 = b.c16

\* SYS_OPEN stores at most 15 characters of the name.
OpenedName(n) == [stem |-> n.stem, c16 |-> "", rest |-> ""]

(***************************************************************************)
(* State.                                                                  *)
(***************************************************************************)
Slots == 0 .. NSlots - 1
Fds == 0 .. OpenMax - 1
Lbas == DataLba .. DataLba + NSectors - 1

Zero == 0
Junk == -1          \* whatever follows the caller's buffer in user memory
Byte == Data \cup {Zero, Junk}
Sector == [0 .. SectorSize - 1 -> Byte]
ZeroSector == [o \in 0 .. SectorSize - 1 |-> Zero]

VARIABLES
  dir,      \* dirent_t dir[]
  disk,     \* the data sectors of the RAM disk
  ofiles    \* open_file_t ofiles[]

vars == <<dir, disk, ofiles>>

Dirent == [name : KernelName, start : Nat, size : Nat]
ZeroDirent == [name |-> NoName, start |-> 0, size |-> 0]

\* The one-sector cache of a handle; lba 0 stands for sector_valid == 0.
Cache == [lba : Nat, dirty : BOOLEAN, sector : Sector]
NoCache == [lba |-> 0, dirty |-> FALSE, sector |-> ZeroSector]

OpenFile == [used : BOOLEAN, mode : {"read", "write"}, slot : Slots,
             start : Nat, size : Nat, pos : Nat, cache : Cache]
ClosedFile == [used |-> FALSE, mode |-> "read", slot |-> 0,
               start |-> 0, size |-> 0, pos |-> 0, cache |-> NoCache]

Init ==
  /\ dir = [i \in Slots |-> ZeroDirent]
  /\ disk = [l \in Lbas |-> ZeroSector]
  /\ ofiles = [fd \in Fds |-> ClosedFile]

(***************************************************************************)
(* The block layer on a RAM disk: a transfer that does not fit is dropped  *)
(* as a whole, and a read that does not fit returns zeroes.                *)
(***************************************************************************)
RangeOk(lba, count) == lba >= DataLba /\ lba + count <= DataLba + NSectors

ReadSector(d, lba) == IF RangeOk(lba, 1) THEN d[lba] ELSE ZeroSector

WriteSector(d, lba, sector) ==
  IF RangeOk(lba, 1) THEN [d EXCEPT ![lba] = sector] ELSE d

\* disk_write_sectors of the sectors that hold buf, straight from the
\* caller's memory: the tail of the last sector is whatever follows buf.
WriteBuffer(lba, count, buf) ==
  IF ~RangeOk(lba, count) THEN disk
  ELSE [l \in Lbas |->
         IF l \in lba .. lba + count - 1
         THEN [o \in 0 .. SectorSize - 1 |->
                LET p == (l - lba) * SectorSize + o + 1
                IN  IF p <= Len(buf) THEN buf[p] ELSE Junk]
         ELSE disk[l]]

SectorsOf(size) == (size + SectorSize - 1) \div SectorSize

(***************************************************************************)
(* The directory.                                                          *)
(***************************************************************************)
Used == {i \in Slots : dir[i].name.stem # ""}
Matches(n) == {i \in Used : NameEqCi(dir[i].name, n)}

Exists(n) == Matches(n) # {}
fs_find(n) == Min(Matches(n))

Room == Used # Slots
FreeSlot == Min(Slots \ Used)

EndOf(i) == dir[i].start + SectorsOf(dir[i].size)

\* Mutant: the search starts at sector 0 instead of FS_DATA_LBA.
NextFreeFromZero(excl) == Max({0} \cup {EndOf(i) : i \in Used \ {excl}})

\* The end of the last extent, entry excl left out (-1: none is).
fs_next_free(excl) == Max({DataLba} \cup {EndOf(i) : i \in Used \ {excl}})

\* fs_read: the bytes SYS_LOAD delivers for entry i, the full sectors read
\* in one transfer and the last partial one in another.
fs_read(i) ==
  LET start == dir[i].start
      full == dir[i].size \div SectorSize
  IN  [p \in 1 .. dir[i].size |->
        LET k == (p - 1) \div SectorSize
        IN  IF k < full /\ ~RangeOk(start, full) THEN Zero
            ELSE ReadSector(disk, start + k)[(p - 1) % SectorSize]]

(***************************************************************************)
(* SYS_SAVE: fs_write.                                                     *)
(***************************************************************************)
SaveSlot(n) == IF Exists(n) THEN fs_find(n) ELSE FreeSlot

\* Mutant: a replacement stays where it is whatever its size.
AlwaysInPlace(n, size) == Exists(n)

\* A replacement that fits stays where it is; one that grows moves past
\* every other extent, its own old sectors counting as free.
FitsInPlace(n, size) ==
  Exists(n) /\ SectorsOf(size) <= SectorsOf(dir[fs_find(n)].size)

SaveStart(n, size) ==
  IF FitsInPlace(n, size) THEN dir[fs_find(n)].start
  ELSE fs_next_free(IF Exists(n) THEN fs_find(n) ELSE -1)

Save(u, buf) ==
  LET n == Normalize(u)
      start == SaveStart(n, Len(buf))
  IN  /\ Exists(n) \/ Room
      /\ start <= MaxLba
      /\ disk' = WriteBuffer(start, SectorsOf(Len(buf)), buf)
      /\ dir' = [dir EXCEPT ![SaveSlot(n)] =
                   [name |-> n, start |-> start, size |-> Len(buf)]]
      /\ UNCHANGED ofiles

(***************************************************************************)
(* SYS_RENAME and SYS_DELETE.                                              *)
(***************************************************************************)
\* Mutant: no test that the new name is free.
RenameOntoExisting(u, v) ==
  LET old == Normalize(u)
      new == Normalize(v)
  IN  /\ Exists(old)
      /\ dir' = [dir EXCEPT ![fs_find(old)].name = new]
      /\ UNCHANGED <<disk, ofiles>>

Rename(u, v) ==
  LET old == Normalize(u)
      new == Normalize(v)
  IN  /\ Exists(old)
      /\ ~Exists(new)
      /\ dir' = [dir EXCEPT ![fs_find(old)].name = new]
      /\ UNCHANGED <<disk, ofiles>>

Delete(u) ==
  LET n == Normalize(u)
  IN  /\ Exists(n)
      /\ dir' = [dir EXCEPT ![fs_find(n)] = ZeroDirent]
      /\ UNCHANGED <<disk, ofiles>>

(***************************************************************************)
(* SYS_OPEN.                                                               *)
(***************************************************************************)
FreeFds == {fd \in Fds : ~ofiles[fd].used}
alloc_fd == Min(FreeFds)

OpenRead(u) ==
  LET n == Normalize(u)
      i == fs_find(n)
  IN  /\ FreeFds # {}
      /\ Exists(n)
      /\ ofiles' = [ofiles EXCEPT ![alloc_fd] =
                      [used |-> TRUE, mode |-> "read", slot |-> i,
                       start |-> dir[i].start, size |-> dir[i].size,
                       pos |-> 0, cache |-> NoCache]]
      /\ UNCHANGED <<dir, disk>>

\* Mutant: a file opened again is written from where it begins.
OpenInPlace(n) == IF Exists(n) THEN dir[fs_find(n)].start ELSE fs_next_free(-1)

OpenStart(n) == fs_next_free(IF Exists(n) THEN fs_find(n) ELSE -1)

\* The entry is emptied at once; SYS_CLOSE publishes the size.
OpenWrite(u) ==
  LET n == Normalize(u)
      i == SaveSlot(n)
  IN  /\ FreeFds # {}
      /\ Exists(n) \/ Room
      /\ OpenStart(n) <= MaxLba
      /\ dir' = [dir EXCEPT ![i] = [name |-> OpenedName(n),
                                    start |-> OpenStart(n), size |-> 0]]
      /\ ofiles' = [ofiles EXCEPT ![alloc_fd] =
                      [used |-> TRUE, mode |-> "write", slot |-> i,
                       start |-> OpenStart(n), size |-> 0,
                       pos |-> 0, cache |-> NoCache]]
      /\ UNCHANGED disk

(***************************************************************************)
(* SYS_FREAD and SYS_FWRITE.  The loop over the sectors of the transfer is *)
(* written out: only the first sector can come from the cache, and only    *)
(* the last one stays there.                                               *)
(***************************************************************************)
LbaAt(f, p) == f.start + p \div SectorSize

\* ofile_flush
Flushed(f) ==
  IF f.cache.dirty THEN WriteSector(disk, f.cache.lba, f.cache.sector) ELSE disk

\* Mutant: the cached sector is taken whichever sector it is.
CachedAnySector(f, lba) == f.cache.lba # 0

\* A transfer that begins at the handle's position finds lba in the cache.
Cached(f, lba) == f.cache.lba = lba /\ lba = LbaAt(f, f.pos)

\* What ofile_load_sector leaves in the cache of a read handle.
ReadView(f, lba) ==
  IF Cached(f, lba) THEN f.cache.sector ELSE ReadSector(disk, lba)

FReadLen(f, len) == Min({len, f.size - f.pos})

FRead(fd, len) ==
  LET f == ofiles[fd]
      end == f.pos + FReadLen(f, len)
      last == LbaAt(f, end - 1)
  IN  /\ f.used /\ f.mode = "read"
      /\ f.pos < f.size
      /\ ofiles' = [ofiles EXCEPT
           ![fd].pos = end,
           ![fd].cache = [lba |-> last, dirty |-> FALSE,
                          sector |-> ReadView(f, last)]]
      /\ UNCHANGED <<dir, disk>>

\* ofile_load_sector on a write handle: the sector is read back only if its
\* absolute number is below the number of sectors written so far.
WriteView(f, d, lba) ==
  LET written == SectorsOf(Max({f.size, (lba - f.start) * SectorSize}))
  IN  IF Cached(f, lba) THEN f.cache.sector
      ELSE IF lba < written THEN ReadSector(d, lba) ELSE ZeroSector

FWrite(fd, buf) ==
  LET f == ofiles[fd]
      end == f.pos + Len(buf)
      first == LbaAt(f, f.pos)
      last == LbaAt(f, end - 1)
      flushed == IF Cached(f, first) THEN disk ELSE Flushed(f)
      New(lba) ==
        [o \in 0 .. SectorSize - 1 |->
          LET p == (lba - f.start) * SectorSize + o
          IN  IF p \in f.pos .. end - 1 THEN buf[p - f.pos + 1]
              ELSE WriteView(f, flushed, lba)[o]]
      Complete(lba) == (lba - f.start + 1) * SectorSize <= end
  IN  /\ f.used /\ f.mode = "write"
      /\ Len(buf) > 0
      /\ end <= MaxSize
      /\ disk' = [l \in Lbas |-> IF l \in first .. last /\ Complete(l)
                                 THEN New(l) ELSE flushed[l]]
      /\ ofiles' = [ofiles EXCEPT
           ![fd].pos = end,
           ![fd].size = Max({f.size, end}),
           ![fd].cache = IF Complete(last) THEN NoCache
                         ELSE [lba |-> last, dirty |-> TRUE,
                               sector |-> New(last)]]
      /\ UNCHANGED dir

(***************************************************************************)
(* SYS_CLOSE and SYS_SEEK.                                                 *)
(***************************************************************************)
\* Mutant: the last, partial sector is not written.
CloseWithoutFlush(fd) ==
  LET f == ofiles[fd]
  IN  /\ f.used
      /\ dir' = IF f.mode = "write"
                THEN [dir EXCEPT ![f.slot].start = f.start, ![f.slot].size = f.size]
                ELSE dir
      /\ ofiles' = [ofiles EXCEPT ![fd] = ClosedFile]
      /\ UNCHANGED disk

\* Mutant: the position of the last byte is published instead of the size.
ClosePublishesLast(fd) ==
  LET f == ofiles[fd]
  IN  /\ f.used
      /\ dir' = IF f.mode = "write"
                THEN [dir EXCEPT ![f.slot].start = f.start,
                                 ![f.slot].size = f.size - 1]
                ELSE dir
      /\ disk' = Flushed(f)
      /\ ofiles' = [ofiles EXCEPT ![fd] = ClosedFile]

Close(fd) ==
  LET f == ofiles[fd]
  IN  /\ f.used
      /\ IF f.mode = "write"
         THEN /\ disk' = Flushed(f)
              /\ dir' = [dir EXCEPT ![f.slot].start = f.start,
                                    ![f.slot].size = f.size]
         ELSE UNCHANGED <<dir, disk>>
      /\ ofiles' = [ofiles EXCEPT ![fd] = ClosedFile]

\* Mutant: a negative position is not raised to 0.
SeekUnclamped(fd, pos) ==
  LET f == ofiles[fd]
  IN  /\ f.used
      /\ disk' = IF f.mode = "write" THEN Flushed(f) ELSE disk
      /\ ofiles' = [ofiles EXCEPT ![fd].pos = Min({pos, f.size}),
                                  ![fd].cache = NoCache]
      /\ UNCHANGED dir

\* Mutant: the cached sector is neither flushed nor dropped.
SeekKeepsCache(fd, pos) ==
  LET f == ofiles[fd]
  IN  /\ f.used
      /\ ofiles' = [ofiles EXCEPT ![fd].pos = Min({Max({pos, 0}), f.size})]
      /\ UNCHANGED <<dir, disk>>

Seek(fd, pos) ==
  LET f == ofiles[fd]
  IN  /\ f.used
      /\ disk' = IF f.mode = "write" THEN Flushed(f) ELSE disk
      /\ ofiles' = [ofiles EXCEPT
           ![fd].pos = Min({Max({pos, 0}), f.size}),
           ![fd].cache = NoCache]
      /\ UNCHANGED dir

(***************************************************************************)
(* Any program may make any call on any handle: the table carries no owner. *)
(***************************************************************************)
Next ==
  \/ \E u \in UserNames, buf \in Buffers : Save(u, buf)
  \/ \E u, v \in UserNames : Rename(u, v)
  \/ \E u \in UserNames : Delete(u)
  \/ \E u \in UserNames : OpenRead(u)
  \/ \E u \in UserNames : OpenWrite(u)
  \/ \E fd \in Fds, len \in Lengths : FRead(fd, len)
  \/ \E fd \in Fds, buf \in Buffers : FWrite(fd, buf)
  \/ \E fd \in Fds : Close(fd)
  \/ \E fd \in Fds, pos \in Offsets : Seek(fd, pos)

Spec == Init /\ [][Next]_vars

(***************************************************************************)
(* Properties, for any programs.                                           *)
(***************************************************************************)
\* Every field keeps the range its C type and its use give it.
TypeOK ==
  /\ dir \in [Slots -> Dirent]
  /\ disk \in [Lbas -> Sector]
  /\ ofiles \in [Fds -> OpenFile]

\* fs_find returns the first match, so a second entry with an equal name
\* would be unreachable: SYS_SAVE, SYS_OPEN and SYS_RENAME never make one,
\* as long as names stay within the 15 characters SYS_OPEN stores.
UniqueNames ==
  \A i, j \in Used : NameEqCi(dir[i].name, dir[j].name) => i = j

\* Unwritten bytes are only ever those of the sector the handle stands in:
\* after SYS_FWRITE, SYS_SEEK or SYS_CLOSE no dirty sector is left behind at
\* another place of the file, where the next load would have to save it.
DirtyCacheAtPosition ==
  \A fd \in Fds :
    LET f == ofiles[fd]
    IN  /\ f.pos <= f.size
        /\ f.cache.dirty =>
             /\ f.used /\ f.mode = "write"
             /\ f.cache.lba = LbaAt(f, f.pos)
             /\ f.pos % SectorSize # 0

\* No file data is ever placed in the directory's sectors, although the
\* directory and the data share one array and SYS_CLOSE writes extents back
\* into entries that may have been deleted or reused since.
DataPastDirectory ==
  /\ \A i \in Used : dir[i].start >= DataLba
  /\ \A fd \in Fds : ofiles[fd].used => ofiles[fd].start >= DataLba

(***************************************************************************)
(* What comments and documents say, violated by what the code does.        *)
(***************************************************************************)
Extent(i) == dir[i].start .. EndOf(i) - 1

\* The comment in SYS_OPEN: "the new allocation never overlaps other files".
\* No two files share a sector.
ExtentsDisjoint ==
  \A i, j \in Used : i # j => Extent(i) \cap Extent(j) = {}

=============================================================================
