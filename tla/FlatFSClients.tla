--------------------------- MODULE FlatFSClients ---------------------------
(***************************************************************************)
(* The file system under programs that follow the rules its calls need:    *)
(*   - nothing is allocated while the program itself holds a write handle, *)
(*     because SYS_OPEN and SYS_SAVE place new data by the sizes in the    *)
(*     directory and a written size appears there only at SYS_CLOSE;       *)
(*   - a write handle is not repositioned, because ofile_load_sector       *)
(*     zero-fills a sector it should read back;                            *)
(*   - a write that does not fit the RAM disk is not attempted, because    *)
(*     disk_write_sectors drops it in silence.                             *)
(* The programs of the repository obey these rules.  They may still end,   *)
(* be killed or fault at any moment with handles open: neither exec_user   *)
(* nor the exit path touches ofiles[].                                     *)
(***************************************************************************)
EXTENDS FlatFS

VARIABLES
  held,     \* handles the running program opened and has not closed
  fresh     \* read handles whose entry is as it was when they were opened

cvars == <<vars, held, fresh>>

CInit == Init /\ held = {} /\ fresh = {}

Writers == {fd \in held : ofiles[fd].mode = "write"}
Quiet == Writers = {}

\* Read handles on entry i are not fresh once it is rewritten.
Touch(i) == fresh' = {fd \in fresh : ofiles[fd].slot # i}

CSave(u, buf) ==
  LET n == Normalize(u)
  IN  /\ FitsInPlace(n, Len(buf)) \/ Quiet
      /\ RangeOk(SaveStart(n, Len(buf)), SectorsOf(Len(buf)))
      /\ Save(u, buf)
      /\ Touch(SaveSlot(n))
      /\ UNCHANGED held

CRename(u, v) == Rename(u, v) /\ UNCHANGED <<held, fresh>>

CDelete(u) ==
  /\ Delete(u)
  /\ Touch(fs_find(Normalize(u)))
  /\ UNCHANGED held

COpenRead(u) ==
  /\ OpenRead(u)
  /\ held' = held \cup {alloc_fd}
  /\ fresh' = fresh \cup {alloc_fd}

COpenWrite(u) ==
  /\ Quiet
  /\ OpenWrite(u)
  /\ held' = held \cup {alloc_fd}
  /\ Touch(SaveSlot(Normalize(u)))

CFRead(fd, len) == fd \in held /\ FRead(fd, len) /\ UNCHANGED <<held, fresh>>

CFWrite(fd, buf) ==
  /\ fd \in held
  /\ RangeOk(ofiles[fd].start, SectorsOf(ofiles[fd].pos + Len(buf)))
  /\ FWrite(fd, buf)
  /\ UNCHANGED <<held, fresh>>

CClose(fd) ==
  /\ fd \in held
  /\ Close(fd)
  /\ held' = held \ {fd}
  /\ IF ofiles[fd].mode = "write" THEN Touch(ofiles[fd].slot)
     ELSE fresh' = fresh \ {fd}

CSeek(fd, pos) ==
  /\ fd \in held \ Writers
  /\ Seek(fd, pos)
  /\ UNCHANGED <<held, fresh>>

\* SYS_EXIT, Ctrl+C or a fault: the next program knows none of the handles.
ProgramEnds ==
  /\ held # {}
  /\ held' = {} /\ fresh' = {}
  /\ UNCHANGED vars

CNext ==
  \/ \E u \in UserNames, buf \in Buffers : CSave(u, buf)
  \/ \E u, v \in UserNames : CRename(u, v)
  \/ \E u \in UserNames : CDelete(u)
  \/ \E u \in UserNames : COpenRead(u)
  \/ \E u \in UserNames : COpenWrite(u)
  \/ \E fd \in Fds, len \in Lengths : CFRead(fd, len)
  \/ \E fd \in Fds, buf \in Buffers : CFWrite(fd, buf)
  \/ \E fd \in Fds : CClose(fd)
  \/ \E fd \in Fds, pos \in Offsets : CSeek(fd, pos)
  \/ ProgramEnds

CSpec == CInit /\ [][CNext]_cvars

(***************************************************************************)
(* Refinement: the directory and the sectors are a map from names to       *)
(* contents.                                                               *)
(***************************************************************************)
KeyOf(n) == <<n.stem, n.c16>>

EntryKeys == {KeyOf(dir[i].name) : i \in Used}
FilesView ==
  [k \in EntryKeys |->
     fs_read(CHOOSE i \in Used : KeyOf(dir[i].name) = k)]

\* Byte p of a file as its write handle has it: in the cache or on the disk.
WrittenByte(f, p) ==
  IF f.cache.lba = LbaAt(f, p) THEN f.cache.sector[p % SectorSize]
  ELSE ReadSector(disk, LbaAt(f, p))[p % SectorSize]

\* What a write handle has written so far, its cached sector included.
Written(f) == [p \in 1 .. f.size |-> WrittenByte(f, p - 1)]

WriterView ==
  {[key |-> KeyOf(dir[ofiles[fd].slot].name), data |-> Written(ofiles[fd])] :
     fd \in Writers}

FM == INSTANCE FileMap
        WITH Keys <- {KeyOf(Normalize(u)) : u \in UserNames},
             files <- FilesView, writer <- WriterView

\* The promise: as a program sees it, every call is an operation on a map
\* from names to contents, whatever extents moved, grew in place, were freed
\* or abandoned underneath.
ImplementsFileMap == FM!Spec

(***************************************************************************)
(* Invariants of the extents.                                              *)
(***************************************************************************)
\* The file system's fields keep their ranges under these programs, and only
\* handles of the running program are fresh.
CTypeOK == TypeOK /\ held \subseteq Fds /\ fresh \subseteq held

\* While a file is written through a handle, no other file lies at or past
\* its first sector, so that the handle may grow without end; and its entry
\* is empty or gone, so that SYS_CLOSE overwrites nobody's extent.
WriterOwnsTheTail ==
  \A fd \in Writers :
    /\ dir[ofiles[fd].slot].size = 0
    /\ \A i \in Used : dir[i].size > 0 => EndOf(i) <= ofiles[fd].start

\* A read handle delivers the file as long as nobody rewrites that file,
\* whatever is saved, deleted or written elsewhere in the meantime.
ReadersSeeTheFile ==
  \A fd \in fresh :
    LET f == ofiles[fd]
    IN  /\ f.size = dir[f.slot].size
        /\ \A p \in f.pos .. f.size - 1 :
             ReadView(f, LbaAt(f, p))[p % SectorSize] = fs_read(f.slot)[p + 1]

=============================================================================
