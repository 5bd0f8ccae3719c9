------------------------- MODULE FlatFSClientProofs -------------------------
(***************************************************************************)
(* Proofs about the file system under programs that follow its rules.      *)
(***************************************************************************)
EXTENDS FlatFSClients, FlatFSProofs

(***************************************************************************)
(* Extents.  That they stay disjoint rests on the one write handle owning  *)
(* everything past its first sector, and that on there being only one.     *)
(***************************************************************************)
HeldAreOpen == held \subseteq Fds /\ \A fd \in held : ofiles[fd].used
OneWriter == \A a, b \in Writers : a = b

ExtentInv ==
  /\ TypeOK
  /\ HeldAreOpen
  /\ OneWriter
  /\ WriterOwnsTheTail
  /\ ExtentsDisjoint

\* Every client step is a step of the file system.
LEMMA ClientStepIsStep == [CNext]_cvars => [Next]_vars
BY DEF CNext, Next, cvars, CSave, CRename, CDelete, COpenRead, COpenWrite,
   CFRead, CFWrite, CClose, CSeek, ProgramEnds

\* Entry s is rewritten as e, and e shares no sector with the other entries.
LEMMA EntryPlaced ==
  ASSUME TypeOK, ExtentsDisjoint, NEW s \in Slots, NEW e \in Dirent,
         dir' = [dir EXCEPT ![s] = e],
         \/ e.size = 0
         \/ s \in Used /\ e.start = dir[s].start
              /\ SectorsOf(e.size) <= SectorsOf(dir[s].size)
         \/ \A j \in Used \ {s} : dir[j].size > 0 => EndOf(j) <= e.start
  PROVE  ExtentsDisjoint'
<1> SUFFICES ASSUME NEW i \in Used', NEW j \in Used', i # j,
                    NEW x \in Extent(i)', x \in Extent(j)'
             PROVE  FALSE
  BY DEF ExtentsDisjoint
<1> DEFINE End(d) == d.start + SectorsOf(d.size)
<1>1. i \in Slots /\ j \in Slots /\ dir'[s] = e
      /\ \A k \in Slots \ {s} : dir'[k] = dir[k] /\ (k \in Used' => k \in Used)
  BY DEF Used, TypeOK
<1>2. \A k \in Slots : Extent(k)' = dir'[k].start .. End(dir'[k]) - 1
                     /\ Extent(k) = dir[k].start .. End(dir[k]) - 1
                     /\ EndOf(k) = End(dir[k])
  BY DEF Extent, EndOf
<1>3. \A k \in Slots : dir[k] \in Dirent
  BY DEF TypeOK
<1>4. \A d \in Dirent : d.start \in Nat /\ d.size \in Nat /\ SectorsOf(d.size) \in Nat
                      /\ (SectorsOf(d.size) = 0 <=> d.size = 0)
  BY SectorsOfNat DEF Dirent
<1> HIDE DEF End
\* Neither of the two is s.
<1>5. CASE i # s /\ j # s
  BY <1>1, <1>2, <1>5 DEF ExtentsDisjoint
\* One of them is s: the other, k, is as it was.
<1>6. ASSUME NEW k \in Used, k # s, x \in Extent(k), x \in Extent(s)' PROVE FALSE
  <2>1. k \in Slots
    BY DEF Used
  <2>2. x \in dir[k].start .. End(dir[k]) - 1 /\ x \in e.start .. End(e) - 1
    BY <1>1, <1>2, <1>6, <2>1
  <2>3. CASE e.size = 0
    BY <1>4, <2>2, <2>3 DEF End
  <2>4. CASE s \in Used /\ e.start = dir[s].start
             /\ SectorsOf(e.size) <= SectorsOf(dir[s].size)
    <3>1. x \in dir[s].start .. End(dir[s]) - 1
      BY <1>3, <1>4, <2>2, <2>4 DEF End
    <3>2. x \in Extent(s) /\ x \in Extent(k)
      BY <1>2, <2>1, <2>2, <3>1
    <3> QED
      BY <1>6, <2>4, <3>2 DEF ExtentsDisjoint
  <2>5. CASE \A m \in Used \ {s} : dir[m].size > 0 => EndOf(m) <= e.start
    <3>1. dir[k].size > 0
      BY <1>3, <1>4, <2>1, <2>2 DEF End
    <3>2. End(dir[k]) <= e.start
      BY <1>2, <1>6, <2>1, <2>5, <3>1
    <3> QED
      BY <1>3, <1>4, <2>1, <2>2, <3>2 DEF End
  <2> QED
    BY <2>3, <2>4, <2>5
<1>7. CASE i = s
  BY <1>1, <1>2, <1>6, <1>7
<1>8. CASE j = s
  BY <1>1, <1>2, <1>6, <1>8
<1> QED
  BY <1>5, <1>7, <1>8

LEMMA NoWriters ==
  ASSUME Writers' = {}
  PROVE  OneWriter' /\ WriterOwnsTheTail'
BY DEF OneWriter, WriterOwnsTheTail

\* A step that leaves the directory alone and closes no held write handle.
LEMMA HandlesKept ==
  ASSUME ExtentInv, UNCHANGED dir, HeldAreOpen', Writers' = Writers,
         \A fd \in Writers : /\ ofiles'[fd].slot = ofiles[fd].slot
                             /\ ofiles'[fd].start = ofiles[fd].start
  PROVE  OneWriter' /\ WriterOwnsTheTail' /\ ExtentsDisjoint'
<1>1. Used' = Used /\ \A i \in Slots : EndOf(i)' = EndOf(i) /\ Extent(i)' = Extent(i)
  BY DEF Used, EndOf, Extent
<1>2. OneWriter'
  BY DEF ExtentInv, OneWriter
<1>3. WriterOwnsTheTail'
  BY <1>1 DEF ExtentInv, WriterOwnsTheTail, Used
<1>4. ExtentsDisjoint'
  BY <1>1 DEF ExtentInv, ExtentsDisjoint, Used
<1> QED
  BY <1>2, <1>3, <1>4

LEMMA SaveKeepsExtents ==
  ASSUME ExtentInv, NEW u \in UserNames, NEW buf \in Buffers, CSave(u, buf)
  PROVE  HeldAreOpen' /\ OneWriter' /\ WriterOwnsTheTail' /\ ExtentsDisjoint'
<1> DEFINE n == Normalize(u)
           s == SaveSlot(n)
           e == [name |-> n, start |-> SaveStart(n, Len(buf)), size |-> Len(buf)]
<1>1. TypeOK /\ ExtentsDisjoint /\ Len(buf) \in Nat
  BY InputAssumption DEF ExtentInv
<1>2. s \in Slots /\ e \in Dirent /\ dir' = [dir EXCEPT ![s] = e]
      /\ UNCHANGED <<ofiles, held>>
  BY <1>1, SaveSlotType, SaveStartType, NormalizeType DEF CSave, Save, Dirent, TypeOK
<1>3. HeldAreOpen' /\ OneWriter' /\ Writers' = Writers
  BY <1>2 DEF ExtentInv, HeldAreOpen, OneWriter, Writers
<1>4. CASE FitsInPlace(n, Len(buf))
  <2>1. s \in Used /\ e.start = dir[s].start
        /\ SectorsOf(e.size) <= SectorsOf(dir[s].size)
    BY <1>4, FindType DEF FitsInPlace, SaveStart, SaveSlot
  <2>2. ExtentsDisjoint'
    BY <1>1, <1>2, <2>1, EntryPlaced
  <2>3. /\ dir[s].size \in Nat /\ dir[s].start \in Nat
        /\ SectorsOf(Len(buf)) \in Nat /\ (SectorsOf(Len(buf)) = 0 <=> Len(buf) = 0)
        /\ SectorsOf(dir[s].size) \in Nat
        /\ (SectorsOf(dir[s].size) = 0 <=> dir[s].size = 0)
    BY <1>1, <1>2, SectorsOfNat DEF TypeOK, Dirent
  <2>4. ASSUME NEW i \in Used'
        PROVE  i \in Used /\ (dir'[i].size > 0 => dir[i].size > 0 /\ EndOf(i)' <= EndOf(i))
    <3>1. CASE i = s
      BY <1>1, <1>2, <2>1, <2>3, <3>1 DEF EndOf, TypeOK
    <3>2. CASE i # s
      <4>1. i \in Used /\ dir'[i] = dir[i] /\ EndOf(i)' = EndOf(i)
        BY <1>1, <1>2, <3>2 DEF Used, EndOf, TypeOK
      <4>2. EndOf(i) \in Nat
        BY <1>1, <4>1, EndOfType DEF TypeOK, Used
      <4> QED
        BY <4>1, <4>2
    <3> QED
      BY <3>1, <3>2
  <2>5. WriterOwnsTheTail'
    <3> SUFFICES ASSUME NEW fd \in Writers
                 PROVE  /\ dir'[ofiles[fd].slot].size = 0
                        /\ \A i \in Used' : dir'[i].size > 0 =>
                             EndOf(i)' <= ofiles[fd].start
      BY <1>2, <1>3 DEF WriterOwnsTheTail
    <3>1. ofiles[fd].slot \in Slots /\ ofiles[fd].start \in Nat
      BY <1>1 DEF ExtentInv, HeldAreOpen, Writers, TypeOK, OpenFile
    <3>2. dir[ofiles[fd].slot].size = 0
          /\ \A i \in Used : dir[i].size > 0 => EndOf(i) <= ofiles[fd].start
      BY DEF ExtentInv, WriterOwnsTheTail
    <3>3. dir'[ofiles[fd].slot].size = 0
      BY <1>1, <1>2, <2>1, <2>3, <3>1, <3>2 DEF TypeOK
    <3>4. ASSUME NEW i \in Used', dir'[i].size > 0
          PROVE  EndOf(i)' <= ofiles[fd].start
      <4>1. EndOf(i)' <= EndOf(i) /\ EndOf(i) <= ofiles[fd].start
        BY <2>4, <3>2, <3>4
      <4>2. EndOf(i) \in Nat /\ EndOf(i)' \in Nat
        <5>1. i \in Slots /\ dir[i] \in Dirent /\ dir'[i] \in Dirent
          BY <1>1, <1>2 DEF Used, TypeOK
        <5> QED
          BY <5>1, SectorsOfNat DEF EndOf, Dirent
      <4> QED
        BY <3>1, <4>1, <4>2
    <3> QED
      BY <3>3, <3>4
  <2> QED
    BY <1>3, <2>2, <2>5
<1>5. CASE ~FitsInPlace(n, Len(buf))
  <2>1. Writers = {}
    BY <1>5 DEF CSave, Quiet
  <2>2. \A j \in Used \ {s} : EndOf(j) <= e.start
    BY <1>1, <1>5, StartPastOthers DEF TypeOK
  <2>3. ExtentsDisjoint'
    BY <1>1, <1>2, <2>2, EntryPlaced
  <2> QED
    BY <1>3, <2>1, <2>3, NoWriters
<1> QED
  BY <1>4, <1>5

LEMMA RenameKeepsExtents ==
  ASSUME ExtentInv, NEW u \in UserNames, NEW v \in UserNames, CRename(u, v)
  PROVE  HeldAreOpen' /\ OneWriter' /\ WriterOwnsTheTail' /\ ExtentsDisjoint'
<1>1. fs_find(Normalize(u)) \in Used
  BY FindType DEF CRename, Rename
<1>2. \A i \in Slots : /\ dir'[i].start = dir[i].start /\ dir'[i].size = dir[i].size
                       /\ dir'[i].name = IF i = fs_find(Normalize(u))
                                         THEN Normalize(v) ELSE dir[i].name
  BY <1>1 DEF CRename, Rename, ExtentInv, TypeOK, Dirent, Used
<1>3. UNCHANGED <<ofiles, held>> /\ Writers' = Writers
  BY DEF CRename, Rename, Writers
<1>4. Used' = Used
  BY <1>1, <1>2, NormalizeType DEF Used
<1>5. \A i \in Slots : EndOf(i)' = EndOf(i) /\ Extent(i)' = Extent(i)
  BY <1>2 DEF EndOf, Extent
<1>6. HeldAreOpen' /\ OneWriter'
  BY <1>3 DEF ExtentInv, HeldAreOpen, OneWriter
<1>7. WriterOwnsTheTail'
  <2>1. \A fd \in Writers : ofiles[fd].slot \in Slots
    BY DEF ExtentInv, HeldAreOpen, Writers, TypeOK, OpenFile
  <2> QED
    BY <1>2, <1>3, <1>4, <1>5, <2>1 DEF ExtentInv, WriterOwnsTheTail, Used
<1>8. ExtentsDisjoint'
  BY <1>4, <1>5 DEF ExtentInv, ExtentsDisjoint, Used
<1> QED
  BY <1>6, <1>7, <1>8

LEMMA DeleteKeepsExtents ==
  ASSUME ExtentInv, NEW u \in UserNames, CDelete(u)
  PROVE  HeldAreOpen' /\ OneWriter' /\ WriterOwnsTheTail' /\ ExtentsDisjoint'
<1> DEFINE s == fs_find(Normalize(u))
<1>1. s \in Slots /\ dir' = [dir EXCEPT ![s] = ZeroDirent]
  BY FindType DEF CDelete, Delete, Used
<1>2. UNCHANGED <<ofiles, held>> /\ Writers' = Writers
  BY DEF CDelete, Delete, Writers
<1>3. HeldAreOpen' /\ OneWriter'
  BY <1>2 DEF ExtentInv, HeldAreOpen, OneWriter
<1>4. ExtentsDisjoint'
  BY <1>1, ZeroIsFree, ConstantTypes, EntryPlaced DEF ExtentInv
<1>5. \A i \in Slots : dir'[i] = dir[i] \/ dir'[i] = ZeroDirent
  BY <1>1 DEF ExtentInv, TypeOK
<1>6. ASSUME NEW i \in Used' PROVE i \in Used /\ dir'[i] = dir[i] /\ EndOf(i)' = EndOf(i)
  BY <1>5, ZeroIsFree DEF Used, EndOf
<1>7. WriterOwnsTheTail'
  <2>1. \A fd \in Writers : ofiles[fd].slot \in Slots
    BY DEF ExtentInv, HeldAreOpen, Writers, TypeOK, OpenFile
  <2> QED
    BY <1>2, <1>5, <1>6, <2>1, ZeroIsFree DEF ExtentInv, WriterOwnsTheTail
<1> QED
  BY <1>3, <1>4, <1>7

LEMMA OpenReadKeepsExtents ==
  ASSUME ExtentInv, NEW u \in UserNames, COpenRead(u)
  PROVE  HeldAreOpen' /\ OneWriter' /\ WriterOwnsTheTail' /\ ExtentsDisjoint'
<1>1. alloc_fd \in Fds /\ alloc_fd \notin held
  BY AllocType DEF COpenRead, OpenRead, ExtentInv, HeldAreOpen
<1>2. ofiles'[alloc_fd].used /\ ofiles'[alloc_fd].mode = "read"
      /\ \A fd \in Fds \ {alloc_fd} : ofiles'[fd] = ofiles[fd]
  BY <1>1 DEF COpenRead, OpenRead, ExtentInv, TypeOK
<1>3. held' = held \cup {alloc_fd} /\ UNCHANGED dir
  BY DEF COpenRead, OpenRead
<1>4. HeldAreOpen'
  BY <1>1, <1>2, <1>3 DEF ExtentInv, HeldAreOpen
<1>5. Writers' = Writers
  BY <1>1, <1>2, <1>3 DEF Writers, ExtentInv, HeldAreOpen
<1>6. \A fd \in Writers : ofiles'[fd] = ofiles[fd]
  BY <1>1, <1>2 DEF Writers, ExtentInv, HeldAreOpen
<1> QED
  BY <1>3, <1>4, <1>5, <1>6, HandlesKept

LEMMA OpenWriteKeepsExtents ==
  ASSUME ExtentInv, NEW u \in UserNames, COpenWrite(u)
  PROVE  HeldAreOpen' /\ OneWriter' /\ WriterOwnsTheTail' /\ ExtentsDisjoint'
<1> DEFINE n == Normalize(u)
           s == SaveSlot(n)
           e == [name |-> OpenedName(n), start |-> OpenStart(n), size |-> 0]
<1>1. TypeOK /\ ExtentsDisjoint /\ Writers = {}
  BY DEF ExtentInv, COpenWrite, Quiet
<1>2. s \in Slots /\ e \in Dirent /\ dir' = [dir EXCEPT ![s] = e] /\ e.size = 0
  BY <1>1, SaveSlotType, SaveStartType, NormalizeType, 0 \in Nat
     DEF COpenWrite, OpenWrite, Dirent, TypeOK
<1>3. ExtentsDisjoint'
  BY <1>1, <1>2, EntryPlaced
<1>4. alloc_fd \in Fds /\ alloc_fd \notin held
  BY AllocType DEF COpenWrite, OpenWrite, ExtentInv, HeldAreOpen
<1>5. /\ ofiles'[alloc_fd].used /\ ofiles'[alloc_fd].mode = "write"
      /\ ofiles'[alloc_fd].slot = s /\ ofiles'[alloc_fd].start = OpenStart(n)
      /\ \A fd \in Fds \ {alloc_fd} : ofiles'[fd] = ofiles[fd]
  BY <1>1, <1>4 DEF COpenWrite, OpenWrite, TypeOK
<1>6. held' = held \cup {alloc_fd}
  BY DEF COpenWrite
<1>7. HeldAreOpen'
  BY <1>4, <1>5, <1>6 DEF ExtentInv, HeldAreOpen
<1>8. Writers' = {alloc_fd}
  BY <1>1, <1>4, <1>5, <1>6 DEF Writers, ExtentInv, HeldAreOpen
<1>9. dir'[s].size = 0
  BY <1>1, <1>2 DEF TypeOK
<1>10. ASSUME NEW i \in Used', dir'[i].size > 0
       PROVE  EndOf(i)' <= OpenStart(n)
  <2>1. i # s /\ i \in Slots
    <3>1. ~ (0 > 0)
      OBVIOUS
    <3>2. i # s
      BY <1>9, <1>10, <3>1, Zenon
    <3>3. i \in Slots
      BY DEF Used
    <3> QED
      BY <3>2, <3>3
  <2>2. i \in Used \ {s} /\ EndOf(i)' = EndOf(i)
    BY <1>1, <1>2, <2>1 DEF Used, EndOf, TypeOK
  <2> QED
    BY <1>1, <2>2, StartPastOthers DEF TypeOK
<1>11. OneWriter' /\ WriterOwnsTheTail'
  BY <1>5, <1>8, <1>9, <1>10 DEF OneWriter, WriterOwnsTheTail
<1> QED
  BY <1>3, <1>7, <1>11

LEMMA TransferKeepsExtents ==
  ASSUME ExtentInv, NEW fd \in Fds,
         \/ \E len \in Lengths : CFRead(fd, len)
         \/ \E buf \in Buffers : CFWrite(fd, buf)
         \/ \E pos \in Offsets : CSeek(fd, pos)
  PROVE  HeldAreOpen' /\ OneWriter' /\ WriterOwnsTheTail' /\ ExtentsDisjoint'
<1>1. UNCHANGED <<dir, held>>
  BY DEF CFRead, CFWrite, CSeek, FRead, FWrite, Seek
<1>2. \A g \in Fds : SameFile(g)
  BY TransferKeepsFile DEF ExtentInv, CFRead, CFWrite, CSeek
<1>3. HeldAreOpen' /\ Writers' = Writers /\ Writers \subseteq Fds
  BY <1>1, <1>2 DEF ExtentInv, HeldAreOpen, Writers, SameFile
<1> QED
  BY <1>1, <1>2, <1>3, HandlesKept DEF SameFile

LEMMA CloseKeepsExtents ==
  ASSUME ExtentInv, NEW fd \in Fds, CClose(fd)
  PROVE  HeldAreOpen' /\ OneWriter' /\ WriterOwnsTheTail' /\ ExtentsDisjoint'
<1> DEFINE f == ofiles[fd]
<1>1. TypeOK /\ fd \in held /\ held' = held \ {fd}
      /\ \A g \in Fds \ {fd} : ofiles'[g] = ofiles[g]
  BY DEF ExtentInv, CClose, Close, TypeOK
<1>2. HeldAreOpen'
  BY <1>1 DEF ExtentInv, HeldAreOpen
<1>3. CASE f.mode = "write"
  <2> DEFINE e == [dir[f.slot] EXCEPT !.start = f.start, !.size = f.size]
  <2>1. fd \in Writers
    BY <1>1, <1>3 DEF Writers
  <2>2. Writers' = {}
    BY <1>1, <2>1 DEF Writers, ExtentInv, OneWriter, HeldAreOpen
  <2>3. f.slot \in Slots /\ f.start \in Nat /\ f.size \in Nat
    BY <1>1 DEF TypeOK, OpenFile
  <2>4. e \in Dirent /\ e.start = f.start
    BY <1>1, <2>3 DEF TypeOK, Dirent
  <2>5. dir' = [dir EXCEPT ![f.slot] = e]
    BY <1>1, <1>3, <2>3 DEF CClose, Close, TypeOK
  <2>6. \A j \in Used : dir[j].size > 0 => EndOf(j) <= e.start
    BY <2>1, <2>4 DEF ExtentInv, WriterOwnsTheTail
  <2>7. ExtentsDisjoint'
    <3> HIDE DEF f, e
    <3> QED
      BY <1>1, <2>3, <2>4, <2>5, <2>6, EntryPlaced DEF ExtentInv
  <2> QED
    BY <1>2, <2>2, <2>7, NoWriters
<1>4. CASE f.mode # "write"
  <2>1. fd \notin Writers /\ UNCHANGED dir
    BY <1>4 DEF Writers, CClose, Close
  <2>2. Writers' = Writers /\ Writers \subseteq Fds \ {fd}
    BY <1>1, <2>1 DEF Writers, ExtentInv, HeldAreOpen
  <2> QED
    BY <1>1, <1>2, <2>1, <2>2, HandlesKept
<1> QED
  BY <1>3, <1>4

LEMMA ExtentInit == CInit => ExtentInv
<1> SUFFICES ASSUME CInit PROVE ExtentInv
  OBVIOUS
<1>1. TypeOK /\ Used = {} /\ held = {}
  BY TypeInit, InitEmpty DEF CInit
<1>2. Writers = {}
  BY <1>1 DEF Writers
<1> QED
  BY <1>1, <1>2 DEF ExtentInv, HeldAreOpen, OneWriter, WriterOwnsTheTail, ExtentsDisjoint

LEMMA ExtentStep == ExtentInv /\ [CNext]_cvars => ExtentInv'
<1> SUFFICES ASSUME ExtentInv, [CNext]_cvars PROVE ExtentInv'
  OBVIOUS
<1>1. TypeOK'
  BY ClientStepIsStep, TypeStep DEF ExtentInv
<1>2. CASE ProgramEnds
  <2>1. held' = {} /\ UNCHANGED <<dir, disk, ofiles>>
    BY <1>2 DEF ProgramEnds, vars
  <2>2. HeldAreOpen' /\ Writers' = {}
    BY <2>1 DEF HeldAreOpen, Writers
  <2>3. ExtentsDisjoint'
    BY <2>1 DEF ExtentInv, ExtentsDisjoint, Extent, EndOf, Used
  <2> QED
    BY <1>1, <2>2, <2>3, NoWriters DEF ExtentInv
<1>3. CASE UNCHANGED cvars
  <2>1. UNCHANGED <<dir, ofiles, held>>
    BY <1>3 DEF cvars, vars
  <2>2. HeldAreOpen' /\ Writers' = Writers
    BY <2>1 DEF ExtentInv, HeldAreOpen, Writers
  <2> QED
    BY <1>1, <2>1, <2>2, HandlesKept DEF ExtentInv
<1>4. CASE \E u \in UserNames, buf \in Buffers : CSave(u, buf)
  BY <1>1, <1>4, SaveKeepsExtents DEF ExtentInv
<1>5. CASE \E u, v \in UserNames : CRename(u, v)
  BY <1>1, <1>5, RenameKeepsExtents DEF ExtentInv
<1>6. CASE \E u \in UserNames : CDelete(u)
  BY <1>1, <1>6, DeleteKeepsExtents DEF ExtentInv
<1>7. CASE \E u \in UserNames : COpenRead(u)
  BY <1>1, <1>7, OpenReadKeepsExtents DEF ExtentInv
<1>8. CASE \E u \in UserNames : COpenWrite(u)
  BY <1>1, <1>8, OpenWriteKeepsExtents DEF ExtentInv
<1>9. CASE \E fd \in Fds : \/ \E len \in Lengths : CFRead(fd, len)
                           \/ \E buf \in Buffers : CFWrite(fd, buf)
                           \/ \E pos \in Offsets : CSeek(fd, pos)
  BY <1>1, <1>9, TransferKeepsExtents DEF ExtentInv
<1>10. CASE \E fd \in Fds : CClose(fd)
  BY <1>1, <1>10, CloseKeepsExtents DEF ExtentInv
<1> QED
  BY <1>2, <1>3, <1>4, <1>5, <1>6, <1>7, <1>8, <1>9, <1>10, Zenon DEF CNext

\* Under programs that keep the rules, which may end at any moment with
\* handles open, no two files ever share a sector.
THEOREM ExtentsStayDisjoint == CSpec => []ExtentsDisjoint
<1>1. ExtentInv => ExtentsDisjoint
  BY DEF ExtentInv
<1> QED
  BY <1>1, ExtentInit, ExtentStep, PTL DEF CSpec

\* A file written through a handle has every sector past its first one to
\* itself until SYS_CLOSE publishes its size, whatever is saved in place,
\* renamed or deleted meanwhile.
THEOREM WriterKeepsTheTail == CSpec => []WriterOwnsTheTail
<1>1. ExtentInv => WriterOwnsTheTail
  BY DEF ExtentInv
<1> QED
  BY <1>1, ExtentInit, ExtentStep, PTL DEF CSpec

(***************************************************************************)
(* Readers.  A read handle delivers its file because its cached sector is  *)
(* one of the file's and equal to it, and nobody writes there: a write     *)
(* goes to the writer's own entry or past every extent.  Every file fits   *)
(* the RAM disk, so that no transfer of a part of it is dropped.           *)
(***************************************************************************)
FilesFit ==
  /\ \A i \in Used : dir[i].size > 0 => RangeOk(dir[i].start, SectorsOf(dir[i].size))
  /\ \A fd \in Writers :
       ofiles[fd].size > 0 => RangeOk(ofiles[fd].start, SectorsOf(ofiles[fd].size))

FreshIsHeld == fresh \subseteq held

FollowsEntry(fd) ==
  LET f == ofiles[fd]
  IN  /\ f.mode = "read" /\ f.slot \in Used
      /\ f.start = dir[f.slot].start /\ f.size = dir[f.slot].size
      /\ f.cache.lba # 0 =>
           /\ f.cache.lba \in Extent(f.slot)
           /\ f.cache.sector = ReadSector(disk, f.cache.lba)

FreshFollowsEntry == \A fd \in fresh : FollowsEntry(fd)

ReaderInv ==
  /\ ExtentInv
  /\ DirtyCacheAtPosition
  /\ DataPastDirectory
  /\ FilesFit
  /\ FreshIsHeld
  /\ FreshFollowsEntry

\* Byte p of a file of the given size lies in one of its sectors, and its
\* full sectors are among them.
LEMMA SectorIndex ==
  ASSUME NEW size \in Nat, NEW p \in 0 .. size - 1
  PROVE  /\ p \div SectorSize \in 0 .. SectorsOf(size) - 1
         /\ size \div SectorSize <= SectorsOf(size)
<1>0. SectorSize \in Nat \ {0} /\ p \in Int /\ size \in Int /\ size + SectorSize - 1 \in Int
  BY GeometryAssumption
<1>1. PICK q \in Nat : q = p \div SectorSize
  BY DivNat
<1>2. PICK w \in Nat : w = size \div SectorSize
  BY DivNat
<1>3. PICK t \in Nat : t = (size + SectorSize - 1) \div SectorSize
  BY SectorsOfNat DEF SectorsOf
<1>4. SectorSize * q \in Int /\ SectorSize * q <= p
  BY <1>0, <1>1, DivMod
<1>5. SectorSize * w \in Int /\ SectorSize * w <= size
  BY <1>0, <1>2, DivMod
<1>6. SectorSize * t \in Int /\ size <= SectorSize * t
  <2>1. PICK m \in 0 .. SectorSize - 1 : m = (size + SectorSize - 1) % SectorSize
    BY <1>0, DivMod
  <2>2. size + SectorSize - 1 = SectorSize * t + m
    BY <1>0, <1>3, <2>1, DivMod
  <2>3. SectorSize * t \in Int
    BY <1>0
  <2> QED
    BY <1>0, <2>1, <2>2, <2>3
<1>7. q < t
  <2>1. CASE t < q
    BY <1>0, <1>4, <1>6, <2>1, ProductOrder
  <2>2. CASE t = q
    BY <1>0, <1>4, <1>6, <2>2
  <2> QED
    BY <2>1, <2>2
<1>8. w <= t
  <2>1. CASE t < w
    BY <1>0, <1>5, <1>6, <2>1, ProductOrder
  <2> QED
    BY <2>1
<1> QED
  BY <1>1, <1>2, <1>3, <1>7, <1>8 DEF SectorsOf

LEMMA ExtentBounds ==
  ASSUME TypeOK, NEW i \in Slots, NEW l \in Extent(i)
  PROVE  l \in Nat /\ dir[i].size > 0 /\ dir[i].start <= l /\ l < EndOf(i)
<1>1. dir[i].start \in Nat /\ dir[i].size \in Nat /\ SectorsOf(dir[i].size) \in Nat
      /\ (SectorsOf(dir[i].size) = 0 <=> dir[i].size = 0)
  BY SectorsOfNat DEF TypeOK, Dirent
<1> QED
  BY <1>1 DEF Extent, EndOf

\* No sector of a file in the directory is one the write handle may write.
LEMMA WriterElsewhere ==
  ASSUME ExtentInv, NEW fd \in Writers, NEW i \in Used, NEW l \in Extent(i)
  PROVE  l < ofiles[fd].start
<1>1. i \in Slots /\ fd \in Fds /\ TypeOK
  BY DEF Used, Writers, ExtentInv, HeldAreOpen
<1>2. l \in Nat /\ dir[i].size > 0 /\ l < EndOf(i)
  BY <1>1, ExtentBounds
<1>3. EndOf(i) <= ofiles[fd].start
  BY <1>2 DEF ExtentInv, WriterOwnsTheTail
<1>4. EndOf(i) \in Nat /\ ofiles[fd].start \in Nat
  BY <1>1, EndOfType DEF TypeOK, OpenFile
<1> QED
  BY <1>2, <1>3, <1>4

\* ofile_flush and SYS_FWRITE write at the handle's first sector or after it.
LEMMA FlushElsewhere ==
  ASSUME TypeOK, DirtyCacheAtPosition, NEW fd \in Fds, NEW l \in Lbas,
         l < ofiles[fd].start
  PROVE  Flushed(ofiles[fd])[l] = disk[l]
<1> DEFINE f == ofiles[fd]
<1>1. f.start \in Nat /\ f.pos \in Nat /\ f.cache.lba \in Nat
  BY DEF TypeOK, OpenFile, Cache
<1>2. CASE f.cache.dirty
  <2>1. f.cache.lba = f.start + f.pos \div SectorSize
    BY <1>2 DEF DirtyCacheAtPosition, LbaAt
  <2>2. f.cache.lba >= f.start
    BY <1>1, <2>1, DivNat
  <2>3. l # f.cache.lba /\ l \in Int
    BY <1>1, <2>2, GeometryAssumption DEF Lbas
  <2> QED
    BY <2>3 DEF Flushed, WriteSector, TypeOK
<1>3. CASE ~f.cache.dirty
  BY <1>3 DEF Flushed
<1> QED
  BY <1>2, <1>3

\* The parts of SYS_FWRITE of buf through the handle f.
WriteEnd(f, buf) == f.pos + Len(buf)
WriteLast(f, buf) == LbaAt(f, WriteEnd(f, buf) - 1)
DiskFlushed(f) == IF Cached(f, LbaAt(f, f.pos)) THEN disk ELSE Flushed(f)
NewSector(f, buf, lba) ==
  [o \in 0 .. SectorSize - 1 |->
    LET p == (lba - f.start) * SectorSize + o
    IN  IF p \in f.pos .. WriteEnd(f, buf) - 1 THEN buf[p - f.pos + 1]
        ELSE WriteView(f, DiskFlushed(f), lba)[o]]
IsComplete(f, buf, lba) == (lba - f.start + 1) * SectorSize <= WriteEnd(f, buf)
NewCache(f, buf) ==
  IF IsComplete(f, buf, WriteLast(f, buf)) THEN NoCache
  ELSE [lba |-> WriteLast(f, buf), dirty |-> TRUE,
        sector |-> NewSector(f, buf, WriteLast(f, buf))]

LEMMA FWriteDisk ==
  ASSUME NEW fd \in Fds, NEW buf \in Buffers, FWrite(fd, buf), NEW l \in Lbas
  PROVE  disk'[l] = IF /\ l \in LbaAt(ofiles[fd], ofiles[fd].pos) .. WriteLast(ofiles[fd], buf)
                       /\ IsComplete(ofiles[fd], buf, l)
                    THEN NewSector(ofiles[fd], buf, l) ELSE DiskFlushed(ofiles[fd])[l]
<1> DEFINE f == ofiles[fd]
<1>1. disk' = [k \in Lbas |->
                IF k \in LbaAt(f, f.pos) .. WriteLast(f, buf) /\ IsComplete(f, buf, k)
                THEN NewSector(f, buf, k) ELSE DiskFlushed(f)[k]]
  BY Zenon DEF FWrite, WriteLast, WriteEnd, IsComplete, NewSector, DiskFlushed
<1> QED
  BY <1>1

LEMMA FWriteHandle ==
  ASSUME TypeOK, NEW fd \in Fds, NEW buf \in Buffers, FWrite(fd, buf)
  PROVE  /\ ofiles'[fd].pos = WriteEnd(ofiles[fd], buf)
         /\ ofiles'[fd].size = Max({ofiles[fd].size, WriteEnd(ofiles[fd], buf)})
         /\ ofiles'[fd].cache = NewCache(ofiles[fd], buf)
         /\ \A g \in Fds \ {fd} : ofiles'[g] = ofiles[g]
<1> DEFINE f == ofiles[fd]
<1>1. PICK p : p = WriteEnd(f, buf)
  OBVIOUS
<1>2. PICK z : z = Max({f.size, WriteEnd(f, buf)})
  OBVIOUS
<1>3. PICK c : c = NewCache(f, buf)
  OBVIOUS
<1>4. ofiles' = [ofiles EXCEPT
                   ![fd].pos = WriteEnd(f, buf),
                   ![fd].size = Max({f.size, WriteEnd(f, buf)}),
                   ![fd].cache = NewCache(f, buf)]
  BY Zenon DEF FWrite, WriteLast, WriteEnd, IsComplete, NewSector, DiskFlushed, NewCache
<1>5. ofiles' = [ofiles EXCEPT ![fd].pos = p, ![fd].size = z, ![fd].cache = c]
  BY <1>1, <1>2, <1>3, <1>4, Zenon
<1>6. /\ ofiles'[fd].pos = p /\ ofiles'[fd].size = z /\ ofiles'[fd].cache = c
      /\ \A g \in Fds \ {fd} : ofiles'[g] = ofiles[g]
  BY <1>5 DEF TypeOK, OpenFile
<1> QED
  BY <1>1, <1>2, <1>3, <1>6, Zenon

LEMMA FWriteElsewhere ==
  ASSUME TypeOK, DirtyCacheAtPosition, NEW fd \in Fds, NEW buf \in Buffers,
         FWrite(fd, buf), NEW l \in Lbas, l < ofiles[fd].start
  PROVE  disk'[l] = disk[l]
<1> DEFINE f == ofiles[fd]
<1>1. f.start \in Nat /\ f.pos \in Nat /\ l \in Int
  BY GeometryAssumption DEF TypeOK, OpenFile, Lbas
<1>2. LbaAt(f, f.pos) >= f.start /\ LbaAt(f, f.pos) \in Nat
  BY <1>1, DivNat DEF LbaAt
<1>3. l \notin LbaAt(f, f.pos) .. WriteLast(f, buf)
  BY <1>1, <1>2
<1>4. disk'[l] = DiskFlushed(f)[l]
  BY <1>3, FWriteDisk
<1>5. Flushed(f)[l] = disk[l]
  BY FlushElsewhere
<1> QED
  BY <1>4, <1>5 DEF DiskFlushed

(***************************************************************************)
(* Files fit the RAM disk.                                                 *)
(***************************************************************************)
\* One entry is rewritten, and every write handle is as it was.
LEMMA EntryFits ==
  ASSUME TypeOK, FilesFit, NEW s \in Slots, NEW e,
         dir' = [dir EXCEPT ![s] = e],
         e.size > 0 => RangeOk(e.start, SectorsOf(e.size)),
         \A fd \in Writers' : /\ ofiles'[fd].size > 0 =>
                                   RangeOk(ofiles'[fd].start, SectorsOf(ofiles'[fd].size))
  PROVE  FilesFit'
<1>1. dir'[s] = e /\ \A i \in Slots \ {s} : dir'[i] = dir[i]
  BY DEF TypeOK
<1>2. ASSUME NEW i \in Used', dir'[i].size > 0
      PROVE  RangeOk(dir'[i].start, SectorsOf(dir'[i].size))
  <2>1. CASE i = s
    BY <1>1, <1>2, <2>1
  <2>2. CASE i # s
    <3>1. i \in Used /\ dir'[i] = dir[i]
      BY <1>1, <2>2 DEF Used
    <3> QED
      BY <1>2, <3>1 DEF FilesFit
  <2> QED
    BY <2>1, <2>2
<1> QED
  BY <1>2 DEF FilesFit, RangeOk, SectorsOf

\* The directory keeps its extents, and every write handle fits.
LEMMA HandlesFit ==
  ASSUME FilesFit, Used' \subseteq Used,
         \A i \in Slots : dir'[i].start = dir[i].start /\ dir'[i].size = dir[i].size,
         \A fd \in Writers' : /\ ofiles'[fd].size > 0 =>
                                   RangeOk(ofiles'[fd].start, SectorsOf(ofiles'[fd].size))
  PROVE  FilesFit'
BY DEF FilesFit, RangeOk, SectorsOf, Used

LEMMA FilesFitStep ==
  ASSUME ExtentInv, FilesFit, [CNext]_cvars
  PROVE  FilesFit'
<1>0. TypeOK /\ TypeOK' /\ HeldAreOpen
  BY ClientStepIsStep, TypeStep DEF ExtentInv
<1>1. ASSUME NEW u \in UserNames, NEW buf \in Buffers, CSave(u, buf) PROVE FilesFit'
  <2> DEFINE n == Normalize(u)
             e == [name |-> n, start |-> SaveStart(n, Len(buf)), size |-> Len(buf)]
  <2>1. SaveSlot(n) \in Slots /\ dir' = [dir EXCEPT ![SaveSlot(n)] = e]
        /\ UNCHANGED <<ofiles, held>> /\ RangeOk(e.start, SectorsOf(e.size))
    BY <1>1, SaveSlotType DEF CSave, Save
  <2>2. Writers' = Writers
    BY <2>1 DEF Writers
  <2> HIDE DEF e
  <2> QED
    BY <1>0, <2>1, <2>2, EntryFits DEF FilesFit
<1>2. ASSUME NEW u \in UserNames, NEW v \in UserNames, CRename(u, v) PROVE FilesFit'
  <2>1. fs_find(Normalize(u)) \in Used
    BY <1>2, FindType DEF CRename, Rename
  <2>2. \A i \in Slots : /\ dir'[i].start = dir[i].start /\ dir'[i].size = dir[i].size
                         /\ i # fs_find(Normalize(u)) => dir'[i].name = dir[i].name
    BY <1>0, <1>2, <2>1 DEF CRename, Rename, TypeOK, Dirent, Used
  <2>3. UNCHANGED <<ofiles, held>> /\ Writers' = Writers /\ Used' \subseteq Used
    BY <1>2, <2>1, <2>2 DEF CRename, Rename, Writers, Used
  <2> QED
    BY <2>2, <2>3, HandlesFit DEF FilesFit
<1>3. ASSUME NEW u \in UserNames, CDelete(u) PROVE FilesFit'
  <2>1. fs_find(Normalize(u)) \in Slots
        /\ dir' = [dir EXCEPT ![fs_find(Normalize(u))] = ZeroDirent]
        /\ UNCHANGED <<ofiles, held>>
    BY <1>3, FindType DEF CDelete, Delete, Used
  <2>2. Writers' = Writers
    BY <2>1 DEF Writers
  <2>3. ~ (ZeroDirent.size > 0)
    BY DEF ZeroDirent
  <2> QED
    BY <1>0, <2>1, <2>2, <2>3, EntryFits DEF FilesFit
<1>4. ASSUME NEW u \in UserNames, COpenRead(u) PROVE FilesFit'
  <2>1. alloc_fd \in Fds /\ ofiles'[alloc_fd].mode = "read"
        /\ \A g \in Fds \ {alloc_fd} : ofiles'[g] = ofiles[g]
    BY <1>0, <1>4, AllocType DEF COpenRead, OpenRead, TypeOK
  <2>2. UNCHANGED dir /\ held' = held \cup {alloc_fd}
    BY <1>4 DEF COpenRead, OpenRead
  <2>3. ASSUME NEW fd \in Writers' PROVE fd \in Writers /\ ofiles'[fd] = ofiles[fd]
    BY <1>0, <2>1, <2>2 DEF Writers, HeldAreOpen
  <2>4. Used' = Used
    BY <2>2 DEF Used
  <2> QED
    BY <2>2, <2>3, <2>4, HandlesFit DEF FilesFit
<1>5. ASSUME NEW u \in UserNames, COpenWrite(u) PROVE FilesFit'
  <2> DEFINE n == Normalize(u)
             e == [name |-> OpenedName(n), start |-> OpenStart(n), size |-> 0]
  <2>1. SaveSlot(n) \in Slots /\ alloc_fd \in Fds
        /\ dir' = [dir EXCEPT ![SaveSlot(n)] = e] /\ e.size = 0
    BY <1>5, SaveSlotType, AllocType DEF COpenWrite, OpenWrite
  <2>2. ofiles'[alloc_fd].size = 0 /\ \A g \in Fds \ {alloc_fd} : ofiles'[g] = ofiles[g]
    BY <1>0, <1>5, <2>1 DEF COpenWrite, OpenWrite, TypeOK
  <2>3. held' = held \cup {alloc_fd} /\ Writers = {}
    BY <1>5 DEF COpenWrite, Quiet
  <2>4. \A fd \in Writers' : fd = alloc_fd
    BY <1>0, <2>2, <2>3 DEF Writers, HeldAreOpen
  <2>5. ~ (0 > 0)
    OBVIOUS
  <2> HIDE DEF e
  <2> QED
    BY <1>0, <2>1, <2>2, <2>4, <2>5, EntryFits
<1>6. ASSUME NEW fd \in Fds, NEW buf \in Buffers, CFWrite(fd, buf) PROVE FilesFit'
  <2> DEFINE f == ofiles[fd]
  <2>1. UNCHANGED <<dir, held>> /\ FWrite(fd, buf) /\ Used' = Used
    BY <1>6 DEF CFWrite, FWrite, Used
  <2>2. \A g \in Fds : SameFile(g)
    BY <1>0, <2>1, TransferKeepsFile
  <2>3. Writers' = Writers
    BY <1>0, <2>1, <2>2 DEF Writers, SameFile, HeldAreOpen
  <2>4. f \in OpenFile /\ f.pos \in Nat /\ f.size \in Nat
        /\ WriteEnd(f, buf) \in Nat
    BY <1>0, InputAssumption DEF TypeOK, OpenFile, WriteEnd
  <2>5. ofiles'[fd].size = Max({f.size, WriteEnd(f, buf)})
        /\ \A g \in Fds \ {fd} : ofiles'[g] = ofiles[g]
    BY <1>0, <2>1, FWriteHandle
  <2>6. ofiles'[fd].size = f.size \/ ofiles'[fd].size = WriteEnd(f, buf)
    <3>1. ASSUME NEW a \in Nat, NEW b \in Nat PROVE Max({a, b}) \in {a, b}
      BY MaxOfTwo
    <3> QED
      BY <2>4, <2>5, <3>1
  <2>7. RangeOk(f.start, SectorsOf(WriteEnd(f, buf)))
    BY <1>6 DEF CFWrite, WriteEnd
  <2>8. ASSUME NEW g \in Writers', ofiles'[g].size > 0
        PROVE  RangeOk(ofiles'[g].start, SectorsOf(ofiles'[g].size))
    <3>1. g \in Fds /\ g \in Writers /\ ofiles'[g].start = ofiles[g].start
      BY <1>0, <2>2, <2>3 DEF HeldAreOpen, Writers, SameFile
    <3> QED
      BY <2>5, <2>6, <2>7, <2>8, <3>1 DEF FilesFit
  <2> QED
    BY <2>1, <2>8, HandlesFit
<1>7. ASSUME NEW fd \in Fds, CClose(fd) PROVE FilesFit'
  <2> DEFINE f == ofiles[fd]
  <2>1. fd \in held /\ held' = held \ {fd} /\ f.slot \in Slots
        /\ \A g \in Fds \ {fd} : ofiles'[g] = ofiles[g]
    BY <1>0, <1>7 DEF CClose, Close, TypeOK, OpenFile
  <2>2. ASSUME NEW g \in Writers' PROVE g \in Writers /\ ofiles'[g] = ofiles[g]
    BY <1>0, <2>1 DEF Writers, HeldAreOpen
  <2>3. CASE f.mode = "write"
    <3> DEFINE e == [dir[f.slot] EXCEPT !.start = f.start, !.size = f.size]
    <3>1. dir' = [dir EXCEPT ![f.slot] = e]
      BY <1>0, <1>7, <2>1, <2>3 DEF CClose, Close, TypeOK
    <3>2. dir[f.slot] \in Dirent
      BY <1>0, <2>1 DEF TypeOK
    <3>3. e.start = f.start /\ e.size = f.size
      BY <3>2 DEF Dirent
    <3>4. fd \in Writers
      BY <2>1, <2>3 DEF Writers
    <3> HIDE DEF e
    <3> QED
      BY <1>0, <2>1, <2>2, <3>1, <3>3, <3>4, EntryFits DEF FilesFit
  <2>4. CASE f.mode # "write"
    <3>1. UNCHANGED dir /\ Used' = Used
      BY <1>7, <2>4 DEF CClose, Close, Used
    <3> QED
      BY <2>2, <3>1, HandlesFit DEF FilesFit
  <2> QED
    BY <2>3, <2>4
<1>8. ASSUME UNCHANGED <<dir, held>>, \A g \in held : ofiles'[g].mode = "write" =>
               ofiles'[g] = ofiles[g]
      PROVE  FilesFit'
  <2>1. ASSUME NEW g \in Writers' PROVE g \in Writers /\ ofiles'[g] = ofiles[g]
    BY <1>8 DEF Writers
  <2>2. Used' = Used
    BY <1>8 DEF Used
  <2> QED
    BY <1>8, <2>1, <2>2, HandlesFit DEF FilesFit
<1>9. ASSUME NEW fd \in Fds, NEW len \in Lengths, CFRead(fd, len) PROVE FilesFit'
  <2>1. \A g \in Fds : SameFile(g)
    BY <1>0, <1>9, TransferKeepsFile DEF CFRead
  <2>2. UNCHANGED <<dir, held>> /\ ofiles[fd].mode = "read"
        /\ \A g \in Fds \ {fd} : ofiles'[g] = ofiles[g]
    BY <1>0, <1>9 DEF CFRead, FRead, TypeOK
  <2> QED
    BY <1>0, <1>8, <2>1, <2>2 DEF SameFile, HeldAreOpen
<1>10. ASSUME NEW fd \in Fds, NEW pos \in Offsets, CSeek(fd, pos) PROVE FilesFit'
  <2>1. \A g \in Fds : SameFile(g)
    BY <1>0, <1>10, TransferKeepsFile DEF CSeek
  <2>2. UNCHANGED <<dir, held>> /\ ofiles[fd].mode # "write"
        /\ \A g \in Fds \ {fd} : ofiles'[g] = ofiles[g]
    BY <1>0, <1>10 DEF CSeek, Seek, TypeOK, Writers
  <2> QED
    BY <1>0, <1>8, <2>1, <2>2 DEF SameFile, HeldAreOpen
<1>11. CASE ProgramEnds
  <2>1. UNCHANGED dir /\ Writers' = {} /\ Used' = Used
    BY <1>11 DEF ProgramEnds, vars, Writers, Used
  <2> QED
    BY <2>1, HandlesFit
<1>12. CASE UNCHANGED cvars
  BY <1>8, <1>12 DEF cvars, vars
<1> QED
  BY <1>1, <1>2, <1>3, <1>4, <1>5, <1>6, <1>7, <1>9, <1>10, <1>11, <1>12 DEF CNext

(***************************************************************************)
(* Fresh handles follow their entries.                                     *)
(***************************************************************************)
\* A fresh handle, the extent and the sectors of its entry are as they were.
LEMMA FollowsKept ==
  ASSUME NEW fd, FollowsEntry(fd), NEW i, i = ofiles[fd].slot,
         ofiles'[fd] = ofiles[fd], i \in Used',
         dir'[i].start = dir[i].start, dir'[i].size = dir[i].size,
         \A l \in Extent(i) \cap Lbas : disk'[l] = disk[l]
  PROVE  FollowsEntry(fd)'
<1> DEFINE f == ofiles[fd]
<1>1. Extent(i)' = Extent(i)
  BY DEF Extent, EndOf
<1>2. ASSUME f.cache.lba \in Extent(i)
      PROVE  ReadSector(disk', f.cache.lba) = ReadSector(disk, f.cache.lba)
  <2>1. f.cache.lba \in Int
    BY <1>2 DEF Extent
  <2>2. RangeOk(f.cache.lba, 1) => f.cache.lba \in Lbas
    BY <2>1, GeometryAssumption DEF RangeOk, Lbas
  <2> QED
    BY <1>2, <2>2 DEF ReadSector
<1> QED
  BY <1>1, <1>2 DEF FollowsEntry, ReadSector

\* The same for all of them.
LEMMA FreshKept ==
  ASSUME FreshFollowsEntry, fresh' \subseteq fresh,
         \A fd \in fresh' :
           /\ ofiles'[fd] = ofiles[fd] /\ ofiles[fd].slot \in Used'
           /\ dir'[ofiles[fd].slot].start = dir[ofiles[fd].slot].start
           /\ dir'[ofiles[fd].slot].size = dir[ofiles[fd].slot].size
           /\ \A l \in Extent(ofiles[fd].slot) \cap Lbas : disk'[l] = disk[l]
  PROVE  FreshFollowsEntry'
<1> SUFFICES ASSUME NEW fd \in fresh' PROVE FollowsEntry(fd)'
  BY DEF FreshFollowsEntry
<1>1. FollowsEntry(fd)
  BY DEF FreshFollowsEntry
<1> QED
  BY <1>1, FollowsKept

\* SYS_SAVE writes the sectors of its own entry, as it leaves it.
LEMMA SaveElsewhere ==
  ASSUME TypeOK, TypeOK', ExtentsDisjoint', NEW u \in UserNames, NEW buf \in Buffers,
         Save(u, buf), NEW i \in Used \ {SaveSlot(Normalize(u))}
  PROVE  /\ i \in Used' /\ dir'[i] = dir[i]
         /\ \A l \in Extent(i) \cap Lbas : disk'[l] = disk[l]
<1> DEFINE n == Normalize(u)
           count == SectorsOf(Len(buf))
<1>0. PICK s, start : s = SaveSlot(n) /\ start = SaveStart(n, Len(buf))
  OBVIOUS
<1>1. s \in Slots /\ i \in Slots /\ i # s
  BY <1>0, SaveSlotType DEF Save, Used
<1>2. /\ dir'[s].name = n /\ dir'[s].start = start /\ dir'[s].size = Len(buf)
      /\ dir'[i] = dir[i]
  BY <1>0, <1>1 DEF Save, TypeOK
<1>3. i \in Used' /\ s \in Used'
  <2>1. n.stem # ""
    BY NormalizeType
  <2> QED
    BY <1>1, <1>2, <2>1 DEF Used
<1>4. Extent(i)' = Extent(i) /\ Extent(s)' = start .. start + count - 1
  <2>1. start \in Nat /\ count \in Nat
    BY <1>0, SaveStartType, SectorsOfNat, InputAssumption DEF TypeOK
  <2> HIDE DEF count
  <2>2. dir'[s].start = start /\ SectorsOf(dir'[s].size) = count
    BY <1>2 DEF count
  <2> QED
    BY <1>2, <2>1, <2>2 DEF Extent, EndOf
<1>5. ASSUME NEW l \in Extent(i) \cap Lbas PROVE disk'[l] = disk[l]
  <2>1. l \notin start .. start + count - 1
    BY <1>1, <1>3, <1>4, <1>5 DEF ExtentsDisjoint
  <2>2. disk' = WriteBuffer(start, count, buf)
    BY <1>0 DEF Save
  <2> HIDE DEF count
  <2> QED
    BY <1>5, <2>1, <2>2 DEF WriteBuffer
<1> QED
  BY <1>2, <1>3, <1>5

LEMMA SaveKeepsReaders ==
  ASSUME ReaderInv, ExtentInv', NEW u \in UserNames, NEW buf \in Buffers, CSave(u, buf)
  PROVE  FreshIsHeld' /\ FreshFollowsEntry'
<1> DEFINE s == SaveSlot(Normalize(u))
<1>1. /\ fresh' = {fd \in fresh : ofiles[fd].slot # s}
      /\ UNCHANGED <<held, ofiles>> /\ Save(u, buf)
  BY DEF CSave, Save, Touch
<1>2. FreshIsHeld'
  BY <1>1 DEF ReaderInv, FreshIsHeld
<1>3. ASSUME NEW fd \in fresh'
      PROVE  /\ ofiles'[fd] = ofiles[fd] /\ ofiles[fd].slot \in Used'
             /\ dir'[ofiles[fd].slot] = dir[ofiles[fd].slot]
             /\ \A l \in Extent(ofiles[fd].slot) \cap Lbas : disk'[l] = disk[l]
  <2>1. ofiles[fd].slot \in Used \ {s}
    BY <1>1 DEF ReaderInv, FreshFollowsEntry, FollowsEntry
  <2> QED
    BY <1>1, <2>1, SaveElsewhere DEF ReaderInv, ExtentInv
<1>4. FreshFollowsEntry'
  BY <1>1, <1>3, FreshKept DEF ReaderInv
<1> QED
  BY <1>2, <1>4

LEMMA EntryKeepsReaders ==
  ASSUME ReaderInv, NEW u \in UserNames,
         CDelete(u) \/ \E v \in UserNames : CRename(u, v)
  PROVE  FreshIsHeld' /\ FreshFollowsEntry'
<1> DEFINE s == fs_find(Normalize(u))
<1>1. s \in Used /\ s \in Slots /\ TypeOK
  BY FindType DEF CDelete, Delete, CRename, Rename, Used, ReaderInv, ExtentInv
<1>2. UNCHANGED <<held, ofiles, disk>>
  BY DEF CDelete, Delete, CRename, Rename
<1>3. \A fd \in fresh : ofiles[fd].slot \in Used
  BY DEF ReaderInv, FreshFollowsEntry, FollowsEntry
<1>4. CASE CDelete(u)
  <2>1. fresh' = {fd \in fresh : ofiles[fd].slot # s}
        /\ dir' = [dir EXCEPT ![s] = ZeroDirent]
    BY <1>4 DEF CDelete, Delete, Touch
  <2>2. \A i \in Used \ {s} : i \in Used' /\ dir'[i] = dir[i]
    BY <1>1, <2>1 DEF Used, TypeOK
  <2> QED
    BY <1>2, <1>3, <2>1, <2>2, FreshKept DEF ReaderInv, FreshIsHeld
<1>5. ASSUME NEW v \in UserNames, CRename(u, v)
      PROVE  FreshIsHeld' /\ FreshFollowsEntry'
  <2>1. fresh' = fresh
    BY <1>5 DEF CRename
  <2>2. \A i \in Slots : /\ dir'[i].start = dir[i].start /\ dir'[i].size = dir[i].size
                         /\ dir'[i].name = IF i = s THEN Normalize(v) ELSE dir[i].name
    BY <1>1, <1>5 DEF CRename, Rename, TypeOK, Dirent
  <2>3. \A i \in Used : i \in Used'
    BY <2>2, NormalizeType DEF Used
  <2> QED
    BY <1>2, <1>3, <2>1, <2>2, <2>3, FreshKept DEF ReaderInv, FreshIsHeld, Used
<1> QED
  BY <1>4, <1>5

LEMMA OpenKeepsReaders ==
  ASSUME ReaderInv, NEW u \in UserNames, COpenRead(u) \/ COpenWrite(u)
  PROVE  FreshIsHeld' /\ FreshFollowsEntry'
<1> DEFINE n == Normalize(u)
<1>0. PICK a : a = alloc_fd
  OBVIOUS
<1>1. TypeOK /\ a \in Fds /\ a \notin held /\ fresh \subseteq held /\ held \subseteq Fds
  BY <1>0, AllocType DEF COpenRead, OpenRead, COpenWrite, OpenWrite, ReaderInv, ExtentInv,
     HeldAreOpen, FreshIsHeld
<1>2. held' = held \cup {a} /\ UNCHANGED disk
      /\ \A fd \in fresh : ofiles'[fd] = ofiles[fd]
  BY <1>0, <1>1 DEF COpenRead, OpenRead, COpenWrite, OpenWrite, TypeOK
<1>3. \A fd \in fresh : ofiles[fd].slot \in Used
  BY DEF ReaderInv, FreshFollowsEntry, FollowsEntry
<1>4. CASE COpenRead(u)
  <2>1. fresh' = fresh \cup {a} /\ UNCHANGED dir /\ Used' = Used
    BY <1>0, <1>4 DEF COpenRead, OpenRead, Used
  <2>2. FollowsEntry(a)'
    <3>1. /\ ofiles'[a].mode = "read" /\ ofiles'[a].slot = fs_find(n)
          /\ ofiles'[a].start = dir[fs_find(n)].start
          /\ ofiles'[a].size = dir[fs_find(n)].size
          /\ ofiles'[a].cache.lba = 0
      BY <1>0, <1>1, <1>4 DEF COpenRead, OpenRead, TypeOK, NoCache
    <3>2. fs_find(n) \in Used
      BY <1>4, FindType DEF COpenRead, OpenRead
    <3> QED
      BY <2>1, <3>1, <3>2 DEF FollowsEntry
  <2>3. ASSUME NEW fd \in fresh PROVE FollowsEntry(fd)'
    BY <1>2, <1>3, <2>1, FollowsKept DEF ReaderInv, FreshFollowsEntry
  <2> QED
    BY <1>1, <1>2, <2>1, <2>2, <2>3 DEF FreshIsHeld, FreshFollowsEntry
<1>5. CASE COpenWrite(u)
  <2> DEFINE s == SaveSlot(n)
  <2>1. fresh' = {fd \in fresh : ofiles[fd].slot # s} /\ s \in Slots
        /\ \A i \in Slots \ {s} : dir'[i] = dir[i]
    BY <1>1, <1>5, SaveSlotType DEF COpenWrite, OpenWrite, Touch, TypeOK
  <2>2. \A i \in Used \ {s} : i \in Used' /\ dir'[i] = dir[i]
    BY <2>1 DEF Used
  <2>3. FreshFollowsEntry'
    BY <1>2, <1>3, <2>1, <2>2, FreshKept DEF ReaderInv
  <2> QED
    BY <1>1, <1>2, <2>1, <2>3 DEF FreshIsHeld
<1> QED
  BY <1>4, <1>5

\* What the write handle writes is no sector of a file that is being read.
LEMMA WriterKeepsReaders ==
  ASSUME ReaderInv, NEW fd \in Fds,
         (\E buf \in Buffers : CFWrite(fd, buf)) \/ (CClose(fd) /\ ofiles[fd].mode = "write")
  PROVE  FreshIsHeld' /\ FreshFollowsEntry'
<1> DEFINE f == ofiles[fd]
<1>1. TypeOK /\ DirtyCacheAtPosition /\ fresh \subseteq held /\ held \subseteq Fds
  BY DEF ReaderInv, ExtentInv, HeldAreOpen, FreshIsHeld
<1>2. f.mode = "write" /\ fd \in Writers /\ f.slot \in Slots
  BY <1>1 DEF CFWrite, FWrite, CClose, Writers, TypeOK, OpenFile
<1>3. \A g \in fresh : g # fd /\ ofiles[g].slot \in Used /\ ofiles'[g] = ofiles[g]
  <2>1. \A g \in fresh : g # fd /\ g \in Fds /\ ofiles[g].slot \in Used
    BY <1>1, <1>2 DEF ReaderInv, FreshFollowsEntry, FollowsEntry
  <2>2. \A g \in Fds \ {fd} : ofiles'[g] = ofiles[g]
    BY <1>1, FWriteHandle DEF CFWrite, CClose, Close, TypeOK
  <2> QED
    BY <2>1, <2>2
<1>4. \A l \in Lbas : l < f.start => disk'[l] = disk[l]
  <2>1. CASE CClose(fd)
    BY <1>1, <1>2, <2>1, FlushElsewhere DEF CClose, Close
  <2> QED
    BY <1>1, <2>1, FWriteElsewhere DEF CFWrite
<1>5. ASSUME NEW g \in fresh, NEW l \in Extent(ofiles[g].slot) \cap Lbas
      PROVE  disk'[l] = disk[l]
  BY <1>2, <1>3, <1>4, WriterElsewhere DEF ReaderInv
<1>6. CASE CClose(fd)
  <2>1. fresh' = {g \in fresh : ofiles[g].slot # f.slot} /\ held' = held \ {fd}
        /\ \A i \in Slots \ {f.slot} : dir'[i] = dir[i]
    BY <1>1, <1>2, <1>6 DEF CClose, Close, Touch, TypeOK
  <2>2. \A i \in Used \ {f.slot} : i \in Used' /\ dir'[i] = dir[i]
    BY <2>1 DEF Used
  <2>3. FreshFollowsEntry'
    BY <1>3, <1>5, <2>1, <2>2, FreshKept DEF ReaderInv
  <2> QED
    BY <1>1, <1>3, <2>1, <2>3 DEF FreshIsHeld
<1>7. ASSUME NEW buf \in Buffers, CFWrite(fd, buf)
      PROVE  FreshIsHeld' /\ FreshFollowsEntry'
  <2>1. UNCHANGED <<dir, held, fresh>> /\ Used' = Used
    BY <1>7 DEF CFWrite, FWrite, Used
  <2>2. FreshFollowsEntry'
    BY <1>3, <1>5, <2>1, FreshKept DEF ReaderInv
  <2> QED
    BY <1>1, <2>1, <2>2 DEF FreshIsHeld
<1> QED
  BY <1>6, <1>7

\* A handle as it stands reads byte p from the file's sectors on the disk.
LEMMA FreshView ==
  ASSUME TypeOK, DataPastDirectory, NEW fd \in Fds, FollowsEntry(fd),
         NEW p \in 0 .. ofiles[fd].size - 1
  PROVE  /\ LbaAt(ofiles[fd], p) \in Extent(ofiles[fd].slot)
         /\ LbaAt(ofiles[fd], p) >= DataLba
         /\ ReadView(ofiles[fd], LbaAt(ofiles[fd], p)) = ReadSector(disk, LbaAt(ofiles[fd], p))
<1> DEFINE f == ofiles[fd]
<1>1. PICK q \in Nat : q = p \div SectorSize
  BY DivNat DEF TypeOK, OpenFile
<1>2. PICK n \in Nat : n = SectorsOf(f.size)
  BY SectorsOfNat DEF TypeOK, OpenFile
<1>3. q \in 0 .. n - 1
  <2>1. f.size \in Nat
    BY DEF TypeOK, OpenFile
  <2> QED
    BY <1>1, <1>2, <2>1, SectorIndex
<1>4. f.start \in Nat /\ f.start >= DataLba /\ LbaAt(f, p) = f.start + q
  BY <1>1 DEF FollowsEntry, DataPastDirectory, LbaAt, TypeOK, OpenFile
<1>5. Extent(f.slot) = f.start .. (f.start + n) - 1
  BY <1>2 DEF FollowsEntry, Extent, EndOf
<1>6. LbaAt(f, p) \in Extent(f.slot) /\ LbaAt(f, p) >= DataLba /\ LbaAt(f, p) # 0
  BY <1>3, <1>4, <1>5, GeometryAssumption
<1>7. Cached(f, LbaAt(f, p)) => f.cache.sector = ReadSector(disk, LbaAt(f, p))
  BY <1>6 DEF Cached, FollowsEntry
<1> QED
  BY <1>6, <1>7 DEF ReadView

LEMMA FReadKeepsReaders ==
  ASSUME ReaderInv, NEW fd \in Fds, NEW len \in Lengths, CFRead(fd, len)
  PROVE  FreshIsHeld' /\ FreshFollowsEntry'
<1> DEFINE f == ofiles[fd]
           end == f.pos + FReadLen(f, len)
           last == LbaAt(f, end - 1)
<1>1. TypeOK /\ UNCHANGED <<dir, disk, held, fresh>> /\ FRead(fd, len)
      /\ fresh \subseteq Fds
  BY DEF ReaderInv, ExtentInv, FreshIsHeld, HeldAreOpen, CFRead, FRead
<1>2. /\ ofiles'[fd].cache.lba = last /\ ofiles'[fd].cache.sector = ReadView(f, last)
      /\ ofiles'[fd].size = f.size
      /\ \A g \in Fds \ {fd} : ofiles'[g] = ofiles[g]
  BY <1>1 DEF FRead, TypeOK, OpenFile
<1>3. SameFile(fd)
  BY <1>1, TransferKeepsFile
<1>4. Used' = Used /\ \A i : Extent(i)' = Extent(i)
  BY <1>1 DEF Used, Extent, EndOf
<1>5. ASSUME NEW g \in fresh, g # fd PROVE FollowsEntry(g)'
  BY <1>1, <1>2, <1>4, <1>5, FollowsKept DEF ReaderInv, FreshFollowsEntry, FollowsEntry
<1>6. ASSUME fd \in fresh PROVE FollowsEntry(fd)'
  <2>1. FollowsEntry(fd) /\ DataPastDirectory
    BY <1>6 DEF ReaderInv, FreshFollowsEntry
  <2>2. f.pos \in Nat /\ f.size \in Nat /\ f.pos < f.size
    BY <1>1 DEF TypeOK, OpenFile, FRead
  <2>3. end - 1 \in 0 .. f.size - 1
    <3>1. PICK a \in Nat, z \in Nat : a = f.pos /\ z = f.size
      BY <2>2
    <3>2. len \in Nat \ {0} /\ z - a \in Nat \ {0}
      BY <2>2, <3>1, InputAssumption
    <3>3. PICK m \in Nat \ {0} : m = Min({len, z - a}) /\ m <= z - a
      BY <3>2, MinOfTwo
    <3>4. end = a + m
      BY <3>1, <3>3 DEF FReadLen
    <3> HIDE DEF end
    <3> QED
      BY <3>1, <3>3, <3>4
  <2>4. last \in Extent(f.slot) /\ ReadView(f, last) = ReadSector(disk, last)
    <3>1. PICK p \in 0 .. f.size - 1 : p = end - 1
      BY <2>3
    <3> QED
      BY <1>1, <2>1, <3>1, FreshView
  <2> HIDE DEF last
  <2> QED
    BY <1>1, <1>2, <1>3, <1>4, <2>1, <2>4 DEF FollowsEntry, SameFile
<1> QED
  BY <1>1, <1>5, <1>6 DEF ReaderInv, FreshIsHeld, FreshFollowsEntry

LEMMA SeekKeepsReaders ==
  ASSUME ReaderInv, NEW fd \in Fds,
         \/ \E pos \in Offsets : CSeek(fd, pos)
         \/ CClose(fd) /\ ofiles[fd].mode # "write"
  PROVE  FreshIsHeld' /\ FreshFollowsEntry'
<1>1. TypeOK /\ fresh \subseteq held /\ held \subseteq Fds
  BY DEF ReaderInv, ExtentInv, FreshIsHeld, HeldAreOpen
<1>2. UNCHANGED <<dir, disk>> /\ \A g \in Fds \ {fd} : ofiles'[g] = ofiles[g]
  BY <1>1 DEF CSeek, Seek, CClose, Close, TypeOK, Writers
<1>3. Used' = Used /\ \A i : Extent(i)' = Extent(i)
  BY <1>2 DEF Used, Extent, EndOf
<1>4. ASSUME NEW g \in fresh, g # fd PROVE FollowsEntry(g)'
  BY <1>1, <1>2, <1>3, <1>4, FollowsKept DEF ReaderInv, FreshFollowsEntry, FollowsEntry
<1>5. CASE CClose(fd) /\ ofiles[fd].mode # "write"
  <2>1. fresh' = fresh \ {fd} /\ held' = held \ {fd}
    BY <1>5 DEF CClose
  <2> QED
    BY <1>1, <1>4, <2>1 DEF FreshIsHeld, FreshFollowsEntry
<1>6. ASSUME NEW pos \in Offsets, CSeek(fd, pos)
      PROVE  FreshIsHeld' /\ FreshFollowsEntry'
  <2>1. UNCHANGED <<held, fresh>> /\ SameFile(fd)
    BY <1>1, <1>6, TransferKeepsFile DEF CSeek
  <2>2. ofiles'[fd].cache = NoCache /\ ofiles'[fd].size = ofiles[fd].size
    BY <1>1, <1>6 DEF CSeek, Seek, TypeOK, OpenFile
  <2>3. ASSUME fd \in fresh PROVE FollowsEntry(fd)'
    <3>1. FollowsEntry(fd) /\ ofiles'[fd].cache.lba = 0
      BY <2>2, <2>3 DEF ReaderInv, FreshFollowsEntry, NoCache
    <3> QED
      BY <1>2, <1>3, <2>1, <2>2, <3>1 DEF FollowsEntry, SameFile
  <2> QED
    BY <1>1, <1>4, <2>1, <2>3 DEF FreshIsHeld, FreshFollowsEntry
<1> QED
  BY <1>5, <1>6

LEMMA ReaderInit == CInit => ReaderInv
<1> SUFFICES ASSUME CInit PROVE ReaderInv
  OBVIOUS
<1>1. Init /\ fresh = {} /\ held = {} /\ Used = {}
  BY InitEmpty DEF CInit
<1>2. DirtyCacheAtPosition /\ DataPastDirectory
  BY <1>1, DirtyCacheInit, DataPastDirectoryInit
<1> QED
  BY <1>1, <1>2, ExtentInit
     DEF ReaderInv, FilesFit, Writers, FreshIsHeld, FreshFollowsEntry

LEMMA ReaderStep == ReaderInv /\ [CNext]_cvars => ReaderInv'
<1> SUFFICES ASSUME ReaderInv, [CNext]_cvars PROVE ReaderInv'
  OBVIOUS
<1>1. ExtentInv' /\ FilesFit'
  BY ExtentStep, FilesFitStep DEF ReaderInv
<1>2. DirtyCacheAtPosition' /\ DataPastDirectory'
  BY ClientStepIsStep, DirtyCacheStep, DataPastDirectoryStep DEF ReaderInv, ExtentInv
<1>3. FreshIsHeld' /\ FreshFollowsEntry'
  <2>1. CASE ProgramEnds
    BY <2>1 DEF ProgramEnds, FreshIsHeld, FreshFollowsEntry
  <2>2. CASE UNCHANGED cvars
    BY <2>2 DEF cvars, vars, ReaderInv, FreshIsHeld, FreshFollowsEntry, FollowsEntry,
       Used, Extent, EndOf, ReadSector
  <2> QED
    BY <1>1, <2>1, <2>2, SaveKeepsReaders, EntryKeepsReaders, OpenKeepsReaders,
       WriterKeepsReaders, FReadKeepsReaders, SeekKeepsReaders DEF CNext
<1> QED
  BY <1>1, <1>2, <1>3 DEF ReaderInv

\* What the invariant says of the bytes.
LEMMA FollowersSeeTheFile == ReaderInv => ReadersSeeTheFile
<1> SUFFICES ASSUME ReaderInv, NEW fd \in fresh, NEW f, f = ofiles[fd]
             PROVE  /\ f.size = dir[f.slot].size
                    /\ \A p \in f.pos .. f.size - 1 :
                         ReadView(f, LbaAt(f, p))[p % SectorSize] = fs_read(f.slot)[p + 1]
  BY DEF ReadersSeeTheFile
<1>1. TypeOK /\ DataPastDirectory /\ fd \in Fds /\ FollowsEntry(fd)
  BY DEF ReaderInv, ExtentInv, HeldAreOpen, FreshIsHeld, FreshFollowsEntry
<1>2. /\ f.size = dir[f.slot].size /\ f.start = dir[f.slot].start /\ f.slot \in Used
      /\ f.size \in Nat /\ f.start \in Nat /\ f.pos \in Nat
  BY <1>1 DEF FollowsEntry, TypeOK, OpenFile
<1>3. ASSUME NEW p \in f.pos .. f.size - 1
      PROVE  ReadView(f, LbaAt(f, p))[p % SectorSize] = fs_read(f.slot)[p + 1]
  <2>1. p \in 0 .. f.size - 1 /\ p + 1 \in 1 .. f.size /\ (p + 1) - 1 = p
    BY <1>2
  <2>2. ReadView(f, LbaAt(f, p)) = ReadSector(disk, LbaAt(f, p))
    BY <1>1, <2>1, FreshView
  <2>3. RangeOk(f.start, f.size \div SectorSize)
    <3>1. PICK w \in Nat : w = f.size \div SectorSize
      BY <1>2, DivNat
    <3>2. PICK n \in Nat : n = SectorsOf(f.size)
      BY <1>2, SectorsOfNat
    <3>3. w <= n
      BY <1>2, <2>1, <3>1, <3>2, SectorIndex
    <3>4. RangeOk(f.start, n)
      BY <1>2, <2>1, <3>2 DEF ReaderInv, FilesFit
    <3>5. RangeOk(f.start, w)
      BY <1>2, <3>3, <3>4, GeometryAssumption DEF RangeOk
    <3> QED
      BY <3>1, <3>5
  <2>4. fs_read(f.slot)[p + 1] = ReadSector(disk, f.start + p \div SectorSize)[p % SectorSize]
    BY <1>2, <2>1, <2>3 DEF fs_read
  <2> QED
    BY <2>2, <2>4 DEF LbaAt
<1> QED
  BY <1>2, <1>3

\* A read handle delivers the bytes SYS_LOAD would, sector cache and all, as
\* long as its own file is not rewritten: no SYS_SAVE, SYS_FWRITE, SYS_CLOSE,
\* rename or delete of another file shows in it.
THEOREM ReadersKeepTheFile == CSpec => []ReadersSeeTheFile
BY ReaderInit, ReaderStep, FollowersSeeTheFile, PTL DEF CSpec

\* Every field keeps its range under these programs, and every fresh handle
\* is one the running program holds.
THEOREM ClientTypeCorrect == CSpec => []CTypeOK
<1>1. ReaderInv => CTypeOK
  BY DEF ReaderInv, ExtentInv, HeldAreOpen, FreshIsHeld, CTypeOK
<1> QED
  BY <1>1, ReaderInit, ReaderStep, PTL DEF CSpec

(***************************************************************************)
(* What a step leaves of the directory, the names and the extents.         *)
(***************************************************************************)
\* Opening to read, reading, seeking, writing to a handle and the end of a
\* program leave the directory alone.
LEMMA QuietCalls ==
  /\ \A u \in UserNames : COpenRead(u) => UNCHANGED dir
  /\ \A fd \in Fds, len \in Lengths : CFRead(fd, len) => UNCHANGED dir
  /\ \A fd \in Fds, buf \in Buffers : CFWrite(fd, buf) => UNCHANGED dir
  /\ \A fd \in Fds, pos \in Offsets : CSeek(fd, pos) => UNCHANGED dir
  /\ ProgramEnds => UNCHANGED dir
<1>1. \A u \in UserNames : COpenRead(u) => UNCHANGED dir
  BY DEF COpenRead, OpenRead
<1>2. \A fd \in Fds, len \in Lengths : CFRead(fd, len) => UNCHANGED dir
  BY DEF CFRead, FRead
<1>3. \A fd \in Fds, buf \in Buffers : CFWrite(fd, buf) => UNCHANGED dir
  BY DEF CFWrite, FWrite
<1>4. \A fd \in Fds, pos \in Offsets : CSeek(fd, pos) => UNCHANGED dir
  BY DEF CSeek, Seek
<1>5. ProgramEnds => UNCHANGED dir
  BY DEF ProgramEnds, vars
<1> QED
  BY <1>1, <1>2, <1>3, <1>4, <1>5

\* With at most 15 characters a name is its first part.
NamesAreShort(d) == \A i \in Slots : d[i].name.c16 = "" /\ d[i].name.rest = ""

\* The sectors of entry i keep what they hold.
ExtentKept(i) == \A l \in Extent(i) \cap Lbas : disk'[l] = disk[l]

LEMMA ShortName ==
  ASSUME ShortNames, NEW u \in UserNames
  PROVE  /\ Normalize(u).c16 = "" /\ Normalize(u).rest = ""
         /\ OpenedName(Normalize(u)).c16 = "" /\ OpenedName(Normalize(u)).rest = ""
BY NamesAssumption DEF ShortNames, Normalize, OpenedName

\* A write handle writes no sector of a file in the directory.
LEMMA WriterKeepsExtents ==
  ASSUME ExtentInv, DirtyCacheAtPosition, NEW fd \in Fds, NEW i \in Used,
         (\E buf \in Buffers : CFWrite(fd, buf)) \/ (CClose(fd) /\ ofiles[fd].mode = "write")
  PROVE  ExtentKept(i)
<1>1. TypeOK /\ fd \in Writers
  BY DEF ExtentInv, CFWrite, FWrite, CClose, Writers
<1>2. ASSUME NEW l \in Lbas, l < ofiles[fd].start PROVE disk'[l] = disk[l]
  <2>1. CASE CClose(fd) /\ ofiles[fd].mode = "write"
    BY <1>1, <1>2, <2>1, FlushElsewhere DEF CClose, Close
  <2> QED
    BY <1>1, <1>2, <2>1, FWriteElsewhere DEF CFWrite
<1> QED
  BY <1>1, <1>2, WriterElsewhere DEF ExtentKept

LEMMA NamesStayShort ==
  ASSUME ShortNames, TypeOK, NamesAreShort(dir), CNext
  PROVE  NamesAreShort(dir')
<1>0. ZeroDirent.name.c16 = "" /\ ZeroDirent.name.rest = ""
  BY DEF ZeroDirent, NoName
<1>1. ASSUME NEW s \in Slots, NEW e, dir' = [dir EXCEPT ![s] = e],
             e.name.c16 = "", e.name.rest = ""
      PROVE  NamesAreShort(dir')
  BY <1>1 DEF TypeOK, NamesAreShort
<1>2. ASSUME NEW u \in UserNames, NEW buf \in Buffers, CSave(u, buf)
      PROVE  NamesAreShort(dir')
  <2> DEFINE n == Normalize(u)
             e == [name |-> n, start |-> SaveStart(n, Len(buf)), size |-> Len(buf)]
  <2>1. SaveSlot(n) \in Slots /\ dir' = [dir EXCEPT ![SaveSlot(n)] = e]
    BY <1>2, SaveSlotType DEF CSave, Save
  <2>2. e.name.c16 = "" /\ e.name.rest = ""
    BY ShortName
  <2> HIDE DEF e
  <2> QED
    BY <1>1, <2>1, <2>2
<1>3. ASSUME NEW u \in UserNames, COpenWrite(u) PROVE NamesAreShort(dir')
  <2> DEFINE n == Normalize(u)
             e == [name |-> OpenedName(n), start |-> OpenStart(n), size |-> 0]
  <2>1. SaveSlot(n) \in Slots /\ dir' = [dir EXCEPT ![SaveSlot(n)] = e]
    BY <1>3, SaveSlotType DEF COpenWrite, OpenWrite
  <2>2. e.name.c16 = "" /\ e.name.rest = ""
    BY ShortName
  <2> HIDE DEF e
  <2> QED
    BY <1>1, <2>1, <2>2
<1>4. ASSUME NEW u \in UserNames, CDelete(u) PROVE NamesAreShort(dir')
  <2>1. fs_find(Normalize(u)) \in Slots
        /\ dir' = [dir EXCEPT ![fs_find(Normalize(u))] = ZeroDirent]
    BY <1>4, FindType DEF CDelete, Delete, Used
  <2> QED
    BY <1>0, <1>1, <2>1
<1>5. ASSUME NEW u \in UserNames, NEW v \in UserNames, CRename(u, v)
      PROVE  NamesAreShort(dir')
  <2>1. fs_find(Normalize(u)) \in Slots
    BY <1>5, FindType DEF CRename, Rename, Used
  <2>2. \A i \in Slots : dir'[i].name =
          IF i = fs_find(Normalize(u)) THEN Normalize(v) ELSE dir[i].name
    BY <1>5, <2>1 DEF CRename, Rename, TypeOK, Dirent
  <2> QED
    BY <2>2, ShortName DEF NamesAreShort
<1>6. ASSUME NEW fd \in Fds, CClose(fd) PROVE NamesAreShort(dir')
  <2>1. \A i \in Slots : dir'[i].name = dir[i].name
    BY <1>6 DEF CClose, Close, TypeOK, Dirent
  <2> QED
    BY <2>1 DEF NamesAreShort
<1>7. ASSUME UNCHANGED dir PROVE NamesAreShort(dir')
  BY <1>7 DEF NamesAreShort
<1> QED
  BY <1>2, <1>3, <1>4, <1>5, <1>6, <1>7, QuietCalls DEF CNext

(***************************************************************************)
(* Refinement of FileMap.  The views, as functions of a directory d and    *)
(* the sectors k of a disk.                                                *)
(***************************************************************************)
UsedIn(d) == {i \in Slots : d[i].name.stem # ""}

ContentIn(d, k, i) ==
  [p \in 1 .. d[i].size |->
     IF /\ (p - 1) \div SectorSize < d[i].size \div SectorSize
        /\ ~RangeOk(d[i].start, d[i].size \div SectorSize)
     THEN Zero
     ELSE ReadSector(k, d[i].start + (p - 1) \div SectorSize)[(p - 1) % SectorSize]]

KeysIn(d) == {KeyOf(d[i].name) : i \in UsedIn(d)}
ViewIn(d, k) ==
  [x \in KeysIn(d) |-> ContentIn(d, k, CHOOSE i \in UsedIn(d) : KeyOf(d[i].name) = x)]

WrittenIn(k, f) ==
  [p \in 1 .. f.size |->
     IF f.cache.lba = LbaAt(f, p - 1) THEN f.cache.sector[(p - 1) % SectorSize]
     ELSE ReadSector(k, LbaAt(f, p - 1))[(p - 1) % SectorSize]]

WriterIn(d, k, o, w) ==
  {[key |-> KeyOf(d[o[fd].slot].name), data |-> WrittenIn(k, o[fd])] : fd \in w}

LEMMA FilesViewIs == FilesView = ViewIn(dir, disk) /\ FilesView' = ViewIn(dir', disk')
<1>1. FilesView = ViewIn(dir, disk)
  BY Zenon DEF FilesView, ViewIn, EntryKeys, KeysIn, fs_read, ContentIn, Used, UsedIn
<1>2. FilesView' = ViewIn(dir', disk')
  BY Zenon DEF FilesView, ViewIn, EntryKeys, KeysIn, fs_read, ContentIn, Used, UsedIn, ReadSector
<1> QED
  BY <1>1, <1>2

LEMMA WriterViewIs ==
  /\ WriterView = WriterIn(dir, disk, ofiles, Writers)
  /\ WriterView' = WriterIn(dir', disk', ofiles', Writers')
<1>1. WriterView = WriterIn(dir, disk, ofiles, Writers)
  BY Zenon DEF WriterView, WriterIn, Written, WrittenByte, WrittenIn
<1>2. WriterView' = WriterIn(dir', disk', ofiles', Writers')
  BY Zenon DEF WriterView, WriterIn, Written, WrittenByte, WrittenIn, LbaAt, KeyOf, ReadSector
<1> QED
  BY <1>1, <1>2

UniqueIn(d) ==
  \A i, j \in UsedIn(d) : KeyOf(d[i].name) = KeyOf(d[j].name) => i = j

\* A view is what its entries deliver, under their keys.
LEMMA ViewAt ==
  ASSUME NEW d, NEW k, UniqueIn(d)
  PROVE  /\ DOMAIN ViewIn(d, k) = KeysIn(d)
         /\ \A i \in UsedIn(d) : /\ KeyOf(d[i].name) \in KeysIn(d)
                                 /\ ViewIn(d, k)[KeyOf(d[i].name)] = ContentIn(d, k, i)
<1>1. ASSUME NEW i \in UsedIn(d)
      PROVE  (CHOOSE j \in UsedIn(d) : KeyOf(d[j].name) = KeyOf(d[i].name)) = i
  BY Zenon DEF UniqueIn
<1> QED
  BY <1>1, Zenon DEF ViewIn, KeysIn

LEMMA ViewIs ==
  ASSUME NEW d, NEW k, UniqueIn(d), NEW g, NEW S, g = [x \in S |-> g[x]],
         S = KeysIn(d),
         \A i \in UsedIn(d) : g[KeyOf(d[i].name)] = ContentIn(d, k, i)
  PROVE  ViewIn(d, k) = g
<1> DEFINE c(x) == ContentIn(d, k, CHOOSE i \in UsedIn(d) : KeyOf(d[i].name) = x)
<1>1. ViewIn(d, k) = [x \in S |-> c(x)]
  BY Zenon DEF ViewIn
<1>2. ASSUME NEW x \in S PROVE c(x) = g[x]
  <2>1. PICK i \in UsedIn(d) : x = KeyOf(d[i].name)
    BY DEF KeysIn
  <2>2. (CHOOSE j \in UsedIn(d) : KeyOf(d[j].name) = x) = i
    BY <2>1, Zenon DEF UniqueIn
  <2> QED
    BY <2>1, <2>2
<1> HIDE DEF c
<1>3. [x \in S |-> c(x)] = [x \in S |-> g[x]]
  BY <1>2
<1> QED
  BY <1>1, <1>3, Zenon

\* Entry s gets a content, under the key it has or a new one.
LEMMA ViewBound ==
  ASSUME UniqueIn(dir), UniqueIn(dir'), NEW s \in UsedIn(dir'),
         s \in UsedIn(dir) => KeyOf(dir'[s].name) = KeyOf(dir[s].name),
         \A i \in Slots \ {s} : dir'[i].name = dir[i].name,
         \A i \in UsedIn(dir) \ {s} : ContentIn(dir', disk', i) = ContentIn(dir, disk, i),
         NEW x, x = KeyOf(dir'[s].name), NEW c, c = ContentIn(dir', disk', s)
  PROVE  ViewIn(dir', disk') = [y \in DOMAIN ViewIn(dir, disk) \cup {x} |->
                             IF y = x THEN c ELSE ViewIn(dir, disk)[y]]
<1>1. UsedIn(dir') \ {s} = UsedIn(dir) \ {s}
  BY DEF UsedIn
<1>2. DOMAIN ViewIn(dir, disk) \cup {x} = KeysIn(dir')
  <2>1. KeysIn(dir) \cup {x} = KeysIn(dir')
    <3>1. ASSUME NEW i \in UsedIn(dir) PROVE KeyOf(dir[i].name) \in KeysIn(dir')
      <4>1. CASE i = s
        BY <4>1 DEF KeysIn
      <4>2. CASE i # s
        <5>1. i \in UsedIn(dir') /\ dir'[i].name = dir[i].name
          BY <1>1, <4>2 DEF UsedIn
        <5> QED
          BY <5>1 DEF KeysIn
      <4> QED
        BY <4>1, <4>2
    <3>2. ASSUME NEW i \in UsedIn(dir') PROVE KeyOf(dir'[i].name) \in KeysIn(dir) \cup {x}
      <4>1. CASE i # s
        <5>1. i \in UsedIn(dir) /\ dir'[i].name = dir[i].name
          BY <1>1, <4>1 DEF UsedIn
        <5> QED
          BY <5>1 DEF KeysIn
      <4> QED
        BY <4>1
    <3>3. x \in KeysIn(dir')
      BY DEF KeysIn
    <3> QED
      BY <3>1, <3>2, <3>3 DEF KeysIn
  <2> QED
    BY <2>1, ViewAt
<1> DEFINE g == [y \in DOMAIN ViewIn(dir, disk) \cup {x} |->
                   IF y = x THEN c ELSE ViewIn(dir, disk)[y]]
<1>3. ASSUME NEW i \in UsedIn(dir') PROVE g[KeyOf(dir'[i].name)] = ContentIn(dir', disk', i)
  <2>0. KeyOf(dir'[i].name) \in DOMAIN ViewIn(dir, disk) \cup {x}
    BY <1>2 DEF KeysIn
  <2>1. CASE i = s
    BY <2>0, <2>1
  <2>2. CASE i # s
    <3>1. KeyOf(dir'[i].name) # x
      BY <2>2 DEF UniqueIn
    <3>2. i \in UsedIn(dir) \ {s} /\ dir'[i].name = dir[i].name
      BY <1>1, <2>2 DEF UsedIn
    <3>3. ViewIn(dir, disk)[KeyOf(dir'[i].name)] = ContentIn(dir', disk', i)
      BY <3>2, ViewAt
    <3> QED
      BY <2>0, <3>1, <3>3
  <2> QED
    BY <2>1, <2>2
<1>4. g = [y \in KeysIn(dir') |-> g[y]]
  BY <1>2
<1> HIDE DEF g
<1>5. ViewIn(dir', disk') = g
  BY <1>3, <1>4, ViewIs
<1> QED
  BY <1>5 DEF g

\* The same of the view that refines FileMap.
LEMMA FilesBound ==
  ASSUME UniqueIn(dir), UniqueIn(dir'), NEW s \in UsedIn(dir'),
         s \in UsedIn(dir) => KeyOf(dir'[s].name) = KeyOf(dir[s].name),
         \A i \in Slots \ {s} : dir'[i].name = dir[i].name,
         \A i \in UsedIn(dir) \ {s} : ContentIn(dir', disk', i) = ContentIn(dir, disk, i),
         NEW x, x = KeyOf(dir'[s].name), NEW c, c = ContentIn(dir', disk', s)
  PROVE  FilesView' = FM!Bind(x, c)
<1>1. ViewIn(dir', disk') = [y \in DOMAIN ViewIn(dir, disk) \cup {x} |->
                               IF y = x THEN c ELSE ViewIn(dir, disk)[y]]
  BY ViewBound
<1>2. FM!Bind(x, c) = [y \in DOMAIN FilesView \cup {x} |-> IF y = x THEN c ELSE FilesView[y]]
  BY Zenon DEF FM!Bind
<1> QED
  BY <1>1, <1>2, FilesViewIs, Zenon

\* Entry s is freed.
LEMMA ViewUnbound ==
  ASSUME UniqueIn(dir), UniqueIn(dir'), NEW s \in UsedIn(dir),
         s \notin UsedIn(dir'), \A i \in Slots \ {s} : dir'[i] = dir[i],
         NEW x, x = KeyOf(dir[s].name)
  PROVE  ViewIn(dir', disk) = [y \in DOMAIN ViewIn(dir, disk) \ {x} |-> ViewIn(dir, disk)[y]]
<1>1. UsedIn(dir') = UsedIn(dir) \ {s}
  BY DEF UsedIn
<1>2. \A i \in UsedIn(dir') : /\ dir'[i] = dir[i] /\ KeyOf(dir[i].name) # x
                            /\ ContentIn(dir', disk, i) = ContentIn(dir, disk, i)
  <2>1. ASSUME NEW i \in UsedIn(dir') PROVE dir'[i] = dir[i] /\ KeyOf(dir[i].name) # x
    BY <1>1 DEF UniqueIn, UsedIn
  <2> QED
    BY <2>1, Zenon DEF ContentIn
<1>3. DOMAIN ViewIn(dir, disk) \ {x} = KeysIn(dir')
  <2>1. KeysIn(dir) \ {x} = KeysIn(dir')
    BY <1>1, <1>2 DEF KeysIn
  <2> QED
    BY <2>1, ViewAt
<1> DEFINE g == [y \in DOMAIN ViewIn(dir, disk) \ {x} |-> ViewIn(dir, disk)[y]]
<1>4. ASSUME NEW i \in UsedIn(dir') PROVE g[KeyOf(dir'[i].name)] = ContentIn(dir', disk, i)
  <2>1. KeyOf(dir'[i].name) \in DOMAIN ViewIn(dir, disk) \ {x}
    BY <1>3 DEF KeysIn
  <2>2. ViewIn(dir, disk)[KeyOf(dir'[i].name)] = ContentIn(dir', disk, i)
    BY <1>1, <1>2, ViewAt
  <2> QED
    BY <2>1, <2>2
<1>5. g = [y \in KeysIn(dir') |-> g[y]]
  BY <1>3
<1> HIDE DEF g
<1>6. ViewIn(dir', disk) = g
  BY <1>4, <1>5, ViewIs
<1> QED
  BY <1>6 DEF g

\* Entry s gets another name.
LEMMA ViewMoved ==
  ASSUME UniqueIn(dir), UniqueIn(dir'), NEW s \in UsedIn(dir),
         s \in UsedIn(dir'), \A i \in Slots \ {s} : dir'[i] = dir[i],
         dir'[s].start = dir[s].start, dir'[s].size = dir[s].size,
         NEW x, x = KeyOf(dir[s].name), NEW m, m = KeyOf(dir'[s].name)
  PROVE  ViewIn(dir', disk) = [y \in (DOMAIN ViewIn(dir, disk) \ {x}) \cup {m} |->
                            IF y = m THEN ViewIn(dir, disk)[x] ELSE ViewIn(dir, disk)[y]]
<1>1. UsedIn(dir') = UsedIn(dir)
  BY DEF UsedIn
<1>2. \A i \in UsedIn(dir) : ContentIn(dir', disk, i) = ContentIn(dir, disk, i)
  <2>1. ASSUME NEW i \in UsedIn(dir) PROVE dir'[i].start = dir[i].start /\ dir'[i].size = dir[i].size
    BY DEF UsedIn
  <2> QED
    BY <2>1, Zenon DEF ContentIn
<1>3. \A i \in UsedIn(dir) \ {s} : /\ KeyOf(dir'[i].name) = KeyOf(dir[i].name)
                                 /\ KeyOf(dir[i].name) # x /\ KeyOf(dir[i].name) # m
  <2>1. ASSUME NEW i \in UsedIn(dir) \ {s} PROVE dir'[i] = dir[i]
    BY DEF UsedIn
  <2> QED
    BY <1>1, <2>1 DEF UniqueIn
<1>4. (DOMAIN ViewIn(dir, disk) \ {x}) \cup {m} = KeysIn(dir')
  <2>1. (KeysIn(dir) \ {x}) \cup {m} = KeysIn(dir')
    BY <1>1, <1>3 DEF KeysIn
  <2> QED
    BY <2>1, ViewAt
<1> DEFINE g == [y \in (DOMAIN ViewIn(dir, disk) \ {x}) \cup {m} |->
                   IF y = m THEN ViewIn(dir, disk)[x] ELSE ViewIn(dir, disk)[y]]
<1>5. ASSUME NEW i \in UsedIn(dir') PROVE g[KeyOf(dir'[i].name)] = ContentIn(dir', disk, i)
  <2>0. KeyOf(dir'[i].name) \in (DOMAIN ViewIn(dir, disk) \ {x}) \cup {m}
    BY <1>4 DEF KeysIn
  <2>1. ViewIn(dir, disk)[KeyOf(dir[i].name)] = ContentIn(dir', disk, i)
    BY <1>1, <1>2, ViewAt
  <2>2. CASE i = s
    BY <2>0, <2>1, <2>2
  <2>3. CASE i # s
    BY <1>1, <1>3, <2>0, <2>1, <2>3
  <2> QED
    BY <2>2, <2>3
<1>6. g = [y \in KeysIn(dir') |-> g[y]]
  BY <1>4
<1> HIDE DEF g
<1>7. ViewIn(dir', disk) = g
  BY <1>5, <1>6, ViewIs
<1> QED
  BY <1>7 DEF g

\* Every entry keeps its name and what it delivers.
LEMMA ViewKept ==
  ASSUME UniqueIn(dir), UniqueIn(dir'),
         \A i \in Slots : dir'[i].name = dir[i].name,
         \A i \in UsedIn(dir) : ContentIn(dir', disk', i) = ContentIn(dir, disk, i)
  PROVE  ViewIn(dir', disk') = ViewIn(dir, disk)
<1>1. UsedIn(dir') = UsedIn(dir)
  BY DEF UsedIn
<1>2. KeysIn(dir') = KeysIn(dir)
  BY <1>1 DEF KeysIn, UsedIn
<1> DEFINE g == ViewIn(dir, disk)
<1>3. \A i \in UsedIn(dir') : g[KeyOf(dir'[i].name)] = ContentIn(dir', disk', i)
  BY <1>1, ViewAt DEF UsedIn
<1>4. g = [y \in KeysIn(dir') |-> g[y]]
  BY <1>2 DEF ViewIn
<1> HIDE DEF g
<1>5. ViewIn(dir', disk') = g
  BY <1>3, <1>4, ViewIs
<1> QED
  BY <1>5 DEF g

(***************************************************************************)
(* Contents.                                                               *)
(***************************************************************************)
\* Where byte p of a file that fits the RAM disk lies.
LEMMA ByteInRange ==
  ASSUME NEW start \in Nat, NEW size \in Nat, NEW p \in 0 .. size - 1,
         RangeOk(start, SectorsOf(size)),
         NEW q, q = p \div SectorSize, NEW r, r = p % SectorSize
  PROVE  /\ q \in Nat /\ r \in 0 .. SectorSize - 1 /\ q * SectorSize + r = p
         /\ RangeOk(start, size \div SectorSize)
         /\ start + q \in Lbas /\ RangeOk(start + q, 1)
<1>0. SectorSize \in Nat \ {0} /\ p \in Int
  BY GeometryAssumption
<1>1. q \in Nat
  BY DivNat
<1>2. r \in 0 .. SectorSize - 1
  BY ModNat
<1>3. PICK w \in Nat : w = size \div SectorSize
  BY DivNat
<1>4. PICK n \in Nat : n = SectorsOf(size)
  BY SectorsOfNat
<1>5. q \in 0 .. n - 1 /\ w <= n
  BY <1>1, <1>3, <1>4, SectorIndex
<1>6. p = SectorSize * q + r
  BY <1>0, <1>1, <1>2, DivMod
<1>7. q * SectorSize + r = p
  BY <1>0, <1>1, <1>6
<1>8. RangeOk(start, n)
  BY <1>4
<1>9. RangeOk(start, w) /\ start + q \in Lbas /\ RangeOk(start + q, 1)
  BY <1>1, <1>5, <1>8, GeometryAssumption DEF RangeOk, Lbas
<1>10. RangeOk(start, size \div SectorSize)
  BY <1>3, <1>9
<1> QED
  BY <1>1, <1>2, <1>7, <1>9, <1>10, Zenon

LEMMA ContentKept ==
  ASSUME NEW d, NEW k, NEW d2, NEW k2, NEW i, d[i].start \in Nat, d[i].size \in Nat,
         d2[i].start = d[i].start, d2[i].size = d[i].size,
         \A l \in (d[i].start .. (d[i].start + SectorsOf(d[i].size)) - 1) \cap Lbas :
           k2[l] = k[l]
  PROVE  ContentIn(d2, k2, i) = ContentIn(d, k, i)
<1> DEFINE start == d[i].start
           size == d[i].size
<1>1. ASSUME NEW p \in 1 .. size
      PROVE  ReadSector(k2, start + (p - 1) \div SectorSize)
               = ReadSector(k, start + (p - 1) \div SectorSize)
  <2>1. PICK q \in Nat : q = (p - 1) \div SectorSize
    BY DivNat
  <2>2. PICK n \in Nat : n = SectorsOf(size)
    BY SectorsOfNat
  <2>3. q \in 0 .. n - 1
    <3>1. p - 1 \in 0 .. size - 1
      OBVIOUS
    <3> QED
      BY <2>1, <2>2, <3>1, SectorIndex
  <2>4. start + q \in start .. (start + n) - 1
    BY <2>3
  <2>5. RangeOk(start + q, 1) => start + q \in Lbas
    BY GeometryAssumption DEF RangeOk, Lbas
  <2>6. ReadSector(k2, start + q) = ReadSector(k, start + q)
    BY <2>2, <2>4, <2>5 DEF ReadSector
  <2> QED
    BY <2>1, <2>6
<1> QED
  BY <1>1, Zenon DEF ContentIn

\* SYS_SAVE: SYS_LOAD of the entry delivers the buffer again.
LEMMA SavedContent ==
  ASSUME TypeOK, NEW buf \in Buffers, NEW start \in Nat,
         RangeOk(start, SectorsOf(Len(buf))),
         NEW d, NEW i, d[i].start = start, d[i].size = Len(buf)
  PROVE  ContentIn(d, WriteBuffer(start, SectorsOf(Len(buf)), buf), i) = buf
<1>0. PICK z \in Nat : z = Len(buf)
  BY InputAssumption
<1>1. PICK n \in Nat : n = SectorsOf(z)
  BY SectorsOfNat
<1>2. PICK k : k = WriteBuffer(start, n, buf)
  OBVIOUS
<1>3. ASSUME NEW p \in 1 .. z
      PROVE  /\ RangeOk(start, z \div SectorSize)
             /\ ReadSector(k, start + (p - 1) \div SectorSize)[(p - 1) % SectorSize] = buf[p]
  <2>1. p - 1 \in 0 .. z - 1
    OBVIOUS
  <2>2. PICK q \in Nat : q = (p - 1) \div SectorSize
    BY <2>1, DivNat
  <2>3. PICK r \in 0 .. SectorSize - 1 : r = (p - 1) % SectorSize
    BY <2>1, ModNat
  <2>4. /\ RangeOk(start, z \div SectorSize) /\ start + q \in Lbas
        /\ RangeOk(start + q, 1) /\ q * SectorSize + r = p - 1
    <3>1. PICK m \in 0 .. z - 1 : m = p - 1
      BY <2>1
    <3>2. q = m \div SectorSize /\ r = m % SectorSize /\ RangeOk(start, SectorsOf(z))
      BY <1>0, <2>2, <2>3, <3>1
    <3>3. RangeOk(start, z \div SectorSize) /\ start + q \in Lbas
          /\ RangeOk(start + q, 1) /\ q * SectorSize + r = m
      BY <3>2, ByteInRange, Zenon
    <3> QED
      BY <3>1, <3>3, Zenon
  <2>5. q \in 0 .. n - 1
    BY <1>1, <2>1, <2>2, SectorIndex
  <2>6. start + q \in start .. start + n - 1 /\ (start + q) - start = q
    BY <2>5
  <2>7. RangeOk(start, n)
    BY <1>0, <1>1
  <2>8. k[start + q] = [o \in 0 .. SectorSize - 1 |->
                          LET m == ((start + q) - start) * SectorSize + o + 1
                          IN  IF m <= Len(buf) THEN buf[m] ELSE Junk]
    BY <1>2, <2>4, <2>6, <2>7, Zenon DEF WriteBuffer
  <2>9. k[start + q][r] = IF q * SectorSize + r + 1 <= Len(buf)
                          THEN buf[q * SectorSize + r + 1] ELSE Junk
    BY <2>6, <2>8
  <2>10. q * SectorSize + r + 1 = p
    BY <2>4, GeometryAssumption
  <2>11. k[start + q][r] = buf[p]
    BY <1>0, <2>9, <2>10
  <2> QED
    BY <2>2, <2>3, <2>4, <2>11 DEF ReadSector
<1>4. buf = [p \in 1 .. z |-> buf[p]]
  BY <1>0, InputAssumption
<1>5. ContentIn(d, k, i) = [p \in 1 .. z |-> buf[p]]
  BY <1>0, <1>3, Zenon DEF ContentIn
<1> QED
  BY <1>0, <1>1, <1>2, <1>4, <1>5

(***************************************************************************)
(* The file under a write handle.                                          *)
(***************************************************************************)
\* A write handle stands at the end of its file, and its cache holds the
\* last sector exactly while that one is partial.
WriterAtEnd(f) ==
  /\ f.pos = f.size
  /\ IF f.pos % SectorSize = 0 THEN f.cache.lba = 0 /\ ~f.cache.dirty
     ELSE f.cache.lba = LbaAt(f, f.pos) /\ f.cache.dirty

LEMMA WrittenKept ==
  ASSUME NEW f \in OpenFile, NEW k, NEW k2, \A l \in Lbas : l >= f.start => k2[l] = k[l]
  PROVE  WrittenIn(k2, f) = WrittenIn(k, f)
<1>1. ASSUME NEW p \in 1 .. f.size
      PROVE  ReadSector(k2, LbaAt(f, p - 1)) = ReadSector(k, LbaAt(f, p - 1))
  <2>1. p - 1 \in Nat /\ f.start \in Nat
    BY DEF OpenFile
  <2>2. PICK q \in Nat : q = (p - 1) \div SectorSize
    BY <2>1, DivNat
  <2>3. LbaAt(f, p - 1) = f.start + q
    BY <2>2 DEF LbaAt
  <2>4. RangeOk(f.start + q, 1) => f.start + q \in Lbas
    BY <2>1, GeometryAssumption DEF RangeOk, Lbas
  <2>5. f.start + q >= f.start
    BY <2>1
  <2> QED
    BY <2>3, <2>4, <2>5 DEF ReadSector
<1> QED
  BY <1>1, Zenon DEF WrittenIn

\* SYS_CLOSE: SYS_LOAD of the entry delivers what was written.
LEMMA PublishedContent ==
  ASSUME TypeOK, NEW fd \in Fds, NEW f, f = ofiles[fd], WriterAtEnd(f),
         f.size > 0 => RangeOk(f.start, SectorsOf(f.size)),
         NEW d, NEW i, d[i].start = f.start, d[i].size = f.size
  PROVE  ContentIn(d, Flushed(f), i) = WrittenIn(disk, f)
<1>1. f.start \in Nat /\ f.size \in Nat /\ f.cache.sector \in Sector
  BY DEF TypeOK, OpenFile, Cache
<1>2. ASSUME NEW p \in 1 .. f.size
      PROVE  /\ RangeOk(f.start, f.size \div SectorSize)
             /\ ReadSector(Flushed(f), f.start + (p - 1) \div SectorSize)
                  = IF f.cache.lba = LbaAt(f, p - 1) THEN f.cache.sector
                    ELSE ReadSector(disk, LbaAt(f, p - 1))
  <2>1. PICK m \in 0 .. f.size - 1 : m = p - 1
    BY <1>1
  <2>2. PICK q : q = m \div SectorSize
    OBVIOUS
  <2>3. RangeOk(f.start, SectorsOf(f.size))
    BY <1>1, <2>1
  <2>4. /\ q \in Nat /\ RangeOk(f.start, f.size \div SectorSize)
        /\ f.start + q \in Lbas /\ RangeOk(f.start + q, 1)
    BY <1>1, <2>2, <2>3, ByteInRange
  <2>5. LbaAt(f, p - 1) = f.start + q /\ f.start + (p - 1) \div SectorSize = f.start + q
    BY <2>1, <2>2 DEF LbaAt
  <2>6. f.start + q # 0
    BY <2>4, GeometryAssumption DEF Lbas
  <2>7. CASE f.cache.lba = f.start + q
    <3>1. f.cache.dirty
      BY <2>6, <2>7 DEF WriterAtEnd
    <3>2. Flushed(f)[f.start + q] = f.cache.sector
      BY <2>4, <2>7, <3>1 DEF Flushed, WriteSector, TypeOK
    <3> QED
      BY <2>4, <2>5, <2>7, <3>2 DEF ReadSector
  <2>8. CASE f.cache.lba # f.start + q
    <3>1. Flushed(f)[f.start + q] = disk[f.start + q]
      BY <2>4, <2>8 DEF Flushed, WriteSector, TypeOK
    <3> QED
      BY <2>4, <2>5, <2>8, <3>1 DEF ReadSector
  <2> QED
    BY <2>7, <2>8
<1>3. ASSUME NEW p \in 1 .. f.size
      PROVE  ReadSector(Flushed(f), f.start + (p - 1) \div SectorSize)[(p - 1) % SectorSize]
               = IF f.cache.lba = LbaAt(f, p - 1) THEN f.cache.sector[(p - 1) % SectorSize]
                 ELSE ReadSector(disk, LbaAt(f, p - 1))[(p - 1) % SectorSize]
  BY <1>2, Zenon
<1>4. ContentIn(d, Flushed(f), i) =
        [p \in 1 .. f.size |->
           ReadSector(Flushed(f), f.start + (p - 1) \div SectorSize)[(p - 1) % SectorSize]]
  BY <1>2, Zenon DEF ContentIn
<1> QED
  BY <1>3, <1>4, Zenon DEF WrittenIn

LEMMA SectorBefore ==
  ASSUME NEW a \in Nat, NEW b \in Nat, a \div SectorSize < b \div SectorSize
  PROVE  (a \div SectorSize + 1) * SectorSize <= b
<1>0. SectorSize \in Nat \ {0}
  BY GeometryAssumption
<1>1. PICK q \in Nat : q = a \div SectorSize
  BY DivNat
<1>2. PICK w \in Nat : w = b \div SectorSize
  BY DivNat
<1>3. SectorSize * w \in Int /\ SectorSize * w <= b
  BY <1>0, <1>2, DivMod
<1>4. SectorSize * q \in Int /\ SectorSize * q + SectorSize <= SectorSize * w
  BY <1>0, <1>1, <1>2, ProductOrder
<1>5. (q + 1) * SectorSize = SectorSize * q + SectorSize
  BY <1>0
<1> QED
  BY <1>0, <1>1, <1>3, <1>4, <1>5

LEMMA SectorMonotone ==
  ASSUME NEW a \in Nat, NEW b \in Nat, a <= b
  PROVE  a \div SectorSize <= b \div SectorSize
<1>0. SectorSize \in Nat \ {0}
  BY GeometryAssumption
<1>1. PICK q \in Nat : q = a \div SectorSize
  BY DivNat
<1>2. PICK w \in Nat : w = b \div SectorSize
  BY DivNat
<1>3. SectorSize * w \in Int /\ b < SectorSize * w + SectorSize
  BY <1>0, <1>2, DivMod
<1>4. SectorSize * q \in Int /\ SectorSize * q <= a
  BY <1>0, <1>1, DivMod
<1>5. ~ (w < q)
  <2>1. ASSUME w < q PROVE SectorSize * w + SectorSize <= SectorSize * q
    BY <1>0, <2>1, ProductOrder
  <2> QED
    BY <1>0, <1>3, <1>4, <2>1
<1> QED
  BY <1>1, <1>2, <1>5

\* A complete last sector ends where the file ends.
LEMMA CompleteSector ==
  ASSUME NEW end \in Nat \ {0}, ((end - 1) \div SectorSize + 1) * SectorSize <= end
  PROVE  end % SectorSize = 0
<1>0. SectorSize \in Nat \ {0} /\ end - 1 \in Nat
  BY GeometryAssumption
<1>1. PICK q \in Nat : q = (end - 1) \div SectorSize
  BY <1>0, DivNat
<1>2. PICK r \in 0 .. SectorSize - 1 : r = (end - 1) % SectorSize
  BY <1>0, ModNat
<1>3. end - 1 = SectorSize * q + r /\ SectorSize * q \in Int
  BY <1>0, <1>1, <1>2, DivMod
<1>4. (q + 1) * SectorSize = SectorSize * q + SectorSize
      /\ SectorSize * (q + 1) = SectorSize * q + SectorSize
  BY <1>0
<1>5. end = SectorSize * (q + 1) + 0
  <2>1. SectorSize * q + SectorSize <= end
    BY <1>0, <1>1, <1>4
  <2> QED
    BY <1>0, <1>3, <1>4, <2>1
<1>6. PICK g \in Int, m \in 0 .. SectorSize - 1 : end = SectorSize * g + m /\ m = 0
  <2>1. 0 \in 0 .. SectorSize - 1 /\ q + 1 \in Int
    BY <1>0
  <2> QED
    BY <1>5, <2>1, Zenon
<1>7. end \in Int /\ SectorSize \in Nat \ {0} /\ end = SectorSize * g + m
  BY <1>0, <1>6
<1>8. end \div SectorSize = g /\ end % SectorSize = m
  BY <1>7, DivUnique, Zenon
<1> QED
  BY <1>6, <1>8

\* SYS_FWRITE of a handle at the end of its file finds nothing to flush.
LEMMA NothingToFlush ==
  ASSUME NEW f, WriterAtEnd(f)
  PROVE  DiskFlushed(f) = disk
BY DEF WriterAtEnd, DiskFlushed, Flushed, Cached

\* Byte p of the file, in its sector number q at offset r, where a write
\* of buf puts it.
LEMMA NewByte ==
  ASSUME NEW f \in OpenFile, NEW buf \in Buffers, WriterAtEnd(f), f.start # 0,
         NEW p \in 0 .. WriteEnd(f, buf) - 1,
         NEW q \in Nat, NEW r \in 0 .. SectorSize - 1,
         q = p \div SectorSize, r = p % SectorSize, q >= f.pos \div SectorSize
  PROVE  /\ NewSector(f, buf, f.start + q)[r] =
              IF p < f.pos THEN f.cache.sector[r] ELSE buf[p - f.pos + 1]
         /\ p < f.pos => f.cache.lba = f.start + q
<1>0. SectorSize \in Nat \ {0} /\ f.pos \in Nat /\ f.start \in Nat /\ p \in Int
      /\ WriteEnd(f, buf) \in Nat
  BY GeometryAssumption, InputAssumption DEF OpenFile, WriteEnd
<1>1. q * SectorSize + r = p
  <2>1. p = SectorSize * q + r
    BY <1>0, DivMod
  <2> QED
    BY <1>0, <2>1
<1>2. ((f.start + q) - f.start) * SectorSize + r = p
  <2>1. (f.start + q) - f.start = q
    BY <1>0
  <2> QED
    BY <1>1, <2>1
<1>3. NewSector(f, buf, f.start + q)[r] =
        IF p \in f.pos .. WriteEnd(f, buf) - 1 THEN buf[p - f.pos + 1]
        ELSE WriteView(f, DiskFlushed(f), f.start + q)[r]
  BY <1>2 DEF NewSector
<1>4. CASE p >= f.pos
  BY <1>0, <1>3, <1>4
<1>5. CASE p < f.pos
  <2>1. p \in Nat /\ p <= f.pos
    BY <1>0, <1>5
  <2>2. q <= f.pos \div SectorSize
    BY <1>0, <2>1, SectorMonotone
  <2>3. PICK w \in Nat : w = f.pos \div SectorSize
    BY <1>0, DivNat
  <2>4. q = w
    BY <2>2, <2>3
  <2>5. f.pos % SectorSize # 0
    <3>1. PICK m \in 0 .. SectorSize - 1 : m = f.pos % SectorSize
      BY <1>0, ModNat
    <3>2. PICK z \in Int : z = f.pos
      BY <1>0
    <3>3. z = SectorSize * w + m
      BY <1>0, <2>3, <3>1, <3>2, DivMod
    <3>4. p = w * SectorSize + r
      BY <1>1, <2>4
    <3>5. w * SectorSize = SectorSize * w /\ SectorSize * w \in Int
      BY <1>0
    <3>6. m # 0
      BY <1>0, <1>5, <3>2, <3>3, <3>4, <3>5
    <3> QED
      BY <3>1, <3>6
  <2>6. f.cache.lba = LbaAt(f, f.pos) /\ LbaAt(f, f.pos) = f.start + q
    BY <2>3, <2>4, <2>5 DEF WriterAtEnd, LbaAt
  <2>7. WriteView(f, DiskFlushed(f), f.start + q) = f.cache.sector
    BY <2>6 DEF WriteView, Cached
  <2>8. p \notin f.pos .. WriteEnd(f, buf) - 1
    BY <1>0, <1>5
  <2> QED
    BY <1>3, <1>5, <2>6, <2>7, <2>8
<1> QED
  BY <1>0, <1>4, <1>5

\* The handle after SYS_FWRITE stands at the new end.
LEMMA FWriteAtEnd ==
  ASSUME TypeOK, NEW fd \in Fds, NEW buf \in Buffers, FWrite(fd, buf),
         WriterAtEnd(ofiles[fd])
  PROVE  /\ ofiles'[fd].size = WriteEnd(ofiles[fd], buf)
         /\ ofiles'[fd].start = ofiles[fd].start
         /\ ofiles'[fd].cache = NewCache(ofiles[fd], buf)
         /\ WriterAtEnd(ofiles'[fd])
<1>0. PICK f, g : f = ofiles[fd] /\ g = ofiles'[fd]
  OBVIOUS
<1>1. f.start \in Nat /\ f.size \in Nat /\ f.pos = f.size /\ Len(buf) \in Nat \ {0}
  BY <1>0, InputAssumption DEF TypeOK, OpenFile, FWrite, WriterAtEnd
<1>2. PICK e \in Nat \ {0} : e = WriteEnd(f, buf) /\ e = f.size + Len(buf)
  BY <1>1 DEF WriteEnd
<1>3. /\ g.pos = e /\ g.size = Max({f.size, e}) /\ g.cache = NewCache(f, buf)
      /\ g.start = f.start
  <2>1. SameFile(fd)
    BY TransferKeepsFile
  <2> QED
    BY <1>0, <1>2, <2>1, FWriteHandle DEF SameFile
<1>4. g.size = e
  BY <1>1, <1>2, <1>3, MaxOfTwo
<1>5. PICK q \in Nat : q = (e - 1) \div SectorSize
  <2>1. e - 1 \in Nat
    OBVIOUS
  <2> QED
    BY <2>1, DivNat
<1>6. WriteLast(f, buf) = f.start + q
  BY <1>2, <1>5 DEF WriteLast, LbaAt
<1>7. IsComplete(f, buf, WriteLast(f, buf)) <=> (q + 1) * SectorSize <= e
  <2>1. WriteLast(f, buf) - f.start + 1 = q + 1
    BY <1>1, <1>6
  <2> QED
    BY <1>2, <2>1 DEF IsComplete
<1>8. CASE (q + 1) * SectorSize <= e
  <2>1. e % SectorSize = 0
    BY <1>5, <1>8, CompleteSector
  <2>2. g.cache = NoCache
    BY <1>3, <1>7, <1>8 DEF NewCache
  <2>3. WriterAtEnd(g)
    BY <1>3, <1>4, <2>1, <2>2 DEF WriterAtEnd, NoCache
  <2> QED
    BY <1>0, <1>2, <1>3, <1>4, <2>3
<1>9. CASE ~ ((q + 1) * SectorSize <= e)
  <2>1. (q + 1) * SectorSize > e
    <3>1. (q + 1) * SectorSize \in Int
      BY GeometryAssumption
    <3> QED
      BY <1>9, <3>1
  <2>2. e \div SectorSize = q /\ e % SectorSize # 0
    BY <1>5, <2>1, PartialSector
  <2>3. g.cache.lba = WriteLast(f, buf) /\ g.cache.dirty
    BY <1>3, <1>7, <1>9 DEF NewCache
  <2>4. LbaAt(g, g.pos) = WriteLast(f, buf)
    BY <1>3, <1>6, <2>2 DEF LbaAt
  <2>5. WriterAtEnd(g)
    BY <1>3, <1>4, <2>2, <2>3, <2>4 DEF WriterAtEnd
  <2> QED
    BY <1>0, <1>2, <1>3, <1>4, <2>5
<1> QED
  BY <1>8, <1>9

ByteIn(k, f, p) ==
  IF f.cache.lba = LbaAt(f, p) THEN f.cache.sector[p % SectorSize]
  ELSE ReadSector(k, LbaAt(f, p))[p % SectorSize]

LEMMA FWriteByte ==
  ASSUME TypeOK, NEW fd \in Fds, NEW buf \in Buffers, FWrite(fd, buf),
         NEW f, f = ofiles[fd], NEW g, g = ofiles'[fd],
         WriterAtEnd(f), f.start >= DataLba,
         RangeOk(f.start, SectorsOf(WriteEnd(f, buf))),
         NEW p \in 0 .. WriteEnd(f, buf) - 1
  PROVE  ByteIn(disk', g, p) = IF p < f.pos THEN ByteIn(disk, f, p) ELSE buf[p - f.pos + 1]
<1>0. f \in OpenFile /\ f.start \in Nat /\ f.start # 0 /\ f.pos \in Nat
      /\ Len(buf) \in Nat \ {0} /\ DataLba \in Nat \ {0}
  BY InputAssumption, GeometryAssumption DEF TypeOK, OpenFile, FWrite
<1>1. PICK e \in Nat \ {0} : e = WriteEnd(f, buf) /\ e = f.pos + Len(buf)
  BY <1>0 DEF WriteEnd
<1>2. g.start = f.start /\ g.cache = NewCache(f, buf)
  BY FWriteAtEnd
<1>3. PICK q, r : q = p \div SectorSize /\ r = p % SectorSize
  OBVIOUS
<1>4. /\ p \in Nat /\ q \in Nat /\ r \in 0 .. SectorSize - 1
      /\ f.start + q \in Lbas /\ RangeOk(f.start + q, 1)
  <2>1. PICK a \in Nat : a = f.start
    BY <1>0
  <2>2. p \in 0 .. e - 1 /\ RangeOk(a, SectorsOf(e))
    BY <1>1, <2>1
  <2>3. q \in Nat /\ r \in 0 .. SectorSize - 1 /\ a + q \in Lbas /\ RangeOk(a + q, 1)
    BY <1>3, <2>2, ByteInRange
  <2> QED
    BY <2>1, <2>2, <2>3
<1>5. LbaAt(f, p) = f.start + q /\ LbaAt(g, p) = f.start + q
  BY <1>2, <1>3 DEF LbaAt
<1>6. PICK w \in Nat : w = f.pos \div SectorSize
  BY <1>0, DivNat
<1>7. PICK v \in Nat : v = (e - 1) \div SectorSize
  <2>1. e - 1 \in Nat
    OBVIOUS
  <2> QED
    BY <2>1, DivNat
<1>8. q <= v /\ w <= v
  <2>1. e - 1 \in Nat /\ p <= e - 1 /\ f.pos <= e - 1
    BY <1>0, <1>1, <1>4
  <2>2. p \div SectorSize <= (e - 1) \div SectorSize
        /\ f.pos \div SectorSize <= (e - 1) \div SectorSize
    BY <1>0, <1>4, <2>1, SectorMonotone
  <2> QED
    BY <1>3, <1>6, <1>7, <2>2
<1>9. WriteLast(f, buf) = f.start + v /\ LbaAt(f, f.pos) = f.start + w
  BY <1>1, <1>6, <1>7 DEF WriteLast, LbaAt
<1>10. g.cache.lba = 0 \/ g.cache.lba = f.start + v
  BY <1>2, <1>9 DEF NewCache, NoCache
<1>11. f.start + q # 0
  BY <1>0, <1>4
<1>12. disk'[f.start + q] =
         IF q >= w /\ IsComplete(f, buf, f.start + q)
         THEN NewSector(f, buf, f.start + q) ELSE disk[f.start + q]
  <2>1. f.start + q \in LbaAt(f, f.pos) .. WriteLast(f, buf) <=> q >= w
    BY <1>0, <1>4, <1>8, <1>9
  <2> QED
    BY <1>4, <2>1, FWriteDisk, NothingToFlush
<1>13. CASE q < w
  <2>1. p < f.pos
    <3>1. ASSUME f.pos <= p PROVE f.pos \div SectorSize <= p \div SectorSize
      BY <1>0, <1>4, <3>1, SectorMonotone
    <3> QED
      BY <1>0, <1>3, <1>4, <1>6, <1>13, <3>1
  <2>2. g.cache.lba # f.start + q
    BY <1>0, <1>4, <1>8, <1>10, <1>11, <1>13
  <2>3. f.cache.lba = 0 \/ f.cache.lba = f.start + w
    BY <1>9 DEF WriterAtEnd
  <2>4. f.cache.lba # f.start + q
    BY <1>0, <1>4, <1>11, <1>13, <2>3
  <2>5. disk'[f.start + q] = disk[f.start + q]
    BY <1>4, <1>12, <1>13
  <2>6. ByteIn(disk', g, p) = disk'[f.start + q][r]
    BY <1>3, <1>4, <1>5, <2>2 DEF ByteIn, ReadSector
  <2>7. ByteIn(disk, f, p) = disk[f.start + q][r]
    BY <1>3, <1>4, <1>5, <2>4 DEF ByteIn, ReadSector
  <2> QED
    BY <2>1, <2>5, <2>6, <2>7
<1>14. CASE q >= w
  <2>1. /\ NewSector(f, buf, f.start + q)[r] =
             IF p < f.pos THEN f.cache.sector[r] ELSE buf[p - f.pos + 1]
        /\ p < f.pos => f.cache.lba = f.start + q
    <3>1. q >= f.pos \div SectorSize
      BY <1>6, <1>14
    <3>2. /\ f \in OpenFile /\ f.start # 0 /\ q \in Nat /\ r \in 0 .. SectorSize - 1
          /\ q = p \div SectorSize /\ r = p % SectorSize
      BY <1>0, <1>3, <1>4
    <3> QED
      BY <3>1, <3>2, NewByte
  <2>2. p < f.pos => ByteIn(disk, f, p) = f.cache.sector[r]
    BY <1>3, <1>5, <2>1 DEF ByteIn
  <2>3. CASE IsComplete(f, buf, f.start + q)
    <3>1. g.cache.lba # f.start + q
      BY <1>2, <1>9, <1>10, <1>11, <2>3 DEF NewCache, NoCache
    <3>2. ByteIn(disk', g, p) = NewSector(f, buf, f.start + q)[r]
      BY <1>3, <1>4, <1>5, <1>12, <1>14, <2>3, <3>1 DEF ByteIn, ReadSector
    <3> QED
      BY <2>1, <2>2, <3>2
  <2>4. CASE ~IsComplete(f, buf, f.start + q)
    <3>1. q = v
      <4>1. ASSUME q < v PROVE IsComplete(f, buf, f.start + q)
        <5>1. e - 1 \in Nat /\ p \div SectorSize < (e - 1) \div SectorSize
          BY <1>3, <1>7, <4>1
        <5>2. (q + 1) * SectorSize <= e - 1
          BY <1>3, <1>4, <5>1, SectorBefore
        <5>3. (q + 1) * SectorSize \in Int
          BY <1>4, GeometryAssumption
        <5>4. (q + 1) * SectorSize <= e
          BY <5>2, <5>3
        <5>5. (f.start + q) - f.start + 1 = q + 1
          BY <1>0, <1>4
        <5> QED
          BY <1>1, <5>4, <5>5 DEF IsComplete
      <4> QED
        BY <1>4, <1>8, <2>4, <4>1
    <3>2. g.cache.lba = f.start + q /\ g.cache.sector = NewSector(f, buf, f.start + q)
      BY <1>2, <1>9, <2>4, <3>1 DEF NewCache
    <3>3. ByteIn(disk', g, p) = NewSector(f, buf, f.start + q)[r]
      BY <1>3, <1>5, <3>2 DEF ByteIn
    <3> QED
      BY <2>1, <2>2, <3>3
  <2> QED
    BY <2>3, <2>4
<1> QED
  BY <1>4, <1>13, <1>14

\* The elements of two sequences, one after the other.
LEMMA ConcatAt ==
  ASSUME NEW S, NEW s \in Seq(S), NEW t \in Seq(S)
  PROVE  s \o t = [p \in 1 .. Len(s) + Len(t) |-> IF p <= Len(s) THEN s[p] ELSE t[p - Len(s)]]
<1>1. PICK c : c = s \o t
  OBVIOUS
<1>2. c \in Seq(S) /\ Len(c) = Len(s) + Len(t)
  BY <1>1
<1>3. ASSUME NEW p \in 1 .. Len(s) + Len(t)
      PROVE  c[p] = IF p <= Len(s) THEN s[p] ELSE t[p - Len(s)]
  BY <1>1
<1>4. c = [p \in 1 .. Len(s) + Len(t) |-> c[p]]
  BY <1>2
<1>5. c = [p \in 1 .. Len(s) + Len(t) |-> IF p <= Len(s) THEN s[p] ELSE t[p - Len(s)]]
  BY <1>3, <1>4, Zenon
<1> QED
  BY <1>1, <1>5, Zenon

LEMMA WrittenType ==
  ASSUME TypeOK, NEW fd \in Fds, NEW f, f = ofiles[fd]
  PROVE  /\ WrittenIn(disk, f) \in Seq(Byte) /\ Len(WrittenIn(disk, f)) = f.size
         /\ \A p \in 1 .. f.size : WrittenIn(disk, f)[p] = ByteIn(disk, f, p - 1)
<1>1. f.size \in Nat /\ f.start \in Nat /\ f.cache.sector \in Sector /\ f \in OpenFile
  BY DEF TypeOK, OpenFile, Cache
<1>2. ASSUME NEW p \in 1 .. f.size PROVE ByteIn(disk, f, p - 1) \in Byte
  <2>1. p - 1 \in Nat
    BY <1>1
  <2>2. PICK r \in 0 .. SectorSize - 1 : r = (p - 1) % SectorSize
    BY <2>1, ModNat
  <2>3. ReadSector(disk, LbaAt(f, p - 1)) \in Sector
    BY <1>1, <2>1, LbaAtType, ReadSectorType DEF TypeOK
  <2> QED
    BY <1>1, <2>2, <2>3 DEF ByteIn, Sector
<1>3. WrittenIn(disk, f) = [p \in 1 .. f.size |-> ByteIn(disk, f, p - 1)]
  BY Zenon DEF WrittenIn, ByteIn
<1> QED
  BY <1>1, <1>2, <1>3

\* SYS_FWRITE appends: what the handle has written is what it had written and
\* the buffer.
LEMMA FWriteExtends ==
  ASSUME TypeOK, TypeOK', NEW fd \in Fds, NEW buf \in Buffers, FWrite(fd, buf),
         NEW f, f = ofiles[fd], NEW g, g = ofiles'[fd],
         WriterAtEnd(f), f.start >= DataLba,
         RangeOk(f.start, SectorsOf(WriteEnd(f, buf)))
  PROVE  WrittenIn(disk', g) = WrittenIn(disk, f) \o buf
<1>1. f.pos \in Nat /\ f.pos = f.size /\ Len(buf) \in Nat /\ buf \in Seq(Data)
  BY InputAssumption DEF TypeOK, OpenFile, WriterAtEnd
<1>2. g.size = f.pos + Len(buf) /\ WriteEnd(f, buf) = f.pos + Len(buf)
  BY FWriteAtEnd DEF WriteEnd
<1>3. PICK s : s = WrittenIn(disk, f)
  OBVIOUS
<1>4. /\ s \in Seq(Byte) /\ Len(s) = f.pos
      /\ \A p \in 1 .. f.pos : s[p] = ByteIn(disk, f, p - 1)
  BY <1>1, <1>3, WrittenType
<1>5. ASSUME NEW p \in 1 .. f.pos + Len(buf)
      PROVE  ByteIn(disk', g, p - 1) = IF p <= f.pos THEN s[p] ELSE buf[p - f.pos]
  <2>1. PICK m \in 0 .. WriteEnd(f, buf) - 1 : m = p - 1
    BY <1>1, <1>2
  <2>2. ByteIn(disk', g, m) = IF m < f.pos THEN ByteIn(disk, f, m) ELSE buf[m - f.pos + 1]
    BY FWriteByte
  <2>3. CASE p <= f.pos
    BY <1>1, <1>4, <2>1, <2>2, <2>3
  <2>4. CASE ~ (p <= f.pos)
    <3>1. ~ (m < f.pos) /\ m - f.pos + 1 = p - f.pos
      BY <1>1, <2>1, <2>4
    <3> QED
      BY <2>1, <2>2, <2>4, <3>1
  <2> QED
    BY <2>3, <2>4
<1>6. WrittenIn(disk', g) = [p \in 1 .. g.size |-> ByteIn(disk', g, p - 1)]
  BY Zenon DEF WrittenIn, ByteIn
<1>7. s \o buf = [p \in 1 .. f.pos + Len(buf) |-> IF p <= f.pos THEN s[p] ELSE buf[p - f.pos]]
  <2>1. buf \in Seq(Byte)
    BY <1>1 DEF Byte
  <2>2. s \o buf = [p \in 1 .. Len(s) + Len(buf) |->
                     IF p <= Len(s) THEN s[p] ELSE buf[p - Len(s)]]
    BY <1>4, <2>1, ConcatAt
  <2> QED
    BY <1>4, <2>2, Zenon
<1>8. WrittenIn(disk', g) =
        [p \in 1 .. f.pos + Len(buf) |-> IF p <= f.pos THEN s[p] ELSE buf[p - f.pos]]
  BY <1>2, <1>5, <1>6, Zenon
<1> QED
  BY <1>3, <1>7, <1>8

(***************************************************************************)
(* The invariant of the refinement.                                        *)
(***************************************************************************)
WritersAtEnd == \A fd \in Writers : WriterAtEnd(ofiles[fd])

RefInv ==
  /\ ReaderInv
  /\ UniqueNames
  /\ NamesAreShort(dir)
  /\ WritersAtEnd

LEMMA RefInit == CInit => RefInv
<1> SUFFICES ASSUME CInit PROVE RefInv
  OBVIOUS
<1>1. ReaderInv /\ Used = {} /\ Writers = {}
  BY ReaderInit, InitEmpty DEF CInit, Writers
<1>2. NamesAreShort(dir)
  BY DEF CInit, Init, NamesAreShort, ZeroDirent, NoName
<1> QED
  BY <1>1, <1>2 DEF RefInv, UniqueNames, WritersAtEnd

\* A step that changes no write handle.
LEMMA AtEndKept ==
  ASSUME WritersAtEnd, \A fd \in Writers' : fd \in Writers /\ ofiles'[fd] = ofiles[fd]
  PROVE  WritersAtEnd'
<1>1. \A fd \in Writers' : WriterAtEnd(ofiles'[fd])
  BY DEF WritersAtEnd
<1> QED
  BY <1>1 DEF WritersAtEnd, WriterAtEnd, LbaAt

LEMMA AtEndStep ==
  ASSUME ExtentInv, WritersAtEnd, [CNext]_cvars
  PROVE  WritersAtEnd'
<1>0. TypeOK /\ held \subseteq Fds /\ \A fd \in held : ofiles[fd].used
  BY DEF ExtentInv, HeldAreOpen
<1>1. ASSUME UNCHANGED <<ofiles, held>> PROVE WritersAtEnd'
  BY <1>1, AtEndKept DEF Writers
<1>2. ASSUME NEW u \in UserNames, COpenRead(u) PROVE WritersAtEnd'
  <2>1. alloc_fd \in Fds /\ ofiles'[alloc_fd].mode = "read"
        /\ \A g \in Fds \ {alloc_fd} : ofiles'[g] = ofiles[g]
    BY <1>0, <1>2, AllocType DEF COpenRead, OpenRead, TypeOK
  <2>2. held' = held \cup {alloc_fd}
    BY <1>2 DEF COpenRead
  <2> QED
    BY <1>0, <2>1, <2>2, AtEndKept DEF Writers
<1>3. ASSUME NEW u \in UserNames, COpenWrite(u) PROVE WritersAtEnd'
  <2>1. alloc_fd \in Fds
    BY <1>3, AllocType DEF COpenWrite, OpenWrite
  <2>2. /\ ofiles'[alloc_fd].pos = 0 /\ ofiles'[alloc_fd].size = 0
        /\ ofiles'[alloc_fd].cache = NoCache
        /\ \A g \in Fds \ {alloc_fd} : ofiles'[g] = ofiles[g]
    BY <1>0, <1>3, <2>1 DEF COpenWrite, OpenWrite, TypeOK
  <2>3. held' = held \cup {alloc_fd} /\ Writers = {}
    BY <1>3 DEF COpenWrite, Quiet
  <2>4. \A fd \in Writers' : fd = alloc_fd
    BY <1>0, <2>2, <2>3 DEF Writers
  <2>5. 0 % SectorSize = 0
    BY GeometryAssumption
  <2>6. WriterAtEnd(ofiles'[alloc_fd])
    BY <2>2, <2>5 DEF WriterAtEnd, NoCache
  <2> QED
    BY <2>4, <2>6 DEF WritersAtEnd, WriterAtEnd, LbaAt
<1>4. ASSUME NEW fd \in Fds, NEW len \in Lengths, CFRead(fd, len) PROVE WritersAtEnd'
  <2>1. \A g \in Fds : SameFile(g)
    BY <1>0, <1>4, TransferKeepsFile DEF CFRead
  <2>2. UNCHANGED held /\ ofiles[fd].mode = "read"
        /\ \A g \in Fds \ {fd} : ofiles'[g] = ofiles[g]
    BY <1>0, <1>4 DEF CFRead, FRead, TypeOK
  <2> QED
    BY <1>0, <2>1, <2>2, AtEndKept DEF SameFile, Writers
<1>5. ASSUME NEW fd \in Fds, NEW pos \in Offsets, CSeek(fd, pos) PROVE WritersAtEnd'
  <2>1. \A g \in Fds : SameFile(g)
    BY <1>0, <1>5, TransferKeepsFile DEF CSeek
  <2>2. UNCHANGED held /\ ofiles[fd].mode # "write"
        /\ \A g \in Fds \ {fd} : ofiles'[g] = ofiles[g]
    BY <1>0, <1>5 DEF CSeek, Seek, TypeOK, Writers
  <2> QED
    BY <1>0, <2>1, <2>2, AtEndKept DEF SameFile, Writers
<1>6. ASSUME NEW fd \in Fds, CClose(fd) PROVE WritersAtEnd'
  <2>1. held' = held \ {fd} /\ \A g \in Fds \ {fd} : ofiles'[g] = ofiles[g]
    BY <1>0, <1>6 DEF CClose, Close, TypeOK
  <2> QED
    BY <1>0, <2>1, AtEndKept DEF Writers
<1>7. ASSUME NEW fd \in Fds, NEW buf \in Buffers, CFWrite(fd, buf) PROVE WritersAtEnd'
  <2>1. FWrite(fd, buf) /\ fd \in Writers /\ held' = held
    BY <1>7 DEF CFWrite, FWrite, Writers
  <2>2. WriterAtEnd(ofiles'[fd])
    BY <1>0, <2>1, FWriteAtEnd DEF WritersAtEnd
  <2>3. \A g \in Writers' : g = fd
    <3>1. \A g \in Fds : SameFile(g)
      BY <1>0, <2>1, TransferKeepsFile
    <3>2. \A g \in Writers' : g \in Writers
      BY <1>0, <2>1, <3>1 DEF SameFile, Writers
    <3> QED
      BY <2>1, <3>2 DEF ExtentInv, OneWriter
  <2> QED
    BY <2>2, <2>3 DEF WritersAtEnd, WriterAtEnd, LbaAt
<1>8. CASE ProgramEnds
  BY <1>8 DEF ProgramEnds, Writers, WritersAtEnd
<1>9. ASSUME NEW u \in UserNames, NEW buf \in Buffers, CSave(u, buf)
      PROVE  UNCHANGED <<ofiles, held>>
  BY <1>9 DEF CSave, Save
<1>10. ASSUME NEW u \in UserNames, CDelete(u) \/ \E v \in UserNames : CRename(u, v)
       PROVE  UNCHANGED <<ofiles, held>>
  BY <1>10 DEF CDelete, Delete, CRename, Rename
<1>11. UNCHANGED cvars => UNCHANGED <<ofiles, held>>
  BY DEF cvars, vars
<1> QED
  BY <1>1, <1>2, <1>3, <1>4, <1>5, <1>6, <1>7, <1>8, <1>9, <1>10, <1>11 DEF CNext

LEMMA RefStep ==
  ASSUME ShortNames
  PROVE  RefInv /\ [CNext]_cvars => RefInv'
<1> SUFFICES ASSUME RefInv, [CNext]_cvars PROVE RefInv'
  OBVIOUS
<1>1. ReaderInv'
  BY ReaderStep DEF RefInv
<1>2. UniqueNames'
  BY ClientStepIsStep, UniqueNamesStep DEF RefInv, ReaderInv, ExtentInv
<1>3. NamesAreShort(dir')
  <2>1. UNCHANGED cvars => UNCHANGED dir
    BY DEF cvars, vars
  <2> QED
    BY <2>1, NamesStayShort DEF RefInv, ReaderInv, ExtentInv
<1>4. NamesAreShort(dir)'
  BY <1>3 DEF NamesAreShort
<1>5. WritersAtEnd'
  BY AtEndStep DEF RefInv, ReaderInv
<1> QED
  BY <1>1, <1>2, <1>4, <1>5 DEF RefInv

(***************************************************************************)
(* Every step is one of FileMap or leaves both views alone.                *)
(***************************************************************************)
LEMMA UniqueKeys == UniqueNames <=> UniqueIn(dir)
BY DEF UniqueNames, UniqueIn, Used, UsedIn, NameEqCi, KeyOf

LEMMA UniqueKeysPrime == UniqueNames' <=> UniqueIn(dir')
BY DEF UniqueNames, UniqueIn, Used, UsedIn, NameEqCi, KeyOf

LEMMA UsedIs == Used = UsedIn(dir) /\ Used' = UsedIn(dir')
BY DEF Used, UsedIn

LEMMA EntryContentKept ==
  ASSUME TypeOK, NEW i \in Slots, dir'[i].start = dir[i].start, dir'[i].size = dir[i].size,
         \A l \in Extent(i) \cap Lbas : disk'[l] = disk[l]
  PROVE  ContentIn(dir', disk', i) = ContentIn(dir, disk, i)
<1>1. dir[i].start \in Nat /\ dir[i].size \in Nat
  BY DEF TypeOK, Dirent
<1>2. Extent(i) = dir[i].start .. (dir[i].start + SectorsOf(dir[i].size)) - 1
  BY DEF Extent, EndOf
<1> QED
  BY <1>1, <1>2, ContentKept

KeyIn(d, o, fd) == KeyOf(d[o[fd].slot].name)

\* No write handle changes, nor does the key of its entry or a sector it has.
LEMMA WriterViewKept ==
  ASSUME TypeOK, held \subseteq Fds, Writers' = Writers,
         \A fd \in Writers : /\ ofiles'[fd] = ofiles[fd]
                             /\ KeyIn(dir', ofiles, fd) = KeyIn(dir, ofiles, fd)
                             /\ \A l \in Lbas : l >= ofiles[fd].start => disk'[l] = disk[l]
  PROVE  WriterView' = WriterView
<1>1. ASSUME NEW fd \in Writers
      PROVE  /\ KeyOf(dir'[ofiles'[fd].slot].name) = KeyOf(dir[ofiles[fd].slot].name)
             /\ WrittenIn(disk', ofiles'[fd]) = WrittenIn(disk, ofiles[fd])
  <2>1. ofiles[fd] \in OpenFile
    BY DEF TypeOK, Writers
  <2>2. WrittenIn(disk', ofiles[fd]) = WrittenIn(disk, ofiles[fd])
    BY <2>1, WrittenKept
  <2> QED
    BY <2>2 DEF KeyIn
<1>2. WriterIn(dir', disk', ofiles', Writers') = WriterIn(dir, disk, ofiles, Writers)
  BY <1>1, Zenon DEF WriterIn
<1> QED
  BY <1>2, WriterViewIs

\* The key of one entry changes, and with it that of a handle on the entry.
LEMMA WriterViewRekeyed ==
  ASSUME TypeOK, held \subseteq Fds, UNCHANGED <<disk, ofiles, held>>, NEW k, NEW m,
         \A fd \in Writers : KeyIn(dir', ofiles, fd) =
           IF KeyIn(dir, ofiles, fd) = k THEN m ELSE KeyIn(dir, ofiles, fd)
  PROVE  WriterView' = FM!Rekey(k, m)
<1>1. Writers' = Writers
  BY DEF Writers
<1> DEFINE Old(fd) == [key |-> KeyIn(dir, ofiles, fd), data |-> WrittenIn(disk, ofiles[fd])]
           New(fd) == [key |-> KeyIn(dir', ofiles, fd), data |-> WrittenIn(disk, ofiles[fd])]
<1>2. WriterView = {Old(fd) : fd \in Writers}
  BY WriterViewIs, Zenon DEF WriterIn, KeyIn
<1>3. WriterView' = {New(fd) : fd \in Writers}
  BY <1>1, WriterViewIs DEF WriterIn, KeyIn
<1>4. ASSUME NEW fd \in Writers
      PROVE  New(fd) = [Old(fd) EXCEPT !.key = IF @ = k THEN m ELSE @]
  OBVIOUS
<1> HIDE DEF Old, New
<1>5. FM!Rekey(k, m) = {[w EXCEPT !.key = IF @ = k THEN m ELSE @] : w \in WriterView}
  BY Zenon DEF FM!Rekey
<1>6. FM!Rekey(k, m) = {[Old(fd) EXCEPT !.key = IF @ = k THEN m ELSE @] : fd \in Writers}
  BY <1>2, <1>5
<1> QED
  BY <1>3, <1>4, <1>6

LEMMA SaveIsPut ==
  ASSUME RefInv, RefInv', NEW u \in UserNames, NEW buf \in Buffers, CSave(u, buf)
  PROVE  FM!Put(KeyOf(Normalize(u)), buf)
<1>0. TypeOK /\ TypeOK' /\ ExtentsDisjoint' /\ ExtentInv /\ held \subseteq Fds
      /\ UniqueIn(dir) /\ UniqueIn(dir')
  BY UniqueKeys, UniqueKeysPrime DEF RefInv, ReaderInv, ExtentInv, HeldAreOpen
<1>1. PICK n, s, start : n = Normalize(u) /\ s = SaveSlot(n) /\ start = SaveStart(n, Len(buf))
  OBVIOUS
<1>2. /\ Save(u, buf) /\ RangeOk(start, SectorsOf(Len(buf))) /\ UNCHANGED <<ofiles, held>>
      /\ disk' = WriteBuffer(start, SectorsOf(Len(buf)), buf)
      /\ FitsInPlace(n, Len(buf)) \/ Writers = {}
  BY <1>1 DEF CSave, Save, Quiet
<1>3. s \in Slots /\ start \in Nat /\ Len(buf) \in Nat
  BY <1>0, <1>1, <1>2, SaveSlotType, SaveStartType, InputAssumption DEF Save, TypeOK
<1>4. /\ dir'[s].name = n /\ dir'[s].start = start /\ dir'[s].size = Len(buf)
      /\ \A i \in Slots \ {s} : dir'[i] = dir[i]
  BY <1>0, <1>1, <1>2, <1>3 DEF Save, TypeOK
<1>5. s \in UsedIn(dir')
  BY <1>1, <1>3, <1>4, NormalizeType DEF UsedIn
<1>6. s \in UsedIn(dir) => KeyOf(dir'[s].name) = KeyOf(dir[s].name)
  <2>1. CASE Exists(n)
    BY <1>1, <1>4, <2>1, FindType DEF SaveSlot, NameEqCi, KeyOf
  <2>2. CASE ~Exists(n)
    BY <1>1, <1>2, <2>2, FreeSlotType, UsedIs DEF SaveSlot, Save
  <2> QED
    BY <2>1, <2>2
<1>7. ASSUME NEW i \in UsedIn(dir) \ {s}
      PROVE  ContentIn(dir', disk', i) = ContentIn(dir, disk, i)
  <2>1. i \in Used \ {SaveSlot(Normalize(u))} /\ i \in Slots
    BY <1>1, UsedIs DEF UsedIn
  <2>2. dir'[i] = dir[i] /\ \A l \in Extent(i) \cap Lbas : disk'[l] = disk[l]
    BY <1>0, <1>2, <2>1, SaveElsewhere
  <2> QED
    BY <1>0, <2>1, <2>2, EntryContentKept
<1>8. ContentIn(dir', disk', s) = buf
  BY <1>0, <1>2, <1>3, <1>4, SavedContent
<1>9. FilesView' = FM!Bind(KeyOf(n), buf)
  <2>1. \A i \in Slots \ {s} : dir'[i].name = dir[i].name
    BY <1>4
  <2>2. KeyOf(n) = KeyOf(dir'[s].name)
    BY <1>4
  <2> QED
    BY <1>0, <1>5, <1>6, <1>7, <1>8, <2>1, <2>2, FilesBound
<1>10. WriterView' = WriterView
  <2>1. Writers' = Writers
    BY <1>2 DEF Writers
  <2>2. ASSUME NEW fd \in Writers
        PROVE  /\ KeyIn(dir', ofiles, fd) = KeyIn(dir, ofiles, fd)
               /\ \A l \in Lbas : l >= ofiles[fd].start => disk'[l] = disk[l]
    <3>1. FitsInPlace(n, Len(buf))
      BY <1>2
    <3>2. s \in Used /\ start = dir[s].start /\ SectorsOf(Len(buf)) <= SectorsOf(dir[s].size)
      BY <1>1, <3>1, FindType DEF FitsInPlace, SaveStart, SaveSlot
    <3>3. ofiles[fd].slot \in Slots /\ ofiles[fd].start \in Nat /\ fd \in Fds
      BY <1>0 DEF Writers, TypeOK, OpenFile
    <3>4. KeyIn(dir', ofiles, fd) = KeyIn(dir, ofiles, fd)
      BY <1>4, <1>6, <3>2, <3>3, UsedIs DEF KeyIn
    <3>5. ASSUME NEW l \in Lbas, l >= ofiles[fd].start PROVE disk'[l] = disk[l]
      <4>1. PICK c \in Nat, z \in Nat : c = SectorsOf(Len(buf)) /\ z = SectorsOf(dir[s].size)
        BY <1>0, <1>3, SectorsOfNat DEF TypeOK, Dirent
      <4>2. Extent(s) = start .. (start + z) - 1
        BY <3>2, <4>1 DEF Extent, EndOf
      <4>3. l \in start .. start + c - 1 => l \in Extent(s)
        BY <1>3, <3>2, <4>1, <4>2
      <4>4. l \in Extent(s) => l < ofiles[fd].start
        BY <1>0, <3>2, WriterElsewhere
      <4>5. l \in Nat
        BY GeometryAssumption DEF Lbas
      <4>6. l \notin start .. start + c - 1
        BY <3>3, <3>5, <4>3, <4>4, <4>5
      <4>7. disk' = WriteBuffer(start, c, buf)
        BY <1>2, <4>1
      <4> QED
        BY <4>6, <4>7 DEF WriteBuffer
    <3> QED
      BY <3>4, <3>5
  <2> QED
    BY <1>0, <1>2, <2>1, <2>2, WriterViewKept
<1> QED
  BY <1>1, <1>9, <1>10 DEF FM!Put

\* A free entry has the key of a file deleted while it is written.
LEMMA FreeKey ==
  ASSUME NamesAreShort(dir), NEW i \in Slots, i \notin UsedIn(dir)
  PROVE  KeyOf(dir[i].name) = FM!Orphan
BY DEF NamesAreShort, UsedIn, KeyOf, FM!Orphan

LEMMA RenameIsMove ==
  ASSUME RefInv, RefInv', NEW u \in UserNames, NEW v \in UserNames, CRename(u, v)
  PROVE  FM!Move(KeyOf(Normalize(u)), KeyOf(Normalize(v)))
<1>0. TypeOK /\ held \subseteq Fds /\ NamesAreShort(dir) /\ UniqueIn(dir) /\ UniqueIn(dir')
  BY UniqueKeys, UniqueKeysPrime DEF RefInv, ReaderInv, ExtentInv, HeldAreOpen
<1>1. PICK s, x, m : s = fs_find(Normalize(u)) /\ x = KeyOf(Normalize(u))
                     /\ m = KeyOf(Normalize(v))
  OBVIOUS
<1>2. /\ Exists(Normalize(u)) /\ ~Exists(Normalize(v))
      /\ dir' = [dir EXCEPT ![s].name = Normalize(v)]
      /\ UNCHANGED <<disk, ofiles, held>>
  BY <1>1 DEF CRename, Rename
<1>3. s \in UsedIn(dir) /\ s \in Slots /\ KeyOf(dir[s].name) = x
  BY <1>1, <1>2, FindType, UsedIs DEF NameEqCi, KeyOf, UsedIn
<1>4. /\ dir'[s].name = Normalize(v)
      /\ dir'[s].start = dir[s].start /\ dir'[s].size = dir[s].size
      /\ \A i \in Slots \ {s} : dir'[i] = dir[i]
  BY <1>0, <1>2, <1>3 DEF TypeOK, Dirent
<1>5. s \in UsedIn(dir') /\ m = KeyOf(dir'[s].name)
  BY <1>1, <1>3, <1>4, NormalizeType DEF UsedIn
<1>6. ViewIn(dir', disk) = [y \in (DOMAIN ViewIn(dir, disk) \ {x}) \cup {m} |->
                              IF y = m THEN ViewIn(dir, disk)[x] ELSE ViewIn(dir, disk)[y]]
  BY <1>0, <1>3, <1>4, <1>5, ViewMoved
<1>7. x \in KeysIn(dir)
  BY <1>3 DEF KeysIn
<1>8. m \notin KeysIn(dir)
  <2>1. ASSUME NEW i \in UsedIn(dir) PROVE KeyOf(dir[i].name) # m
    BY <1>1, <1>2, UsedIs DEF Exists, Matches, NameEqCi, KeyOf
  <2> QED
    BY <2>1 DEF KeysIn
<1>9. x \in DOMAIN FilesView /\ m \notin DOMAIN FilesView
  <2>1. DOMAIN ViewIn(dir, disk) = KeysIn(dir)
    BY <1>0, ViewAt
  <2> QED
    BY <1>7, <1>8, <2>1, FilesViewIs
<1>10. FilesView' = [y \in (DOMAIN FilesView \ {x}) \cup {m} |->
                       IF y = m THEN FilesView[x] ELSE FilesView[y]]
  <2>1. disk' = disk
    BY <1>2
  <2> QED
    BY <1>6, <2>1, FilesViewIs, Zenon
<1>11. x # FM!Orphan
  BY <1>1, NormalizeType DEF KeyOf, FM!Orphan
<1>12. ASSUME NEW fd \in Writers
       PROVE  KeyIn(dir', ofiles, fd) =
                IF KeyIn(dir, ofiles, fd) = x THEN m ELSE KeyIn(dir, ofiles, fd)
  <2>1. PICK i \in Slots : i = ofiles[fd].slot
    BY <1>0 DEF Writers, TypeOK, OpenFile
  <2>2. CASE i = s
    BY <1>3, <1>5, <2>1, <2>2 DEF KeyIn
  <2>3. CASE i # s
    <3>1. KeyOf(dir[i].name) # x
      <4>1. CASE i \in UsedIn(dir)
        BY <1>0, <1>3, <2>3, <4>1 DEF UniqueIn
      <4>2. CASE i \notin UsedIn(dir)
        BY <1>0, <1>11, <4>2, FreeKey
      <4> QED
        BY <4>1, <4>2
    <3>2. dir'[i] = dir[i]
      BY <1>4, <2>3
    <3> QED
      BY <2>1, <3>1, <3>2 DEF KeyIn
  <2> QED
    BY <2>2, <2>3
<1>13. WriterView' = FM!Rekey(x, m)
  BY <1>0, <1>2, <1>12, WriterViewRekeyed
<1>14. FM!Move(x, m)
  BY <1>9, <1>10, <1>13, Zenon DEF FM!Move
<1> QED
  BY <1>1, <1>14

LEMMA DeleteIsRemove ==
  ASSUME RefInv, RefInv', NEW u \in UserNames, CDelete(u)
  PROVE  FM!Remove(KeyOf(Normalize(u)))
<1>0. TypeOK /\ held \subseteq Fds /\ NamesAreShort(dir) /\ UniqueIn(dir) /\ UniqueIn(dir')
  BY UniqueKeys, UniqueKeysPrime DEF RefInv, ReaderInv, ExtentInv, HeldAreOpen
<1>1. PICK s, x : s = fs_find(Normalize(u)) /\ x = KeyOf(Normalize(u))
  OBVIOUS
<1>2. /\ Exists(Normalize(u)) /\ dir' = [dir EXCEPT ![s] = ZeroDirent]
      /\ UNCHANGED <<disk, ofiles, held>>
  BY <1>1 DEF CDelete, Delete
<1>3. s \in UsedIn(dir) /\ s \in Slots /\ KeyOf(dir[s].name) = x
  BY <1>1, <1>2, FindType, UsedIs DEF NameEqCi, KeyOf, UsedIn
<1>4. dir'[s] = ZeroDirent /\ \A i \in Slots \ {s} : dir'[i] = dir[i]
  BY <1>0, <1>2, <1>3 DEF TypeOK
<1>5. s \notin UsedIn(dir') /\ KeyOf(dir'[s].name) = FM!Orphan
  <2>0. ZeroDirent.name.stem = "" /\ ZeroDirent.name.c16 = ""
    BY DEF ZeroDirent, NoName
  <2>1. dir'[s].name.stem = "" /\ dir'[s].name.c16 = ""
    BY <1>4, <2>0, Zenon
  <2> QED
    BY <2>1, Zenon DEF UsedIn, KeyOf, FM!Orphan
<1>6. ViewIn(dir', disk) = [y \in DOMAIN ViewIn(dir, disk) \ {x} |-> ViewIn(dir, disk)[y]]
  BY <1>0, <1>3, <1>4, <1>5, ViewUnbound
<1>7. x \in KeysIn(dir)
  BY <1>3 DEF KeysIn
<1>8. x \in DOMAIN FilesView
  <2>1. DOMAIN ViewIn(dir, disk) = KeysIn(dir)
    BY <1>0, ViewAt
  <2> QED
    BY <1>7, <2>1, FilesViewIs
<1>9. FilesView' = FM!Unbind(x)
  <2>1. disk' = disk
    BY <1>2
  <2>2. FM!Unbind(x) = [y \in DOMAIN FilesView \ {x} |-> FilesView[y]]
    BY Zenon DEF FM!Unbind
  <2> QED
    BY <1>6, <2>1, <2>2, FilesViewIs, Zenon
<1>10. x # FM!Orphan
  BY <1>1, NormalizeType DEF KeyOf, FM!Orphan
<1>11. ASSUME NEW fd \in Writers
       PROVE  KeyIn(dir', ofiles, fd) =
                IF KeyIn(dir, ofiles, fd) = x THEN FM!Orphan ELSE KeyIn(dir, ofiles, fd)
  <2>1. PICK i \in Slots : i = ofiles[fd].slot
    BY <1>0 DEF Writers, TypeOK, OpenFile
  <2>2. CASE i = s
    BY <1>3, <1>5, <2>1, <2>2 DEF KeyIn
  <2>3. CASE i # s
    <3>1. KeyOf(dir[i].name) # x
      <4>1. CASE i \in UsedIn(dir)
        BY <1>0, <1>3, <2>3, <4>1 DEF UniqueIn
      <4>2. CASE i \notin UsedIn(dir)
        BY <1>0, <1>10, <4>2, FreeKey
      <4> QED
        BY <4>1, <4>2
    <3>2. dir'[i] = dir[i]
      BY <1>4, <2>3
    <3> QED
      BY <2>1, <3>1, <3>2 DEF KeyIn
  <2> QED
    BY <2>2, <2>3
<1>12. WriterView' = FM!Rekey(x, FM!Orphan)
  BY <1>0, <1>2, <1>11, WriterViewRekeyed
<1>13. FM!Remove(x)
  BY <1>8, <1>9, <1>12, Zenon DEF FM!Remove
<1> QED
  BY <1>1, <1>13

\* An entry or a handle of size 0 delivers nothing.
LEMMA EmptyContent ==
  /\ \A d, k, i : d[i].size = 0 => ContentIn(d, k, i) = <<>>
  /\ \A k, f : f.size = 0 => WrittenIn(k, f) = <<>>
<1>1. \A g : g = [p \in 1 .. 0 |-> g[p]] => g = <<>>
  OBVIOUS
<1>2. ASSUME NEW d, NEW k, NEW i, d[i].size = 0 PROVE ContentIn(d, k, i) = <<>>
  <2>1. PICK g : g = ContentIn(d, k, i)
    OBVIOUS
  <2>2. g = [p \in 1 .. 0 |-> g[p]]
    BY <1>2, <2>1 DEF ContentIn
  <2> QED
    BY <1>1, <2>1, <2>2
<1>3. ASSUME NEW k, NEW f, f.size = 0 PROVE WrittenIn(k, f) = <<>>
  <2>1. PICK g : g = WrittenIn(k, f)
    OBVIOUS
  <2>2. g = [p \in 1 .. 0 |-> g[p]]
    BY <1>3, <2>1 DEF WrittenIn
  <2> QED
    BY <1>1, <2>1, <2>2
<1> QED
  BY <1>2, <1>3

LEMMA OpenWriteIsBegin ==
  ASSUME ShortNames, RefInv, RefInv', NEW u \in UserNames, COpenWrite(u)
  PROVE  FM!Begin(KeyOf(Normalize(u)))
<1>0. TypeOK /\ held \subseteq Fds /\ UniqueIn(dir) /\ UniqueIn(dir')
      /\ \A fd \in held : ofiles[fd].used
  BY UniqueKeys, UniqueKeysPrime DEF RefInv, ReaderInv, ExtentInv, HeldAreOpen
<1>1. PICK n, s, x, a : n = Normalize(u) /\ s = SaveSlot(n) /\ x = KeyOf(n) /\ a = alloc_fd
  OBVIOUS
<1>2. /\ Writers = {} /\ FreeFds # {} /\ (Exists(n) \/ Room)
      /\ held' = held \cup {a} /\ UNCHANGED disk
  BY <1>1 DEF COpenWrite, OpenWrite, Quiet
<1>3. s \in Slots /\ a \in Fds /\ a \notin held
  BY <1>0, <1>1, <1>2, SaveSlotType, AllocType
<1>4. /\ dir'[s].name = OpenedName(n) /\ dir'[s].size = 0
      /\ \A i \in Slots \ {s} : dir'[i] = dir[i]
  BY <1>0, <1>1, <1>3 DEF COpenWrite, OpenWrite, TypeOK
<1>5. /\ ofiles'[a].mode = "write" /\ ofiles'[a].slot = s /\ ofiles'[a].size = 0
      /\ \A g \in Fds \ {a} : ofiles'[g] = ofiles[g]
  BY <1>0, <1>1, <1>3 DEF COpenWrite, OpenWrite, TypeOK
<1>6. KeyOf(dir'[s].name) = x /\ s \in UsedIn(dir')
  <2>1. n.c16 = "" /\ n.stem # ""
    BY <1>1, ShortName, NormalizeType
  <2>2. KeyOf(OpenedName(n)) = KeyOf(n) /\ OpenedName(n).stem # ""
    BY <2>1 DEF OpenedName, KeyOf
  <2> QED
    BY <1>1, <1>3, <1>4, <2>2 DEF UsedIn
<1>7. s \in UsedIn(dir) => KeyOf(dir'[s].name) = KeyOf(dir[s].name)
  <2>1. CASE Exists(n)
    BY <1>1, <1>6, <2>1, FindType DEF SaveSlot, NameEqCi, KeyOf
  <2>2. CASE ~Exists(n)
    BY <1>1, <1>2, <2>2, FreeSlotType, UsedIs DEF SaveSlot
  <2> QED
    BY <2>1, <2>2
<1>8. ASSUME NEW i \in UsedIn(dir) \ {s}
      PROVE  ContentIn(dir', disk', i) = ContentIn(dir, disk, i)
  <2>1. i \in Slots /\ dir'[i] = dir[i] /\ disk' = disk
    BY <1>2, <1>4 DEF UsedIn
  <2> QED
    BY <1>0, <2>1, EntryContentKept
<1>9. ContentIn(dir', disk', s) = <<>>
  BY <1>4, EmptyContent
<1>10. FilesView' = FM!Bind(x, <<>>)
  <2>1. \A i \in Slots \ {s} : dir'[i].name = dir[i].name
    BY <1>4
  <2> QED
    BY <1>0, <1>6, <1>7, <1>8, <1>9, <2>1, FilesBound
<1>11. Writers' = {a}
  BY <1>0, <1>2, <1>3, <1>5 DEF Writers
<1>12. WriterView = {}
  BY <1>2 DEF WriterView
<1>13. WriterView' = {[key |-> x, data |-> <<>>]}
  <2>1. WrittenIn(disk', ofiles'[a]) = <<>>
    BY <1>5, EmptyContent
  <2>2. KeyOf(dir'[ofiles'[a].slot].name) = x
    BY <1>5, <1>6
  <2>3. WriterIn(dir', disk', ofiles', {a}) =
          {[key |-> KeyOf(dir'[ofiles'[a].slot].name), data |-> WrittenIn(disk', ofiles'[a])]}
    BY DEF WriterIn
  <2> QED
    BY <1>11, <2>1, <2>2, <2>3, WriterViewIs
<1>14. FM!Begin(x)
  BY <1>10, <1>12, <1>13, Zenon DEF FM!Begin
<1> QED
  BY <1>1, <1>14

\* A step that leaves the names, and the sectors and sizes of the files, alone.
LEMMA FilesKept ==
  ASSUME TypeOK, UniqueIn(dir), UniqueIn(dir'),
         \A i \in Slots : dir'[i].name = dir[i].name,
         \A i \in Used : /\ dir'[i].start = dir[i].start /\ dir'[i].size = dir[i].size
                         /\ ExtentKept(i)
  PROVE  FilesView' = FilesView
<1>1. ASSUME NEW i \in UsedIn(dir) PROVE ContentIn(dir', disk', i) = ContentIn(dir, disk, i)
  <2>1. i \in Used /\ i \in Slots
    BY UsedIs DEF UsedIn
  <2> QED
    BY <2>1, EntryContentKept DEF ExtentKept
<1>2. ViewIn(dir', disk') = ViewIn(dir, disk)
  BY <1>1, ViewKept
<1> QED
  BY <1>2, FilesViewIs

LEMMA FWriteIsExtend ==
  ASSUME RefInv, RefInv', NEW fd \in Fds, NEW buf \in Buffers, CFWrite(fd, buf)
  PROVE  FM!Extend(buf)
<1>0. TypeOK /\ TypeOK' /\ ExtentInv /\ DirtyCacheAtPosition /\ DataPastDirectory
      /\ held \subseteq Fds /\ UniqueIn(dir) /\ UniqueIn(dir')
  BY UniqueKeys, UniqueKeysPrime DEF RefInv, ReaderInv, ExtentInv, HeldAreOpen
<1>1. /\ FWrite(fd, buf) /\ fd \in Writers /\ held' = held /\ dir' = dir
      /\ ofiles[fd].used
      /\ RangeOk(ofiles[fd].start, SectorsOf(WriteEnd(ofiles[fd], buf)))
  BY DEF CFWrite, FWrite, Writers, WriteEnd
<1>2. Writers = {fd} /\ Writers' = {fd} /\ ofiles'[fd].slot = ofiles[fd].slot
  <2>1. \A g \in Fds : SameFile(g)
    BY <1>0, <1>1, TransferKeepsFile
  <2>2. Writers = {fd}
    BY <1>0, <1>1 DEF ExtentInv, OneWriter
  <2>3. Writers' = Writers
    BY <1>0, <1>1, <2>1 DEF SameFile, Writers
  <2> QED
    BY <2>1, <2>2, <2>3 DEF SameFile
<1>3. FilesView' = FilesView
  <2>1. \A i \in Used : ExtentKept(i)
    BY <1>0, WriterKeepsExtents
  <2> QED
    BY <1>0, <1>1, <2>1, FilesKept
<1>4. PICK x, s, f, g : /\ x = KeyOf(dir[ofiles[fd].slot].name) /\ s = WrittenIn(disk, f)
                        /\ f = ofiles[fd] /\ g = ofiles'[fd]
  OBVIOUS
<1>5. WrittenIn(disk', g) = s \o buf
  <2>1. WriterAtEnd(f)
    BY <1>1, <1>4 DEF RefInv, WritersAtEnd
  <2>2. f.start >= DataLba
    BY <1>0, <1>1, <1>4 DEF DataPastDirectory
  <2> QED
    BY <1>0, <1>1, <1>4, <2>1, <2>2, FWriteExtends
<1>6. WriterView = {[key |-> x, data |-> s]}
  <2>1. WriterIn(dir, disk, ofiles, {fd}) =
          {[key |-> KeyOf(dir[ofiles[fd].slot].name), data |-> WrittenIn(disk, ofiles[fd])]}
    BY DEF WriterIn
  <2> QED
    BY <1>2, <1>4, <2>1, WriterViewIs
<1>7. WriterView' = {[key |-> x, data |-> s \o buf]}
  <2>1. WriterIn(dir', disk', ofiles', {fd}) =
          {[key |-> KeyOf(dir'[ofiles'[fd].slot].name), data |-> WrittenIn(disk', ofiles'[fd])]}
    BY DEF WriterIn
  <2> QED
    BY <1>1, <1>2, <1>4, <1>5, <2>1, WriterViewIs
<1>8. PICK c : c = s \o buf
  OBVIOUS
<1>9. [[key |-> x, data |-> s] EXCEPT !.data = c] = [key |-> x, data |-> c]
  OBVIOUS
<1>10. [[key |-> x, data |-> s] EXCEPT !.data = @ \o buf] = [key |-> x, data |-> c]
  BY <1>8, <1>9, Zenon
<1>11. WriterView # {} /\ WriterView' = {[w EXCEPT !.data = @ \o buf] : w \in WriterView}
  BY <1>6, <1>7, <1>8, <1>10, Zenon
<1> QED
  BY <1>3, <1>11, Zenon DEF FM!Extend

LEMMA CloseIsPublish ==
  ASSUME RefInv, RefInv', NEW fd \in Fds, CClose(fd), ofiles[fd].mode = "write"
  PROVE  FM!Publish
<1>0. TypeOK /\ ExtentInv /\ DirtyCacheAtPosition /\ FilesFit /\ NamesAreShort(dir)
      /\ held \subseteq Fds /\ UniqueIn(dir) /\ UniqueIn(dir')
  BY UniqueKeys, UniqueKeysPrime DEF RefInv, ReaderInv, ExtentInv, HeldAreOpen
<1>1. PICK f, s, x, c : /\ f = ofiles[fd] /\ s = f.slot /\ x = KeyOf(dir[s].name)
                        /\ c = WrittenIn(disk, f)
  OBVIOUS
<1>2. fd \in Writers /\ Writers = {fd}
  BY <1>0 DEF CClose, Writers, ExtentInv, OneWriter
<1>3. Writers' = {}
  <2>1. held' = held \ {fd} /\ \A g \in Fds \ {fd} : ofiles'[g] = ofiles[g]
    BY <1>0 DEF CClose, Close, TypeOK
  <2> QED
    BY <1>0, <1>2, <2>1 DEF Writers
<1>4. s \in Slots /\ f.start \in Nat /\ f.size \in Nat
  BY <1>0, <1>1 DEF TypeOK, OpenFile
<1>5. disk' = Flushed(f) /\ dir' = [dir EXCEPT ![s].start = f.start, ![s].size = f.size]
  BY <1>1 DEF CClose, Close
<1>6. /\ dir'[s].start = f.start /\ dir'[s].size = f.size
      /\ \A i \in Slots \ {s} : dir'[i] = dir[i]
      /\ \A i \in Slots : dir'[i].name = dir[i].name
  BY <1>0, <1>4, <1>5 DEF TypeOK, Dirent
<1>7. \A i \in Used : ExtentKept(i)
  BY <1>0, WriterKeepsExtents
<1>8. WriterView = {[key |-> x, data |-> c]}
  <2>1. WriterIn(dir, disk, ofiles, {fd}) =
          {[key |-> KeyOf(dir[ofiles[fd].slot].name), data |-> WrittenIn(disk, ofiles[fd])]}
    BY DEF WriterIn
  <2> QED
    BY <1>1, <1>2, <2>1, WriterViewIs
<1>9. WriterView' = {}
  BY <1>3 DEF WriterView
<1>10. CASE s \in UsedIn(dir)
  <2>1. s \in UsedIn(dir') /\ x # FM!Orphan /\ x = KeyOf(dir'[s].name)
    BY <1>1, <1>6, <1>10 DEF UsedIn, KeyOf, FM!Orphan
  <2>2. ASSUME NEW i \in UsedIn(dir) \ {s}
        PROVE  ContentIn(dir', disk', i) = ContentIn(dir, disk, i)
    <3>1. i \in Used /\ i \in Slots /\ dir'[i] = dir[i]
      BY <1>6, UsedIs DEF UsedIn
    <3> QED
      BY <1>0, <1>7, <3>1, EntryContentKept DEF ExtentKept
  <2>3. c = ContentIn(dir', disk', s)
    <3>1. WriterAtEnd(f) /\ (f.size > 0 => RangeOk(f.start, SectorsOf(f.size)))
      BY <1>0, <1>1, <1>2 DEF RefInv, WritersAtEnd, FilesFit
    <3>2. f = ofiles[fd]
      BY <1>1
    <3>3. PICK d : d = dir' /\ d[s].start = f.start /\ d[s].size = f.size
      BY <1>6
    <3>4. ContentIn(dir', Flushed(f), s) = WrittenIn(disk, f)
      BY <1>0, <3>1, <3>2, <3>3, PublishedContent
    <3> QED
      BY <1>1, <1>5, <3>4, Zenon
  <2>4. FilesView' = FM!Bind(x, c)
    <3>1. /\ s \in UsedIn(dir) => KeyOf(dir'[s].name) = KeyOf(dir[s].name)
          /\ \A i \in Slots \ {s} : dir'[i].name = dir[i].name
      BY <1>1, <1>6, <2>1
    <3> QED
      BY <1>0, <2>1, <2>2, <2>3, <3>1, FilesBound
  <2> QED
    BY <1>8, <1>9, <2>1, <2>4 DEF FM!Publish
<1>11. CASE s \notin UsedIn(dir)
  <2>1. x = FM!Orphan
    BY <1>0, <1>1, <1>4, <1>11, FreeKey
  <2>2. \A i \in Used : i \in Slots \ {s} /\ dir'[i] = dir[i]
    BY <1>6, <1>11, UsedIs DEF UsedIn
  <2>3. FilesView' = FilesView
    BY <1>0, <1>6, <1>7, <2>2, FilesKept
  <2> QED
    BY <1>8, <1>9, <2>1, <2>3 DEF FM!Publish
<1> QED
  BY <1>10, <1>11

\* Opening to read, reading, seeking and closing a read handle change no view.
LEMMA ReadersAreInvisible ==
  ASSUME RefInv, RefInv', UNCHANGED <<dir, disk>>,
         \A fd \in held \cup held' : fd \in Writers \/ fd \in Writers' =>
           fd \in Writers /\ fd \in Writers' /\ ofiles'[fd] = ofiles[fd]
  PROVE  UNCHANGED <<FilesView, WriterView>>
<1>0. TypeOK /\ held \subseteq Fds /\ UniqueIn(dir) /\ UniqueIn(dir')
  BY UniqueKeys, UniqueKeysPrime DEF RefInv, ReaderInv, ExtentInv, HeldAreOpen
<1>1. FilesView' = FilesView
  BY FilesViewIs
<1>2. Writers' = Writers /\ \A fd \in Writers : ofiles'[fd] = ofiles[fd]
  BY DEF Writers
<1>3. WriterView' = WriterView
  BY <1>0, <1>2, WriterViewKept
<1> QED
  BY <1>1, <1>3

LEMMA ReadStepIsInvisible ==
  ASSUME RefInv, RefInv',
         \/ \E u \in UserNames : COpenRead(u)
         \/ \E fd \in Fds, len \in Lengths : CFRead(fd, len)
         \/ \E fd \in Fds : CClose(fd) /\ ofiles[fd].mode # "write"
         \/ \E fd \in Fds, pos \in Offsets : CSeek(fd, pos)
  PROVE  UNCHANGED <<FilesView, WriterView>>
<1>0. TypeOK /\ held \subseteq Fds /\ \A fd \in held : ofiles[fd].used
  BY DEF RefInv, ReaderInv, ExtentInv, HeldAreOpen
<1>1. ASSUME NEW a \in Fds, a \notin Writers, a \notin Writers',
             \A g \in Fds \ {a} : ofiles'[g] = ofiles[g],
             held' \in {held, held \cup {a}, held \ {a}}, UNCHANGED <<dir, disk>>
      PROVE  UNCHANGED <<FilesView, WriterView>>
  <2>1. ASSUME NEW fd \in held \cup held', fd \in Writers \/ fd \in Writers'
        PROVE  fd \in Writers /\ fd \in Writers' /\ ofiles'[fd] = ofiles[fd]
    BY <1>0, <1>1, <2>1 DEF Writers
  <2> QED
    BY <1>1, <2>1, ReadersAreInvisible
<1>2. ASSUME NEW u \in UserNames, COpenRead(u) PROVE UNCHANGED <<FilesView, WriterView>>
  <2>1. alloc_fd \in Fds /\ ~ofiles[alloc_fd].used
    BY <1>2, AllocType DEF COpenRead, OpenRead
  <2>2. /\ ofiles'[alloc_fd].mode = "read" /\ held' = held \cup {alloc_fd}
        /\ \A g \in Fds \ {alloc_fd} : ofiles'[g] = ofiles[g]
        /\ UNCHANGED <<dir, disk>>
    BY <1>0, <1>2, <2>1 DEF COpenRead, OpenRead, TypeOK
  <2>3. alloc_fd \notin Writers /\ alloc_fd \notin Writers'
    BY <1>0, <2>1, <2>2 DEF Writers
  <2> QED
    BY <1>1, <2>1, <2>2, <2>3
<1>3. ASSUME NEW fd \in Fds, NEW len \in Lengths, CFRead(fd, len)
      PROVE  UNCHANGED <<FilesView, WriterView>>
  <2>1. \A g \in Fds : SameFile(g)
    BY <1>0, <1>3, TransferKeepsFile DEF CFRead
  <2>2. /\ UNCHANGED <<dir, disk, held>> /\ ofiles[fd].mode = "read"
        /\ \A g \in Fds \ {fd} : ofiles'[g] = ofiles[g]
    BY <1>0, <1>3 DEF CFRead, FRead, TypeOK
  <2>3. fd \notin Writers /\ fd \notin Writers'
    BY <2>1, <2>2 DEF SameFile, Writers
  <2> QED
    BY <1>1, <2>2, <2>3
<1>4. ASSUME NEW fd \in Fds, CClose(fd), ofiles[fd].mode # "write"
      PROVE  UNCHANGED <<FilesView, WriterView>>
  <2>1. /\ UNCHANGED <<dir, disk>> /\ held' = held \ {fd}
        /\ \A g \in Fds \ {fd} : ofiles'[g] = ofiles[g]
    BY <1>0, <1>4 DEF CClose, Close, TypeOK
  <2>2. fd \notin Writers /\ fd \notin Writers'
    BY <1>4, <2>1 DEF Writers
  <2> QED
    BY <1>1, <2>1, <2>2
<1>5. ASSUME NEW fd \in Fds, NEW pos \in Offsets, CSeek(fd, pos)
      PROVE  UNCHANGED <<FilesView, WriterView>>
  <2>1. \A g \in Fds : SameFile(g)
    BY <1>0, <1>5, TransferKeepsFile DEF CSeek
  <2>2. ofiles[fd].mode # "write"
    BY <1>5 DEF CSeek, Writers
  <2>3. /\ UNCHANGED <<dir, disk, held>>
        /\ \A g \in Fds \ {fd} : ofiles'[g] = ofiles[g]
    BY <1>0, <1>5, <2>2 DEF CSeek, Seek, TypeOK
  <2>4. fd \notin Writers /\ fd \notin Writers'
    BY <2>1, <2>2 DEF SameFile, Writers
  <2> QED
    BY <1>1, <2>3, <2>4
<1> QED
  BY <1>2, <1>3, <1>4, <1>5

\* The end of a program abandons the file it was writing.
LEMMA EndIsAbandon ==
  ASSUME RefInv, RefInv', ProgramEnds
  PROVE  FM!Abandon \/ UNCHANGED <<FilesView, WriterView>>
<1>1. Writers' = {} /\ UNCHANGED <<dir, disk>>
  BY DEF ProgramEnds, vars, Writers
<1>2. FilesView' = FilesView /\ WriterView' = {}
  <2>1. FilesView' = FilesView
    BY <1>1, FilesViewIs
  <2>2. WriterView' = {}
    BY <1>1 DEF WriterView
  <2> QED
    BY <2>1, <2>2
<1> QED
  BY <1>2, Zenon DEF FM!Abandon

LEMMA InitIsEmptyMap == CInit => FM!Init
<1> SUFFICES ASSUME CInit PROVE FM!Init
  OBVIOUS
<1>1. UsedIn(dir) = {} /\ Writers = {}
  BY InitEmpty, UsedIs DEF CInit, Writers
<1>2. WriterView = {}
  BY <1>1 DEF WriterView
<1>3. FilesView = [k \in {} |-> <<>>]
  <2>1. KeysIn(dir) = {}
    BY <1>1 DEF KeysIn
  <2>2. ViewIn(dir, disk) = [k \in {} |-> <<>>]
    BY <2>1 DEF ViewIn
  <2> QED
    BY <2>2, FilesViewIs
<1> QED
  BY <1>2, <1>3, Zenon DEF FM!Init

LEMMA MapStep ==
  ASSUME ShortNames, RefInv, RefInv', [CNext]_cvars
  PROVE  [FM!Next]_<<FilesView, WriterView>>
<1> DEFINE K == {KeyOf(Normalize(u)) : u \in UserNames}
<1>0. \A u \in UserNames : KeyOf(Normalize(u)) \in K
  OBVIOUS
<1> HIDE DEF K
<1>1. /\ \A k \in K : FM!Remove(k) \/ FM!Begin(k) => FM!Next
      /\ \A k, m \in K : FM!Move(k, m) => FM!Next
      /\ \A k \in K, buf \in Buffers : FM!Put(k, buf) => FM!Next
      /\ \A buf \in Buffers : FM!Extend(buf) => FM!Next
      /\ FM!Publish \/ FM!Abandon => FM!Next
  BY Zenon DEF FM!Next, K
<1>2. ASSUME NEW u \in UserNames, NEW buf \in Buffers, CSave(u, buf) PROVE FM!Next
  BY <1>0, <1>1, <1>2, SaveIsPut
<1>3. ASSUME NEW u \in UserNames, NEW v \in UserNames, CRename(u, v) PROVE FM!Next
  BY <1>0, <1>1, <1>3, RenameIsMove
<1>4. ASSUME NEW u \in UserNames, CDelete(u) PROVE FM!Next
  BY <1>0, <1>1, <1>4, DeleteIsRemove
<1>5. ASSUME NEW u \in UserNames, COpenWrite(u) PROVE FM!Next
  BY <1>0, <1>1, <1>5, OpenWriteIsBegin
<1>6. ASSUME NEW fd \in Fds, NEW buf \in Buffers, CFWrite(fd, buf) PROVE FM!Next
  BY <1>1, <1>6, FWriteIsExtend
<1>7. ASSUME NEW fd \in Fds, CClose(fd), ofiles[fd].mode = "write" PROVE FM!Next
  BY <1>1, <1>7, CloseIsPublish
<1>8. ASSUME ProgramEnds PROVE FM!Next \/ UNCHANGED <<FilesView, WriterView>>
  BY <1>1, <1>8, EndIsAbandon
<1>9. ASSUME UNCHANGED cvars PROVE UNCHANGED <<FilesView, WriterView>>
  <2>1. UNCHANGED <<dir, disk, ofiles, held>>
    BY <1>9 DEF cvars, vars
  <2>2. Writers' = Writers
    BY <2>1 DEF Writers
  <2> QED
    BY <2>1, <2>2, FilesViewIs, WriterViewIs
<1>10. CNext => FM!Next \/ UNCHANGED <<FilesView, WriterView>>
  BY <1>2, <1>3, <1>4, <1>5, <1>6, <1>7, <1>8, ReadStepIsInvisible DEF CNext
<1> QED
  BY <1>9, <1>10

\* As a program that follows the rules sees it, every file system call is an
\* operation on a map from names to contents, or changes nothing it can see,
\* whatever extents moved, grew in place, were freed or abandoned underneath:
\* for any sizes of the disk and of the tables, any sector size and any data,
\* as long as names have the 15 characters SYS_OPEN stores.
THEOREM ClientImplementsFileMap == ShortNames => (CSpec => ImplementsFileMap)
<1> SUFFICES ASSUME ShortNames PROVE CSpec => ImplementsFileMap
  OBVIOUS
<1>1. CInit => RefInv
  BY RefInit
<1>2. RefInv /\ [CNext]_cvars => RefInv'
  BY RefStep
<1>3. CInit => FM!Init
  BY InitIsEmptyMap
<1>4. RefInv /\ RefInv' /\ [CNext]_cvars => [FM!Next]_<<FilesView, WriterView>>
  BY MapStep
<1> QED
  BY <1>1, <1>2, <1>3, <1>4, PTL DEF CSpec, ImplementsFileMap, FM!Spec

=============================================================================
