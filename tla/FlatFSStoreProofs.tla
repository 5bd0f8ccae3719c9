-------------------------- MODULE FlatFSStoreProofs --------------------------
(***************************************************************************)
(* Proofs about the persistent store, for every size of the file system    *)
(* and every number of write errors: crashes first, power cuts at the end. *)
(***************************************************************************)
EXTENDS DriveCache, FlatFSClientProofs

(***************************************************************************)
(* The inductive invariant.  What is not pending has reached the store;    *)
(* and store and RAM disk differ in one entry of the directory at most,    *)
(* because every call changes one.                                         *)
(***************************************************************************)
StoreTypes ==
  /\ sdir \in [Slots -> Dirent] /\ sdisk \in [Lbas -> Sector]
  /\ pending \in [data : SUBSET Lbas, dir : SUBSET Slots, sync : BOOLEAN]
  /\ failures \in Nat

Arrived ==
  InStep \/ pending.sync =>
    /\ \A l \in Lbas \ pending.data : sdisk[l] = disk[l]
    /\ \A i \in Slots \ pending.dir : sdir[i] = dir[i]

OneEntryBehind == InStep => \E s \in Slots : \A i \in Slots \ {s} : sdir[i] = dir[i]

StoreInv ==
  ExtentInv /\ StoreTypes /\ Arrived /\ OneEntryBehind /\ StoreExtentsDisjoint

LEMMA NothingType ==
  /\ Nothing \in [data : SUBSET Lbas, dir : SUBSET Slots, sync : BOOLEAN]
  /\ Nothing.data = {} /\ Nothing.dir = {} /\ Nothing.sync = FALSE
BY DEF Nothing

\* A store that equals the RAM disk inherits its disjoint extents.
LEMMA EqualDirectories ==
  ASSUME ExtentsDisjoint, dir \in [Slots -> Dirent], sdir = dir
  PROVE  StoreExtentsDisjoint /\ OneEntryBehind
<1>0. ASSUME NEW i \in Slots PROVE StoreExtent(i) = Extent(i)
  <2>1. sdir[i].start = dir[i].start /\ sdir[i].size = dir[i].size
    OBVIOUS
  <2>2. dir[i].start \in Nat /\ SectorsOf(dir[i].size) \in Nat
    BY SectorsOfNat DEF Dirent
  <2> QED
    BY <2>1, <2>2 DEF StoreExtent, Extent, EndOf
<1>1. StoreUsed = Used /\ \A i \in Slots : StoreExtent(i) = Extent(i)
  BY <1>0 DEF StoreUsed, Used
<1>2. 0 \in Slots
  BY SlotsAssumption DEF Slots
<1> QED
  BY <1>1, <1>2 DEF StoreExtentsDisjoint, ExtentsDisjoint, OneEntryBehind, StoreUsed

\* Every call changes one entry of the directory at most.
LEMMA CallChangesOneEntry ==
  ASSUME TypeOK, CNext
  PROVE  \E s \in Slots : \A i \in Slots \ {s} : dir'[i] = dir[i]
<1>0. 0 \in Slots
  BY SlotsAssumption DEF Slots
<1>1. ASSUME NEW s \in Slots, NEW e, dir' = [dir EXCEPT ![s] = e]
      PROVE  \A i \in Slots \ {s} : dir'[i] = dir[i]
  BY <1>1 DEF TypeOK
<1>2. ASSUME NEW u \in UserNames, NEW buf \in Buffers, CSave(u, buf)
      PROVE  \E s \in Slots : \A i \in Slots \ {s} : dir'[i] = dir[i]
  BY <1>1, <1>2, SaveSlotType DEF CSave, Save
<1>3. ASSUME NEW u \in UserNames, NEW v \in UserNames, CRename(u, v)
      PROVE  \E s \in Slots : \A i \in Slots \ {s} : dir'[i] = dir[i]
  <2>1. fs_find(Normalize(u)) \in Slots
    BY <1>3, FindType DEF CRename, Rename, Used
  <2> QED
    BY <1>3, <2>1 DEF CRename, Rename, TypeOK
<1>4. ASSUME NEW u \in UserNames, CDelete(u)
      PROVE  \E s \in Slots : \A i \in Slots \ {s} : dir'[i] = dir[i]
  BY <1>1, <1>4, FindType DEF CDelete, Delete, Used
<1>5. ASSUME NEW u \in UserNames, COpenWrite(u)
      PROVE  \E s \in Slots : \A i \in Slots \ {s} : dir'[i] = dir[i]
  BY <1>1, <1>5, SaveSlotType DEF COpenWrite, OpenWrite
<1>6. ASSUME NEW fd \in Fds, CClose(fd)
      PROVE  \E s \in Slots : \A i \in Slots \ {s} : dir'[i] = dir[i]
  <2>1. ofiles[fd].slot \in Slots
    BY DEF TypeOK, OpenFile
  <2> QED
    BY <1>6, <2>1 DEF CClose, Close, TypeOK
<1>7. CASE UNCHANGED dir
  BY <1>0, <1>7
<1> QED
  BY <1>2, <1>3, <1>4, <1>5, <1>6, <1>7, QuietCalls DEF CNext

(***************************************************************************)
(* The steps.                                                              *)
(***************************************************************************)
LEMMA StoreInit == SInit => StoreInv
<1> SUFFICES ASSUME SInit PROVE StoreInv
  OBVIOUS
<1>1. ExtentInv
  BY ExtentInit DEF SInit
<1>2. TypeOK /\ ExtentsDisjoint /\ sdir = dir /\ sdisk = disk /\ failures = 0
      /\ pending = Nothing
  BY <1>1 DEF SInit, ExtentInv
<1> QED
  BY <1>1, <1>2, NothingType, EqualDirectories
     DEF StoreInv, StoreTypes, Arrived, TypeOK

LEMMA CallStep == StoreInv /\ Call => StoreInv'
<1> SUFFICES ASSUME StoreInv, Call PROVE StoreInv'
  OBVIOUS
<1>1. ExtentInv'
  BY ExtentStep DEF StoreInv, Call
<1>2. UNCHANGED <<sdir, sdisk, failures>> /\ StoreTypes' /\ pending'.sync = FALSE
  BY DEF StoreInv, Call, store, StoreTypes
<1>3. InStep => sdir = dir /\ sdisk = disk
  BY NothingType DEF StoreInv, StoreTypes, ExtentInv, TypeOK, Call, Idle, Arrived
<1>4. Arrived'
  BY <1>2, <1>3 DEF Arrived, InStep, Call
<1>5. OneEntryBehind'
  <2>1. \E s \in Slots : \A i \in Slots \ {s} : dir'[i] = dir[i]
    BY CallChangesOneEntry DEF StoreInv, ExtentInv, Call
  <2> QED
    BY <1>2, <1>3, <2>1 DEF OneEntryBehind, InStep
<1>6. StoreExtentsDisjoint'
  BY <1>2 DEF StoreInv, StoreExtentsDisjoint, InStep, StoreUsed, StoreExtent
<1> QED
  BY <1>1, <1>2, <1>4, <1>5, <1>6 DEF StoreInv

\* A step that leaves the file system and the store's directory alone.
LEMMA DirectoriesKept ==
  ASSUME StoreInv, UNCHANGED cvars, sdir' = sdir, InStep' => InStep
  PROVE  ExtentInv' /\ OneEntryBehind' /\ StoreExtentsDisjoint'
<1>1. ExtentInv'
  BY ExtentStep DEF StoreInv
<1>2. UNCHANGED dir
  BY DEF cvars, vars
<1> QED
  BY <1>1, <1>2 DEF StoreInv, OneEntryBehind, StoreExtentsDisjoint, StoreUsed, StoreExtent

\* A step of the write-through after which the directories are equal.
LEMMA DirectoriesEqual ==
  ASSUME StoreInv, UNCHANGED cvars, sdir' = dir
  PROVE  ExtentInv' /\ OneEntryBehind' /\ StoreExtentsDisjoint'
<1>1. ExtentInv' /\ dir' = dir
  BY ExtentStep DEF StoreInv, cvars, vars
<1>2. ASSUME NEW i \in Slots PROVE StoreExtent(i)' = Extent(i)'
  <2>1. dir'[i].start \in Nat /\ SectorsOf(dir'[i].size) \in Nat
    BY <1>1, SectorsOfNat DEF ExtentInv, TypeOK, Dirent
  <2> QED
    BY <1>1, <2>1 DEF StoreExtent, Extent, EndOf
<1>3. StoreUsed' = Used'
  BY <1>1 DEF StoreUsed, Used
<1>4. StoreExtentsDisjoint'
  BY <1>1, <1>2, <1>3 DEF ExtentInv, ExtentsDisjoint, StoreExtentsDisjoint, StoreUsed
<1>5. OneEntryBehind'
  BY <1>1, SlotsAssumption DEF OneEntryBehind, Slots
<1> QED
  BY <1>1, <1>4, <1>5

LEMMA SyncStep == StoreInv /\ Sync => StoreInv'
<1> SUFFICES ASSUME StoreInv, Sync PROVE StoreInv'
  OBVIOUS
<1>1. UNCHANGED <<cvars, sdir, sdisk, failures>> /\ StoreTypes'
  BY DEF StoreInv, Sync, store, StoreTypes
<1>2. Arrived'
  BY DEF Arrived, Sync
<1> QED
  BY <1>1, <1>2, DirectoriesKept DEF StoreInv, InStep

LEMMA FailStep == StoreInv /\ WriteFails => StoreInv'
<1> SUFFICES ASSUME StoreInv, WriteFails PROVE StoreInv'
  OBVIOUS
<1>1. UNCHANGED <<cvars, sdir, sdisk>> /\ failures' = failures + 1
  BY DEF WriteFails, store
<1>2. StoreTypes' /\ ~InStep' /\ pending'.sync = FALSE
  BY <1>1, NothingType DEF StoreInv, StoreTypes, WriteFails, InStep
<1> QED
  BY <1>1, <1>2, DirectoriesKept DEF StoreInv, Arrived

LEMMA RestartStep == StoreInv /\ Restart => StoreInv'
<1> SUFFICES ASSUME StoreInv, Restart PROVE StoreInv'
  OBVIOUS
<1>1. /\ UNCHANGED <<sdir, sdisk, failures>> /\ failures = 0
      /\ dir' = sdir /\ disk' = sdisk /\ held' = {} /\ pending' = Nothing
      /\ ofiles' = [fd \in Fds |-> ClosedFile]
  BY DEF Restart, InStep, store
<1>2. TypeOK'
  BY <1>1, ConstantTypes DEF StoreInv, StoreTypes, TypeOK
<1>3. ExtentsDisjoint'
  <2>0. ASSUME NEW i \in Slots PROVE Extent(i)' = StoreExtent(i)
    <3>1. sdir[i].start \in Nat /\ SectorsOf(sdir[i].size) \in Nat
      BY SectorsOfNat DEF StoreInv, StoreTypes, Dirent
    <3> QED
      BY <1>1, <3>1 DEF StoreExtent, Extent, EndOf
  <2>1. Used' = StoreUsed /\ \A i \in Slots : Extent(i)' = StoreExtent(i)
    BY <1>1, <2>0 DEF StoreUsed, Used
  <2> QED
    BY <1>1, <2>1 DEF StoreInv, StoreExtentsDisjoint, ExtentsDisjoint, InStep, StoreUsed
<1>4. HeldAreOpen' /\ Writers' = {}
  BY <1>1 DEF HeldAreOpen, Writers
<1>5. ExtentInv'
  BY <1>2, <1>3, <1>4, NoWriters DEF ExtentInv
<1>6. StoreExtentsDisjoint' /\ OneEntryBehind'
  BY <1>1 DEF StoreInv, StoreExtentsDisjoint, OneEntryBehind, InStep, StoreUsed, StoreExtent
<1> QED
  BY <1>1, <1>5, <1>6, NothingType DEF StoreInv, StoreTypes, Arrived

LEMMA DataStep == ASSUME StoreInv, NEW l \in Lbas, DataReachesStore(l) PROVE StoreInv'
<1> DEFINE rest == [pending EXCEPT !.data = @ \ {l}]
<1>1. /\ UNCHANGED <<cvars, dir, disk, sdir>> /\ l \in pending.data
      /\ sdisk' = [sdisk EXCEPT ![l] = disk[l]] /\ Left(rest)
  BY DEF DataReachesStore, cvars, vars
<1>2. rest \in [data : SUBSET Lbas, dir : SUBSET Slots, sync : BOOLEAN]
      /\ rest.data = pending.data \ {l} /\ rest.dir = pending.dir
      /\ rest.sync = pending.sync
  BY DEF StoreInv, StoreTypes
<1>3. disk[l] \in Sector
  BY DEF StoreInv, ExtentInv, TypeOK
<1>4. /\ pending'.data = rest.data /\ pending'.dir = rest.dir
      /\ pending' \in [data : SUBSET Lbas, dir : SUBSET Slots, sync : BOOLEAN]
      /\ pending'.sync => pending.sync
      /\ failures' \in Nat /\ (InStep' => InStep \/ pending.sync)
      /\ failures' = failures \/ (pending' = Nothing /\ pending.sync)
  BY <1>1, <1>2, NothingType DEF Left, StoreInv, StoreTypes, InStep
<1>5. StoreTypes'
  BY <1>1, <1>3, <1>4 DEF StoreInv, StoreTypes
<1>6. Arrived'
  BY <1>1, <1>2, <1>4, <1>5 DEF StoreInv, StoreTypes, Arrived
<1>7. CASE failures' = failures
  BY <1>1, <1>5, <1>6, <1>7, DirectoriesKept DEF StoreInv, InStep
<1>8. CASE pending' = Nothing /\ pending.sync
  <2>1. sdir' = dir
    BY <1>1, <1>2, <1>4, <1>8, NothingType
       DEF StoreInv, Arrived, StoreTypes, ExtentInv, TypeOK
  <2> QED
    BY <1>1, <1>5, <1>6, <2>1, DirectoriesEqual DEF StoreInv
<1> QED
  BY <1>4, <1>7, <1>8

LEMMA DirStep == ASSUME StoreInv, NEW i \in Slots, DirReachesStore(i) PROVE StoreInv'
<1> DEFINE rest == [pending EXCEPT !.dir = @ \ {i}]
<1>1. /\ UNCHANGED <<cvars, dir, disk, sdisk>> /\ i \in pending.dir
      /\ sdir' = [sdir EXCEPT ![i] = dir[i]] /\ Left(rest)
  BY DEF DirReachesStore, cvars, vars
<1>2. rest \in [data : SUBSET Lbas, dir : SUBSET Slots, sync : BOOLEAN]
      /\ rest.dir = pending.dir \ {i} /\ rest.data = pending.data
      /\ rest.sync = pending.sync
  BY DEF StoreInv, StoreTypes
<1>3. dir \in [Slots -> Dirent] /\ sdir \in [Slots -> Dirent]
  BY DEF StoreInv, StoreTypes, ExtentInv, TypeOK
<1>4. /\ pending'.data = rest.data /\ pending'.dir = rest.dir
      /\ pending' \in [data : SUBSET Lbas, dir : SUBSET Slots, sync : BOOLEAN]
      /\ pending'.sync => pending.sync
      /\ failures' \in Nat /\ (InStep' => InStep \/ pending.sync)
      /\ failures' = failures \/ (pending' = Nothing /\ pending.sync)
  BY <1>1, <1>2, NothingType DEF Left, StoreInv, StoreTypes, InStep
<1>5. StoreTypes'
  BY <1>1, <1>3, <1>4 DEF StoreInv, StoreTypes
<1>6. Arrived'
  BY <1>1, <1>2, <1>4, <1>5 DEF StoreInv, StoreTypes, Arrived
<1>7. CASE failures' = failures /\ failures # 0
  <2>1. ExtentInv' /\ ~InStep'
    BY <1>1, <1>7, ExtentStep DEF StoreInv, InStep
  <2> QED
    BY <1>5, <1>6, <2>1 DEF StoreInv, OneEntryBehind, StoreExtentsDisjoint
<1>8. CASE failures' = failures /\ failures = 0
  <2>1. PICK s \in Slots : \A j \in Slots \ {s} : sdir[j] = dir[j]
    BY <1>8 DEF StoreInv, OneEntryBehind, InStep
  <2>2. CASE i = s
    <3>1. sdir' = dir
      BY <1>1, <1>3, <2>1, <2>2
    <3> QED
      BY <1>1, <1>5, <1>6, <3>1, DirectoriesEqual DEF StoreInv
  <2>3. CASE i # s
    <3>1. sdir' = sdir
      BY <1>1, <1>3, <2>1, <2>3
    <3> QED
      BY <1>1, <1>5, <1>6, <1>8, <3>1, DirectoriesKept DEF StoreInv, InStep
  <2> QED
    BY <2>2, <2>3
<1>9. CASE pending' = Nothing /\ pending.sync
  <2>1. sdir' = dir
    BY <1>1, <1>2, <1>3, <1>4, <1>5, <1>9, NothingType DEF StoreInv, Arrived, StoreTypes
  <2> QED
    BY <1>1, <1>5, <1>6, <2>1, DirectoriesEqual DEF StoreInv
<1> QED
  BY <1>4, <1>7, <1>8, <1>9

LEMMA StoreStep == StoreInv /\ [SNext]_svars => StoreInv'
<1> SUFFICES ASSUME StoreInv, [SNext]_svars PROVE StoreInv'
  OBVIOUS
<1>1. CASE UNCHANGED svars
  <2>1. UNCHANGED <<cvars, dir, disk, sdir, sdisk, pending, failures>>
    BY <1>1 DEF svars, cvars, vars
  <2> QED
    BY <2>1, DirectoriesKept DEF StoreInv, StoreTypes, Arrived, InStep
<1> QED
  BY <1>1, CallStep, SyncStep, FailStep, RestartStep, DataStep, DirStep DEF SNext

\* Between calls the store holds what the RAM disk holds, unless a write
\* failed since the last SYS_SYNC that went through: store_write_through
\* misses no sector, across any number of restarts.
THEOREM StoreStaysInStep == SSpec => []StoreInStep
<1>1. StoreInv => StoreInStep
  BY NothingType DEF StoreInv, StoreInStep, Arrived, StoreTypes, ExtentInv, TypeOK, Idle
<1> QED
  BY <1>1, StoreInit, StoreStep, PTL DEF SSpec

\* A crash between any two sectors of any call, with a drive that keeps what
\* it has accepted, leaves a directory on the store in which no two files
\* share a sector, and so does the boot that follows.
THEOREM RestartIsSafe == SSpec => [](StoreExtentsDisjoint /\ ExtentsDisjoint)
<1>1. StoreInv => StoreExtentsDisjoint /\ ExtentsDisjoint
  BY DEF StoreInv, ExtentInv
<1> QED
  BY <1>1, StoreInit, StoreStep, PTL DEF SSpec

(***************************************************************************)
(* The type invariant.                                                     *)
(***************************************************************************)
LEMMA FreshIsHeldStep == FreshIsHeld /\ [CNext]_cvars => FreshIsHeld'
<1> SUFFICES ASSUME FreshIsHeld, [CNext]_cvars PROVE FreshIsHeld'
  OBVIOUS
<1>1. ASSUME fresh' \subseteq fresh, held \subseteq held' PROVE FreshIsHeld'
  BY <1>1 DEF FreshIsHeld
<1>2. CASE \E u \in UserNames : COpenRead(u)
  BY <1>2 DEF COpenRead, FreshIsHeld
<1>3. CASE \E fd \in Fds : CClose(fd)
  BY <1>3 DEF CClose, Touch, FreshIsHeld
<1>4. CASE ProgramEnds
  BY <1>4 DEF ProgramEnds, FreshIsHeld
<1>5. CASE UNCHANGED cvars
  BY <1>1, <1>5 DEF cvars
<1> QED
  BY <1>1, <1>2, <1>3, <1>4, <1>5
     DEF CNext, CSave, CRename, CDelete, COpenWrite, CFRead, CFWrite, CSeek, Touch

STypeInv == StoreInv /\ FreshIsHeld /\ failures <= MaxFailures

LEMMA STypeStep == STypeInv /\ [SNext]_svars => STypeInv'
<1> SUFFICES ASSUME STypeInv, [SNext]_svars PROVE STypeInv'
  OBVIOUS
<1>1. StoreInv' /\ failures \in Nat /\ MaxFailures \in Nat
  BY StoreStep, StoreAssumption DEF STypeInv, StoreInv, StoreTypes
<1>2. ASSUME UNCHANGED failures, [CNext]_cvars PROVE STypeInv'
  BY <1>1, <1>2, FreshIsHeldStep DEF STypeInv
<1>3. ASSUME NEW rest, Left(rest), UNCHANGED cvars PROVE STypeInv'
  <2>1. failures' = 0 \/ failures' = failures
    BY <1>3 DEF Left
  <2> QED
    BY <1>1, <1>3, <2>1, FreshIsHeldStep DEF STypeInv
<1>4. CASE WriteFails
  <2>1. failures' = failures + 1 /\ failures < MaxFailures /\ UNCHANGED cvars
    BY <1>4 DEF WriteFails
  <2> QED
    BY <1>1, <2>1, FreshIsHeldStep DEF STypeInv
<1>5. CASE Restart
  BY <1>1, <1>5 DEF Restart, STypeInv, FreshIsHeld
<1>6. CASE Call
  BY <1>2, <1>6 DEF Call
<1>7. CASE Sync
  BY <1>2, <1>7 DEF Sync
<1>8. CASE UNCHANGED svars
  BY <1>2, <1>8 DEF svars
<1>9. ASSUME NEW l \in Lbas, DataReachesStore(l) PROVE STypeInv'
  BY <1>3, <1>9 DEF DataReachesStore
<1>10. ASSUME NEW i \in Slots, DirReachesStore(i) PROVE STypeInv'
  BY <1>3, <1>10 DEF DirReachesStore
<1> QED
  BY <1>4, <1>5, <1>6, <1>7, <1>8, <1>9, <1>10 DEF SNext

\* The fields of the file system and of its store keep their ranges through
\* write errors, crashes and boots.
THEOREM StoreTypeCorrect == SSpec => []STypeOK
<1>1. SInit => STypeInv
  BY StoreInit, StoreAssumption DEF SInit, CInit, STypeInv, FreshIsHeld
<1>2. STypeInv => STypeOK
  BY StoreAssumption
     DEF STypeInv, StoreInv, StoreTypes, ExtentInv, HeldAreOpen, FreshIsHeld, STypeOK, CTypeOK
<1> QED
  BY <1>1, <1>2, STypeStep, PTL DEF SSpec

(***************************************************************************)
(* Torn files.  Each sector of the store is as the call in progress found  *)
(* it or as it leaves it, the directory waits for the data, and the call   *)
(* overwrites the sectors of one file of the directory at most: one that   *)
(* keeps its name.                                                         *)
(***************************************************************************)
BeforeExtent(i) ==
  before.dir[i].start .. (before.dir[i].start + SectorsOf(before.dir[i].size)) - 1
BeforeUsed == {i \in Slots : before.dir[i].name.stem # ""}
SectorsKept(i) == \A l \in BeforeExtent(i) \cap Lbas : disk[l] = before.disk[l]

OneFileReplaced ==
  \E s \in Slots :
    /\ \A i \in Slots \ {s} : dir[i] = before.dir[i] /\ (i \in BeforeUsed => SectorsKept(i))
    /\ s \in BeforeUsed => SectorsKept(s) \/ dir[s].name = before.dir[s].name

OldOrNew ==
  /\ \A l \in Lbas : sdisk[l] \in {before.disk[l], disk[l]}
  /\ \A i \in Slots : sdir[i] \in {before.dir[i], dir[i]}
  /\ pending.data # {} => sdir = before.dir
  /\ pending.sync => dir = before.dir /\ disk = before.disk

TornInv ==
  /\ StoreInv
  /\ DirtyCacheAtPosition
  /\ before \in [dir : [Slots -> Dirent], disk : [Lbas -> Sector]]
  /\ NamesAreShort(dir) /\ NamesAreShort(sdir)
  /\ InStep => OneFileReplaced /\ OldOrNew

\* A call rewrites the sectors of one file at most, and that one under its name.
LEMMA CallReplacesOne ==
  ASSUME ShortNames, ExtentInv, ExtentInv', DirtyCacheAtPosition, NamesAreShort(dir), CNext
  PROVE  \E s \in Slots :
           /\ \A i \in Slots \ {s} : dir'[i] = dir[i] /\ (i \in Used => ExtentKept(i))
           /\ s \in Used => ExtentKept(s) \/ dir'[s].name = dir[s].name
<1> DEFINE Goal == \E s \in Slots :
             /\ \A i \in Slots \ {s} : dir'[i] = dir[i] /\ (i \in Used => ExtentKept(i))
             /\ s \in Used => ExtentKept(s) \/ dir'[s].name = dir[s].name
<1>0. TypeOK /\ TypeOK' /\ ExtentsDisjoint'
  BY DEF ExtentInv
<1>1. ASSUME NEW u \in UserNames, NEW buf \in Buffers, CSave(u, buf) PROVE Goal
  <2> DEFINE n == Normalize(u)
  <2>1. PICK s : s = SaveSlot(n)
    OBVIOUS
  <2>2. Save(u, buf) /\ s \in Slots /\ dir'[s].name = n
        /\ \A i \in Slots \ {s} : dir'[i] = dir[i]
    BY <1>0, <1>1, <2>1, SaveSlotType DEF CSave, Save, TypeOK
  <2>3. ASSUME NEW i \in Used, i # s PROVE ExtentKept(i)
    BY <1>0, <2>1, <2>2, <2>3, SaveElsewhere DEF ExtentKept
  <2>4. ASSUME s \in Used PROVE dir[s].name = n
    <3>1. Exists(n)
      BY <2>1, <2>2, <2>4, FreeSlotType DEF SaveSlot, Save
    <3>2. NameEqCi(dir[s].name, n)
      BY <2>1, <3>1, FindType DEF SaveSlot
    <3>3. dir[s].name \in KernelName /\ n \in KernelName
      BY <1>0, <2>2, NormalizeType DEF TypeOK, Dirent
    <3>4. dir[s].name.rest = "" /\ n.rest = ""
      BY <2>2, ShortName DEF NamesAreShort
    <3>5. ASSUME NEW a \in KernelName, NEW b \in KernelName,
                 a.stem = b.stem, a.c16 = b.c16, a.rest = b.rest
          PROVE  a = b
      BY <3>5 DEF KernelName
    <3> QED
      BY <3>2, <3>3, <3>4, <3>5 DEF NameEqCi
  <2> QED
    BY <2>2, <2>3, <2>4
<1>2. ASSUME UNCHANGED disk PROVE Goal
  <2>1. \A i \in Used : ExtentKept(i)
    BY <1>2 DEF ExtentKept
  <2>2. PICK s \in Slots : \A i \in Slots \ {s} : dir'[i] = dir[i]
    BY <1>0, CallChangesOneEntry
  <2> QED
    BY <2>1, <2>2
<1>3. ASSUME NEW fd \in Fds,
             (\E buf \in Buffers : CFWrite(fd, buf))
               \/ (CClose(fd) /\ ofiles[fd].mode = "write")
      PROVE  Goal
  <2>1. \A i \in Used : ExtentKept(i)
    BY <1>3, WriterKeepsExtents
  <2>2. PICK s \in Slots : \A i \in Slots \ {s} : dir'[i] = dir[i]
    BY <1>0, CallChangesOneEntry
  <2> QED
    BY <2>1, <2>2
<1>4. ASSUME NEW fd \in Fds, CClose(fd), ofiles[fd].mode # "write" PROVE UNCHANGED disk
  BY <1>4 DEF CClose, Close
<1>5. ASSUME NEW fd \in Fds, NEW pos \in Offsets, CSeek(fd, pos) PROVE UNCHANGED disk
  BY <1>5 DEF CSeek, Seek, Writers
<1> HIDE DEF Goal
<1>6. Goal
  BY <1>1, <1>2, <1>3, <1>4, <1>5
     DEF CNext, CRename, Rename, CDelete, Delete, COpenRead, OpenRead, COpenWrite,
         OpenWrite, CFRead, FRead, ProgramEnds, vars
<1> QED
  BY <1>6 DEF Goal

\* Store, RAM disk and the store before the call are equal.
AllEqual == /\ sdir = dir /\ sdisk = disk
            /\ before.dir = dir /\ before.disk = disk

LEMMA AllEqualTearsNothing == AllEqual => OneFileReplaced /\ OldOrNew
<1>1. 0 \in Slots
  BY SlotsAssumption DEF Slots
<1> QED
  BY <1>1 DEF AllEqual, OneFileReplaced, OldOrNew, SectorsKept

LEMMA TornInit == SInit /\ ShortNames => TornInv
<1> SUFFICES ASSUME SInit, ShortNames PROVE TornInv
  OBVIOUS
<1>1. StoreInv /\ Init /\ AllEqual
  BY StoreInit DEF SInit, CInit, AllEqual
<1>2. \A i \in Slots : dir[i] = ZeroDirent
  BY <1>1 DEF Init
<1>3. NamesAreShort(dir)
  <2>1. ZeroDirent.name.c16 = "" /\ ZeroDirent.name.rest = ""
    BY DEF ZeroDirent, NoName
  <2> QED
    BY <1>2, <2>1 DEF NamesAreShort
<1>4. before = [dir |-> dir, disk |-> disk] /\ TypeOK
  BY <1>1 DEF SInit, StoreInv, ExtentInv
<1> QED
  BY <1>1, <1>3, <1>4, DirtyCacheInit, AllEqualTearsNothing
     DEF TornInv, AllEqual, TypeOK

LEMMA TornCall == ASSUME ShortNames, TornInv, Call PROVE TornInv'
<1>1. StoreInv' /\ ExtentInv /\ ExtentInv'
  BY CallStep DEF TornInv, StoreInv
<1>2. TypeOK /\ CNext /\ UNCHANGED <<sdir, sdisk, failures>>
      /\ before' = [dir |-> sdir, disk |-> sdisk] /\ pending'.sync = FALSE
  BY <1>1 DEF ExtentInv, Call, store, Remember
<1>3. DirtyCacheAtPosition'
  BY <1>2, ClientStepIsStep, DirtyCacheStep DEF TornInv
<1>4. NamesAreShort(dir') /\ NamesAreShort(sdir')
  BY <1>2, NamesStayShort DEF TornInv
<1>5. before' \in [dir : [Slots -> Dirent], disk : [Lbas -> Sector]]
      /\ before'.dir = sdir /\ before'.disk = sdisk
  BY <1>2 DEF TornInv, StoreInv, StoreTypes
<1>6. ASSUME InStep' PROVE OneFileReplaced' /\ OldOrNew'
  <2>1. sdir = dir /\ sdisk = disk
    BY <1>2, <1>6, NothingType
       DEF TornInv, StoreInv, StoreTypes, ExtentInv, TypeOK, Call, Idle, Arrived, InStep
  <2>2. BeforeUsed' = Used /\ \A i \in Slots : BeforeExtent(i)' = Extent(i)
    BY <1>5, <2>1 DEF BeforeUsed, Used, BeforeExtent, Extent, EndOf
  <2>3. \A i \in Slots : SectorsKept(i)' <=> ExtentKept(i)
    BY <1>5, <2>1, <2>2 DEF SectorsKept, ExtentKept
  <2>4. OneFileReplaced'
    <3>1. PICK s \in Slots :
            /\ \A i \in Slots \ {s} : dir'[i] = dir[i] /\ (i \in Used => ExtentKept(i))
            /\ s \in Used => ExtentKept(s) \/ dir'[s].name = dir[s].name
      BY <1>1, <1>2, CallReplacesOne DEF TornInv
    <3> QED
      BY <1>5, <2>1, <2>2, <2>3, <3>1 DEF OneFileReplaced
  <2>5. OldOrNew'
    BY <1>2, <1>5 DEF OldOrNew
  <2> QED
    BY <2>4, <2>5
<1> QED
  BY <1>1, <1>3, <1>4, <1>5, <1>6 DEF TornInv

\* A step after which everything is equal if no error is outstanding.
LEMMA TornEqual ==
  ASSUME StoreInv', DirtyCacheAtPosition', NamesAreShort(dir'), NamesAreShort(sdir'),
         before' = [dir |-> sdir', disk |-> sdisk'],
         InStep' => sdir' = dir' /\ sdisk' = disk'
  PROVE  TornInv'
<1>1. before' \in [dir : [Slots -> Dirent], disk : [Lbas -> Sector]]
      /\ before'.dir = sdir' /\ before'.disk = sdisk'
  BY DEF StoreInv, StoreTypes
<1>2. AllEqual' => OneFileReplaced' /\ OldOrNew'
  BY AllEqualTearsNothing, PTL
<1>3. InStep' => AllEqual'
  BY <1>1 DEF AllEqual
<1> QED
  BY <1>1, <1>2, <1>3 DEF TornInv

\* The last sector of a call has arrived.
LEMMA TornDone ==
  ASSUME StoreInv', DirtyCacheAtPosition', NamesAreShort(dir'), NamesAreShort(sdir'),
         before' = [dir |-> sdir', disk |-> sdisk'], pending' = Nothing
  PROVE  TornInv'
<1>1. InStep' => sdir' = dir' /\ sdisk' = disk'
  BY NothingType DEF StoreInv, StoreTypes, ExtentInv, TypeOK, Arrived
<1> QED
  BY <1>1, TornEqual

LEMMA TornSync == ASSUME TornInv, Sync PROVE TornInv'
<1>1. StoreInv' /\ UNCHANGED <<dir, disk, ofiles, sdir, sdisk, failures>>
      /\ before' = [dir |-> sdir', disk |-> sdisk']
  BY SyncStep DEF TornInv, Sync, cvars, vars, store, Remember
<1>2. DirtyCacheAtPosition' /\ NamesAreShort(dir') /\ NamesAreShort(sdir')
  BY <1>1 DEF TornInv, DirtyCacheAtPosition, LbaAt
<1>3. InStep' => sdir' = dir' /\ sdisk' = disk'
  BY <1>1, NothingType
     DEF TornInv, StoreInv, StoreTypes, ExtentInv, TypeOK, Sync, Idle, Arrived, InStep
<1> QED
  BY <1>1, <1>2, <1>3, TornEqual

LEMMA TornFails == ASSUME TornInv, WriteFails PROVE TornInv'
<1>1. StoreInv' /\ UNCHANGED <<dir, disk, ofiles, sdir, sdisk>>
      /\ before' = [dir |-> sdir', disk |-> sdisk'] /\ failures' = failures + 1
  BY FailStep DEF TornInv, WriteFails, cvars, vars, store, Remember
<1>2. DirtyCacheAtPosition' /\ NamesAreShort(dir') /\ NamesAreShort(sdir')
  BY <1>1 DEF TornInv, DirtyCacheAtPosition, LbaAt
<1>3. ~InStep'
  BY <1>1 DEF TornInv, StoreInv, StoreTypes, InStep
<1> QED
  BY <1>1, <1>2, <1>3, TornEqual

LEMMA TornRestart == ASSUME TornInv, Restart PROVE TornInv'
<1>1. StoreInv' /\ dir' = sdir' /\ disk' = sdisk' /\ sdir' = sdir
      /\ before' = [dir |-> sdir', disk |-> sdisk']
      /\ ofiles' = [fd \in Fds |-> ClosedFile]
  BY RestartStep DEF TornInv, Restart, store, Remember
<1>2. DirtyCacheAtPosition'
  BY <1>1 DEF DirtyCacheAtPosition, ClosedFile, NoCache
<1>3. NamesAreShort(dir') /\ NamesAreShort(sdir')
  BY <1>1 DEF TornInv
<1> QED
  BY <1>1, <1>2, <1>3, TornEqual

\* A sector reaches the store, and it is not the last one.
LEMMA TornMore ==
  ASSUME TornInv, StoreInv', DirtyCacheAtPosition', NamesAreShort(sdir'),
         UNCHANGED <<dir, disk, before, failures>>, InStep => OldOrNew'
  PROVE  TornInv'
<1>1. OneFileReplaced <=> OneFileReplaced'
  BY DEF OneFileReplaced, SectorsKept, BeforeExtent, BeforeUsed
<1> QED
  BY <1>1 DEF TornInv, InStep

LEMMA TornData == ASSUME TornInv, NEW l \in Lbas, DataReachesStore(l) PROVE TornInv'
<1> DEFINE rest == [pending EXCEPT !.data = @ \ {l}]
<1>1. /\ StoreInv' /\ UNCHANGED <<dir, disk, ofiles, sdir>> /\ l \in pending.data
      /\ sdisk' = [sdisk EXCEPT ![l] = disk[l]] /\ Left(rest)
  BY DataStep DEF TornInv, DataReachesStore, cvars, vars
<1>2. DirtyCacheAtPosition' /\ NamesAreShort(dir') /\ NamesAreShort(sdir')
  BY <1>1 DEF TornInv, DirtyCacheAtPosition, LbaAt
<1>3. CASE rest.data = {} /\ rest.dir = {}
  BY <1>1, <1>2, <1>3, TornDone DEF Left
<1>4. CASE ~ (rest.data = {} /\ rest.dir = {})
  <2>1. pending' = rest /\ UNCHANGED <<before, failures>>
    BY <1>1, <1>4 DEF Left
  <2>2. rest.sync = pending.sync
    BY DEF TornInv, StoreInv, StoreTypes
  <2>3. \A k \in Lbas : sdisk'[k] = IF k = l THEN disk[k] ELSE sdisk[k]
    BY <1>1 DEF TornInv, StoreInv, StoreTypes
  <2>4. ASSUME InStep PROVE OldOrNew'
    <3>1. OldOrNew
      BY <2>4 DEF TornInv
    <3> HIDE DEF rest
    <3> QED
      BY <1>1, <2>1, <2>2, <2>3, <3>1 DEF OldOrNew
  <2> QED
    BY <1>1, <1>2, <2>1, <2>4, TornMore
<1> QED
  BY <1>3, <1>4

LEMMA TornDir == ASSUME TornInv, NEW i \in Slots, DirReachesStore(i) PROVE TornInv'
<1> DEFINE rest == [pending EXCEPT !.dir = @ \ {i}]
<1>1. /\ StoreInv' /\ UNCHANGED <<dir, disk, ofiles, sdisk>> /\ i \in pending.dir
      /\ pending.data = {} \/ pending.sync
      /\ sdir' = [sdir EXCEPT ![i] = dir[i]] /\ Left(rest)
  BY DirStep DEF TornInv, DirReachesStore, cvars, vars
<1>2. \A j \in Slots : sdir'[j] = IF j = i THEN dir[j] ELSE sdir[j]
  BY <1>1 DEF TornInv, StoreInv, StoreTypes
<1>3. DirtyCacheAtPosition' /\ NamesAreShort(dir') /\ NamesAreShort(sdir')
  <2>1. DirtyCacheAtPosition' /\ NamesAreShort(dir')
    BY <1>1 DEF TornInv, DirtyCacheAtPosition, LbaAt
  <2>2. NamesAreShort(dir) /\ NamesAreShort(sdir)
    BY DEF TornInv
  <2> QED
    BY <1>2, <2>1, <2>2 DEF NamesAreShort
<1>4. CASE rest.data = {} /\ rest.dir = {}
  BY <1>1, <1>3, <1>4, TornDone DEF Left
<1>5. CASE ~ (rest.data = {} /\ rest.dir = {})
  <2>1. pending' = rest /\ UNCHANGED <<before, failures>>
    BY <1>1, <1>5 DEF Left
  <2>2. rest.sync = pending.sync /\ rest.data = pending.data
    BY DEF TornInv, StoreInv, StoreTypes
  <2>3. ASSUME InStep PROVE OldOrNew'
    <3>1. OldOrNew
      BY <2>3 DEF TornInv
    <3>2. pending.data # {} => sdir' = before.dir
      <4>1. SUFFICES ASSUME pending.data # {} PROVE sdir' = before.dir
        OBVIOUS
      <4>2. sdir = before.dir /\ dir = before.dir
        BY <1>1, <3>1, <4>1 DEF OldOrNew
      <4>3. sdir \in [Slots -> Dirent]
        BY DEF TornInv, StoreInv, StoreTypes
      <4> QED
        BY <1>1, <4>2, <4>3
    <3> HIDE DEF rest
    <3> QED
      BY <1>1, <1>2, <2>1, <2>2, <3>1, <3>2 DEF OldOrNew
  <2> QED
    BY <1>1, <1>3, <2>1, <2>3, TornMore
<1> QED
  BY <1>4, <1>5

LEMMA TornStep == ASSUME ShortNames PROVE TornInv /\ [SNext]_svars => TornInv'
<1> SUFFICES ASSUME TornInv, [SNext]_svars PROVE TornInv'
  OBVIOUS
<1>1. CASE UNCHANGED svars
  <2>1. StoreInv'
    BY StoreStep DEF TornInv
  <2>2. UNCHANGED <<dir, disk, ofiles, sdir, sdisk, pending, before, failures>>
    BY <1>1 DEF svars, cvars, vars
  <2>3. DirtyCacheAtPosition' /\ NamesAreShort(sdir')
    BY <2>2 DEF TornInv, DirtyCacheAtPosition, LbaAt
  <2>4. InStep => OldOrNew'
    BY <2>2 DEF TornInv, OldOrNew
  <2> QED
    BY <2>1, <2>2, <2>3, <2>4, TornMore
<1> QED
  BY <1>1, TornCall, TornSync, TornFails, TornRestart, TornData, TornDir DEF SNext

\* A file of one directory and disk equals that of another when its entry
\* and its sectors do.
LEMMA SameFileIn ==
  ASSUME NEW d, NEW s, NEW d2, NEW s2, NEW i, d[i] \in Dirent, d2[i] = d[i],
         \A l \in (d[i].start .. (d[i].start + SectorsOf(d[i].size)) - 1) \cap Lbas :
           s2[l] = s[l]
  PROVE  FileIn(d2, s2, i) = FileIn(d, s, i)
<1>1. d[i].start \in Nat /\ d[i].size \in Nat /\ SectorsOf(d[i].size) \in Nat
  BY SectorsOfNat DEF Dirent
<1>2. ASSUME NEW p \in 1 .. d[i].size
      PROVE  ReadSector(s2, d[i].start + (p - 1) \div SectorSize)
               = ReadSector(s, d[i].start + (p - 1) \div SectorSize)
  <2>1. PICK q : q = (p - 1) \div SectorSize
    OBVIOUS
  <2>2. q \in 0 .. SectorsOf(d[i].size) - 1
    <3>1. PICK r \in 0 .. d[i].size - 1 : r = p - 1
      BY <1>1
    <3> QED
      BY <1>1, <2>1, <3>1, SectorIndex
  <2>3. PICK l : l = d[i].start + q
    OBVIOUS
  <2>4. l \in Int /\ l \in d[i].start .. (d[i].start + SectorsOf(d[i].size)) - 1
    BY <1>1, <2>2, <2>3
  <2>5. RangeOk(l, 1) => l \in Lbas
    BY <2>4, GeometryAssumption DEF RangeOk, Lbas
  <2>6. ReadSector(s2, l) = ReadSector(s, l)
    BY <2>4, <2>5 DEF ReadSector
  <2> QED
    BY <2>1, <2>3, <2>6
<1> QED
  BY <1>2 DEF FileIn

\* A torn file is one whose sectors the call in progress rewrites.
LEMMA TornIsRewritten ==
  ASSUME TornInv, InStep, NEW i \in Slots, Torn(i)
  PROVE  i \in BeforeUsed /\ ~SectorsKept(i) /\ before.dir[i].size > 0
<1>1. /\ OldOrNew /\ sdir[i] \in Dirent /\ before.dir[i] \in Dirent /\ dir[i] \in Dirent
      /\ i \in StoreUsed
      /\ FileIn(sdir, sdisk, i) # FileIn(before.dir, before.disk, i)
      /\ FileIn(sdir, sdisk, i) # FileIn(dir, disk, i)
  BY DEF TornInv, StoreInv, StoreTypes, ExtentInv, TypeOK, Torn
<1>2. sdir[i] = before.dir[i]
  <2>1. SUFFICES ASSUME sdir[i] # before.dir[i] PROVE FALSE
    OBVIOUS
  <2>2. sdir[i] = dir[i] /\ pending.data = {}
    BY <1>1, <2>1 DEF OldOrNew
  <2>3. \A l \in Lbas : sdisk[l] = disk[l]
    BY <2>2 DEF TornInv, StoreInv, Arrived
  <2> QED
    BY <1>1, <2>2, <2>3, SameFileIn
<1>3. ~SectorsKept(i)
  <2>1. SUFFICES ASSUME SectorsKept(i) PROVE FALSE
    OBVIOUS
  <2>2. \A l \in BeforeExtent(i) \cap Lbas : sdisk[l] = before.disk[l]
    BY <1>1, <2>1 DEF OldOrNew, SectorsKept
  <2> QED
    BY <1>1, <1>2, <2>2, SameFileIn DEF BeforeExtent
<1>4. before.dir[i].size > 0
  <2>1. /\ before.dir[i].start \in Nat /\ before.dir[i].size \in Nat
        /\ before.dir[i].size = 0 => SectorsOf(before.dir[i].size) = 0
    BY <1>1, SectorsOfNat DEF Dirent
  <2>2. BeforeExtent(i) # {}
    BY <1>3 DEF SectorsKept
  <2> QED
    BY <2>1, <2>2 DEF BeforeExtent
<1> QED
  BY <1>1, <1>2, <1>3, <1>4 DEF BeforeUsed, StoreUsed

\* With names of at most 15 characters and a drive that keeps what it has
\* accepted, a crash between any two sectors of any call leaves every file on the store as it was before the call or as
\* the call leaves it; all it can tear is the one file that a SYS_SAVE was
\* replacing, which keeps its name.
THEOREM CrashIsContained ==
  ShortNames => (SSpec => []CrashTearsOnlyAReplacedFile)
<1> SUFFICES ASSUME ShortNames PROVE SSpec => []CrashTearsOnlyAReplacedFile
  OBVIOUS
<1>1. SInit => TornInv
  BY TornInit
<1>2. TornInv /\ [SNext]_svars => TornInv'
  BY TornStep
<1>3. TornInv => CrashTearsOnlyAReplacedFile
  <2> SUFFICES ASSUME TornInv, InStep, NEW i \in Slots, Torn(i)
               PROVE  /\ dir[i].name = before.dir[i].name /\ before.dir[i].size > 0
                      /\ \A j \in Slots : Torn(j) => j = i
    BY DEF CrashTearsOnlyAReplacedFile
  <2>1. PICK s \in Slots :
          /\ \A j \in Slots \ {s} : j \in BeforeUsed => SectorsKept(j)
          /\ s \in BeforeUsed => SectorsKept(s) \/ dir[s].name = before.dir[s].name
    BY DEF TornInv, OneFileReplaced
  <2>2. \A j \in Slots : Torn(j) => j = s
    BY <2>1, TornIsRewritten
  <2> QED
    BY <2>1, <2>2, TornIsRewritten
<1> QED
  BY <1>1, <1>2, <1>3, PTL DEF SSpec

(***************************************************************************)
(* Refinement of DurableMap.  The directory and the sectors of the store   *)
(* before the call in progress are kept as good as those of the RAM disk.  *)
(***************************************************************************)
FitsIn(d) ==
  \A i \in UsedIn(d) : d[i].size > 0 => RangeOk(d[i].start, SectorsOf(d[i].size))

GoodDir(d) ==
  /\ UniqueIn(d) /\ NamesAreShort(d) /\ FitsIn(d)
  /\ \A i \in UsedIn(d) : d[i].start >= DataLba

BeforeIsNow == before.dir = dir /\ before.disk = disk

\* A file that is replaced by one of its size stays where it is.
SameSizeStays ==
  \A i \in BeforeUsed :
    dir[i].size = before.dir[i].size /\ dir[i].size > 0 => dir[i].start = before.dir[i].start

GoodBefore ==
  InStep => GoodDir(before.dir) /\ SameSizeStays /\ (Idle => BeforeIsNow)

DurableInv == RefInv /\ TornInv /\ GoodBefore

LEMMA RefIsGood == RefInv => GoodDir(dir)
<1> SUFFICES ASSUME RefInv PROVE GoodDir(dir)
  OBVIOUS
<1>1. UniqueIn(dir) /\ NamesAreShort(dir)
  BY UniqueKeys DEF RefInv
<1>2. FitsIn(dir)
  BY UsedIs DEF RefInv, ReaderInv, FilesFit, FitsIn
<1>3. \A i \in UsedIn(dir) : dir[i].start >= DataLba
  BY UsedIs DEF RefInv, ReaderInv, DataPastDirectory
<1> QED
  BY <1>1, <1>2, <1>3 DEF GoodDir

LEMMA RefIsGoodPrime == RefInv' => GoodDir(dir')
<1> SUFFICES ASSUME RefInv' PROVE GoodDir(dir')
  OBVIOUS
<1>1. UniqueIn(dir') /\ NamesAreShort(dir')
  BY UniqueKeysPrime DEF RefInv, NamesAreShort
<1>2. FitsIn(dir')
  BY UsedIs DEF RefInv, ReaderInv, FilesFit, FitsIn
<1>3. \A i \in UsedIn(dir') : dir'[i].start >= DataLba
  BY UsedIs DEF RefInv, ReaderInv, DataPastDirectory
<1> QED
  BY <1>1, <1>2, <1>3 DEF GoodDir

\* The store has just caught up, or nothing has happened yet.
LEMMA GoodNow == ASSUME RefInv, BeforeIsNow PROVE GoodBefore
<1>1. GoodDir(before.dir)
  BY RefIsGood DEF BeforeIsNow
<1> QED
  BY <1>1 DEF GoodBefore, BeforeIsNow, SameSizeStays

LEMMA GoodNowPrime == ASSUME RefInv', InStep' => BeforeIsNow' PROVE GoodBefore'
<1>1. InStep' => GoodDir(before'.dir)
  BY RefIsGoodPrime DEF BeforeIsNow
<1>2. InStep' => SameSizeStays'
  BY DEF BeforeIsNow, SameSizeStays
<1>3. InStep' => GoodDir(before.dir)'
  BY <1>1 DEF GoodDir, UniqueIn, UsedIn, NamesAreShort, FitsIn
<1> QED
  BY <1>2, <1>3 DEF GoodBefore

\* The directory on the store is the one before the call or the one after it.
LEMMA StoreDirIsOne ==
  ASSUME TornInv, InStep
  PROVE  sdir = before.dir \/ sdir = dir
<1>1. PICK s \in Slots : \A i \in Slots \ {s} : dir[i] = before.dir[i]
  BY DEF TornInv, OneFileReplaced
<1>2. /\ \A i \in Slots : sdir[i] \in {before.dir[i], dir[i]}
      /\ sdir \in [Slots -> Dirent] /\ dir \in [Slots -> Dirent] /\ before.dir \in [Slots -> Dirent]
  BY DEF TornInv, OldOrNew, StoreInv, StoreTypes, ExtentInv, TypeOK
<1>3. CASE sdir[s] = before.dir[s]
  <2>1. \A i \in Slots : sdir[i] = before.dir[i]
    BY <1>1, <1>2, <1>3
  <2> QED
    BY <1>2, <2>1
<1>4. CASE sdir[s] = dir[s]
  <2>1. \A i \in Slots : sdir[i] = dir[i]
    BY <1>1, <1>2, <1>4
  <2> QED
    BY <1>2, <2>1
<1> QED
  BY <1>2, <1>3, <1>4

LEMMA CallKeepsStart ==
  ASSUME ExtentInv, CNext, NEW i \in Used, dir'[i].size = dir[i].size, dir[i].size > 0
  PROVE  dir'[i].start = dir[i].start
<1>0. TypeOK /\ i \in Slots
  BY DEF ExtentInv, Used
<1>1. ASSUME NEW u \in UserNames, NEW buf \in Buffers, CSave(u, buf)
      PROVE  dir'[i].start = dir[i].start
  <2>1. PICK n, s : n = Normalize(u) /\ s = SaveSlot(n)
    OBVIOUS
  <2>2. s \in Slots /\ (Exists(n) \/ Room)
    BY <1>1, <2>1, SaveSlotType DEF CSave, Save
  <2>3. /\ dir'[s].start = SaveStart(n, Len(buf)) /\ dir'[s].size = Len(buf)
        /\ \A j \in Slots \ {s} : dir'[j] = dir[j]
    BY <1>0, <1>1, <2>1, <2>2 DEF CSave, Save, TypeOK
  <2>4. CASE i = s
    <3>1. Exists(n)
      BY <2>1, <2>2, <2>4, FreeSlotType DEF SaveSlot
    <3>2. s = fs_find(n) /\ SectorsOf(Len(buf)) = SectorsOf(dir[s].size)
      BY <2>1, <2>3, <2>4, <3>1 DEF SaveSlot
    <3>3. SectorsOf(dir[s].size) \in Nat
      BY <1>0, <2>2, SectorsOfNat DEF TypeOK, Dirent
    <3>4. FitsInPlace(n, Len(buf))
      BY <3>1, <3>2, <3>3 DEF FitsInPlace
    <3> QED
      BY <2>3, <2>4, <3>2, <3>4 DEF SaveStart
  <2>5. CASE i # s
    BY <1>0, <2>3, <2>5
  <2> QED
    BY <2>4, <2>5
<1>2. ASSUME NEW u \in UserNames, COpenWrite(u) PROVE dir'[i].start = dir[i].start
  <2>1. PICK s : s = SaveSlot(Normalize(u))
    OBVIOUS
  <2>2. s \in Slots
    BY <1>2, <2>1, SaveSlotType DEF COpenWrite, OpenWrite
  <2>3. dir'[s].size = 0 /\ \A j \in Slots \ {s} : dir'[j] = dir[j]
    BY <1>0, <1>2, <2>1, <2>2 DEF COpenWrite, OpenWrite, TypeOK
  <2>4. ~ (0 > 0)
    OBVIOUS
  <2>5. i # s
    BY <2>3, <2>4, Zenon
  <2> QED
    BY <1>0, <2>3, <2>5
<1>3. ASSUME NEW u \in UserNames, CDelete(u) PROVE dir'[i].start = dir[i].start
  <2>1. PICK s : s = fs_find(Normalize(u))
    OBVIOUS
  <2>2. s \in Slots
    BY <1>3, <2>1, FindType DEF CDelete, Delete, Used
  <2>3. dir'[s] = ZeroDirent /\ \A j \in Slots \ {s} : dir'[j] = dir[j]
    BY <1>0, <1>3, <2>1, <2>2 DEF CDelete, Delete, TypeOK
  <2>4. ~ (0 > 0)
    OBVIOUS
  <2>5. i # s
    BY <2>3, <2>4, ZeroIsFree, Zenon
  <2> QED
    BY <1>0, <2>3, <2>5
<1>4. ASSUME NEW u \in UserNames, NEW v \in UserNames, CRename(u, v)
      PROVE  dir'[i].start = dir[i].start
  BY <1>0, <1>4 DEF CRename, Rename, TypeOK, Dirent
<1>5. ASSUME NEW fd \in Fds, CClose(fd) PROVE dir'[i].start = dir[i].start
  <2>1. CASE ofiles[fd].mode = "write"
    <3>1. fd \in Writers
      BY <1>5, <2>1 DEF CClose, Writers
    <3>2. PICK s : s = ofiles[fd].slot
      OBVIOUS
    <3>3. s \in Slots /\ dir[s].size = 0
      BY <1>0, <3>1, <3>2 DEF TypeOK, OpenFile, ExtentInv, WriterOwnsTheTail
    <3>4. \A j \in Slots \ {s} : dir'[j] = dir[j]
      BY <1>0, <1>5, <2>1, <3>2, <3>3 DEF CClose, Close, TypeOK
    <3>5. ~ (0 > 0)
      OBVIOUS
    <3>6. i # s
      BY <3>3, <3>5, Zenon
    <3> QED
      BY <1>0, <3>4, <3>6
  <2>2. CASE ofiles[fd].mode # "write"
    BY <1>5, <2>2 DEF CClose, Close
  <2> QED
    BY <2>1, <2>2
<1>6. ASSUME UNCHANGED dir PROVE dir'[i].start = dir[i].start
  BY <1>6
<1> QED
  BY <1>1, <1>2, <1>3, <1>4, <1>5, <1>6, QuietCalls DEF CNext

LEMMA DurableInit == SInit /\ ShortNames => DurableInv
<1> SUFFICES ASSUME SInit, ShortNames PROVE DurableInv
  OBVIOUS
<1>1. RefInv /\ TornInv
  BY RefInit, TornInit DEF SInit
<1>2. BeforeIsNow
  BY DEF SInit, BeforeIsNow
<1> QED
  BY <1>1, <1>2, GoodNow DEF DurableInv

\* What has arrived when nothing is left to arrive.
LEMMA IdleIsEqual == ASSUME StoreInv, Idle, InStep PROVE sdir = dir /\ sdisk = disk
BY NothingType DEF StoreInv, StoreTypes, ExtentInv, TypeOK, Idle, Arrived

LEMMA IdleIsEqualPrime == ASSUME StoreInv', Idle', InStep' PROVE sdir' = dir' /\ sdisk' = disk'
BY NothingType DEF StoreInv, StoreTypes, ExtentInv, TypeOK, Idle, Arrived

\* The boot finds a directory as good as the one in use.
LEMMA RestartKeepsRef == ASSUME DurableInv, Restart PROVE RefInv'
<1>1. /\ dir' = sdir /\ held' = {} /\ fresh' = {}
      /\ ofiles' = [fd \in Fds |-> ClosedFile] /\ InStep
  BY DEF Restart
<1>2. TornInv'
  BY TornRestart DEF DurableInv
<1>3. GoodDir(dir')
  <2>1. GoodDir(before.dir) /\ GoodDir(dir)
    BY <1>1, RefIsGood DEF DurableInv, GoodBefore
  <2> QED
    BY <1>1, <2>1, StoreDirIsOne DEF DurableInv
<1>4. UniqueNames' /\ NamesAreShort(dir)'
  BY <1>2, <1>3, UniqueKeysPrime DEF GoodDir, TornInv
<1>5. Writers' = {}
  BY <1>1 DEF Writers
<1>6. DataPastDirectory'
  <2>1. \A fd \in Fds : ~ofiles'[fd].used
    BY <1>1 DEF ClosedFile
  <2> QED
    BY <1>3, <2>1, UsedIs DEF DataPastDirectory, GoodDir
<1>7. FilesFit'
  BY <1>3, <1>5, UsedIs DEF FilesFit, GoodDir, FitsIn, RangeOk, SectorsOf
<1>8. FreshIsHeld' /\ FreshFollowsEntry' /\ WritersAtEnd'
  BY <1>1, <1>5 DEF FreshIsHeld, FreshFollowsEntry, WritersAtEnd
<1> QED
  BY <1>2, <1>4, <1>6, <1>7, <1>8 DEF RefInv, ReaderInv, TornInv, StoreInv

LEMMA DurableRef ==
  ASSUME ShortNames, DurableInv, [SNext]_svars
  PROVE  RefInv' /\ TornInv'
<1>1. TornInv'
  BY TornStep DEF DurableInv
<1>2. Call => RefInv'
  BY RefStep DEF DurableInv, Call
<1>3. UNCHANGED cvars => RefInv'
  BY RefStep DEF DurableInv
<1>4. Restart => RefInv'
  BY RestartKeepsRef
<1>5. Call \/ Restart \/ UNCHANGED cvars
  BY DEF SNext, Sync, DataReachesStore, DirReachesStore, WriteFails, svars
<1> QED
  BY <1>1, <1>2, <1>3, <1>4, <1>5

LEMMA GoodCall == ASSUME ShortNames, DurableInv, RefInv', TornInv', Call PROVE GoodBefore'
<1> SUFFICES ASSUME InStep'
             PROVE  GoodDir(before.dir)' /\ SameSizeStays' /\ (Idle' => BeforeIsNow')
  BY DEF GoodBefore
<1>1. /\ InStep /\ Idle /\ CNext /\ before' = [dir |-> sdir, disk |-> sdisk]
      /\ pending' = [data |-> {l \in Lbas : disk'[l] # disk[l]},
                     dir |-> IF dir' = dir THEN {} ELSE Slots, sync |-> FALSE]
  BY DEF Call, Remember, InStep
<1>2. before'.dir = dir /\ before'.disk = disk
  BY <1>1, IdleIsEqual DEF DurableInv, TornInv
<1>3. GoodDir(before.dir)'
  <2>1. GoodDir(before'.dir)
    BY <1>2, RefIsGood DEF DurableInv
  <2> QED
    BY <2>1 DEF GoodDir, UniqueIn, UsedIn, NamesAreShort, FitsIn
<1>4. SameSizeStays'
  <2>1. BeforeUsed' = Used
    BY <1>2 DEF BeforeUsed, Used
  <2>2. ASSUME NEW i \in Used, dir'[i].size = dir[i].size, dir'[i].size > 0
        PROVE  dir'[i].start = dir[i].start
    BY <1>1, <2>2, CallKeepsStart DEF DurableInv, TornInv, StoreInv
  <2> QED
    BY <1>2, <2>1, <2>2 DEF SameSizeStays
<1>5. ASSUME Idle' PROVE BeforeIsNow'
  <2>1. pending'.dir = {} /\ pending'.data = {}
    BY <1>5, NothingType DEF Idle
  <2>2. Slots # {}
    BY SlotsAssumption DEF Slots
  <2>3. dir' = dir
    BY <1>1, <2>1, <2>2
  <2>4. \A l \in Lbas : disk'[l] = disk[l]
    BY <1>1, <2>1
  <2>5. disk' = disk
    BY <2>4 DEF DurableInv, TornInv, StoreInv, ExtentInv, TypeOK
  <2> QED
    BY <1>2, <2>3, <2>5 DEF BeforeIsNow
<1> QED
  BY <1>3, <1>4, <1>5

\* The call returns or another sector of it is on its way.
LEMMA GoodLeft ==
  ASSUME DurableInv, RefInv', TornInv', UNCHANGED cvars,
         NEW rest \in [data : SUBSET Lbas, dir : SUBSET Slots, sync : BOOLEAN], Left(rest)
  PROVE  GoodBefore'
<1>1. CASE rest.data = {} /\ rest.dir = {}
  <2>1. Idle' /\ before' = [dir |-> sdir', disk |-> sdisk']
    BY <1>1 DEF Left, Idle
  <2>2. InStep' => BeforeIsNow'
    BY <2>1, IdleIsEqualPrime DEF TornInv, BeforeIsNow
  <2> QED
    BY <2>2, GoodNowPrime
<1>2. CASE ~ (rest.data = {} /\ rest.dir = {})
  <2>1. pending' = rest /\ UNCHANGED <<before, failures, dir, disk>>
    BY <1>2 DEF Left, cvars, vars
  <2>2. ~Idle'
    BY <1>2, <2>1, NothingType DEF Idle
  <2>3. InStep' => GoodDir(before.dir) /\ SameSizeStays
    BY <2>1 DEF DurableInv, GoodBefore, InStep
  <2>4. InStep' => GoodDir(before.dir)' /\ SameSizeStays'
    BY <2>1, <2>3 DEF GoodDir, UniqueIn, UsedIn, NamesAreShort, FitsIn, SameSizeStays, BeforeUsed
  <2> QED
    BY <2>2, <2>4 DEF GoodBefore
<1> QED
  BY <1>1, <1>2

LEMMA DurableStep == ASSUME ShortNames PROVE DurableInv /\ [SNext]_svars => DurableInv'
<1> SUFFICES ASSUME DurableInv, [SNext]_svars PROVE GoodBefore'
  BY DurableRef DEF DurableInv
<1>0. RefInv' /\ TornInv' /\ StoreInv /\ StoreTypes
  BY DurableRef DEF DurableInv, TornInv, StoreInv
<1>1. CASE Call
  BY <1>0, <1>1, GoodCall
<1>2. CASE Sync
  <2>1. /\ Idle /\ UNCHANGED <<dir, disk, failures>>
        /\ before' = [dir |-> sdir, disk |-> sdisk]
    BY <1>2 DEF Sync, Remember, cvars, vars
  <2>2. InStep' => BeforeIsNow'
    BY <1>0, <2>1, IdleIsEqual DEF InStep, BeforeIsNow
  <2> QED
    BY <1>0, <2>2, GoodNowPrime
<1>3. ASSUME NEW l \in Lbas, DataReachesStore(l) PROVE GoodBefore'
  <2>1. PICK rest : rest = [pending EXCEPT !.data = @ \ {l}]
    OBVIOUS
  <2>2. rest \in [data : SUBSET Lbas, dir : SUBSET Slots, sync : BOOLEAN]
    BY <1>0, <2>1 DEF StoreTypes
  <2> QED
    BY <1>0, <1>3, <2>1, <2>2, GoodLeft DEF DataReachesStore
<1>4. ASSUME NEW i \in Slots, DirReachesStore(i) PROVE GoodBefore'
  <2>1. PICK rest : rest = [pending EXCEPT !.dir = @ \ {i}]
    OBVIOUS
  <2>2. rest \in [data : SUBSET Lbas, dir : SUBSET Slots, sync : BOOLEAN]
    BY <1>0, <2>1 DEF StoreTypes
  <2> QED
    BY <1>0, <1>4, <2>1, <2>2, GoodLeft DEF DirReachesStore
<1>5. CASE WriteFails
  BY <1>0, <1>5 DEF WriteFails, StoreTypes, InStep, GoodBefore
<1>6. CASE Restart
  <2>1. BeforeIsNow'
    BY <1>6 DEF Restart, Remember, BeforeIsNow
  <2> QED
    BY <1>0, <2>1, GoodNowPrime
<1>7. CASE UNCHANGED svars
  <2>1. UNCHANGED <<dir, disk, pending, before, failures>>
    BY <1>7 DEF svars, cvars, vars
  <2> QED
    BY <2>1 DEF DurableInv, GoodBefore, InStep, Idle, BeforeIsNow, SameSizeStays, BeforeUsed,
       GoodDir, UniqueIn, UsedIn, NamesAreShort, FitsIn
<1> QED
  BY <1>1, <1>2, <1>3, <1>4, <1>5, <1>6, <1>7 DEF SNext

(***************************************************************************)
(* The views of the store.                                                 *)
(***************************************************************************)
LEMMA FilesInIs ==
  ASSUME NEW d, NEW k, d \in [Slots -> Dirent], FitsIn(d)
  PROVE  FilesIn(d, k) = ViewIn(d, k)
<1>1. ASSUME NEW i \in UsedIn(d) PROVE FileIn(d, k, i).bytes = ContentIn(d, k, i)
  <2>1. PICK start \in Nat, size \in Nat : start = d[i].start /\ size = d[i].size
    BY DEF Dirent, UsedIn
  <2>2. ASSUME NEW p \in 1 .. size PROVE RangeOk(start, size \div SectorSize)
    <3>1. PICK b \in 0 .. size - 1 : b = p - 1
      BY <2>1
    <3>2. RangeOk(start, SectorsOf(size))
      BY <2>1, <3>1 DEF FitsIn
    <3>3. PICK q, r : q = b \div SectorSize /\ r = b % SectorSize
      OBVIOUS
    <3> QED
      BY <3>2, <3>3, ByteInRange
  <2>3. FileIn(d, k, i).bytes =
          [p \in 1 .. size |-> ReadSector(k, start + (p - 1) \div SectorSize)[(p - 1) % SectorSize]]
    BY <2>1 DEF FileIn
  <2> QED
    BY <2>1, <2>2, <2>3, Zenon DEF ContentIn
<1> DEFINE entry(x) == CHOOSE i \in UsedIn(d) : KeyOf(d[i].name) = x
<1>2. ASSUME NEW x \in KeysIn(d) PROVE entry(x) \in UsedIn(d)
  <2>1. \E i \in UsedIn(d) : KeyOf(d[i].name) = x
    BY DEF KeysIn
  <2> QED
    BY <2>1, Zenon
<1>3. FilesIn(d, k) = [x \in KeysIn(d) |-> FileIn(d, k, entry(x)).bytes]
  BY Zenon DEF FilesIn, KeysIn, UsedIn
<1>4. ViewIn(d, k) = [x \in KeysIn(d) |-> ContentIn(d, k, entry(x))]
  BY Zenon DEF ViewIn
<1> HIDE DEF entry
<1> QED
  BY <1>1, <1>2, <1>3, <1>4, Zenon

LEMMA OldIsBefore == DurableInv /\ InStep => OldView = ViewIn(before.dir, before.disk)
<1> SUFFICES ASSUME DurableInv, InStep PROVE OldView = ViewIn(before.dir, before.disk)
  OBVIOUS
<1>1. before.dir \in [Slots -> Dirent] /\ FitsIn(before.dir)
  BY DEF DurableInv, TornInv, GoodBefore, GoodDir
<1> QED
  BY <1>1, FilesInIs DEF OldView

LEMMA OldIsFiles == DurableInv /\ (InStep => BeforeIsNow) => OldView = FilesView
<1> SUFFICES ASSUME DurableInv, InStep => BeforeIsNow PROVE OldView = FilesView
  OBVIOUS
<1>1. CASE InStep
  BY <1>1, OldIsBefore, FilesViewIs DEF BeforeIsNow
<1>2. CASE ~InStep
  BY <1>2 DEF OldView
<1> QED
  BY <1>1, <1>2

LEMMA OldIsFilesPrime == DurableInv' /\ (InStep => BeforeIsNow)' => (OldView = FilesView)'
BY OldIsFiles, PTL

\* Two contents that are equal byte by byte, and a mixture of their sectors.
LEMMA MixedContent ==
  ASSUME NEW d, NEW k, NEW d2, NEW k2, NEW k3, NEW i, d[i].start \in Nat, d[i].size \in Nat,
         d2[i].start = d[i].start, d2[i].size = d[i].size,
         \A l \in Lbas : k3[l] \in {k[l], k2[l]},
         ContentIn(d, k, i) = ContentIn(d2, k2, i)
  PROVE  ContentIn(d, k3, i) = ContentIn(d, k, i)
<1>1. PICK start \in Nat, size \in Nat : start = d[i].start /\ size = d[i].size
  OBVIOUS
<1> DEFINE far(p) == /\ (p - 1) \div SectorSize < size \div SectorSize
                     /\ ~RangeOk(start, size \div SectorSize)
           byte(h, p) == ReadSector(h, start + (p - 1) \div SectorSize)[(p - 1) % SectorSize]
<1>2. /\ ContentIn(d, k, i) = [p \in 1 .. size |-> IF far(p) THEN Zero ELSE byte(k, p)]
      /\ ContentIn(d2, k2, i) = [p \in 1 .. size |-> IF far(p) THEN Zero ELSE byte(k2, p)]
      /\ ContentIn(d, k3, i) = [p \in 1 .. size |-> IF far(p) THEN Zero ELSE byte(k3, p)]
  BY <1>1, Zenon DEF ContentIn
<1>3. ASSUME NEW p \in 1 .. size PROVE byte(k3, p) \in {byte(k, p), byte(k2, p)}
  <2>1. PICK q \in Nat : q = (p - 1) \div SectorSize
    <3>1. p - 1 \in Nat
      OBVIOUS
    <3> QED
      BY <3>1, DivNat, GeometryAssumption
  <2>2. PICK l \in Nat : l = start + q
    OBVIOUS
  <2>3. RangeOk(l, 1) => l \in Lbas
    BY <2>2, GeometryAssumption DEF RangeOk, Lbas
  <2>4. ReadSector(k3, l) \in {ReadSector(k, l), ReadSector(k2, l)}
    BY <2>3 DEF ReadSector
  <2>5. /\ byte(k, p) = ReadSector(k, l)[(p - 1) % SectorSize]
        /\ byte(k2, p) = ReadSector(k2, l)[(p - 1) % SectorSize]
        /\ byte(k3, p) = ReadSector(k3, l)[(p - 1) % SectorSize]
    BY <2>1, <2>2, Zenon
  <2> HIDE DEF byte
  <2> QED
    BY <2>4, <2>5
<1> HIDE DEF far, byte
<1>4. \A p \in 1 .. size : ~far(p) => byte(k, p) = byte(k2, p)
  <2> SUFFICES ASSUME NEW p \in 1 .. size, ~far(p) PROVE byte(k, p) = byte(k2, p)
    OBVIOUS
  <2>1. ContentIn(d, k, i)[p] = byte(k, p) /\ ContentIn(d2, k2, i)[p] = byte(k2, p)
    BY <1>2
  <2> QED
    BY <2>1
<1>5. \A p \in 1 .. size :
        (IF far(p) THEN Zero ELSE byte(k3, p)) = (IF far(p) THEN Zero ELSE byte(k, p))
  BY <1>3, <1>4
<1> QED
  BY <1>2, <1>5, Zenon

(***************************************************************************)
(* What a crash leaves.                                                    *)
(***************************************************************************)
LEMMA ViewSame ==
  ASSUME NEW d, NEW k, NEW k2, UniqueIn(d),
         \A i \in UsedIn(d) : ContentIn(d, k2, i) = ContentIn(d, k, i)
  PROVE  ViewIn(d, k2) = ViewIn(d, k)
<1>1. PICK g : g = ViewIn(d, k)
  OBVIOUS
<1>2. g = [x \in KeysIn(d) |-> g[x]]
  BY <1>1 DEF ViewIn
<1>3. \A i \in UsedIn(d) : g[KeyOf(d[i].name)] = ContentIn(d, k2, i)
  BY <1>1, ViewAt
<1> QED
  BY <1>1, <1>2, <1>3, ViewIs

\* The one file whose sectors the call rewrites, if its contents on the store
\* are no longer the old ones.
LEMMA CutDamages ==
  ASSUME DurableInv, InStep, sdir = before.dir, NEW s \in UsedIn(before.dir),
         \A i \in UsedIn(before.dir) \ {s} :
           ContentIn(before.dir, sdisk, i) = ContentIn(before.dir, before.disk, i),
         SectorsKept(s) \/ dir[s].name = before.dir[s].name,
         ContentIn(before.dir, sdisk, s) # ContentIn(before.dir, before.disk, s)
  PROVE  \E k \in DOMAIN OldView \cap DOMAIN FilesView : DM!Damaged(k, ViewIn(sdir, sdisk))
<1>1. PICK d, b : d = before.dir /\ b = before.disk
  OBVIOUS
<1>2. /\ UniqueIn(d) /\ UniqueIn(dir) /\ SameSizeStays /\ OldOrNew
      /\ d \in [Slots -> Dirent] /\ dir \in [Slots -> Dirent] /\ s \in Slots
  BY <1>1, RefIsGood
     DEF DurableInv, GoodBefore, GoodDir, TornInv, StoreInv, ExtentInv, TypeOK, UsedIn
<1>3. PICK start \in Nat, size \in Nat, size2 \in Nat :
        start = d[s].start /\ size = d[s].size /\ size2 = dir[s].size
  BY <1>2 DEF Dirent
<1>4. \A l \in Lbas : sdisk[l] \in {b[l], disk[l]}
  BY <1>1, <1>2 DEF OldOrNew
<1>5. ~SectorsKept(s)
  <2>1. SUFFICES ASSUME SectorsKept(s) PROVE FALSE
    OBVIOUS
  <2>2. \A l \in (d[s].start .. (d[s].start + SectorsOf(d[s].size)) - 1) \cap Lbas : sdisk[l] = b[l]
    BY <1>1, <1>4, <2>1 DEF SectorsKept, BeforeExtent
  <2> QED
    BY <1>1, <1>3, <2>2, ContentKept
<1>6. size > 0
  <2>1. size = 0 => SectorsOf(size) = 0
    BY SectorsOfNat
  <2>2. start .. (start + SectorsOf(size)) - 1 # {}
    BY <1>1, <1>3, <1>5 DEF SectorsKept, BeforeExtent
  <2> QED
    BY <2>1, <2>2
<1>7. dir[s].name = d[s].name /\ s \in UsedIn(dir)
  BY <1>1, <1>2, <1>5 DEF UsedIn
<1>8. PICK k : k = KeyOf(d[s].name)
  OBVIOUS
<1>9. PICK old, new, cut : /\ old = ContentIn(d, b, s) /\ new = ContentIn(dir, disk, s)
                           /\ cut = ContentIn(d, sdisk, s)
  OBVIOUS
<1>10. DOMAIN old = 1 .. size /\ DOMAIN cut = 1 .. size /\ DOMAIN new = 1 .. size2
  BY <1>3, <1>9, Zenon DEF ContentIn
<1>11. old # new
  <2>1. SUFFICES ASSUME old = new PROVE FALSE
    OBVIOUS
  <2>2. size2 = size
    BY <1>3, <1>10, <2>1
  <2>3. dir[s].start = start
    BY <1>1, <1>2, <1>3, <1>6, <2>2 DEF SameSizeStays, BeforeUsed, UsedIn
  <2>4. cut = old
    <3>1. /\ d[s].start \in Nat /\ d[s].size \in Nat
          /\ dir[s].start = d[s].start /\ dir[s].size = d[s].size
      BY <1>3, <2>2, <2>3, Zenon
    <3>2. ContentIn(d, b, s) = ContentIn(dir, disk, s)
      BY <1>9, <2>1, Zenon
    <3>3. ContentIn(d, sdisk, s) = ContentIn(d, b, s)
      BY <1>4, <3>1, <3>2, MixedContent
    <3> QED
      BY <1>9, <3>3, Zenon
  <2> QED
    BY <1>1, <1>9, <2>4
<1>12. old # <<>>
  <2>1. 1 \in DOMAIN old
    BY <1>6, <1>10
  <2>2. DOMAIN << >> = {}
    OBVIOUS
  <2> QED
    BY <2>1, <2>2
<1>13. OldView = ViewIn(d, b) /\ FilesView = ViewIn(dir, disk)
  BY <1>1, OldIsBefore, FilesViewIs
<1>14. /\ DOMAIN ViewIn(d, b) = KeysIn(d) /\ DOMAIN ViewIn(d, sdisk) = KeysIn(d)
       /\ DOMAIN ViewIn(dir, disk) = KeysIn(dir)
       /\ k \in KeysIn(d) /\ k \in KeysIn(dir)
       /\ ViewIn(d, b)[k] = old /\ ViewIn(d, sdisk)[k] = cut /\ ViewIn(dir, disk)[k] = new
  BY <1>1, <1>2, <1>7, <1>8, <1>9, ViewAt
<1>15. ASSUME NEW x \in KeysIn(d) \ {k} PROVE ViewIn(d, sdisk)[x] = ViewIn(d, b)[x]
  <2>1. PICK i \in UsedIn(d) : x = KeyOf(d[i].name)
    BY DEF KeysIn
  <2>2. i # s
    BY <1>8, <2>1
  <2>3. ContentIn(d, sdisk, i) = ContentIn(d, b, i)
    BY <1>1, <2>2
  <2> QED
    BY <1>2, <2>1, <2>3, ViewAt
<1>16. DM!Damaged(k, ViewIn(d, sdisk))
  BY <1>10, <1>11, <1>12, <1>13, <1>14, <1>15, Zenon DEF DM!Damaged
<1>17. k \in DOMAIN OldView \cap DOMAIN FilesView
  BY <1>13, <1>14
<1> QED
  BY <1>1, <1>16, <1>17

LEMMA CutLeaves ==
  ASSUME DurableInv, InStep
  PROVE  \/ ViewIn(sdir, sdisk) \in {OldView, FilesView}
         \/ \E k \in DOMAIN OldView \cap DOMAIN FilesView : DM!Damaged(k, ViewIn(sdir, sdisk))
<1>1. OldOrNew /\ GoodDir(before.dir) /\ before.dir \in [Slots -> Dirent]
  BY DEF DurableInv, TornInv, GoodBefore
<1>2. CASE sdir # before.dir
  <2>1. sdir = dir /\ pending.data = {}
    BY <1>1, <1>2, StoreDirIsOne DEF DurableInv, OldOrNew
  <2>2. \A l \in Lbas : sdisk[l] = disk[l]
    BY <2>1 DEF DurableInv, TornInv, StoreInv, Arrived
  <2>3. sdisk = disk
    BY <2>2 DEF DurableInv, TornInv, StoreInv, StoreTypes, ExtentInv, TypeOK
  <2> QED
    BY <2>1, <2>3, FilesViewIs
<1>3. CASE sdir = before.dir
  <2>1. PICK s \in Slots :
          /\ \A i \in Slots \ {s} : i \in BeforeUsed => SectorsKept(i)
          /\ s \in BeforeUsed => SectorsKept(s) \/ dir[s].name = before.dir[s].name
    BY DEF DurableInv, TornInv, OneFileReplaced
  <2>2. UsedIn(before.dir) = BeforeUsed
    BY DEF UsedIn, BeforeUsed
  <2>3. ASSUME NEW i \in UsedIn(before.dir) \ {s}
        PROVE  ContentIn(before.dir, sdisk, i) = ContentIn(before.dir, before.disk, i)
    <3>1. SectorsKept(i) /\ before.dir[i].start \in Nat /\ before.dir[i].size \in Nat
      BY <1>1, <2>1, <2>2 DEF BeforeUsed, Dirent
    <3>2. \A l \in BeforeExtent(i) \cap Lbas : sdisk[l] = before.disk[l]
      BY <1>1, <3>1 DEF OldOrNew, SectorsKept
    <3> QED
      BY <3>1, <3>2, ContentKept DEF BeforeExtent
  <2>4. CASE s \in UsedIn(before.dir) =>
               ContentIn(before.dir, sdisk, s) = ContentIn(before.dir, before.disk, s)
    <3>1. ViewIn(before.dir, sdisk) = ViewIn(before.dir, before.disk)
      BY <1>1, <2>3, <2>4, ViewSame DEF GoodDir
    <3> QED
      BY <1>3, <3>1, OldIsBefore
  <2>5. CASE /\ s \in UsedIn(before.dir)
             /\ ContentIn(before.dir, sdisk, s) # ContentIn(before.dir, before.disk, s)
    BY <1>3, <2>1, <2>2, <2>3, <2>5, CutDamages
  <2> QED
    BY <2>4, <2>5
<1> QED
  BY <1>2, <1>3

(***************************************************************************)
(* Every step is one of DurableMap or changes nothing in it.               *)
(***************************************************************************)
LEMMA SameMap == (FM!Init <=> DM!Init) /\ (FM!Next <=> DM!Next)
<1>1. FM!Init <=> DM!Init
  BY Zenon DEF FM!Init, DM!Init
<1>2. FM!Orphan = DM!Orphan
  BY DEF FM!Orphan, DM!Orphan
<1>3. /\ \A k : FM!Remove(k) <=> DM!Remove(k)
      /\ \A k : FM!Begin(k) <=> DM!Begin(k)
  BY <1>2, Zenon DEF FM!Remove, DM!Remove, FM!Begin, DM!Begin, FM!Bind, DM!Bind,
     FM!Unbind, DM!Unbind, FM!Rekey, DM!Rekey, FM!Orphan, DM!Orphan
<1>4. \A k, m : FM!Move(k, m) <=> DM!Move(k, m)
  BY Zenon DEF FM!Move, DM!Move, FM!Rekey, DM!Rekey
<1>5. /\ \A k, buf : FM!Put(k, buf) <=> DM!Put(k, buf)
      /\ \A buf : FM!Extend(buf) <=> DM!Extend(buf)
      /\ FM!Publish <=> DM!Publish
      /\ FM!Abandon <=> DM!Abandon
  BY <1>2, Zenon DEF FM!Put, DM!Put, FM!Extend, DM!Extend, FM!Publish, DM!Publish,
     FM!Abandon, DM!Abandon, FM!Bind, DM!Bind, FM!Orphan, DM!Orphan
<1>6. FM!Next <=> DM!Next
  BY <1>3, <1>4, <1>5, Zenon DEF FM!Next, DM!Next
<1> QED
  BY <1>1, <1>6

LEMMA OldIsBeforePrime ==
  DurableInv' /\ InStep' => (OldView = ViewIn(before.dir, before.disk))'
BY OldIsBefore, PTL

\* A call: the map moves on, and what was there before stays remembered.
LEMMA CallOperates ==
  ASSUME ShortNames, DurableInv, DurableInv', Call
  PROVE  [DM!DNext]_(DM!dvars)
<1>1. Idle /\ CNext /\ before' = [dir |-> sdir, disk |-> sdisk] /\ InStep' = InStep
  BY DEF Call, Remember, InStep
<1>2. OldView = FilesView
  BY <1>1, OldIsFiles DEF DurableInv, GoodBefore
<1>3. InStep' => OldView' = FilesView
  <2> SUFFICES ASSUME InStep' PROVE OldView' = FilesView
    OBVIOUS
  <2>1. before'.dir = dir /\ before'.disk = disk
    BY <1>1, IdleIsEqual DEF DurableInv, TornInv
  <2>2. OldView' = ViewIn(before'.dir, before'.disk)
    BY OldIsBeforePrime DEF ViewIn, KeysIn, UsedIn, ContentIn, ReadSector, KeyOf
  <2> QED
    BY <2>1, <2>2, FilesViewIs
<1>4. ~InStep' => OldView' = FilesView'
  BY DEF OldView
<1>5. DM!Next \/ UNCHANGED <<FilesView, WriterView>>
  BY <1>1, MapStep, SameMap DEF DurableInv
<1>6. CASE DM!Next
  <2>1. OldView' = IF ~InStep THEN FilesView' ELSE OldView
    BY <1>1, <1>2, <1>3, <1>4
  <2>2. (~InStep)' = ~InStep
    BY <1>1
  <2>3. DM!Operate
    BY <1>2, <1>6, <2>1, <2>2, Zenon DEF DM!Operate
  <2> QED
    BY <2>3 DEF DM!DNext
<1>7. CASE UNCHANGED <<FilesView, WriterView>>
  <2>1. OldView' = OldView /\ (~InStep)' = ~InStep
    BY <1>1, <1>2, <1>3, <1>4, <1>7
  <2> QED
    BY <1>7, <2>1 DEF DM!dvars
<1> QED
  BY <1>5, <1>6, <1>7

\* The steps of the write-through: the store is as it was before, or it has
\* caught up, or an error is outstanding.
LEMMA QuietStep ==
  ASSUME DurableInv, DurableInv', [SNext]_svars, ~Call, ~Restart
  PROVE  /\ UNCHANGED cvars
         /\ UNCHANGED <<before, failures>> \/ (InStep' => BeforeIsNow')
<1>0. StoreInv /\ StoreInv' /\ StoreTypes
  BY DEF DurableInv, TornInv, StoreInv
<1>1. CASE Sync
  <2>1. /\ Idle /\ UNCHANGED cvars /\ UNCHANGED <<dir, disk, failures>>
        /\ before' = [dir |-> sdir, disk |-> sdisk]
    BY <1>1 DEF Sync, Remember, cvars, vars
  <2>2. InStep' => BeforeIsNow'
    BY <1>0, <2>1, IdleIsEqual DEF InStep, BeforeIsNow
  <2> QED
    BY <2>1, <2>2
<1>2. ASSUME NEW rest, Left(rest)
      PROVE  UNCHANGED <<before, failures>> \/ (InStep' => BeforeIsNow')
  <2>1. CASE rest.data = {} /\ rest.dir = {}
    <3>1. Idle' /\ before' = [dir |-> sdir', disk |-> sdisk']
      BY <1>2, <2>1 DEF Left, Idle
    <3> QED
      BY <1>0, <3>1, IdleIsEqualPrime DEF BeforeIsNow
  <2>2. CASE ~ (rest.data = {} /\ rest.dir = {})
    BY <1>2, <2>2 DEF Left
  <2> QED
    BY <2>1, <2>2
<1>3. ASSUME NEW l \in Lbas, DataReachesStore(l)
      PROVE  UNCHANGED cvars /\ (UNCHANGED <<before, failures>> \/ (InStep' => BeforeIsNow'))
  BY <1>2, <1>3 DEF DataReachesStore
<1>4. ASSUME NEW i \in Slots, DirReachesStore(i)
      PROVE  UNCHANGED cvars /\ (UNCHANGED <<before, failures>> \/ (InStep' => BeforeIsNow'))
  BY <1>2, <1>4 DEF DirReachesStore
<1>5. CASE WriteFails
  BY <1>0, <1>5 DEF WriteFails, StoreTypes, InStep
<1>6. CASE UNCHANGED svars
  BY <1>6 DEF svars
<1> QED
  BY <1>1, <1>3, <1>4, <1>5, <1>6 DEF SNext

LEMMA QuietMaps ==
  ASSUME DurableInv, DurableInv', UNCHANGED cvars,
         UNCHANGED <<before, failures>> \/ (InStep' => BeforeIsNow')
  PROVE  [DM!DNext]_(DM!dvars)
<1>1. UNCHANGED <<dir, disk, ofiles, held>>
  BY DEF cvars, vars
<1>2. UNCHANGED <<FilesView, WriterView>>
  <2>1. Writers' = Writers
    BY <1>1 DEF Writers
  <2> QED
    BY <1>1, <2>1, FilesViewIs, WriterViewIs
<1>3. CASE UNCHANGED <<before, failures>>
  <2>1. InStep' = InStep
    BY <1>3 DEF InStep
  <2>2. OldView' = OldView
    <3>1. CASE InStep
      <4>1. OldView' = ViewIn(before'.dir, before'.disk)
        BY <2>1, <3>1, OldIsBeforePrime DEF ViewIn, KeysIn, UsedIn, ContentIn, ReadSector, KeyOf
      <4> QED
        BY <1>3, <3>1, <4>1, OldIsBefore
    <3>2. CASE ~InStep
      BY <1>2, <2>1, <3>2 DEF OldView
    <3> QED
      BY <3>1, <3>2
  <2> QED
    BY <1>2, <2>1, <2>2 DEF DM!dvars
<1>4. CASE InStep' => BeforeIsNow'
  <2>1. OldView' = FilesView' /\ OldView' = FilesView
    BY <1>2, <1>4, OldIsFilesPrime
  <2>2. CASE InStep' = InStep
    <3>1. DM!Return
      BY <1>2, <2>1, <2>2, Zenon DEF DM!Return
    <3> QED
      BY <3>1 DEF DM!DNext
  <2>3. CASE InStep /\ ~InStep'
    <3>1. (~InStep)' = TRUE
      BY <2>3
    <3>2. DM!WriteError
      BY <1>2, <2>1, <3>1, Zenon DEF DM!WriteError
    <3> QED
      BY <3>2 DEF DM!DNext
  <2>4. CASE ~InStep /\ InStep'
    <3>1. OldView = FilesView
      BY <2>4 DEF OldView
    <3>2. (~InStep)' = FALSE
      BY <2>4
    <3>3. OldView' = OldView
      BY <2>1, <3>1
    <3>4. DM!CatchUp
      BY <1>2, <3>2, <3>3, Zenon DEF DM!CatchUp
    <3> QED
      BY <3>4 DEF DM!DNext
  <2>5. InStep \in BOOLEAN /\ InStep' \in BOOLEAN
    BY DEF InStep
  <2> QED
    BY <2>2, <2>3, <2>4, <2>5
<1> QED
  BY <1>3, <1>4

LEMMA RestartIsCrash ==
  ASSUME DurableInv, DurableInv', Restart
  PROVE  [DM!DNext]_(DM!dvars)
<1>1. /\ InStep /\ dir' = sdir /\ disk' = sdisk /\ held' = {} /\ UNCHANGED failures
      /\ before' = [dir |-> sdir, disk |-> sdisk]
  BY DEF Restart, Remember
<1>2. FilesView' = ViewIn(sdir, sdisk)
  BY <1>1, FilesViewIs
<1>3. WriterView' = {}
  <2>1. Writers' = {}
    BY <1>1 DEF Writers
  <2>2. WriterIn(dir', disk', ofiles', {}) = {}
    BY DEF WriterIn
  <2> QED
    BY <2>1, <2>2, WriterViewIs
<1>4. OldView' = FilesView'
  BY <1>1, OldIsFilesPrime DEF BeforeIsNow
<1>5. (~InStep)' = ~InStep
  BY <1>1 DEF InStep
<1>6. \/ FilesView' \in {OldView, FilesView}
      \/ \E k \in DOMAIN OldView \cap DOMAIN FilesView : DM!Damaged(k, FilesView')
  BY <1>1, <1>2, CutLeaves, Zenon
<1>7. DM!Crash
  BY <1>1, <1>3, <1>4, <1>5, <1>6, Zenon DEF DM!Crash
<1> QED
  BY <1>7 DEF DM!DNext

LEMMA DurableMapInit == SInit /\ ShortNames => DM!DInit
<1> SUFFICES ASSUME SInit, ShortNames PROVE DM!DInit
  OBVIOUS
<1>1. DM!Init
  BY InitIsEmptyMap, SameMap DEF SInit
<1>2. OldView = FilesView
  BY DurableInit, OldIsFiles DEF SInit, BeforeIsNow
<1>3. (~InStep) = FALSE
  BY DEF SInit, InStep
<1> QED
  BY <1>1, <1>2, <1>3, Zenon DEF DM!DInit

\* With names of at most 15 characters and a drive that keeps what it has
\* accepted, the file system and its store are a map from names to contents
\* that survives crashes: the boot after one between any two sectors finds
\* every call that has returned, the call in progress wholly or not at all,
\* and at worst damages the contents of the one file that a SYS_SAVE was
\* replacing.  A write error suspends the promise until a SYS_SYNC goes
\* through.  DriveCache's theorems below say what a power cut adds.
THEOREM StoreImplementsDurableMap == ShortNames => (SSpec => ImplementsDurableMap)
<1> SUFFICES ASSUME ShortNames PROVE SSpec => ImplementsDurableMap
  OBVIOUS
<1>1. SInit => DurableInv
  BY DurableInit
<1>2. DurableInv /\ [SNext]_svars => DurableInv'
  BY DurableStep
<1>3. SInit => DM!DInit
  BY DurableMapInit
<1>4. DurableInv /\ DurableInv' /\ [SNext]_svars => [DM!DNext]_(DM!dvars)
  <2> SUFFICES ASSUME DurableInv, DurableInv', [SNext]_svars PROVE [DM!DNext]_(DM!dvars)
    OBVIOUS
  <2>1. CASE Call
    BY <2>1, CallOperates
  <2>2. CASE Restart
    BY <2>2, RestartIsCrash
  <2>3. CASE ~Call /\ ~Restart
    BY <2>3, QuietStep, QuietMaps
  <2> QED
    BY <2>1, <2>2, <2>3
<1> QED
  BY <1>1, <1>2, <1>3, <1>4, PTL DEF SSpec, ImplementsDurableMap, DM!DSpec

(***************************************************************************)
(* Power cuts.  No Flush is ever sent, so what follows rests on the drive: *)
(* on its having no volatile write cache, or on its having committed what  *)
(* it accepted by the time the power fails.  Without either it is false:   *)
(* CutBetweenCallsLosesNothing is violated.                                *)
(***************************************************************************)
LEMMA CommittedCutIsRestart == ASSUME PowerCut, Committed PROVE Restart
BY DEF PowerCut, Committed, Restart, Remember, store

LEMMA CommittedStep ==
  ASSUME [PNext]_pvars, NothingCached PROVE [SNext]_svars
<1>1. CASE Accept
  BY <1>1 DEF Accept
<1>2. CASE (\E l \in Lbas : CommitData(l)) \/ (\E i \in Slots : CommitDir(i))
  BY <1>2 DEF CommitData, CommitDir
<1>3. CASE PowerCut
  BY <1>3, CommittedCutIsRestart DEF NothingCached, SNext
<1>4. CASE UNCHANGED pvars
  BY <1>4 DEF pvars
<1> QED
  BY <1>1, <1>2, <1>3, <1>4 DEF PNext

\* With names of at most 15 characters, and whatever cache the drive has, the
\* file system is a map that survives every power cut at which the drive has
\* committed the sectors it accepted: then, and as far as store_init can
\* tell, the cut is a crash.
THEOREM CommittedCutsAreCrashes ==
  ShortNames => (PSpec /\ [][NothingCached]_pvars => ImplementsDurableMap)
<1> SUFFICES ASSUME ShortNames
             PROVE  PSpec /\ [][NothingCached]_pvars => ImplementsDurableMap
  OBVIOUS
<1>1. PInit => SInit
  BY DEF PInit
<1>2. [PNext]_pvars /\ [NothingCached]_pvars => [SNext]_svars
  <2>1. UNCHANGED pvars => UNCHANGED svars
    BY DEF pvars
  <2> QED
    BY <2>1, CommittedStep
<1>3. SSpec => ImplementsDurableMap
  BY StoreImplementsDurableMap
<1> QED
  BY <1>1, <1>2, <1>3, PTL DEF PSpec, SSpec

OnMedium == ~cached /\ Committed

LEMMA OnMediumStep == OnMedium /\ [PNext]_pvars => OnMedium'
<1> SUFFICES ASSUME OnMedium, [PNext]_pvars PROVE OnMedium'
  OBVIOUS
<1>1. CASE Accept
  BY <1>1 DEF Accept, OnMedium, Committed
<1>2. ASSUME NEW l \in Lbas, CommitData(l) PROVE OnMedium'
  BY <1>2 DEF CommitData, OnMedium, Committed
<1>3. ASSUME NEW i \in Slots, CommitDir(i) PROVE OnMedium'
  BY <1>3 DEF CommitDir, OnMedium, Committed
<1>4. CASE PowerCut
  BY <1>4 DEF PowerCut, OnMedium, Committed, medium
<1>5. CASE UNCHANGED pvars
  BY <1>5 DEF pvars, svars, medium, OnMedium, Committed
<1> QED
  BY <1>1, <1>2, <1>3, <1>4, <1>5 DEF PNext

\* With names of at most 15 characters and a drive without a volatile write
\* cache, power cuts included: what a call that has returned did is found by
\* the next boot, and all that a cut can tear is the one file that a SYS_SAVE
\* was replacing.
THEOREM UncachedDriveIsDurable ==
  ShortNames => (PSpec /\ ~cached => ImplementsDurableMap /\ []CrashTearsOnlyAReplacedFile)
<1> SUFFICES ASSUME ShortNames
             PROVE  PSpec /\ ~cached => ImplementsDurableMap /\ []CrashTearsOnlyAReplacedFile
  OBVIOUS
<1>1. PInit => SInit
  BY DEF PInit
<1>2. PInit /\ ~cached => OnMedium
  BY DEF PInit, OnMedium
<1>3. OnMedium /\ [PNext]_pvars => OnMedium'
  BY OnMediumStep
<1>4. OnMedium /\ [PNext]_pvars => [SNext]_svars
  BY CommittedStep DEF OnMedium, NothingCached
<1>5. SSpec => ImplementsDurableMap /\ []CrashTearsOnlyAReplacedFile
  BY StoreImplementsDurableMap, CrashIsContained, PTL
<1> QED
  BY <1>1, <1>2, <1>3, <1>4, <1>5, PTL DEF PSpec, SSpec

=============================================================================
