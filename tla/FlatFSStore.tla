---------------------------- MODULE FlatFSStore ----------------------------
(***************************************************************************)
(* The file system on its persistent store (kernel/kernel.c): the RAM disk *)
(* is the working copy, and every transfer to it is written through to a   *)
(* partition of the NVMe drive, from which the next boot loads it.         *)
(*                                                                         *)
(* A call is one step on the RAM disk, as in FlatFSClients, and then one   *)
(* step for each sector that reaches the drive; the call returns after the *)
(* last of them.  The machine may crash and boot between any two.  Within  *)
(* a transfer the sectors arrive in any order: a command carries many of   *)
(* them.  A directory sector holds one entry here.  tools/mkstore.py makes *)
(* the store as large as the RAM disk, so no transfer to it is out of      *)
(* range.                                                                  *)
(*                                                                         *)
(* The store is what the drive has accepted and would answer a read with.  *)
(* The driver issues no NVMe Flush, so a drive with a volatile write cache *)
(* may not have committed all of it when the power fails: a restart here   *)
(* leaves the drive under power, and DriveCache adds the power cut.        *)
(***************************************************************************)
EXTENDS FlatFSClients

CONSTANT MaxFailures   \* bound: write errors between two SYS_SYNC

ASSUME StoreAssumption == MaxFailures \in Nat

VARIABLES
  sdir, sdisk,   \* the directory and the data sectors on the store
  pending,       \* sectors the current call has still to write
  before,        \* history: the store when the call began
  failures       \* history: write errors since the store was in step

svars == <<cvars, sdir, sdisk, pending, before, failures>>
store == <<sdir, sdisk>>

Nothing == [data |-> {}, dir |-> {}, sync |-> FALSE]
Idle == pending = Nothing
InStep == failures = 0

SInit ==
  /\ CInit
  /\ sdir = dir /\ sdisk = disk
  /\ pending = Nothing /\ before = [dir |-> sdir, disk |-> sdisk] /\ failures = 0

(***************************************************************************)
(* What a call writes: data sectors first, then fs_sync_dir the whole      *)
(* directory if the call changed it.  A sector rewritten with what it      *)
(* holds already is left out.                                              *)
(***************************************************************************)
Remember == before' = [dir |-> sdir, disk |-> sdisk]

Call ==
  /\ Idle
  /\ CNext
  /\ pending' = [data |-> {l \in Lbas : disk'[l] # disk[l]},
                 dir |-> IF dir' = dir THEN {} ELSE Slots,
                 sync |-> FALSE]
  /\ Remember
  /\ UNCHANGED <<store, failures>>

\* SYS_SYNC: the whole image in one transfer.
Sync ==
  /\ Idle
  /\ pending' = [data |-> Lbas, dir |-> Slots, sync |-> TRUE]
  /\ Remember
  /\ UNCHANGED <<cvars, store, failures>>

(***************************************************************************)
(* store_write_through.                                                    *)
(***************************************************************************)
\* The call returns with its last sector; a SYS_SYNC that got this far has
\* made up for earlier errors.
Left(rest) ==
  IF rest.data = {} /\ rest.dir = {}
  THEN /\ pending' = Nothing
       /\ before' = [dir |-> sdir', disk |-> sdisk']
       /\ failures' = IF rest.sync THEN 0 ELSE failures
  ELSE pending' = rest /\ UNCHANGED <<before, failures>>

\* Mutant: the last sector of the image is taken to be outside.
DataReachesAllButLast(l) ==
  /\ l \in pending.data
  /\ sdisk' = IF l + 1 < DataLba + NSectors THEN [sdisk EXCEPT ![l] = disk[l]]
              ELSE sdisk
  /\ UNCHANGED <<cvars, sdir>>
  /\ Left([pending EXCEPT !.data = @ \ {l}])

DataReachesStore(l) ==
  /\ l \in pending.data
  /\ sdisk' = [sdisk EXCEPT ![l] = disk[l]]
  /\ UNCHANGED <<cvars, sdir>>
  /\ Left([pending EXCEPT !.data = @ \ {l}])

\* Mutant: the directory is written without waiting for the data.
DirFirst(i) ==
  /\ i \in pending.dir
  /\ sdir' = [sdir EXCEPT ![i] = dir[i]]
  /\ UNCHANGED <<cvars, sdisk>>
  /\ Left([pending EXCEPT !.dir = @ \ {i}])

DirReachesStore(i) ==
  /\ i \in pending.dir
  /\ pending.data = {} \/ pending.sync
  /\ sdir' = [sdir EXCEPT ![i] = dir[i]]
  /\ UNCHANGED <<cvars, sdisk>>
  /\ Left([pending EXCEPT !.dir = @ \ {i}])

\* nvme_write fails: the rest of the transfer is not written, and only
\* SYS_SYNC looks at the result.  The data of one call counts as one transfer.
WriteFails ==
  /\ ~Idle
  /\ failures < MaxFailures
  /\ failures' = failures + 1
  /\ pending' = IF pending.sync \/ pending.data = {} \/ pending.dir = {} THEN Nothing
                ELSE [pending EXCEPT !.data = {}]
  /\ Remember
  /\ UNCHANGED <<cvars, store>>

(***************************************************************************)
(* Crash or reset, and boot: store_init loads the RAM disk from the store, *)
(* and fs_load_dir the directory.  The drive keeps what it has accepted.   *)
(* A restart with an error outstanding is not followed: the store is then  *)
(* behind by more than the call in flight.                                 *)
(***************************************************************************)
\* Mutant: the directory is not loaded again.
RestartKeepsDir ==
  /\ InStep
  /\ disk' = sdisk /\ dir' = dir
  /\ ofiles' = [fd \in Fds |-> ClosedFile]
  /\ held' = {} /\ fresh' = {}
  /\ pending' = Nothing /\ Remember
  /\ UNCHANGED <<store, failures>>

Restart ==
  /\ InStep
  /\ disk' = sdisk /\ dir' = sdir
  /\ ofiles' = [fd \in Fds |-> ClosedFile]
  /\ held' = {} /\ fresh' = {}
  /\ pending' = Nothing /\ Remember
  /\ UNCHANGED <<store, failures>>

SNext ==
  \/ Call \/ Sync
  \/ \E l \in Lbas : DataReachesStore(l)
  \/ \E i \in Slots : DirReachesStore(i)
  \/ WriteFails \/ Restart

SSpec == SInit /\ [][SNext]_svars

(***************************************************************************)
(* Properties.                                                             *)
(***************************************************************************)
\* Every field keeps its range, across restarts too.
STypeOK ==
  /\ CTypeOK
  /\ sdir \in [Slots -> Dirent] /\ sdisk \in [Lbas -> Sector]
  /\ pending \in [data : SUBSET Lbas, dir : SUBSET Slots, sync : BOOLEAN]
  /\ failures \in 0 .. MaxFailures

\* Between calls the store holds what the RAM disk holds, unless a write
\* failed since the last SYS_SYNC that went through.
StoreInStep == Idle /\ InStep => sdir = dir /\ sdisk = disk

\* The entries a restart would find in use.
StoreUsed == {i \in Slots : sdir[i].name.stem # ""}
StoreExtent(i) == sdir[i].start .. sdir[i].start + SectorsOf(sdir[i].size) - 1

\* A restart at any moment finds a directory whose extents do not overlap,
\* although its sectors reach the drive one by one.
StoreExtentsDisjoint ==
  InStep => \A i, j \in StoreUsed : i # j => StoreExtent(i) \cap StoreExtent(j) = {}

\* The name and the bytes of entry i of a directory and its sectors.
FileIn(d, s, i) ==
  [name |-> d[i].name,
   bytes |-> [p \in 1 .. d[i].size |->
      ReadSector(s, d[i].start + (p - 1) \div SectorSize)[(p - 1) % SectorSize]]]

Torn(i) ==
  /\ i \in StoreUsed
  /\ FileIn(sdir, sdisk, i) \notin
       {FileIn(before.dir, before.disk, i), FileIn(dir, disk, i)}

\* A crash at any moment, with a drive that keeps the sectors it has accepted,
\* leaves every file as it was before the call in progress or as it is after
\* it, except the one file that a SYS_SAVE replaces under its own name.
CrashTearsOnlyAReplacedFile ==
  InStep =>
    \A i \in Slots : Torn(i) =>
      /\ dir[i].name = before.dir[i].name /\ before.dir[i].size > 0
      /\ \A j \in Slots : Torn(j) => j = i

(***************************************************************************)
(* Refinement: what a crash leaves of the map from names to contents.      *)
(***************************************************************************)
\* The files of a directory and its sectors, by their keys.
FilesIn(d, s) ==
  LET used == {i \in Slots : d[i].name.stem # ""}
  IN  [k \in {KeyOf(d[i].name) : i \in used} |->
         FileIn(d, s, CHOOSE i \in used : KeyOf(d[i].name) = k).bytes]

\* What the call in progress found, as long as the store is in step.
OldView == IF InStep THEN FilesIn(before.dir, before.disk) ELSE FilesView

DM == INSTANCE DurableMap
        WITH Keys <- {KeyOf(Normalize(u)) : u \in UserNames},
             files <- FilesView, writer <- WriterView,
             old <- OldView, behind <- ~InStep

\* The promise across crashes, with a drive that keeps the sectors it has
\* accepted: a call that has returned is found by the next boot, a call in
\* progress wholly or not at all, and all that a crash can damage is the
\* contents of the file that a SYS_SAVE is replacing.
ImplementsDurableMap == DM!DSpec

=============================================================================
