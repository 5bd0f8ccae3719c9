----------------------------- MODULE DriveCache -----------------------------
(***************************************************************************)
(* The store on a drive that may have a volatile write cache, and the      *)
(* power cut.  kernel/nvme.c writes sectors, never sends an NVMe Flush and *)
(* does not ask whether the drive has such a cache, so a sector that the   *)
(* drive has accepted reaches the medium when the drive pleases, and the   *)
(* power may fail before.                                                  *)
(***************************************************************************)
EXTENDS FlatFSStore

VARIABLES
  cached,        \* the drive has a volatile write cache
  mdir, mdisk    \* what has reached the medium

medium == <<mdir, mdisk>>
pvars == <<svars, cached, medium>>

Committed == mdir = sdir /\ mdisk = sdisk

PInit == SInit /\ cached \in BOOLEAN /\ Committed

\* A step of FlatFSStore.  Without a cache what the drive accepts is on the
\* medium at once.
Accept ==
  /\ SNext
  /\ IF cached THEN UNCHANGED medium ELSE mdir' = sdir' /\ mdisk' = sdisk'
  /\ UNCHANGED cached

(***************************************************************************)
(* The drive commits a sector of its cache, in whatever order.             *)
(***************************************************************************)
CommitData(l) ==
  /\ mdisk[l] # sdisk[l]
  /\ mdisk' = [mdisk EXCEPT ![l] = sdisk[l]]
  /\ UNCHANGED <<svars, cached, mdir>>

CommitDir(i) ==
  /\ mdir[i] # sdir[i]
  /\ mdir' = [mdir EXCEPT ![i] = sdir[i]]
  /\ UNCHANGED <<svars, cached, mdisk>>

\* The power fails and comes back: the drive has what the medium has, and
\* store_init and fs_load_dir load that.
PowerCut ==
  /\ InStep
  /\ sdir' = mdir /\ sdisk' = mdisk
  /\ dir' = mdir /\ disk' = mdisk
  /\ ofiles' = [fd \in Fds |-> ClosedFile]
  /\ held' = {} /\ fresh' = {}
  /\ pending' = Nothing /\ before' = [dir |-> mdir, disk |-> mdisk]
  /\ UNCHANGED <<failures, cached, medium>>

PNext ==
  \/ Accept
  \/ \E l \in Lbas : CommitData(l)
  \/ \E i \in Slots : CommitDir(i)
  \/ PowerCut

PSpec == PInit /\ [][PNext]_pvars

(***************************************************************************)
(* Properties.                                                             *)
(***************************************************************************)
\* The power fails only when the drive has committed what it accepted.
NothingCached == PowerCut => Committed

\* kernel/kernel.c: "Writes go to both, so a power cut loses at most the
\* sector in flight rather than the session."  With no call in progress no
\* sector is in flight, and the files are found as they were.
CutBetweenCallsLosesNothing ==
  [][PowerCut /\ Idle => UNCHANGED FilesView]_pvars

=============================================================================
