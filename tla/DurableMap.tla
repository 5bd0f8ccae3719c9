----------------------------- MODULE DurableMap -----------------------------
(***************************************************************************)
(* What the file system promises across crashes of the machine: FileMap,   *)
(* and what of it the next boot finds, as long as the drive keeps what it  *)
(* has accepted.  A call that has returned is found.  One in progress      *)
(* happened or did not, except that a file which is not empty and is being *)
(* replaced may come back damaged, in its old length.  After a write error *)
(* nothing is promised until SYS_SYNC has gone through.                    *)
(***************************************************************************)
EXTENDS FileMap

VARIABLES
  old,      \* the files before the call in progress; files if none is
  behind    \* a write error is outstanding

dvars == <<files, writer, old, behind>>

DInit == Init /\ old = files /\ behind = FALSE

Operate ==
  /\ old = files
  /\ Next
  /\ old' = IF behind THEN files' ELSE old
  /\ UNCHANGED behind

Return == old' = files /\ UNCHANGED <<files, writer, behind>>

WriteError == behind' = TRUE /\ old' = files /\ UNCHANGED <<files, writer>>

CatchUp == behind' = FALSE /\ UNCHANGED <<files, writer, old>>

\* The file k being replaced is damaged, and no other file is touched.
Damaged(k, m) ==
  /\ old[k] # <<>> /\ old[k] # files[k]
  /\ DOMAIN m = DOMAIN old /\ DOMAIN m[k] = DOMAIN old[k]
  /\ \A x \in DOMAIN old \ {k} : m[x] = old[x]

Crash ==
  /\ ~behind /\ UNCHANGED behind
  /\ writer' = {} /\ old' = files'
  /\ \/ files' \in {old, files}
     \/ \E k \in DOMAIN old \cap DOMAIN files : Damaged(k, files')

DNext == Return \/ WriteError \/ CatchUp \/ Crash \/ Operate

DSpec == DInit /\ [][DNext]_dvars

=============================================================================
