---------------------------- MODULE MCDriveCache ----------------------------
(***************************************************************************)
(* A small instance of the store on a drive with or without a cache.       *)
(***************************************************************************)
EXTENDS MCFlatFSStore, DriveCache
=============================================================================
