-------------------------- MODULE MCFlatFSClients --------------------------
(***************************************************************************)
(* Small instances of the file system under programs that follow its rules. *)
(***************************************************************************)
EXTENDS MCFlatFS, FlatFSClients, TLC

CONSTANTS A, B   \* model values: the first 15 characters of two names

\* No definition orders names, so the two may be exchanged.
SymmetricFiles == {Short(A, "upper"), Short(B, "upper")}
Exchange == Permutations({A, B})
=============================================================================
