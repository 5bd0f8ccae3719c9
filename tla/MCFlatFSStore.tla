--------------------------- MODULE MCFlatFSStore ---------------------------
(***************************************************************************)
(* A small instance of the file system on its store.                       *)
(***************************************************************************)
EXTENDS MCFlatFS, FlatFSStore, TLC

CONSTANTS A, B   \* model values: the first 15 characters of two names

SymmetricFiles == {Short(A, "upper"), Short(B, "upper")}
Exchange == Permutations({A, B})
=============================================================================
