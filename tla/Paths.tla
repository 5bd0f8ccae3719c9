------------------------------- MODULE Paths --------------------------------
(***************************************************************************)
(* Path names of the user library (user/libc.c): a path is its sequence of *)
(* components, <<>> the root; a typed name may also be absolute and may    *)
(* hold "." and "..".                                                      *)
(***************************************************************************)
EXTENDS Integers, Sequences, SequencesExt

CONSTANT FS_NAME_MAX      \* longest name of the file system, in components

Rel(cs) == [abs |-> FALSE, cs |-> cs]
Abs(cs) == [abs |-> TRUE, cs |-> cs]

\* ".." at the root stays there.
path_pop(p) == IF p = <<>> THEN <<>> ELSE Front(p)

\* <<>> stands for the return value 0: no name, or one that folds to the root.
path_resolve(base, name) ==
    FoldLeft(LAMBDA p, c: CASE c = "." -> p [] c = ".." -> path_pop(p) [] OTHER -> Append(p, c),
             IF name.abs \/ name.cs = <<>> THEN <<>> ELSE base, name.cs)

\* A name the file system would truncate is no name either.
path_fs(base, name) ==
    LET p == path_resolve(base, name) IN IF Len(p) <= FS_NAME_MAX THEN p ELSE <<>>

path_dir(p)  == Front(p)
path_base(p) == Last(p)
=============================================================================
