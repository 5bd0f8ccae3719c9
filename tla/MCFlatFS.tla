----------------------------- MODULE MCFlatFS -----------------------------
(***************************************************************************)
(* Small instances of the file system.                                     *)
(***************************************************************************)
EXTENDS FlatFS

Short(s, case) == [stem |-> s, c16 |-> "", rest |-> "", case |-> case]

TwoFiles == {Short("A", "upper"), Short("B", "upper")}
\* Two files, one of them under both spellings.
BothSpellings == TwoFiles \cup {Short("A", "lower")}

\* Less than a sector of two bytes, and a sector and a half.
HalfSectors == {<<1>>, <<1, 2, 2>>}
\* One and two sectors of one byte, told apart.
DistinctContents == {<<1>>, <<2, 2>>}
\* Two contents of the same size.
TwoContents == {<<1>>, <<2>>}
NegativeAndOne == {-1, 1}
=============================================================================
