------------------------------ MODULE FileMap ------------------------------
(***************************************************************************)
(* What the file system promises a program that follows the rules: a map   *)
(* from names to contents, and at most one file being written through a    *)
(* handle.  That file is empty in the map until it is closed, and remains  *)
(* so if the program ends first.                                           *)
(***************************************************************************)
EXTENDS Integers, Sequences

CONSTANTS Keys, Buffers

VARIABLES
  files,    \* the existing keys and what loading each one delivers
  writer    \* {} or the one [key, data] being written

Orphan == <<"", "">>   \* the key of a file deleted while it is written

Init == files = [k \in {} |-> <<>>] /\ writer = {}

Bind(k, content) ==
  [x \in DOMAIN files \cup {k} |-> IF x = k THEN content ELSE files[x]]
Unbind(k) == [x \in DOMAIN files \ {k} |-> files[x]]
Rekey(k, m) ==
  {[w EXCEPT !.key = IF @ = k THEN m ELSE @] : w \in writer}

Put(k, content) == files' = Bind(k, content) /\ UNCHANGED writer

Remove(k) ==
  /\ k \in DOMAIN files
  /\ files' = Unbind(k)
  /\ writer' = Rekey(k, Orphan)

Move(k, m) ==
  /\ k \in DOMAIN files /\ m \notin DOMAIN files
  /\ files' = [x \in (DOMAIN files \ {k}) \cup {m} |->
                 IF x = m THEN files[k] ELSE files[x]]
  /\ writer' = Rekey(k, m)

Begin(k) ==
  /\ writer = {}
  /\ files' = Bind(k, <<>>)
  /\ writer' = {[key |-> k, data |-> <<>>]}

Extend(buf) ==
  /\ writer # {}
  /\ writer' = {[w EXCEPT !.data = @ \o buf] : w \in writer}
  /\ UNCHANGED files

Publish ==
  \E w \in writer :
    /\ files' = IF w.key = Orphan THEN files ELSE Bind(w.key, w.data)
    /\ writer' = {}

Abandon == writer # {} /\ writer' = {} /\ UNCHANGED files

Next ==
  \/ \E k \in Keys : Remove(k) \/ Begin(k)
  \/ \E k, m \in Keys : Move(k, m)
  \/ \E k \in Keys, buf \in Buffers : Put(k, buf)
  \/ \E buf \in Buffers : Extend(buf)
  \/ Publish \/ Abandon

Spec == Init /\ [][Next]_<<files, writer>>

=============================================================================
