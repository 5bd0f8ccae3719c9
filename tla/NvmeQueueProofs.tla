-------------------------- MODULE NvmeQueueProofs --------------------------
(***************************************************************************)
(* Proofs about the NVMe driver, for every ring size and every namespace:  *)
(* its types and the meaning of the phase bit with or without timeouts,    *)
(* and what a transfer does with a controller that answers in time.        *)
(***************************************************************************)
EXTENDS MCNvme, TLAPS

(***************************************************************************)
(* The type invariant needs where a transfer stands.                       *)
(***************************************************************************)
XferOK ==
  /\ xfer.buf \in [0 .. xfer.count - 1 -> Values]
  /\ pc # "idle" => xfer.at < xfer.count /\ xfer.lba + xfer.count <= NBlocks

TypeInv == TypeOK /\ XferOK

LEMMA SuccType == \A i \in Ring : Succ(i) \in Ring
BY NvmeAssumption DEF Ring, Succ

LEMMA SuccIs ==
  \A i \in Ring : Succ(i) = IF i = QDepth - 1 THEN 0 ELSE i + 1
BY NvmeAssumption DEF Ring, Succ

LEMMA NextCidType == \A c \in Cids : (c + 1) % CidMod \in Cids
BY NvmeAssumption DEF Cids

LEMMA BufferType ==
  ASSUME NEW n \in 1 .. MaxCount, NEW b \in [0 .. n - 1 -> Values]
  PROVE  b \in Buffer
BY DEF Buffer

LEMMA TypeInit == Init => TypeInv
<1> SUFFICES ASSUME Init PROVE TypeInv
  OBVIOUS
<1> USE NvmeAssumption
<1>1. PICK v \in Values : xfer = NoTransfer(v) /\ bounce = v
  BY DEF Init
<1>2. 1 \in 1 .. MaxCount /\ 0 .. 0 = 0 .. 1 - 1
  OBVIOUS
<1>3. xfer.buf \in [0 .. 1 - 1 -> Values]
  BY <1>1, <1>2 DEF NoTransfer
<1>4. xfer.buf \in Buffer
  BY <1>2, <1>3, BufferType
<1>5. xfer \in Transfer /\ XferOK
  BY <1>1, <1>2, <1>3, <1>4 DEF Init, NoTransfer, Transfer, Blocks, XferOK
<1>6. NoCommand \in Command
  BY DEF NoCommand, Command, Cids, Blocks
<1>7. 1 % CidMod \in Cids
  BY DEF Cids
<1> QED
  BY <1>1, <1>5, <1>6, <1>7 DEF Init, TypeInv, TypeOK, Ring, Completion, Cids

\* The completion side of the controller keeps the types, whatever it posts.
LEMMA PostType ==
  ASSUME TypeOK, NEW c \in inflight, NEW ok \in BOOLEAN, Post(c, ok)
  PROVE  /\ cq' \in [Ring -> Completion] /\ cq_tail' \in Ring
         /\ cq_phase' \in {0, 1} /\ inflight' \subseteq Command
<1>1. c \in Command
  BY DEF TypeOK
<1>2. [cid |-> c.cid, ok |-> ok, phase |-> cq_phase] \in Completion
  BY <1>1 DEF TypeOK, Command, Completion
<1> QED
  BY <1>1, <1>2, SuccType DEF TypeOK, Post

LEMMA ChunkDoneType ==
  ASSUME TypeInv, pc # "idle", ChunkDone
  PROVE  pc' \in {"idle", "chunk", "poll"} /\ xfer' \in Transfer /\ XferOK'
<1> USE NvmeAssumption
<1> DEFINE b == [xfer.buf EXCEPT ![xfer.at] = IF xfer.write THEN @ ELSE bounce]
<1>1. /\ xfer.count \in 1 .. MaxCount /\ xfer.at \in 0 .. MaxCount
      /\ xfer.lba \in Blocks /\ xfer.write \in BOOLEAN
  BY DEF TypeInv, TypeOK, Transfer
<1>2. xfer.buf \in [0 .. xfer.count - 1 -> Values] /\ xfer.at < xfer.count
      /\ xfer.lba + xfer.count <= NBlocks
  BY DEF TypeInv, XferOK
<1>3. b \in [0 .. xfer.count - 1 -> Values]
  BY <1>1, <1>2 DEF TypeInv, TypeOK
<1>4. b \in Buffer
  BY <1>1, <1>3, BufferType
<1>5. xfer' = [write |-> xfer.write, lba |-> xfer.lba, buf |-> b,
               count |-> xfer.count, at |-> xfer.at + 1,
               result |-> IF xfer.at + 1 = xfer.count THEN "ok" ELSE "pending"]
  BY DEF ChunkDone, TypeInv, TypeOK, Transfer
<1>6. xfer.at + 1 \in 0 .. MaxCount
  BY <1>1, <1>2
<1>7. xfer' \in Transfer
  BY <1>1, <1>4, <1>5, <1>6 DEF Transfer
<1>8. pc' \in {"idle", "chunk", "poll"}
      /\ (pc' # "idle" => xfer.at + 1 # xfer.count)
  BY DEF ChunkDone
<1>9. XferOK'
  BY <1>1, <1>2, <1>3, <1>5, <1>8 DEF XferOK, Blocks
<1> QED
  BY <1>7, <1>8, <1>9

LEMMA DoneType ==
  ASSUME TypeInv, Done("fail")
  PROVE  pc' \in {"idle", "chunk", "poll"} /\ xfer' \in Transfer /\ XferOK'
<1>1. xfer' \in Transfer /\ xfer'.buf = xfer.buf /\ xfer'.count = xfer.count
  BY DEF TypeInv, TypeOK, Transfer, Done
<1> QED
  BY <1>1 DEF Done, TypeInv, XferOK

LEMMA TypeStep == TypeInv /\ [Next]_vars => TypeInv'
<1> SUFFICES ASSUME TypeInv, [Next]_vars PROVE TypeInv'
  OBVIOUS
<1> USE NvmeAssumption
<1>1. ASSUME NEW write \in BOOLEAN, NEW lba \in Blocks,
             NEW count \in 1 .. MaxCount,
             NEW buf \in [0 .. count - 1 -> Values],
             Begin(write, lba, count, buf)
      PROVE  TypeInv'
  <2>1. buf \in Buffer
    BY BufferType
  <2>2. xfer' \in Transfer /\ XferOK'
    BY <1>1, <2>1 DEF Begin, Transfer, XferOK, Blocks
  <2> QED
    BY <1>1, <2>2 DEF Begin, TypeInv, TypeOK, controller
<1>2. CASE Submit
  <2>1. xfer.at \in 0 .. xfer.count - 1 /\ xfer.lba + xfer.at \in Blocks
        /\ xfer.write \in BOOLEAN
    BY <1>2 DEF Submit, TypeInv, TypeOK, XferOK, Transfer, Blocks
  <2>2. bounce' \in Values
    BY <1>2, <2>1 DEF Submit, TypeInv, TypeOK, XferOK
  <2>3. [cid |-> next_cid, write |-> xfer.write, lba |-> xfer.lba + xfer.at]
          \in Command
    BY <2>1 DEF Command, TypeInv, TypeOK
  <2>4. sq' \in [Ring -> Command] /\ tail' \in Ring /\ next_cid' \in Cids
    BY <1>2, <2>3, SuccType, NextCidType DEF Submit, TypeInv, TypeOK
  <2> QED
    BY <1>2, <2>2, <2>4 DEF Submit, TypeInv, TypeOK, XferOK, controller
<1>3. CASE Reap
  <2>1. pc' \in {"idle", "chunk", "poll"} /\ xfer' \in Transfer /\ XferOK'
    BY <1>3, ChunkDoneType, DoneType DEF Reap
  <2>2. head' \in Ring /\ phase' \in {0, 1}
    BY <1>3, SuccType DEF Reap, TypeInv, TypeOK
  <2> QED
    BY <1>3, <2>1, <2>2 DEF Reap, TypeInv, TypeOK, controller
<1>4. CASE Timeout
  BY <1>4, DoneType DEF Timeout, TypeInv, TypeOK, controller
<1>5. CASE Fetch
  BY <1>5, SuccType DEF Fetch, TypeInv, TypeOK, XferOK, driver
<1>6. ASSUME NEW c \in inflight, CompleteWrite(c)
      PROVE  TypeInv'
  BY <1>6, PostType DEF CompleteWrite, TypeInv, TypeOK, XferOK, driver
<1>7. ASSUME NEW c \in inflight, CompleteRead(c)
      PROVE  TypeInv'
  <2>1. bounce' \in Values
    BY <1>7 DEF CompleteRead, TypeInv, TypeOK, Command
  <2> QED
    BY <1>7, <2>1, PostType DEF CompleteRead, TypeInv, TypeOK, XferOK
<1>8. ASSUME NEW c \in inflight, CompleteError(c)
      PROVE  TypeInv'
  BY <1>8, PostType DEF CompleteError, TypeInv, TypeOK, XferOK, driver
<1>9. CASE UNCHANGED vars
  BY <1>9 DEF vars, driver, controller, TypeInv, TypeOK, XferOK
<1> QED
  BY <1>1, <1>2, <1>3, <1>4, <1>5, <1>6, <1>7, <1>8, <1>9 DEF Next

\* Every variable of the driver and of the controller keeps its range: no
\* command leaves the namespace and no chunk lies outside its transfer.
THEOREM TypeCorrect == Spec => []TypeOK
<1>1. TypeInv => TypeOK
  BY DEF TypeInv
<1> QED
  BY TypeInit, TypeStep, <1>1, PTL DEF Spec

(***************************************************************************)
(* The rings.  The controller has written the entries below cq_tail with   *)
(* its current phase and the others with the last one, and the driver's    *)
(* head is on the same pass (and not ahead) or one pass behind.            *)
(***************************************************************************)
RingInv ==
  /\ \A i \in Ring : cq[i].phase = cq_phase <=> i < cq_tail
  /\ phase = cq_phase => head <= cq_tail
  /\ phase # cq_phase => cq_tail < head

LEMMA RingInit == Init => RingInv
BY DEF Init, RingInv, Ring

LEMMA RingPost ==
  ASSUME TypeOK, RingInv, NEW c \in inflight, NEW ok \in BOOLEAN, Post(c, ok),
         UNCHANGED <<head, phase>>
  PROVE  RingInv'
<1> USE NvmeAssumption
<1> DEFINE e == [cid |-> c.cid, ok |-> ok, phase |-> cq_phase]
<1>1. cq_tail \in Ring /\ head \in Ring /\ phase \in {0, 1} /\ cq_phase \in {0, 1}
      /\ cq \in [Ring -> Completion] /\ \A i \in Ring : cq[i].phase \in {0, 1}
  BY DEF TypeOK, Completion
<1>2. cq' = [cq EXCEPT ![cq_tail] = e] /\ e.phase = cq_phase
  BY DEF Post
<1>3. \A i \in Ring : cq'[i].phase = IF i = cq_tail THEN cq_phase ELSE cq[i].phase
  BY <1>1, <1>2
<1>4. CASE cq_tail = QDepth - 1
  <2>1. cq_tail' = 0 /\ cq_phase' = 1 - cq_phase /\ head # 0
    BY <1>1, <1>4, SuccIs DEF Post
  <2>2. \A i \in Ring : cq'[i].phase = cq_phase
    BY <1>1, <1>3, <1>4 DEF RingInv, Ring
  <2>3. phase = cq_phase
    BY <1>1, <1>4 DEF RingInv, Ring
  <2> QED
    BY <1>1, <2>1, <2>2, <2>3 DEF RingInv, Ring
<1>5. CASE cq_tail # QDepth - 1
  <2>1. cq_tail' = cq_tail + 1 /\ cq_phase' = cq_phase /\ head # cq_tail + 1
    BY <1>1, <1>5, SuccIs DEF Post, Ring
  <2>2. \A i \in Ring : cq'[i].phase = cq_phase' <=> i < cq_tail'
    BY <1>1, <1>3, <2>1 DEF RingInv, Ring
  <2> QED
    BY <1>1, <2>1, <2>2 DEF RingInv, Ring
<1> QED
  BY <1>4, <1>5

LEMMA RingStep == TypeOK /\ RingInv /\ [Next]_vars => RingInv'
<1> SUFFICES ASSUME TypeOK, RingInv, [Next]_vars PROVE RingInv'
  OBVIOUS
<1> USE NvmeAssumption
<1>1. CASE Reap
  <2>1. cq_tail \in Ring /\ head \in Ring /\ phase \in {0, 1} /\ cq_phase \in {0, 1}
    BY DEF TypeOK
  <2>2. UNCHANGED <<cq, cq_tail, cq_phase>> /\ cq[head].phase = phase
    BY <1>1 DEF Reap, Fresh, controller
  <2>3. CASE head = QDepth - 1
    <3>1. head' = 0 /\ phase' = 1 - phase
      BY <1>1, <2>1, <2>3, SuccIs DEF Reap
    <3>2. phase # cq_phase
      BY <2>1, <2>2, <2>3 DEF RingInv, Ring
    <3> QED
      BY <2>1, <2>2, <3>1, <3>2 DEF RingInv, Ring
  <2>4. CASE head # QDepth - 1
    <3>1. head' = head + 1 /\ phase' = phase
      BY <1>1, <2>1, <2>4, SuccIs DEF Reap, Ring
    <3> QED
      BY <2>1, <2>2, <3>1 DEF RingInv, Ring
  <2> QED
    BY <2>3, <2>4
<1>2. ASSUME NEW c \in inflight, CompleteWrite(c) \/ CompleteRead(c) \/ CompleteError(c)
      PROVE  RingInv'
  BY <1>2, RingPost DEF CompleteWrite, CompleteRead, CompleteError, driver
<1>3. ASSUME UNCHANGED <<head, phase, cq, cq_tail, cq_phase>>
      PROVE  RingInv'
  BY <1>3 DEF RingInv
<1> QED
  BY <1>1, <1>2, <1>3 DEF Next, Begin, Submit, Timeout, Fetch, vars, driver,
     controller

LEMMA RingInvTellsFresh == TypeOK /\ RingInv => PhaseTellsFresh
BY NvmeAssumption DEF TypeOK, RingInv, PhaseTellsFresh, Fresh, Unreaped, Ring,
   Completion

\* The entry at the head carries the phase submit() expects exactly when the
\* controller has posted a completion that has not been reaped, for a ring of
\* any size, whatever was submitted, completed or timed out before.
THEOREM PhaseBitCorrect == Spec => []PhaseTellsFresh
BY TypeCorrect, RingInit, RingStep, RingInvTellsFresh, PTL DEF Spec

(***************************************************************************)
(* A controller that answers in time.  No more than one command is         *)
(* anywhere: in the submission ring, at the controller or, answered, in    *)
(* the completion ring; and the blocks before the current chunk hold what  *)
(* the caller's buffer holds.                                              *)
(***************************************************************************)
\* The command c is the one of the current chunk.
IsOurs(c) ==
  /\ (c.cid + 1) % CidMod = next_cid
  /\ c.write = xfer.write /\ c.lba = xfer.lba + xfer.at

NothingPosted == head = cq_tail /\ phase = cq_phase
BounceFilled == xfer.write => bounce = xfer.buf[xfer.at]

NoneOutstanding == pc # "poll" /\ tail = sq_head /\ inflight = {} /\ NothingPosted

Queued ==
  /\ pc = "poll" /\ tail = Succ(sq_head) /\ inflight = {}
  /\ IsOurs(sq[sq_head]) /\ NothingPosted /\ BounceFilled

Fetched ==
  /\ pc = "poll" /\ tail = sq_head /\ NothingPosted /\ BounceFilled
  /\ \E c \in Command : inflight = {c} /\ IsOurs(c)

ChunkMoved ==
  media[xfer.lba + xfer.at] = IF xfer.write THEN xfer.buf[xfer.at] ELSE bounce

Answered ==
  /\ pc = "poll" /\ tail = sq_head /\ inflight = {}
  /\ cq_tail = Succ(head)
  /\ cq_phase = IF Succ(head) = 0 THEN 1 - phase ELSE phase
  /\ (cq[head].cid + 1) % CidMod = next_cid
  /\ cq[head].ok => ChunkMoved

PrefixMoved ==
  /\ \A i \in 0 .. xfer.at - 1 : media[xfer.lba + i] = xfer.buf[i]
  /\ xfer.result = "ok" => xfer.at = xfer.count

InTimeInv == PrefixMoved /\ (NoneOutstanding \/ Queued \/ Fetched \/ Answered)

LEMMA InTimeInit == Init => InTimeInv
<1> SUFFICES ASSUME Init PROVE InTimeInv
  OBVIOUS
<1>1. xfer.at = 0 /\ xfer.result = "fail"
  BY DEF Init, NoTransfer
<1> QED
  BY <1>1 DEF Init, InTimeInv, PrefixMoved, NoneOutstanding, NothingPosted

LEMMA SuccDiffers == \A i \in Ring : Succ(i) # i
BY SuccIs, NvmeAssumption DEF Ring

\* The driver sees a completion when, and only when, its command is answered.
LEMMA NothingFresh == TypeOK /\ RingInv /\ NothingPosted => ~Fresh
BY RingInvTellsFresh DEF PhaseTellsFresh, Unreaped, NothingPosted, TypeOK, Ring

\* Where the current chunk lies.
LEMMA ChunkPlace ==
  ASSUME TypeInv
  PROVE  /\ xfer.lba \in Nat /\ xfer.at \in Nat /\ xfer.count \in Nat
         /\ xfer.write \in BOOLEAN /\ xfer.lba + xfer.at \in Nat
         /\ pc # "idle" => xfer.at < xfer.count /\ xfer.lba + xfer.at \in Blocks
                           /\ xfer.at \in DOMAIN xfer.buf
<1>1. /\ xfer.count \in 1 .. MaxCount /\ xfer.at \in 0 .. MaxCount
      /\ xfer.lba \in Blocks /\ xfer.write \in BOOLEAN
  BY DEF TypeInv, TypeOK, Transfer
<1>2. /\ pc # "idle" => xfer.at < xfer.count /\ xfer.lba + xfer.count <= NBlocks
      /\ DOMAIN xfer.buf = 0 .. xfer.count - 1
  BY DEF TypeInv, XferOK
<1>3. /\ xfer.lba \in Nat /\ xfer.at \in Nat /\ xfer.count \in Nat
      /\ xfer.lba + xfer.at \in Nat
  BY <1>1, NvmeAssumption DEF Blocks
<1>4. ASSUME pc # "idle"
      PROVE  xfer.lba + xfer.at \in Blocks /\ xfer.at \in 0 .. xfer.count - 1
  BY <1>2, <1>3, <1>4, NvmeAssumption DEF Blocks
<1> QED
  BY <1>1, <1>2, <1>3, <1>4

LEMMA BeginInTime ==
  ASSUME InTimeInv, NEW write, NEW lba, NEW count, NEW buf,
         Begin(write, lba, count, buf)
  PROVE  InTimeInv'
<1>1. NoneOutstanding
  BY DEF Begin, InTimeInv, Queued, Fetched, Answered
<1>2. xfer'.at = 0 /\ xfer'.result = "pending"
  BY DEF Begin
<1>3. PrefixMoved'
  BY <1>2 DEF PrefixMoved
<1>4. NoneOutstanding'
  BY <1>1 DEF Begin, NoneOutstanding, NothingPosted, controller
<1> QED
  BY <1>3, <1>4 DEF InTimeInv

LEMMA SubmitInTime == TypeInv /\ InTimeInv /\ Submit => InTimeInv'
<1> SUFFICES ASSUME TypeInv, InTimeInv, Submit PROVE InTimeInv'
  OBVIOUS
<1> DEFINE c == [cid |-> next_cid, write |-> xfer.write, lba |-> xfer.lba + xfer.at]
<1>1. NoneOutstanding /\ PrefixMoved
  BY DEF Submit, InTimeInv, Queued, Fetched, Answered
<1>2. /\ sq' = [sq EXCEPT ![tail] = c] /\ tail' = Succ(tail) /\ pc' = "poll"
      /\ next_cid' = (next_cid + 1) % CidMod
      /\ bounce' = IF xfer.write THEN xfer.buf[xfer.at] ELSE bounce
      /\ UNCHANGED <<xfer, head, phase, media, sq_head, inflight, cq_tail, cq_phase>>
  BY DEF Submit, controller
<1>3. sq'[sq_head'] = c
  BY <1>1, <1>2 DEF NoneOutstanding, TypeInv, TypeOK
<1>4. IsOurs(sq[sq_head])'
  BY <1>2, <1>3 DEF IsOurs
<1>5. BounceFilled' /\ NothingPosted'
  BY <1>1, <1>2 DEF BounceFilled, NothingPosted, NoneOutstanding
<1>6. PrefixMoved'
  BY <1>1, <1>2 DEF PrefixMoved
<1> QED
  BY <1>1, <1>2, <1>4, <1>5, <1>6 DEF InTimeInv, Queued, NoneOutstanding

LEMMA ReapInTime == TypeInv /\ RingInv /\ InTimeInv /\ Reap => InTimeInv'
<1> SUFFICES ASSUME TypeInv, RingInv, InTimeInv, Reap PROVE InTimeInv'
  OBVIOUS
<1>1. Answered /\ PrefixMoved /\ pc # "idle"
  BY NothingFresh DEF Reap, InTimeInv, NoneOutstanding, Queued, Fetched, TypeInv
<1>2. /\ UNCHANGED <<tail, media, sq_head, inflight, cq, cq_tail, cq_phase>>
      /\ tail' = sq_head' /\ inflight' = {} /\ NothingPosted'
  BY <1>1 DEF Reap, controller, Answered, NothingPosted
<1>3. CASE ~cq[head].ok
  <2>1. Done("fail")
    BY <1>3 DEF Reap
  <2>2. pc' = "idle" /\ xfer'.at = xfer.at /\ xfer'.lba = xfer.lba
        /\ xfer'.buf = xfer.buf /\ xfer'.result = "fail"
    BY <2>1 DEF Done, TypeInv, TypeOK, Transfer
  <2>3. PrefixMoved'
    BY <1>1, <1>2, <2>2 DEF PrefixMoved
  <2> QED
    BY <1>2, <2>2, <2>3 DEF InTimeInv, NoneOutstanding
<1>4. CASE cq[head].ok
  <2> DEFINE b == [xfer.buf EXCEPT ![xfer.at] = IF xfer.write THEN @ ELSE bounce]
  <2>1. ChunkDone
    BY <1>4 DEF Reap
  <2>2. xfer' = [write |-> xfer.write, lba |-> xfer.lba, buf |-> b,
                 count |-> xfer.count, at |-> xfer.at + 1,
                 result |-> IF xfer.at + 1 = xfer.count THEN "ok" ELSE "pending"]
    BY <2>1 DEF ChunkDone, TypeInv, TypeOK, Transfer
  <2>3. pc' # "poll"
    BY <2>1 DEF ChunkDone
  <2>4. ChunkMoved
    BY <1>1, <1>4 DEF Answered
  <2>5. xfer.at \in DOMAIN xfer.buf /\ xfer.at \in Nat /\ xfer.lba \in Nat
    BY <1>1, ChunkPlace
  <2>6. b[xfer.at] = media[xfer.lba + xfer.at]
        /\ \A i \in 0 .. xfer.at - 1 : b[i] = xfer.buf[i]
    <3>1. \A i \in 0 .. xfer.at - 1 : i # xfer.at /\ i \in DOMAIN xfer.buf
      BY <1>1, <2>5, ChunkPlace DEF TypeInv, XferOK
    <3> QED
      BY <2>4, <2>5, <3>1 DEF ChunkMoved
  <2> HIDE DEF b
  <2>7. \A i \in 0 .. xfer.at : media[xfer.lba + i] = b[i]
    BY <1>1, <2>5, <2>6 DEF PrefixMoved
  <2>8. PrefixMoved'
    BY <1>2, <2>2, <2>5, <2>7 DEF PrefixMoved
  <2> QED
    BY <1>2, <2>3, <2>8 DEF InTimeInv, NoneOutstanding
<1> QED
  BY <1>3, <1>4

LEMMA FetchInTime == TypeInv /\ InTimeInv /\ Fetch => InTimeInv'
<1> SUFFICES ASSUME TypeInv, InTimeInv, Fetch PROVE InTimeInv'
  OBVIOUS
<1>1. Queued /\ PrefixMoved
  BY DEF Fetch, InTimeInv, NoneOutstanding, Fetched, Answered
<1>2. /\ UNCHANGED <<pc, xfer, bounce, next_cid, tail, head, phase, media, cq_tail, cq_phase>>
      /\ inflight' = {sq[sq_head]} /\ sq_head' = Succ(sq_head)
  BY <1>1 DEF Fetch, driver, Queued
<1>3. sq[sq_head] \in Command /\ IsOurs(sq[sq_head])
  BY <1>1 DEF TypeInv, TypeOK, Queued
<1>4. IsOurs(sq[sq_head]) => \E c \in Command : inflight' = {c} /\ IsOurs(c)'
  BY <1>2, <1>3 DEF IsOurs
<1>5. PrefixMoved' /\ NothingPosted' /\ BounceFilled'
  BY <1>1, <1>2 DEF PrefixMoved, Queued, NothingPosted, BounceFilled
<1> QED
  BY <1>1, <1>2, <1>3, <1>4, <1>5 DEF InTimeInv, Fetched, Queued

LEMMA CompleteInTime ==
  ASSUME TypeInv, InTimeInv, NEW c \in inflight,
         CompleteWrite(c) \/ CompleteRead(c) \/ CompleteError(c)
  PROVE  InTimeInv'
<1>1. Fetched /\ PrefixMoved
  BY DEF InTimeInv, NoneOutstanding, Queued, Answered
<1>2. IsOurs(c) /\ inflight = {c} /\ c \in Command
  BY <1>1 DEF Fetched
<1>3. PICK ok \in BOOLEAN :
        /\ Post(c, ok)
        /\ ok => \/ xfer.write /\ bounce' = bounce
                    /\ media' = [media EXCEPT ![xfer.lba + xfer.at] = bounce]
                 \/ ~xfer.write /\ media' = media /\ bounce' = media[xfer.lba + xfer.at]
        /\ ~ok => media' = media
  BY <1>2 DEF CompleteWrite, CompleteRead, CompleteError, IsOurs, driver
<1>4. UNCHANGED <<pc, xfer, next_cid, tail, head, phase, sq_head>>
  BY DEF CompleteWrite, CompleteRead, CompleteError, driver
<1>5. /\ inflight' = {} /\ cq_tail' = Succ(head')
      /\ cq_phase' = IF Succ(head') = 0 THEN 1 - phase' ELSE phase'
      /\ cq'[head'].cid = c.cid /\ cq'[head'].ok = ok
  BY <1>1, <1>2, <1>3, <1>4 DEF Post, Fetched, NothingPosted, TypeInv, TypeOK
<1>6. /\ xfer.lba + xfer.at \in Blocks /\ xfer.lba \in Nat /\ xfer.at \in Nat
      /\ media \in [Blocks -> Values]
  BY <1>1, ChunkPlace DEF Fetched, TypeInv, TypeOK
<1>7. ok => ChunkMoved'
  BY <1>1, <1>3, <1>4, <1>6 DEF ChunkMoved, Fetched, BounceFilled
<1>8. PrefixMoved'
  <2>1. \A i \in 0 .. xfer.at - 1 : xfer.lba + i \in Blocks /\ xfer.lba + i # xfer.lba + xfer.at
    BY <1>6, NvmeAssumption DEF Blocks
  <2>2. \A i \in 0 .. xfer.at - 1 : media'[xfer.lba + i] = media[xfer.lba + i]
    BY <1>3, <1>6, <2>1
  <2> QED
    BY <1>1, <1>4, <2>2 DEF PrefixMoved
<1>9. (cq'[head'].cid + 1) % CidMod = next_cid'
  BY <1>2, <1>4, <1>5 DEF IsOurs
<1>10. Answered'
  BY <1>1, <1>4, <1>5, <1>7, <1>9 DEF Answered, Fetched
<1> QED
  BY <1>8, <1>10 DEF InTimeInv

\* Every step but a timeout keeps the one command in its place.
LEMMA InTimeStep ==
  ASSUME TypeInv, RingInv, InTimeInv, [Next]_vars, ~Timeout
  PROVE  InTimeInv'
<1>1. CASE UNCHANGED vars
  BY <1>1 DEF vars, driver, controller, InTimeInv, PrefixMoved, NoneOutstanding, Queued,
              Fetched, Answered, NothingPosted, BounceFilled, ChunkMoved, IsOurs
<1> QED
  BY <1>1, BeginInTime, SubmitInTime, ReapInTime, FetchInTime, CompleteInTime DEF Next

LEMMA InTimeProperties ==
  ASSUME TypeInv, RingInv, InTimeInv
  PROVE  CompletionIsOurs /\ ReturnedDataIsOnMedia /\ FailedWriteKeepsPrefix
<1>1. CompletionIsOurs
  BY NothingFresh DEF TypeInv, CompletionIsOurs, InTimeInv, NoneOutstanding, Queued,
                      Fetched, Answered
<1> QED
  BY <1>1 DEF InTimeInv, PrefixMoved, ReturnedDataIsOnMedia, FailedWriteKeepsPrefix

(***************************************************************************)
(* The theorems: for NvmeQueue without timeouts, and for MCNvme, whose     *)
(* late controller shares the state with the one that answers.             *)
(***************************************************************************)
\* Where submit's spin limit never strikes, the status it returns is the one
\* of its own command, although it compares no identifier; a transfer that
\* returns 0 moved every block, and one that failed moved those it counts.
THEOREM TransfersInTime ==
  ~TimeoutsHappen => (Spec => [](CompletionIsOurs /\ ReturnedDataIsOnMedia
                                 /\ FailedWriteKeepsPrefix))
<1> SUFFICES ASSUME ~TimeoutsHappen
             PROVE  Spec => [](CompletionIsOurs /\ ReturnedDataIsOnMedia
                               /\ FailedWriteKeepsPrefix)
  OBVIOUS
<1> DEFINE Inv == TypeInv /\ RingInv /\ InTimeInv
<1>1. Init => Inv
  BY TypeInit, RingInit, InTimeInit
<1>2. Inv /\ [Next]_vars => Inv'
  <2>1. ~Timeout
    BY DEF Timeout
  <2> QED
    BY <2>1, TypeStep, RingStep, InTimeStep DEF TypeInv
<1>3. Inv => CompletionIsOurs /\ ReturnedDataIsOnMedia /\ FailedWriteKeepsPrefix
  BY InTimeProperties
<1> QED
  BY <1>1, <1>2, <1>3, PTL DEF Spec

MCInv == TypeInv /\ RingInv /\ (answers => InTimeInv)

LEMMA MCInvInit == MCInit => MCInv
BY TypeInit, RingInit, InTimeInit DEF MCInit, MCInv

LEMMA MCInvStep == MCInv /\ [MCNext]_mcvars => MCInv'
<1> SUFFICES ASSUME MCInv, [MCNext]_mcvars PROVE MCInv'
  OBVIOUS
<1>1. [Next]_vars /\ answers' = answers
  BY DEF MCNext, mcvars, Next
<1>2. ASSUME answers, InTimeInv PROVE InTimeInv'
  <2>1. CASE UNCHANGED vars
    BY <1>2, <2>1 DEF vars, driver, controller, InTimeInv, PrefixMoved, NoneOutstanding,
                      Queued, Fetched, Answered, NothingPosted, BounceFilled, ChunkMoved, IsOurs
  <2>2. CASE MCNext
    BY <1>2, <2>2, BeginInTime, SubmitInTime, ReapInTime, FetchInTime, CompleteInTime
       DEF MCNext, MCInv
  <2> QED
    BY <2>1, <2>2 DEF mcvars
<1> QED
  BY <1>1, <1>2, TypeStep, RingStep DEF MCInv, TypeInv

\* A controller that answers in time: the completion whose status submit
\* returns is the one of the command it submitted, for rings of any size and
\* identifiers that wrap at any number.
THEOREM OwnCompletionTaken == MCSpec => []OwnCompletion
<1>1. MCInv => OwnCompletion
  BY InTimeProperties DEF MCInv, OwnCompletion
<1> QED
  BY <1>1, MCInvInit, MCInvStep, PTL DEF MCSpec

\* ... and when nvme_write or nvme_read returns 0, every block of the transfer
\* is on the media, or was delivered.
THEOREM SuccessMeansTransferred == MCSpec => []TransferredDataIsOnMedia
<1>1. MCInv => TransferredDataIsOnMedia
  BY InTimeProperties DEF MCInv, TransferredDataIsOnMedia
<1> QED
  BY <1>1, MCInvInit, MCInvStep, PTL DEF MCSpec

\* ... and a write that fails at some chunk has stored the chunks before it.
THEOREM FailureKeepsPrefix == MCSpec => []PrefixSurvivesFailure
<1>1. MCInv => PrefixSurvivesFailure
  BY InTimeProperties DEF MCInv, PrefixSurvivesFailure
<1> QED
  BY <1>1, MCInvInit, MCInvStep, PTL DEF MCSpec

=============================================================================
