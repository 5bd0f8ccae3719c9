----------------------------- MODULE NvmeQueue -----------------------------
(***************************************************************************)
(* The NVMe driver (kernel/nvme.c): nvme_read and nvme_write cut a         *)
(* transfer into chunks, each chunk goes through the one bounce buffer, and *)
(* submit() places the command in the submission ring, rings the doorbell  *)
(* and polls the completion ring.  A chunk is one block here.              *)
(*                                                                         *)
(* The controller is external: it fetches commands in order, completes     *)
(* them in any order, moves the data and posts an entry with its phase bit. *)
(***************************************************************************)
EXTENDS Integers, FiniteSets

CONSTANTS
  QDepth,         \* QDEPTH, entries of each ring
  CidMod,         \* command identifiers before next_cid wraps (2^16)
  NBlocks,        \* info.blocks
  Values,         \* contents of a block
  MaxCount,       \* bound: blocks of the longest transfer
  TimeoutsHappen  \* whether submit's spin limit or CSTS.CFS may strike

ASSUME NvmeAssumption ==
  /\ QDepth \in Nat \ {0, 1} /\ CidMod \in Nat \ {0}
  /\ NBlocks \in Nat \ {0} /\ MaxCount \in Nat \ {0}
  /\ Values # {}
  /\ TimeoutsHappen \in BOOLEAN

Ring == 0 .. QDepth - 1
Blocks == 0 .. NBlocks - 1
Succ(i) == (i + 1) % QDepth

Cids == 0 .. CidMod - 1
Command == [cid : Cids, write : BOOLEAN, lba : Blocks]
Completion == [cid : Cids, ok : BOOLEAN, phase : {0, 1}]

\* A transfer: what rw() was called with, the chunk it is at, and its result.
Buffer == UNION {[0 .. n - 1 -> Values] : n \in 1 .. MaxCount}
Transfer == [write : BOOLEAN, lba : Blocks, buf : Buffer,
             count : 1 .. MaxCount, at : 0 .. MaxCount,
             result : {"pending", "ok", "fail"}]

VARIABLES
  \* the driver
  pc,         \* "idle", "chunk" (about to submit) or "poll"
  xfer,       \* the current or the last transfer
  bounce,     \* the bounce buffer
  next_cid,   \* the identifier of the next command
  sq, tail,   \* the submission ring and io_sq_tail, which the doorbell shows
  head,       \* io_cq_head
  phase,      \* io_phase
  \* the controller
  media,      \* the blocks of the namespace
  sq_head,    \* the next command to fetch
  inflight,   \* commands fetched and not completed
  cq,         \* the completion ring, in memory
  cq_tail,    \* where the next completion goes
  cq_phase    \* the phase bit it will carry

driver == <<pc, xfer, bounce, next_cid, sq, tail, head, phase>>
controller == <<media, sq_head, inflight, cq, cq_tail, cq_phase>>
vars == <<driver, controller>>

NoTransfer(v) == [write |-> FALSE, lba |-> 0, buf |-> [i \in 0 .. 0 |-> v],
                  count |-> 1, at |-> 0, result |-> "fail"]
NoCommand == [cid |-> 0, write |-> FALSE, lba |-> 0]

\* The state nvme_init leaves: both rings zeroed, phase 1 expected.
Init ==
  /\ pc = "idle" /\ next_cid = 1 % CidMod
  /\ \E v \in Values : xfer = NoTransfer(v) /\ bounce = v
  /\ sq = [i \in Ring |-> NoCommand] /\ tail = 0 /\ head = 0 /\ phase = 1
  /\ media \in [Blocks -> Values]
  /\ sq_head = 0 /\ inflight = {}
  /\ cq = [i \in Ring |-> [cid |-> 0, ok |-> TRUE, phase |-> 0]]
  /\ cq_tail = 0 /\ cq_phase = 1

(***************************************************************************)
(* The driver.                                                             *)
(***************************************************************************)
\* Mutant: the end of the namespace is not checked.
BeginUnchecked(write, lba, count, buf) ==
  /\ pc = "idle"
  /\ xfer' = [write |-> write, lba |-> lba, buf |-> buf, count |-> count,
              at |-> 0, result |-> "pending"]
  /\ pc' = "chunk"
  /\ UNCHANGED <<bounce, next_cid, sq, tail, head, phase, controller>>

\* rw(): refuses a transfer past the last block before it starts.
Begin(write, lba, count, buf) ==
  /\ pc = "idle"
  /\ lba + count <= NBlocks
  /\ xfer' = [write |-> write, lba |-> lba, buf |-> buf, count |-> count,
              at |-> 0, result |-> "pending"]
  /\ pc' = "chunk"
  /\ UNCHANGED <<bounce, next_cid, sq, tail, head, phase, controller>>

\* rw_chunk and the first half of submit: fill the bounce buffer, write the
\* command at the tail and ring the doorbell.  Nothing looks whether the
\* controller has fetched what the slot held.
Submit ==
  /\ pc = "chunk"
  /\ bounce' = IF xfer.write THEN xfer.buf[xfer.at] ELSE bounce
  /\ sq' = [sq EXCEPT ![tail] = [cid |-> next_cid, write |-> xfer.write,
                                 lba |-> xfer.lba + xfer.at]]
  /\ tail' = Succ(tail)
  /\ next_cid' = (next_cid + 1) % CidMod
  /\ pc' = "poll"
  /\ UNCHANGED <<xfer, head, phase, controller>>

Fresh == cq[head].phase = phase

Done(result) == xfer' = [xfer EXCEPT !.result = result] /\ pc' = "idle"

\* The chunk is done: rw() copies it out and goes on to the next one.
ChunkDone ==
  /\ xfer' = [xfer EXCEPT
       !.buf[xfer.at] = IF xfer.write THEN @ ELSE bounce,
       !.at = @ + 1,
       !.result = IF xfer.at + 1 = xfer.count THEN "ok" ELSE "pending"]
  /\ pc' = IF xfer.at + 1 = xfer.count THEN "idle" ELSE "chunk"

\* Mutant: the expected phase is not flipped when the head wraps.
ReapKeepsPhase ==
  /\ pc = "poll" /\ Fresh
  /\ head' = Succ(head)
  /\ IF ~cq[head].ok THEN Done("fail") ELSE ChunkDone
  /\ UNCHANGED <<bounce, next_cid, sq, tail, phase, controller>>

\* Mutant: the head is not advanced.
ReapKeepsHead ==
  /\ pc = "poll" /\ Fresh
  /\ IF ~cq[head].ok THEN Done("fail") ELSE ChunkDone
  /\ UNCHANGED <<bounce, next_cid, sq, tail, head, phase, controller>>

\* Mutant: the status of the completion is not looked at.
ReapIgnoresStatus ==
  /\ pc = "poll" /\ Fresh
  /\ head' = Succ(head)
  /\ phase' = IF Succ(head) = 0 THEN 1 - phase ELSE phase
  /\ ChunkDone
  /\ UNCHANGED <<bounce, next_cid, sq, tail, controller>>

\* Mutant: a chunk that failed is counted.
ReapCountsFailed ==
  /\ pc = "poll" /\ Fresh
  /\ head' = Succ(head)
  /\ phase' = IF Succ(head) = 0 THEN 1 - phase ELSE phase
  /\ IF ~cq[head].ok
     THEN xfer' = [xfer EXCEPT !.result = "fail", !.at = @ + 1] /\ pc' = "idle"
     ELSE ChunkDone
  /\ UNCHANGED <<bounce, next_cid, sq, tail, controller>>

\* The second half of submit: the entry at the head has the expected phase.
\* Its status is taken as the status of the command just submitted.
Reap ==
  /\ pc = "poll" /\ Fresh
  /\ head' = Succ(head)
  /\ phase' = IF Succ(head) = 0 THEN 1 - phase ELSE phase
  /\ IF ~cq[head].ok THEN Done("fail") ELSE ChunkDone
  /\ UNCHANGED <<bounce, next_cid, sq, tail, controller>>

\* Mutant: the chunk is submitted again, any number of times.
TimeoutRetries ==
  /\ TimeoutsHappen
  /\ pc = "poll" /\ ~Fresh
  /\ pc' = "chunk"
  /\ UNCHANGED <<xfer, bounce, next_cid, sq, tail, head, phase, controller>>

\* The spin limit or a fatal controller status: submit returns -1, and the
\* command stays in the ring.
Timeout ==
  /\ TimeoutsHappen
  /\ pc = "poll" /\ ~Fresh
  /\ Done("fail")
  /\ UNCHANGED <<bounce, next_cid, sq, tail, head, phase, controller>>

(***************************************************************************)
(* The controller (external).                                              *)
(***************************************************************************)
Fetch ==
  /\ sq_head # tail
  /\ inflight' = inflight \cup {sq[sq_head]}
  /\ sq_head' = Succ(sq_head)
  /\ UNCHANGED <<driver, media, cq, cq_tail, cq_phase>>

Post(c, ok) ==
  /\ Succ(cq_tail) # head
  /\ cq' = [cq EXCEPT ![cq_tail] = [cid |-> c.cid, ok |-> ok, phase |-> cq_phase]]
  /\ cq_tail' = Succ(cq_tail)
  /\ cq_phase' = IF Succ(cq_tail) = 0 THEN 1 - cq_phase ELSE cq_phase
  /\ inflight' = inflight \ {c}

CompleteWrite(c) ==
  /\ c.write
  /\ Post(c, TRUE)
  /\ media' = [media EXCEPT ![c.lba] = bounce]
  /\ UNCHANGED <<driver, sq_head>>

CompleteRead(c) ==
  /\ ~c.write
  /\ Post(c, TRUE)
  /\ bounce' = media[c.lba]
  /\ UNCHANGED <<pc, xfer, next_cid, sq, tail, head, phase, media, sq_head>>

CompleteError(c) ==
  /\ Post(c, FALSE)
  /\ UNCHANGED <<driver, media, sq_head>>

Next ==
  \/ \E write \in BOOLEAN, lba \in Blocks, count \in 1 .. MaxCount :
       \E buf \in [0 .. count - 1 -> Values] : Begin(write, lba, count, buf)
  \/ Submit \/ Reap \/ Timeout
  \/ Fetch
  \/ \E c \in inflight : CompleteWrite(c) \/ CompleteRead(c) \/ CompleteError(c)

\* submit polls without interruption, and its loop ends.
Fairness == WF_vars(Submit) /\ WF_vars(Reap \/ Timeout)

Spec == Init /\ [][Next]_vars
FairSpec == Spec /\ Fairness

(***************************************************************************)
(* Properties.                                                             *)
(***************************************************************************)
\* Every variable keeps its range; a transfer's chunk lies inside it.
TypeOK ==
  /\ pc \in {"idle", "chunk", "poll"} /\ xfer \in Transfer
  /\ bounce \in Values /\ next_cid \in Cids
  /\ sq \in [Ring -> Command] /\ tail \in Ring
  /\ head \in Ring /\ phase \in {0, 1}
  /\ media \in [Blocks -> Values]
  /\ sq_head \in Ring /\ inflight \subseteq Command
  /\ cq \in [Ring -> Completion] /\ cq_tail \in Ring /\ cq_phase \in {0, 1}

\* Completions posted and not yet reaped.
Unreaped ==
  IF phase = cq_phase THEN cq_tail - head ELSE QDepth - head + cq_tail

\* The comment in submit: "the phase bit flips each time the controller wraps
\* the queue, which is how we tell a fresh entry from a stale one".  The entry
\* at the head looks fresh exactly when a completion waits there, on every
\* pass through the ring and whatever timed out before.
PhaseTellsFresh == Fresh <=> Unreaped > 0

\* "Submit one command and wait for it": the completion whose status submit
\* returns is the one of the command it submitted.
CompletionIsOurs ==
  pc = "poll" /\ Fresh => (cq[head].cid + 1) % CidMod = next_cid

\* When nvme_write returns 0, every block of the transfer holds what was
\* passed; when nvme_read returns 0, every block was delivered.
ReturnedDataIsOnMedia ==
  pc = "idle" /\ xfer.result = "ok" =>
    \A i \in 0 .. xfer.count - 1 : media[xfer.lba + i] = xfer.buf[i]

\* A write that fails in the middle has stored the chunks before the failed
\* one: the chunk counter never runs ahead of the media.
FailedWriteKeepsPrefix ==
  pc = "idle" /\ xfer.result = "fail" /\ xfer.write =>
    \A i \in 0 .. xfer.at - 1 : media[xfer.lba + i] = xfer.buf[i]

=============================================================================
