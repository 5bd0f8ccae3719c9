------------------------------- MODULE MCNvme -------------------------------
(***************************************************************************)
(* NvmeQueue for TLC, with two controllers: one answers every command in   *)
(* time, under transfers of any shape; the other may be late or dead,      *)
(* under transfers of one block.                                           *)
(***************************************************************************)
EXTENDS NvmeQueue

VARIABLE answers    \* whether this controller answers in time

mcvars == <<vars, answers>>

MCInit ==
  /\ Init
  /\ answers \in BOOLEAN
  /\ ~answers => media = [b \in Blocks |-> 1] /\ bounce = 1

\* What the late controller is asked to transfer.
OneBlock(write, lba, count, buf) == ~answers => ~write /\ lba = 0 /\ count = 1 /\ buf[0] = 1

MCNext ==
  /\ UNCHANGED answers
  /\ \/ \E write \in BOOLEAN, lba \in Blocks, count \in 1 .. MaxCount :
          \E buf \in [0 .. count - 1 -> Values] : OneBlock(write, lba, count, buf) /\ Begin(write, lba, count, buf)
     \/ Submit \/ Reap \/ (~answers /\ Timeout)
     \/ Fetch
     \/ \E c \in inflight : CompleteWrite(c) \/ CompleteRead(c) \/ CompleteError(c)

MCSpec == MCInit /\ [][MCNext]_mcvars /\ WF_mcvars(UNCHANGED answers /\ Submit)
          /\ WF_mcvars(UNCHANGED answers /\ (Reap \/ (~answers /\ Timeout)))

\* "Submit one command and wait for it": with a controller that answers in time
\* the completion whose status submit returns is the one of its command.
OwnCompletion == answers => CompletionIsOurs

\* When nvme_write returns 0, every block of the transfer holds what was
\* passed; when nvme_read returns 0, every block was delivered.
TransferredDataIsOnMedia == answers => ReturnedDataIsOnMedia

\* A write that fails in the middle has stored the chunks before the failed one.
PrefixSurvivesFailure == answers => FailedWriteKeepsPrefix

\* "-1 marks a timeout so a dead controller cannot wedge the boot": without any
\* help from the controller every transfer returns, unless it answers in time.
DeadControllerIsLeft == (~answers /\ pc # "idle") ~> pc = "idle"
=============================================================================
