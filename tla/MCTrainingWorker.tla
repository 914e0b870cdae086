--------------------------- MODULE MCTrainingWorker ---------------------------
(* A small instance of TrainingWorker.  The run of one job was cancelled, and  *)
(* the window of its escrow closed, before the model begins: its row stays     *)
(* EXECUTING, and takes the only place of a poll from the other job, until a   *)
(* funding retry, if ever, takes it back.                                      *)
EXTENDS TrainingWorker

CONSTANT Cancelled

MCInit ==
  /\ training = [t \in Runs |-> [status |-> IF t = Cancelled THEN "CANCELLED" ELSE "QUEUED",
                                 by |-> NoWorker, beating |-> FALSE]]
  /\ stored = [t \in Runs |-> NoDigest]
  /\ finals = [t \in Runs |-> <<>>]
  /\ cut = {}
  /\ job = [t \in Runs |-> [status |-> "EXECUTING", deliverable |-> NoDigest]]
  /\ onchain = [t \in Runs |-> IF t = Cancelled THEN Missed ELSE NoDigest]
  /\ work = [w \in Workers |-> Idle]
  /\ poll = NoPoll
  /\ faults = 0

MCLiveSpec ==
  MCInit /\ [][Next]_vars /\ FairProcesses /\ \A t \in Runs \ {Cancelled} : FairRun(t)

=============================================================================
