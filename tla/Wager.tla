------------------------------- MODULE Wager -------------------------------
(***************************************************************************)
(* Wager battles: the battle rows of services/battle-service, the escrow   *)
(* records that services/financial-service keeps about them, and the       *)
(* contract that holds the stakes, which it drives through                 *)
(* services/arena-chain-service.                                           *)
(*                                                                         *)
(* A handler is one HTTP request (or one pass of the clean-up loop): every *)
(* statement between two awaits is a step, and other handlers run between. *)
(* The lock of a new battle runs in financial-service while battle-service *)
(* waits for it; waits says whether it still does.  A fault is a request   *)
(* or an answer that gets lost, a failed statement, or a process that      *)
(* stops.                                                                  *)
(***************************************************************************)
EXTENDS ArenaEscrow

CONSTANTS
  Agents,
  NoAgent,
  Owner,       \* the wallet of each agent's owner
  Pair,        \* the two agents of each battle, the challenger first
  Wagered,     \* wagerAmount of each battle
  Handlers,
  MaxFaults,   \* bound: faults in a behaviour
  MaxEnds      \* bound: how often one battle is rated

ASSUME WagerAssumption ==
  /\ NoAgent \notin Agents
  /\ Owner \in [Agents -> Players]
  /\ Pair \in [MatchIds -> Agents \X Agents]
  /\ Wagered \in [MatchIds -> Stakes]
  /\ MaxFaults \in Nat /\ MaxEnds \in Nat

VARIABLES
  battle,    \* Battle rows: status and the winner of the stored result
  record,    \* EscrowRecord rows, at most one per battle (solanaAddress is unique)
  rated,     \* how often the agents' ratings were updated for a battle
  results,   \* the winners ever stored as a battle's result
  task,      \* what each handler is doing
  faults

rowVars == <<battle, record, rated, results, task, faults>>
wagerVars == <<match, commissionBps, arenaPaused, tokens, allowance, totalCommissions, totalRewardsPaid, received,
               battle, record, rated, results, task, faults>>

Statuses == {"NONE", "PENDING", "IN_PROGRESS", "COMPLETED", "CANCELLED", "DISPUTED"}
Over == {"COMPLETED", "CANCELLED", "DISPUTED"}

LockSteps == {"create", "join", "start", "record", "refused"}
EndSteps == {"rate", "result", "find", "settle", "settled"}
Steps == LockSteps \cup EndSteps \cup {"begin", "clean"}

Idle == [step |-> "idle"]
Tasks == {Idle} \cup [step : Steps, battle : MatchIds, winner : Agents \cup {NoAgent}, waits : BOOLEAN]

WagerInit ==
  /\ ArenaInit
  /\ battle = [b \in MatchIds |-> [status |-> "NONE", winner |-> NoAgent]]
  /\ record = [b \in MatchIds |-> [state |-> "NONE", winner |-> NoAgent]]
  /\ rated = [b \in MatchIds |-> 0]
  /\ results = [b \in MatchIds |-> {}]
  /\ task = [h \in Handlers |-> Idle]
  /\ faults = 0

At(h, step) == task[h].step = step
Goes(h, step) == task' = [task EXCEPT ![h].step = step]
Ends(h) == task' = [task EXCEPT ![h] = Idle]
Begins(h, b, step, winner) ==
  /\ task[h] = Idle
  /\ task' = [task EXCEPT ![h] = [step |-> step, battle |-> b, winner |-> winner, waits |-> TRUE]]
Fault == faults < MaxFaults /\ faults' = faults + 1
SetStatus(b, status) == battle' = [battle EXCEPT ![b].status = status]

-----------------------------------------------------------------------------
(* POST /battles with a wager: createBattle, and lockEscrow behind it.     *)

CreateBattle(h, b) ==
  /\ battle[b].status = "NONE"
  /\ SetStatus(b, "PENDING")
  /\ Begins(h, b, "create", NoAgent)
  /\ UNCHANGED <<arenaVars, record, rated, results, faults>>

(* A call of arena-chain-service for a transaction: it goes through and    *)
(* its answer arrives or is lost; or it is refused; or it gets lost.       *)
Answered(h, next) == Goes(h, next) /\ UNCHANGED faults
Unanswered(h) == Goes(h, "refused") /\ Fault
Refused(h, may) ==
  /\ Goes(h, "refused")
  /\ IF may THEN Fault ELSE UNCHANGED faults
  /\ UNCHANGED arenaVars

Challenger(b) == Owner[Pair[b][1]]
Opponent(b) == Owner[Pair[b][2]]

RelayCreate(h) ==
  LET b == task[h].battle
  IN  /\ At(h, "create")
      /\ \/ CreateMatch(b, Challenger(b), Wagered[b]) /\ (Answered(h, "join") \/ Unanswered(h))
         \/ Refused(h, MayCreate(b, Challenger(b), Wagered[b]))
      /\ UNCHANGED <<battle, record, rated, results>>

RelayJoin(h) ==
  LET b == task[h].battle
  IN  /\ At(h, "join")
      /\ \/ JoinMatch(b, Opponent(b)) /\ (Answered(h, "start") \/ Unanswered(h))
         \/ Refused(h, MayJoin(b, Opponent(b)))
      /\ UNCHANGED <<battle, record, rated, results>>

RelayStart(h) ==
  LET b == task[h].battle
  IN  /\ At(h, "start")
      /\ \/ StartMatch(b) /\ (Answered(h, "record") \/ Unanswered(h))
         \/ Refused(h, MayStart(b))
      /\ UNCHANGED <<battle, record, rated, results>>

\* The record kept as soon as the first stake is on the chain.
RecordsEarly(h) ==
  LET b == task[h].battle
  IN  /\ At(h, "record") \/ At(h, "join")
      /\ record' = [record EXCEPT ![b] = [state |-> "LOCKED", winner |-> NoAgent]]
      /\ IF At(h, "record") THEN Ends(h) ELSE UNCHANGED task
      /\ UNCHANGED <<arenaVars, battle, rated, results, faults>>
RecordLock(h) ==
  LET b == task[h].battle
  IN  /\ At(h, "record")
      /\ record' = [record EXCEPT ![b] = [state |-> "LOCKED", winner |-> NoAgent]]
      /\ Ends(h)
      /\ UNCHANGED <<arenaVars, battle, rated, results, faults>>

\* The lock failed: battle-service cancels the battle, if it still waits.
CancelUnlocked(h) ==
  LET b == task[h].battle
  IN  /\ At(h, "refused")
      /\ IF task[h].waits THEN SetStatus(b, "CANCELLED") ELSE UNCHANGED battle
      /\ Ends(h)
      /\ UNCHANGED <<arenaVars, record, rated, results, faults>>

\* battle-service loses its connection and cancels; the lock goes on.
LockCallBreaks(h) ==
  /\ task[h].step \in LockSteps /\ task[h].waits
  /\ SetStatus(task[h].battle, "CANCELLED")
  /\ task' = [task EXCEPT ![h].waits = FALSE]
  /\ Fault
  /\ UNCHANGED <<arenaVars, record, rated, results>>

-----------------------------------------------------------------------------
(* POST /battles/:id/start and /dispute, and the clean-up of old battles.  *)

BeginRead(h, b) ==
  /\ battle[b].status = "PENDING"
  /\ Begins(h, b, "begin", NoAgent)
  /\ UNCHANGED <<arenaVars, battle, record, rated, results, faults>>

BeginWrite(h) ==
  /\ At(h, "begin")
  /\ SetStatus(task[h].battle, "IN_PROGRESS")
  /\ Ends(h)
  /\ UNCHANGED <<arenaVars, record, rated, results, faults>>

Dispute(b) ==
  /\ battle[b].status # "NONE"
  /\ SetStatus(b, "DISPUTED")
  /\ UNCHANGED <<arenaVars, record, rated, results, task, faults>>

CleanRead(h, b) ==
  /\ battle[b].status \in {"PENDING", "IN_PROGRESS"}
  /\ Begins(h, b, "clean", NoAgent)
  /\ UNCHANGED <<arenaVars, battle, record, rated, results, faults>>

CleanWrite(h) ==
  /\ At(h, "clean")
  /\ SetStatus(task[h].battle, "CANCELLED")
  /\ Ends(h)
  /\ UNCHANGED <<arenaVars, record, rated, results, faults>>

-----------------------------------------------------------------------------
(* POST /battles/:id/end: the ratings, the result, and settleEscrow.       *)

EndRead(h, b, winner) ==
  /\ battle[b].status \notin Over \cup {"NONE"}
  /\ winner \in {Pair[b][1], Pair[b][2]}
  /\ rated[b] < MaxEnds
  /\ Begins(h, b, "rate", winner)
  /\ UNCHANGED <<arenaVars, battle, record, rated, results, faults>>

\* The stakes paid before the result is stored.
RateThenSettle(h) ==
  /\ At(h, "rate")
  /\ rated[task[h].battle] < MaxEnds
  /\ rated' = [rated EXCEPT ![task[h].battle] = @ + 1]
  /\ Goes(h, "find")
  /\ UNCHANGED <<arenaVars, battle, record, results, faults>>
Rate(h) ==
  /\ At(h, "rate")
  /\ rated[task[h].battle] < MaxEnds
  /\ rated' = [rated EXCEPT ![task[h].battle] = @ + 1]
  /\ Goes(h, "result")
  /\ UNCHANGED <<arenaVars, battle, record, results, faults>>

\* setResult: by id alone, whatever the status has become.
StoreResult(h) ==
  LET b == task[h].battle
  IN  /\ battle' = [battle EXCEPT ![b] = [status |-> "COMPLETED", winner |-> task[h].winner]]
      /\ results' = [results EXCEPT ![b] = @ \cup {task[h].winner}]

WriteResult(h) ==
  /\ At(h, "result")
  /\ StoreResult(h)
  /\ Goes(h, "find")
  /\ UNCHANGED <<arenaVars, record, rated, faults>>

FindLocked(h) == IF record[task[h].battle].state = "LOCKED" THEN Goes(h, "settle") ELSE Ends(h)

SettleFind(h) ==
  /\ At(h, "find")
  /\ FindLocked(h)
  /\ UNCHANGED <<arenaVars, battle, record, rated, results, faults>>

\* battle-service ignores an error of the settlement.
SettleRefused(h, may) ==
  /\ Ends(h)
  /\ IF may THEN Fault ELSE UNCHANGED faults
  /\ UNCHANGED arenaVars

RelaySettle(h) ==
  LET b == task[h].battle
      w == Owner[task[h].winner]
  IN  /\ At(h, "settle")
      /\ \/ SettleMatch(b, w) /\ Goes(h, "settled") /\ UNCHANGED faults
         \/ SettleMatch(b, w) /\ Ends(h) /\ Fault
         \/ SettleRefused(h, MaySettle(b, w))
      /\ UNCHANGED <<battle, record, rated, results>>

RecordSettled(h) ==
  LET b == task[h].battle
  IN  /\ At(h, "settled")
      /\ record' = [record EXCEPT ![b] = [state |-> "SETTLED", winner |-> task[h].winner]]
      /\ Ends(h)
      /\ UNCHANGED <<arenaVars, battle, rated, results, faults>>

\* A process stops, or a statement throws: what follows is not done.
Dies(h) ==
  /\ task[h] # Idle
  /\ Ends(h)
  /\ Fault
  /\ UNCHANGED <<arenaVars, battle, record, rated, results>>

-----------------------------------------------------------------------------

Continues(h) ==
  \/ RelayCreate(h) \/ RelayJoin(h) \/ RelayStart(h) \/ RecordLock(h) \/ CancelUnlocked(h)
  \/ BeginWrite(h) \/ CleanWrite(h)
  \/ Rate(h) \/ WriteResult(h) \/ SettleFind(h) \/ RelaySettle(h) \/ RecordSettled(h)

Receives(h, b) ==
  \/ CreateBattle(h, b) \/ BeginRead(h, b) \/ CleanRead(h, b)
  \/ \E w \in Agents : EndRead(h, b, w)

\* Players and the admin act on the contract themselves, and an operator may
\* call arena-chain-service to cancel a match: no service does so for a battle.
ChainSide ==
  /\ \/ ArenaAdmin
     \/ TreasurySide
     \/ \E p \in Players, n \in Allowances : Approve(p, n)
     \/ \E b \in MatchIds : CancelMatch(b)
  /\ UNCHANGED rowVars

WagerNext ==
  \/ \E h \in Handlers : Continues(h) \/ LockCallBreaks(h) \/ Dies(h)
  \/ \E h \in Handlers, b \in MatchIds : Receives(h, b)
  \/ \E b \in MatchIds : Dispute(b)
  \/ ChainSide

WagerSpec == WagerInit /\ [][WagerNext]_wagerVars

-----------------------------------------------------------------------------
(* Properties.                                                             *)

WagerTypeOK ==
  /\ ArenaTypeOK
  /\ battle \in [MatchIds -> [status : Statuses, winner : Agents \cup {NoAgent}]]
  /\ record \in [MatchIds -> [state : {"NONE", "LOCKED", "SETTLED"}, winner : Agents \cup {NoAgent}]]
  /\ rated \in [MatchIds -> Nat]
  /\ results \in [MatchIds -> SUBSET Agents]
  /\ task \in [Handlers -> Tasks]
  /\ faults \in Nat

(* An escrow record never overstates the chain, whatever was lost, raced   *)
(* or repeated: LOCKED means that both owners have staked and the match    *)
(* has started (it may be over since), SETTLED that the owner of the agent *)
(* it names got the pool (lockEscrow, settleEscrow).                       *)
RecordFollowsChain ==
  \A b \in MatchIds :
    /\ record[b].state = "LOCKED" =>
         /\ match[b].state \in {"STARTED", "SETTLED", "CANCELLED"}
         /\ match[b].playerA = Challenger(b) /\ match[b].playerB = Opponent(b)
    /\ record[b].state = "SETTLED" =>
         /\ match[b].state = "SETTLED"
         /\ {x[1] : x \in received[b]} = {Owner[record[b].winner]}

(* The pool only goes to a player whose agent had been stored as the       *)
(* battle's winner before, and whose ratings were updated before that      *)
(* (the order of POST /end, whichever reports race).                       *)
PaidAfterResult ==
  \A b \in MatchIds : match[b].state = "SETTLED" =>
    /\ rated[b] > 0
    /\ \E w \in results[b] : {x[1] : x \in received[b]} = {Owner[w]}

=============================================================================
