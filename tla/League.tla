------------------------------- MODULE League -------------------------------
(***************************************************************************)
(* One fixture of the prediction league, from the predictions to the money:*)
(* services/league-service (predictions, battles), services/league-worker  *)
(* (lock sweep, settlement tick) and the escrow of league battles in       *)
(* services/financial-service, over the contract of ArenaEscrow.           *)
(*                                                                         *)
(* A worker is one request or one settlement tick; each statement between  *)
(* two awaits is a step.  The tick is started by setInterval every two     *)
(* minutes, whether or not the one before has ended.  A fault is a failed  *)
(* statement, a lost answer or a process that stops; what the contract     *)
(* refuses for want of an approval, or while paused, is a failed call.     *)
(***************************************************************************)
EXTENDS ArenaEscrow

CONSTANTS
  Agents,
  NoAgent,
  Owner,       \* the wallet of each agent's owner
  Sides,       \* challenger and opponent of each battle
  Staked,      \* stakeArena of each battle
  Picks,       \* the outcomes that predictions are taken from
  Results,     \* those that the match may end with
  Points,      \* what a right prediction earns, by its score and conviction
  PageLimit,   \* the battles that listBattles returns at most
  Workers,
  MaxFaults,   \* bound: faults in a behaviour
  MaxRequests  \* bound: requests of users in a behaviour

ASSUME LeagueAssumption ==
  /\ IsFiniteSet(Agents)
  /\ NoAgent \notin Agents
  /\ Owner \in [Agents -> Players]
  /\ \A b \in MatchIds : Sides[b] \in Agents \X Agents /\ Owner[Sides[b][1]] # Owner[Sides[b][2]]
  /\ Staked \in [MatchIds -> Stakes]
  /\ Picks \subseteq {"HOME", "DRAW", "AWAY"} /\ Results \subseteq Picks
  /\ Points \subseteq Nat \ {0}
  /\ \A n \in Points : n \in Rewards /\ (5 * n + 2) \div 4 \in Rewards
  /\ PageLimit \in Nat \ {0}
  /\ MaxFaults \in Nat /\ MaxRequests \in Nat

VARIABLES
  kickedOff,  \* kickoffAt is past
  reported,   \* what the football data provider says of the fixture
  fixture,    \* the LeagueMatch row: status and result
  pred,       \* LeaguePrediction rows
  battle,     \* LeagueBattle rows
  record,     \* EscrowRecord rows
  granted,    \* ARENA granted to each agent for its prediction
  booked,     \* how often a prediction went into the agent's KP and statistics
  counted,    \* how often a battle went into its agents' records
  task,       \* what each worker is doing
  requests,   \* how many requests users have made
  faults

fixtureVars == <<kickedOff, reported>>
leagueVars ==
  <<match, commissionBps, arenaPaused, tokens, allowance, totalCommissions, totalRewardsPaid, received,
    kickedOff, reported, fixture, pred, battle, record, granted, booked, counted, task, requests, faults>>

-----------------------------------------------------------------------------

None == "NONE"
Unscored == -1   \* arenaAwarded is null
Open == {"SCHEDULED", "LIVE"}

Prediction ==
  [status : {None, "PENDING", "LOCKED", "SETTLED", "VOID"}, pick : Picks \cup {None},
   points : Points \cup {0}, award : Rewards \cup {0, Unscored}]
Row == [status : {None, "PENDING", "LOCKED", "DECLINED", "SETTLED", "VOID"},
        winner : Agents \cup {NoAgent}, escrow : BOOLEAN]

Claim == [agent : Agents, pick : Picks, points : Points]
Steps ==
  {"generate", "challenge", "open", "edit", "accept", "lock", "create", "join", "start",
   "record", "locked", "poll", "apply", "finish", "void", "result", "claim", "battles",
   "score", "reward", "book", "find", "pay", "mark", "close", "count", "idle"}
Task ==
  [step : Steps, agent : Agents \cup {NoAgent}, game : MatchIds \cup {None},
   seen : {None, "SCHEDULED", "LIVE", "CANCELLED", "UNKNOWN"} \cup Results,
   consensus : Picks \cup {None}, claimed : SUBSET Claim, games : SUBSET MatchIds,
   waiting : SUBSET MatchIds, winner : Agents \cup {NoAgent}]
Idle ==
  [step |-> "idle", agent |-> NoAgent, game |-> None, seen |-> None, consensus |-> None,
   claimed |-> {}, games |-> {}, waiting |-> {}, winner |-> NoAgent]

LeagueInit ==
  /\ ArenaInit
  /\ kickedOff = FALSE
  /\ reported = "SCHEDULED"
  /\ fixture = [status |-> "SCHEDULED", result |-> None, consensus |-> None]
  /\ pred = [a \in Agents |-> [status |-> None, pick |-> None, points |-> 0, award |-> Unscored]]
  /\ battle = [b \in MatchIds |-> [status |-> None, winner |-> NoAgent, escrow |-> FALSE]]
  /\ record = [b \in MatchIds |-> [state |-> None, winner |-> NoAgent]]
  /\ granted = [a \in Agents |-> 0]
  /\ booked = [a \in Agents |-> 0]
  /\ counted = [b \in MatchIds |-> 0]
  /\ task = [w \in Workers |-> Idle]
  /\ requests = 0
  /\ faults = 0

At(w, step) == task[w].step = step
Goes(w, step) == task' = [task EXCEPT ![w].step = step]
Ends(w) == task' = [task EXCEPT ![w] = Idle]
\* On with the loops of settleMatch: the predictions, then the battles.
Loops(w) ==
  task' = [task EXCEPT ![w] =
             [@ EXCEPT !.step = "score", !.agent = NoAgent, !.game = None, !.winner = NoAgent]]
Begins(w, t) == At(w, "idle") /\ task' = [task EXCEPT ![w] = t]
Request(w, t) == Begins(w, t) /\ requests < MaxRequests /\ requests' = requests + 1
Fault == faults < MaxFaults /\ faults' = faults + 1

Challenger(b) == Sides[b][1]
Opponent(b) == Sides[b][2]

-----------------------------------------------------------------------------
(* league-service: predictions.                                            *)

AsksPrediction(w, a) ==
  /\ fixture.status \in Open
  /\ Request(w, [Idle EXCEPT !.step = "generate", !.agent = a])
  /\ UNCHANGED <<arenaVars, fixtureVars, fixture, pred, battle, record, granted, booked, counted, faults>>

\* ensurePrediction: one row per agent, whatever has become of the fixture.
EnsurePrediction(w) ==
  /\ task[w].step \in {"generate", "challenge", "accept"}
  /\ LET a == task[w].agent
     IN  IF pred[a].status # None THEN UNCHANGED pred
         ELSE \E pick \in Picks, points \in Points :
                pred' = [pred EXCEPT ![a] =
                           [status |-> "PENDING", pick |-> pick, points |-> points, award |-> Unscored]]
  /\ \/ At(w, "generate") /\ Ends(w)
     \/ At(w, "challenge") /\ Goes(w, "open")
     \/ At(w, "accept") /\ Goes(w, "lock")
  /\ UNCHANGED <<arenaVars, fixtureVars, fixture, battle, record, granted, booked, counted, requests, faults>>

AsksOverride(w, a) ==
  /\ pred[a].status = "PENDING"
  /\ Request(w, [Idle EXCEPT !.step = "edit", !.agent = a])
  /\ UNCHANGED <<arenaVars, fixtureVars, fixture, pred, battle, record, granted, booked, counted, faults>>

\* The update names the row by its key alone.
Override(w) ==
  /\ At(w, "edit")
  /\ \E pick \in Picks, points \in Points :
       pred' = [pred EXCEPT ![task[w].agent].pick = pick, ![task[w].agent].points = points]
  /\ Ends(w)
  /\ UNCHANGED <<arenaVars, fixtureVars, fixture, battle, record, granted, booked, counted, requests, faults>>

-----------------------------------------------------------------------------
(* league-service: battles; financial-service: lockLeagueEscrow.           *)

\* b stands for the id that the row will get: every battle has its own.
AsksBattle(w, b) ==
  /\ battle[b].status = None
  /\ \A v \in Workers : ~(task[v].step \in {"challenge", "open"} /\ task[v].game = b)
  /\ fixture.status \in Open
  /\ Request(w, [Idle EXCEPT !.step = "challenge", !.agent = Challenger(b), !.game = b])
  /\ UNCHANGED <<arenaVars, fixtureVars, fixture, pred, battle, record, granted, booked, counted, faults>>

CreateBattle(w) ==
  /\ At(w, "open")
  /\ battle' = [battle EXCEPT ![task[w].game].status = "PENDING"]
  /\ Ends(w)
  /\ UNCHANGED <<arenaVars, fixtureVars, fixture, pred, record, granted, booked, counted, requests, faults>>

AcceptBattle(w, b) ==
  /\ battle[b].status = "PENDING"
  /\ ~kickedOff
  /\ Request(w, [Idle EXCEPT !.step = "accept", !.agent = Opponent(b), !.game = b])
  /\ UNCHANGED <<arenaVars, fixtureVars, fixture, pred, battle, record, granted, booked, counted, faults>>

LockRead(w) ==
  /\ At(w, "lock")
  /\ IF battle[task[w].game].status = "PENDING" THEN Goes(w, "create") ELSE Ends(w)
  /\ UNCHANGED <<arenaVars, fixtureVars, fixture, pred, battle, record, granted, booked, counted, requests, faults>>

\* An error taken for an answer.
RelaysUnseen(w, Tx, may, next, Fails) ==
  /\ \/ Tx /\ Goes(w, next) /\ UNCHANGED faults
     \/ Goes(w, next) /\ UNCHANGED <<arenaVars, faults>>
  /\ UNCHANGED <<fixtureVars, fixture, pred, battle, record, granted, booked, counted, requests>>

(* A transaction by way of arena-chain-service: it goes through and its    *)
(* answer arrives, or is lost, or it fails.                                *)
Relays(w, Tx, may, next, Fails) ==
  /\ \/ Tx /\ Goes(w, next) /\ UNCHANGED faults
     \/ Tx /\ Fails /\ Fault
     \/ /\ Fails
        /\ IF may THEN Fault ELSE UNCHANGED faults
        /\ UNCHANGED arenaVars
  /\ UNCHANGED <<fixtureVars, fixture, pred, battle, record, granted, booked, counted, requests>>

RelayLock(w) ==
  LET b == task[w].game
      a == Owner[Challenger(b)]
      o == Owner[Opponent(b)]
  IN  \/ At(w, "create") /\ Relays(w, CreateMatch(b, a, Staked[b]), MayCreate(b, a, Staked[b]), "join", Ends(w))
      \/ At(w, "join") /\ Relays(w, JoinMatch(b, o), MayJoin(b, o), "start", Ends(w))
      \/ At(w, "start") /\ Relays(w, StartMatch(b), MayStart(b), "record", Ends(w))

RecordLock(w) ==
  /\ At(w, "record")
  /\ record' = [record EXCEPT ![task[w].game].state = "LOCKED"]
  /\ Goes(w, "locked")
  /\ UNCHANGED <<arenaVars, fixtureVars, fixture, pred, battle, granted, booked, counted, requests, faults>>

LockRow(w) ==
  LET b == task[w].game
  IN  /\ At(w, "locked")
      /\ IF battle[b].status = "PENDING"
         THEN battle' = [battle EXCEPT ![b] = [@ EXCEPT !.status = "LOCKED", !.escrow = TRUE]]
         ELSE UNCHANGED battle
      /\ Ends(w)
      /\ UNCHANGED <<arenaVars, fixtureVars, fixture, pred, record, granted, booked, counted, requests, faults>>

-----------------------------------------------------------------------------
(* league-worker: the lock sweep, two statements.                          *)

LockDuePredictions ==
  /\ kickedOff /\ fixture.status \in Open
  /\ \E a \in Agents : pred[a].status = "PENDING"
  /\ pred' = [a \in Agents |->
                IF pred[a].status = "PENDING" THEN [pred[a] EXCEPT !.status = "LOCKED"] ELSE pred[a]]
  /\ UNCHANGED <<arenaVars, fixtureVars, fixture, battle, record, granted, booked, counted, task, requests, faults>>

ExpirePendingBattle(b) ==
  /\ battle[b].status = "PENDING"
  /\ battle' = [battle EXCEPT ![b].status = "DECLINED"]
  /\ UNCHANGED <<arenaVars, fixtureVars, fixture, pred, record, granted, booked, counted, task, requests, faults>>

-----------------------------------------------------------------------------
(* league-worker: the settlement tick up to settleMatch or cancelMatch.    *)

\* Only matches that were seen LIVE.
ListLive(w) ==
  /\ kickedOff /\ fixture.status = "LIVE"
  /\ Begins(w, [Idle EXCEPT !.step = "poll"])
  /\ UNCHANGED <<arenaVars, fixtureVars, fixture, pred, battle, record, granted, booked, counted, requests, faults>>
ListCandidates(w) ==
  /\ kickedOff /\ fixture.status \in Open
  /\ Begins(w, [Idle EXCEPT !.step = "poll"])
  /\ UNCHANGED <<arenaVars, fixtureVars, fixture, pred, battle, record, granted, booked, counted, requests, faults>>

Poll(w) ==
  /\ At(w, "poll")
  /\ IF reported = "SCHEDULED" THEN Ends(w)
     ELSE task' = [task EXCEPT ![w] = [@ EXCEPT !.step = "apply", !.seen = reported]]
  /\ UNCHANGED <<arenaVars, fixtureVars, fixture, pred, battle, record, granted, booked, counted, requests, faults>>

Locked == {a \in Agents : pred[a].status = "LOCKED"}
Votes(o) == Cardinality({a \in Locked : pred[a].pick = o})
Before(o) == IF o = "HOME" THEN {} ELSE IF o = "DRAW" THEN {"HOME"} ELSE {"HOME", "DRAW"}
Consensus ==
  IF Locked = {} THEN None
  ELSE CHOOSE o \in Picks : \A p \in Picks : Votes(p) < Votes(o) \/ (Votes(p) = Votes(o) /\ p \notin Before(o))

Apply(w) ==
  /\ At(w, "apply")
  /\ CASE task[w].seen = "LIVE" -> fixture' = [fixture EXCEPT !.status = "LIVE"] /\ Ends(w)
       [] task[w].seen = "CANCELLED" -> fixture' = [fixture EXCEPT !.status = "CANCELLED"] /\ Goes(w, "void")
       [] OTHER -> /\ task' = [task EXCEPT ![w] = [@ EXCEPT !.step = "finish", !.consensus = Consensus]]
                   /\ UNCHANGED fixture
  /\ UNCHANGED <<arenaVars, fixtureVars, pred, battle, record, granted, booked, counted, requests, faults>>

Finish(w) ==
  /\ At(w, "finish")
  /\ fixture' = [status |-> "FINISHED", result |-> task[w].seen, consensus |-> task[w].consensus]
  /\ Goes(w, "result")
  /\ UNCHANGED <<arenaVars, fixtureVars, pred, battle, record, granted, booked, counted, requests, faults>>

\* cancelMatch: the predictions, then the battles as they were listed.
VoidPredictions(w) ==
  /\ At(w, "void")
  /\ pred' = [a \in Agents |-> IF pred[a].status \in {"PENDING", "LOCKED"}
                                 THEN [pred[a] EXCEPT !.status = "VOID"] ELSE pred[a]]
  /\ Goes(w, "battles")
  /\ UNCHANGED <<arenaVars, fixtureVars, fixture, battle, record, granted, booked, counted, requests, faults>>

-----------------------------------------------------------------------------
(* league-worker: settleMatch.                                             *)

ReadResult(w) ==
  /\ At(w, "result")
  /\ IF fixture.result \in Results
     THEN task' = [task EXCEPT ![w] =
                     [@ EXCEPT !.step = "claim", !.seen = fixture.result, !.consensus = fixture.consensus]]
     ELSE Ends(w)
  /\ UNCHANGED <<arenaVars, fixtureVars, fixture, pred, battle, record, granted, booked, counted, requests, faults>>

\* A claim that does not ask whether somebody has claimed already.
ClaimableTwice == {a \in Agents : pred[a].status \in {"LOCKED", "SETTLED"}}
Claimable == Locked

ClaimPredictions(w) ==
  /\ At(w, "claim")
  /\ pred' = [a \in Agents |-> IF a \in Claimable THEN [pred[a] EXCEPT !.status = "SETTLED"] ELSE pred[a]]
  /\ task' = [task EXCEPT ![w] = [@ EXCEPT !.step = "battles",
       !.claimed = {[agent |-> a, pick |-> pred[a].pick, points |-> pred[a].points] : a \in Claimable}]]
  /\ UNCHANGED <<arenaVars, fixtureVars, fixture, battle, record, granted, booked, counted, requests, faults>>

\* cancelMatch takes one page of the battles, the newest ones; which these are
\* is left open.  A settlement takes all of them.
Listed(seen) ==
  LET created == {b \in MatchIds : battle[b].status # None}
  IN  IF seen # "CANCELLED" THEN {created}
      ELSE {page \in SUBSET created :
              /\ Cardinality(page) <= PageLimit
              /\ page = created \/ Cardinality(page) = PageLimit}

ListBattles(w) ==
  /\ At(w, "battles")
  /\ \E page \in Listed(task[w].seen) :
       LET locked == {b \in page : battle[b].status = "LOCKED"}
           pending == {b \in page : battle[b].status = "PENDING"}
           waiting == IF task[w].seen = "CANCELLED" THEN pending ELSE {}
       IN  task' = [task EXCEPT ![w] =
                      [@ EXCEPT !.step = "score", !.games = locked, !.waiting = waiting]]
  /\ UNCHANGED <<arenaVars, fixtureVars, fixture, pred, battle, record, granted, booked, counted, requests, faults>>

\* scoreLeaguePrediction: a quarter more for a right pick against the consensus, rounded.
Award(c, result, consensus) ==
  IF c.pick # result THEN 0
  ELSE IF consensus \in Picks \ {c.pick} THEN (5 * c.points + 2) \div 4
  ELSE c.points

ScoreNext(w) ==
  /\ At(w, "score")
  /\ \E c \in task[w].claimed :
       LET award == Award(c, task[w].seen, task[w].consensus)
       IN  /\ pred' = [pred EXCEPT ![c.agent].award = award]
           /\ task' = [task EXCEPT ![w] =
                         [@ EXCEPT !.step = IF award > 0 THEN "reward" ELSE "book",
                                   !.agent = c.agent, !.claimed = task[w].claimed \ {c}]]
  /\ UNCHANGED <<arenaVars, fixtureVars, fixture, battle, record, granted, booked, counted, requests, faults>>

\* creditLeaguePrediction; a treasury that cannot pay refuses.
Reward(w) ==
  /\ At(w, "reward")
  /\ LET a == task[w].agent
         award == pred[a].award
     IN  \/ /\ Distribute(Owner[a], award)
            /\ granted' = [granted EXCEPT ![a] = @ + award]
            /\ (Goes(w, "book") /\ UNCHANGED faults) \/ (Loops(w) /\ Fault)
         \/ /\ ~MayDistribute(award)
            /\ Loops(w)
            /\ UNCHANGED <<arenaVars, granted, faults>>
  /\ UNCHANGED <<fixtureVars, fixture, pred, battle, record, booked, counted, requests>>

Book(w) ==
  /\ At(w, "book")
  /\ booked' = [booked EXCEPT ![task[w].agent] = @ + 1]
  /\ Loops(w)
  /\ UNCHANGED <<arenaVars, fixtureVars, fixture, pred, battle, record, granted, counted, requests, faults>>

\* An error in one prediction goes on with the next.
PredictionFails(w) ==
  /\ \/ At(w, "score") /\ \E c \in task[w].claimed : task' = [task EXCEPT ![w].claimed = @ \ {c}]
     \/ task[w].step \in {"reward", "book"} /\ Loops(w)
  /\ Fault
  /\ UNCHANGED <<arenaVars, fixtureVars, fixture, pred, battle, record, granted, booked, counted, requests>>

-----------------------------------------------------------------------------
(* The battles of the fixture: determineBattleWinner, settleLeagueBattle.  *)

Score(a) == IF pred[a].award = Unscored THEN 0 ELSE pred[a].award

\* A tie won by the challenger.
WinnerOnTie(b) == IF Score(Challenger(b)) >= Score(Opponent(b)) THEN Challenger(b) ELSE Opponent(b)
BattleWinner(b) ==
  IF Score(Challenger(b)) > Score(Opponent(b)) THEN Challenger(b)
  ELSE IF Score(Opponent(b)) > Score(Challenger(b)) THEN Opponent(b)
  ELSE NoAgent

\* Only battles that somebody won.
SettlesWithWinner(w, b) ==
  \/ task[w].seen = "CANCELLED"
  \/ /\ pred[Challenger(b)].status = "SETTLED" /\ pred[Opponent(b)].status = "SETTLED"
     /\ BattleWinner(b) # NoAgent
Settles(w, b) ==
  \/ task[w].seen = "CANCELLED"
  \/ pred[Challenger(b)].status = "SETTLED" /\ pred[Opponent(b)].status = "SETTLED"

\* The two predictions are read by two queries at once.  One step is enough: the
\* awards of a fixture are written in any order, so it sees every mix of them.
JudgeNext(w) ==
  /\ At(w, "score") /\ task[w].claimed = {}
  /\ \E b \in task[w].games :
       LET winner == IF task[w].seen = "CANCELLED" THEN NoAgent ELSE BattleWinner(b)
           rest == task[w].games \ {b}
       IN  task' = [task EXCEPT ![w] =
                      IF Settles(w, b) THEN [@ EXCEPT !.step = "find", !.game = b, !.winner = winner, !.games = rest]
                      ELSE [@ EXCEPT !.games = rest]]
  /\ UNCHANGED <<arenaVars, fixtureVars, fixture, pred, battle, record, granted, booked, counted, requests, faults>>

\* A battle of a cancelled fixture that was listed as PENDING.
VoidWaiting(w) ==
  /\ At(w, "score") /\ task[w].claimed = {}
  /\ \E b \in task[w].waiting :
       /\ task' = [task EXCEPT ![w].waiting = @ \ {b}]
       /\ IF battle[b].status = "PENDING" THEN battle' = [battle EXCEPT ![b].status = "VOID"]
          ELSE UNCHANGED battle
  /\ UNCHANGED <<arenaVars, fixtureVars, fixture, pred, record, granted, booked, counted, requests, faults>>

JudgeDone(w) ==
  /\ At(w, "score") /\ task[w].claimed = {} /\ task[w].games = {} /\ task[w].waiting = {}
  /\ Ends(w)
  /\ UNCHANGED <<arenaVars, fixtureVars, fixture, pred, battle, record, granted, booked, counted, requests, faults>>

\* The row is read again; a battle that is over already is an answer like any other.
Find(w) ==
  LET b == task[w].game
      isOver == battle[b].status \in {"SETTLED", "VOID"} \/ record[b].state \in {"SETTLED", "CANCELLED"}
  IN  /\ At(w, "find")
      /\ IF battle[b].status = "LOCKED" /\ record[b].state = "LOCKED" THEN Goes(w, "pay")
         ELSE IF isOver /\ task[w].winner # NoAgent THEN Goes(w, "count")
         ELSE Loops(w)
      /\ UNCHANGED <<arenaVars, fixtureVars, fixture, pred, battle, record, granted, booked, counted, requests, faults>>

Pay(w) ==
  LET b == task[w].game
      owner == Owner[task[w].winner]
  IN  /\ At(w, "pay")
      /\ \/ task[w].winner # NoAgent /\ Relays(w, SettleMatch(b, owner), MaySettle(b, owner), "mark", Loops(w))
         \/ task[w].winner = NoAgent /\ Relays(w, CancelMatch(b), MayCancel(b), "mark", Loops(w))

Mark(w) ==
  LET state == IF task[w].winner = NoAgent THEN "CANCELLED" ELSE "SETTLED"
  IN  /\ At(w, "mark")
      /\ record' = [record EXCEPT ![task[w].game] = [state |-> state, winner |-> task[w].winner]]
      /\ Goes(w, "close")
      /\ UNCHANGED <<arenaVars, fixtureVars, fixture, pred, battle, granted, booked, counted, requests, faults>>

\* The word of the escrow record written to the battle.
CloseAsRecord(w) ==
  LET b == task[w].game
      status == IF task[w].winner = NoAgent THEN "CANCELLED" ELSE "SETTLED"
  IN  /\ At(w, "close")
      /\ IF battle[b].status = "LOCKED"
         THEN battle' = [battle EXCEPT ![b] = [@ EXCEPT !.status = status, !.winner = task[w].winner]]
         ELSE UNCHANGED battle
      /\ IF task[w].winner = NoAgent THEN Loops(w) ELSE Goes(w, "count")
      /\ UNCHANGED <<arenaVars, fixtureVars, fixture, pred, record, granted, booked, counted, requests, faults>>
Close(w) ==
  LET b == task[w].game
      status == IF task[w].winner = NoAgent THEN "VOID" ELSE "SETTLED"
  IN  /\ At(w, "close")
      /\ IF battle[b].status = "LOCKED"
         THEN battle' = [battle EXCEPT ![b] = [@ EXCEPT !.status = status, !.winner = task[w].winner]]
         ELSE UNCHANGED battle
      /\ IF task[w].winner = NoAgent THEN Loops(w) ELSE Goes(w, "count")
      /\ UNCHANGED <<arenaVars, fixtureVars, fixture, pred, record, granted, booked, counted, requests, faults>>

Count(w) ==
  /\ At(w, "count")
  /\ counted' = [counted EXCEPT ![task[w].game] = @ + 1]
  /\ Loops(w)
  /\ UNCHANGED <<arenaVars, fixtureVars, fixture, pred, battle, record, granted, booked, requests, faults>>

\* A process stops, or a statement outside the inner try blocks throws.
Dies(w) ==
  /\ ~At(w, "idle")
  /\ Ends(w)
  /\ Fault
  /\ UNCHANGED <<arenaVars, fixtureVars, fixture, pred, battle, record, granted, booked, counted, requests>>

-----------------------------------------------------------------------------
(* The fixture itself, as the provider reports it.  A match lasts longer   *)
(* than it takes the minute's sweep to lock what was predicted before the  *)
(* kickoff and a lock under way to get its answer.                         *)

MatchLasts ==
  /\ \A a \in Agents : pred[a].status # "PENDING"
  /\ \A w \in Workers : task[w].step \notin {"accept", "lock", "create", "join", "start", "record", "locked"}

ProviderSide ==
  /\ \/ ~kickedOff /\ kickedOff' = TRUE /\ UNCHANGED reported
     \/ /\ kickedOff /\ reported \in Open
        /\ \/ reported' \in {"LIVE", "CANCELLED"}
           \/ MatchLasts /\ reported' \in Results \cup {"UNKNOWN"}
        /\ UNCHANGED kickedOff
  /\ UNCHANGED <<arenaVars, fixture, pred, battle, record, granted, booked, counted, task, requests, faults>>

Continues(w) ==
  \/ EnsurePrediction(w) \/ Override(w) \/ CreateBattle(w)
  \/ LockRead(w) \/ RelayLock(w) \/ RecordLock(w) \/ LockRow(w)
  \/ Poll(w) \/ Apply(w) \/ Finish(w) \/ VoidPredictions(w)
  \/ ReadResult(w) \/ ClaimPredictions(w) \/ ListBattles(w)
  \/ ScoreNext(w) \/ Reward(w) \/ Book(w)
  \/ JudgeNext(w) \/ VoidWaiting(w) \/ JudgeDone(w) \/ Find(w) \/ Pay(w) \/ Mark(w) \/ Close(w) \/ Count(w)

Receives(w) ==
  \/ \E a \in Agents : AsksPrediction(w, a) \/ AsksOverride(w, a)
  \/ \E b \in MatchIds : AsksBattle(w, b) \/ AcceptBattle(w, b)

LeagueNext ==
  \/ \E w \in Workers : Continues(w) \/ Receives(w) \/ ListCandidates(w) \/ PredictionFails(w) \/ Dies(w)
  \/ LockDuePredictions \/ \E b \in MatchIds : ExpirePendingBattle(b)
  \/ ProviderSide

LeagueSpec == LeagueInit /\ [][LeagueNext]_leagueVars

(* Every await returns; the minute's sweep and the two minutes' tick come  *)
(* again and again, and wait for no free worker.                           *)
LeagueFairness ==
  /\ \A w \in Workers : WF_leagueVars(Continues(w))
  /\ WF_leagueVars(LockDuePredictions)
  /\ SF_leagueVars(\E w \in Workers : ListCandidates(w))
LeagueLiveSpec == LeagueSpec /\ LeagueFairness

-----------------------------------------------------------------------------
(* Properties.                                                             *)

LeagueTypeOK ==
  /\ ArenaTypeOK
  /\ kickedOff \in BOOLEAN
  /\ reported \in Open \cup Results \cup {"CANCELLED", "UNKNOWN"}
  /\ fixture \in [status : Open \cup {"FINISHED", "CANCELLED"}, result : Results \cup {None, "UNKNOWN"},
                  consensus : Picks \cup {None}]
  /\ pred \in [Agents -> Prediction]
  /\ battle \in [MatchIds -> Row]
  /\ record \in [MatchIds -> [state : {None, "LOCKED", "SETTLED", "CANCELLED"}, winner : Agents \cup {NoAgent}]]
  /\ granted \in [Agents -> Nat] /\ booked \in [Agents -> Nat] /\ counted \in [MatchIds -> Nat]
  /\ task \in [Workers -> Task]
  /\ requests \in Nat /\ faults \in Nat

Paid(b) == {x[1] : x \in received[b]}

(* What is recorded of the money of a battle has happened, whichever tick  *)
(* or request stopped in between: a record that names an end names the     *)
(* chain's, and a row that shows a payout, or the refund of a battle it    *)
(* knows to be escrowed, shows the record's.  The converse fails, though   *)
(* comments speak of one transaction: a battle that expires while its      *)
(* accept is under way is DECLINED, with no escrow, over a LOCKED record   *)
(* and a STARTED match, and a row or record may be LOCKED over a match     *)
(* that is over (lockLeagueEscrow, settleLeagueBattle).                    *)
RowsFollowChain ==
  \A b \in MatchIds :
    /\ record[b].state = "LOCKED" => match[b].state \in {"STARTED", "SETTLED", "CANCELLED"}
    /\ record[b].state = "SETTLED" => match[b].state = "SETTLED" /\ Paid(b) = {Owner[record[b].winner]}
    /\ record[b].state = "CANCELLED" => match[b].state = "CANCELLED"
    /\ battle[b].escrow => record[b].state # None
    /\ battle[b].status = "SETTLED" => record[b].state = "SETTLED" /\ record[b].winner = battle[b].winner
    /\ battle[b].status = "VOID" /\ battle[b].escrow => record[b].state = "CANCELLED"

(* However ticks overlap, repeat or stop, a prediction is granted its      *)
(* award once at most, and enters its agent's statistics once at most      *)
(* (claimPredictionsForSettlement; the grant itself is not idempotent).    *)
RewardedOnce ==
  \A a \in Agents :
    /\ granted[a] = 0 \/ granted[a] = pred[a].award
    /\ booked[a] <= 1

(* A pool is only paid to an agent whose own prediction came true, even    *)
(* when two ticks judge the battle on what each sees of the awards.        *)
WinnersWereRight ==
  \A b \in MatchIds : match[b].state = "SETTLED" =>
    \E a \in {Challenger(b), Opponent(b)} : Paid(b) = {Owner[a]} /\ pred[a].award > 0

(* Once the result is in, what was locked is scored and granted, unless    *)
(* the treasury cannot pay or a statement fails: no later tick looks at a  *)
(* FINISHED fixture (runSettlementTick, settleMatch).                      *)
LockedPredictionsScore ==
  \A a \in Agents :
    (pred[a].status = "LOCKED" /\ reported \in Results)
      ~> \/ pred[a].award # Unscored /\ (granted[a] = pred[a].award \/ ~MayDistribute(pred[a].award))
         \/ faults > 0

(* Once the result is in, the stakes of a locked battle leave the escrow,  *)
(* unless a call or a statement fails just then.                           *)
LockedBattlesPay ==
  \A b \in MatchIds :
    (battle[b].status = "LOCKED" /\ reported \in Results) ~> (Held(b) = 0 \/ faults > 0)

(* "winner is whichever agent earned more $ARENA on this match; equal      *)
(* awards (incl. both wrong) is a tie" (determineBattleWinner), and a      *)
(* second pass is a no-op (settleMatch).                                   *)
JudgedOnScores ==
  \A b \in MatchIds :
    LET c == pred[Challenger(b)].award
        o == pred[Opponent(b)].award
    IN  (fixture.status = "FINISHED" /\ c # Unscored /\ o # Unscored) =>
          /\ Paid(b) = {Owner[Challenger(b)]} => c > o
          /\ Paid(b) = {Owner[Opponent(b)]} => o > c
          /\ match[b].state = "CANCELLED" => c = o

=============================================================================
