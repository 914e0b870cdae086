---------------------------- MODULE LeagueProofs ----------------------------
(***************************************************************************)
(* The prediction league over the contract, for every set of agents,       *)
(* battles, stakes, picks and workers, and any number of requests and      *)
(* faults: awards are granted once, what is recorded of a battle's money   *)
(* has happened, and a pool goes to an agent that was right.               *)
(***************************************************************************)
EXTENDS League, UnitsProofs

-----------------------------------------------------------------------------
(* What each part of the state says of the others.                         *)

\* Whom a match knows, in each of its states.
PlayersKnown ==
  \A m \in MatchIds :
    /\ match[m].state # "NONE" => match[m].playerA \in Players
    /\ match[m].state \in {"JOINED", "STARTED"} =>
         match[m].playerB \in Players /\ match[m].playerB # match[m].playerA

\* A prediction that was not claimed has earned nothing, one that was is
\* granted its award or nothing yet.
PredictionSound(a) ==
  /\ pred[a].status # None => pred[a].pick \in Picks /\ pred[a].points \in Points
  /\ pred[a].status # "SETTLED" => pred[a].award = Unscored
  /\ pred[a].award = Unscored => granted[a] = 0 /\ booked[a] = 0
  /\ granted[a] = 0 \/ granted[a] = pred[a].award
  /\ booked[a] <= 1

NotStaked == {None, "PENDING", "DECLINED"}
BattleSound(b) == battle[b].status \in NotStaked => ~battle[b].escrow

-----------------------------------------------------------------------------
(* What a worker knows, by its step.                                       *)

AgentSteps == {"generate", "challenge", "edit", "accept", "reward", "book"}
GameSteps ==
  {"challenge", "open", "accept", "lock", "create", "join", "start", "record", "locked",
   "find", "pay", "mark", "close", "count"}
Shaped(t) ==
  /\ t.step \in AgentSteps => t.agent \in Agents
  /\ t.step \in GameSteps => t.game \in MatchIds
  /\ t.step = "apply" => t.seen \in {"LIVE", "CANCELLED", "UNKNOWN"} \cup Results
  /\ t.step = "finish" => t.seen \in {"UNKNOWN"} \cup Results

Scoring == {"reward", "book"}
ClaimsSound(t) ==
  /\ \A c \in t.claimed : pred[c.agent].status = "SETTLED" /\ pred[c.agent].award = Unscored
  /\ \A c, d \in t.claimed : c.agent = d.agent => c = d
  /\ t.step \in Scoring => pred[t.agent].award # Unscored /\ booked[t.agent] = 0
  /\ t.step = "reward" => granted[t.agent] = 0

Opening == {"challenge", "open"}
Locking == {"join", "start", "record"}
LockSound(t) ==
  /\ t.step \in Opening => battle[t.game].status = None
  /\ t.step = "join" => match[t.game].state = "CREATED"
  /\ t.step = "start" => match[t.game].state = "JOINED"
  /\ t.step = "record" => match[t.game].state = "STARTED" /\ record[t.game].state = None
  /\ t.step = "locked" => record[t.game].state # None

PayoutSound(t) ==
  /\ t.step \in {"find", "pay"} /\ t.winner # NoAgent =>
       t.winner \in {Challenger(t.game), Opponent(t.game)} /\ pred[t.winner].award > 0
  /\ t.step = "pay" => record[t.game].state # None
  /\ t.step = "mark" =>
       /\ record[t.game].state = "LOCKED"
       /\ t.winner = NoAgent => match[t.game].state = "CANCELLED"
       /\ t.winner # NoAgent => match[t.game].state = "SETTLED" /\ Paid(t.game) = {Owner[t.winner]}
  /\ t.step = "close" =>
       record[t.game] = [state |-> IF t.winner = NoAgent THEN "CANCELLED" ELSE "SETTLED", winner |-> t.winner]

TaskSound(t) == Shaped(t) /\ ClaimsSound(t) /\ LockSound(t) /\ PayoutSound(t)

\* What two workers never do at the same time.
Apart(s, t) ==
  /\ \A c \in s.claimed, d \in t.claimed : c.agent # d.agent
  /\ s.step \in Scoring /\ t.step \in Scoring => s.agent # t.agent
  /\ \A steps \in {Opening, Locking, {"mark"}} :
       s.step \in steps /\ t.step \in steps => s.game # t.game

WorkersSound ==
  /\ \A w \in Workers : TaskSound(task[w])
  /\ \A v, w \in Workers : v # w => Apart(task[v], task[w])

\* The inductive invariant.
LeagueInv ==
  /\ LeagueTypeOK
  /\ PlayersKnown
  /\ \A a \in Agents : PredictionSound(a)
  /\ \A b \in MatchIds : BattleSound(b)
  /\ RowsFollowChain
  /\ WinnersWereRight
  /\ WorkersSound

-----------------------------------------------------------------------------
(* The model's operators.                                                  *)

\* An award is one of the rewards, or nothing.
LEMMA AwardNumber ==
  ASSUME NEW c \in Claim, NEW result, NEW consensus
  PROVE  Award(c, result, consensus) \in Rewards \cup {0} /\ Award(c, result, consensus) \in Nat
<1>1. c.points \in Points  BY DEF Claim
<1>2. c.points \in Rewards /\ (5 * c.points + 2) \div 4 \in Rewards  BY <1>1, LeagueAssumption
<1>3. Award(c, result, consensus) \in {0, c.points, (5 * c.points + 2) \div 4}  BY DEF Award
<1>4. \A n \in Rewards : n \in Nat  BY AmountsAssumption
<1> QED  BY <1>2, <1>3, <1>4

\* However the votes fall, one of the picks is the consensus: the order of
\* the outcomes decides between equals.
LEMMA ConsensusPick ==
  ASSUME LeagueTypeOK, \A a \in Agents : PredictionSound(a)
  PROVE  Consensus \in Picks \cup {None}
<1>1. CASE Locked = {}  BY <1>1 DEF Consensus
<1>2. CASE Locked # {}
  <2> DEFINE Leads(o) ==
        \A p \in Picks : Votes(p) < Votes(o) \/ (Votes(p) = Votes(o) /\ p \notin Before(o))
  <2>1. \A o \in Picks : Votes(o) \in Nat
    <3> SUFFICES ASSUME NEW o \in Picks PROVE Votes(o) \in Nat  OBVIOUS
    <3>1. {a \in Locked : pred[a].pick = o} \subseteq Agents  BY DEF Locked
    <3>2. IsFiniteSet({a \in Locked : pred[a].pick = o})
      BY <3>1, FS_Subset, LeagueAssumption
    <3> QED  BY <3>2, FS_CardinalityType DEF Votes
  <2>2. Picks # {}
    <3>1. PICK a \in Agents : pred[a].status = "LOCKED"  BY <1>2 DEF Locked
    <3> QED  BY <3>1 DEF PredictionSound, None
  <2>3. \E o \in Picks : Leads(o)
    <3>1. Picks \subseteq {"HOME", "DRAW", "AWAY"}  BY LeagueAssumption
    <3>2. PICK x \in Picks : "HOME" \in Picks => Votes("HOME") <= Votes(x)
      BY <2>1, <2>2
    <3>3. PICK y \in Picks : Votes(x) <= Votes(y) /\ ("DRAW" \in Picks => Votes("DRAW") <= Votes(y))
      BY <2>1
    <3>4. PICK z \in Picks : Votes(y) <= Votes(z) /\ ("AWAY" \in Picks => Votes("AWAY") <= Votes(z))
      BY <2>1
    <3>5. \A p \in Picks : Votes(p) <= Votes(z)
      BY <2>1, <3>1, <3>2, <3>3, <3>4
    <3> QED  BY <2>1, <3>1, <3>5 DEF Before
  <2>4. Consensus = CHOOSE o \in Picks : Leads(o)  BY <1>2 DEF Consensus
  <2> QED  BY <2>3, <2>4
<1> QED  BY <1>1, <1>2

-----------------------------------------------------------------------------
(* The contract, as the league drives it.                                  *)

ContractSound == ArenaTypeOK /\ PlayersKnown

\* The other matches keep their states and what they paid.
OthersKept(m) ==
  \A i \in MatchIds : i # m => match'[i].state = match[i].state /\ received'[i] = received[i]

LEMMA Stake ==
  ASSUME ContractSound, NEW m \in MatchIds
  PROVE  match[m] \in Match /\ match[m].stake \in Nat
<1>1. match[m] \in Match  BY DEF ContractSound, ArenaTypeOK
<1>2. match[m].stake \in Stakes \cup {0}  BY <1>1 DEF Match
<1>3. \A n \in Stakes : n \in Nat  BY AmountsAssumption
<1>4. CASE match[m].stake = 0  BY <1>1, <1>4
<1>5. CASE match[m].stake \in Stakes  BY <1>1, <1>3, <1>5
<1> QED  BY <1>2, <1>4, <1>5

\* A transaction that rewrites one match.
LEMMA MatchRewritten ==
  ASSUME ContractSound, NEW m \in MatchIds, NEW r \in Match, match' = [match EXCEPT ![m] = r],
         r.state # "NONE" => r.playerA \in Players,
         r.state \in {"JOINED", "STARTED"} => r.playerB \in Players /\ r.playerB # r.playerA,
         tokens' \in [Holders -> Nat], allowance' \in [Players -> Nat], totalCommissions' \in Nat,
         totalRewardsPaid' \in Nat, NEW paid \in SUBSET (Players \X Nat), received' = [received EXCEPT ![m] = paid],
         UNCHANGED <<commissionBps, arenaPaused>>
  PROVE  ContractSound' /\ match'[m] = r /\ received'[m] = paid /\ OthersKept(m)
<1>1. match \in [MatchIds -> Match] /\ received \in [MatchIds -> SUBSET (Players \X Nat)]
  BY DEF ContractSound, ArenaTypeOK
<1>2. \A i \in MatchIds : i # m => match'[i] = match[i] /\ received'[i] = received[i]
  BY <1>1
<1>3. match'[m] = r /\ received'[m] = paid  BY <1>1
<1>4. ArenaTypeOK'  BY <1>1 DEF ContractSound, ArenaTypeOK
<1>5. PlayersKnown'  BY <1>2, <1>3 DEF ContractSound, PlayersKnown
<1> QED  BY <1>2, <1>3, <1>4, <1>5 DEF ContractSound, OthersKept

\* Taking a stake from a player who has approved it.
LEMMA StakePulled ==
  ASSUME ContractSound, NEW p \in Players, NEW n \in Nat, CanPull(p, n), Pull(p, n)
  PROVE  tokens' \in [Holders -> Nat] /\ allowance' \in [Players -> Nat]
<1>1. /\ tokens \in [Holders -> Nat] /\ allowance \in [Players -> Nat]
      /\ p \in Holders /\ Vault \in Holders /\ p # Vault
  BY HoldersAssumption DEF ContractSound, ArenaTypeOK, Holders
<1>2. tokens[p] - n \in Nat /\ allowance[p] - n \in Nat /\ tokens[Vault] + n \in Nat
  BY <1>1 DEF CanPull
<1> QED  BY <1>1, <1>2 DEF Pull

LEMMA Creates ==
  ASSUME ContractSound, NEW m \in MatchIds, NEW p \in Players, NEW n \in Stakes, CreateMatch(m, p, n)
  PROVE  /\ ContractSound' /\ OthersKept(m) /\ received'[m] = received[m]
         /\ match[m].state = "NONE" /\ match'[m].state = "CREATED"
<1> DEFINE r == [playerA |-> p, playerB |-> NoPlayer, stake |-> n, state |-> "CREATED",
                 bps |-> commissionBps]
<1>1. r \in Match /\ r.playerA \in Players /\ r.state = "CREATED"
  BY DEF Match, States, ContractSound, ArenaTypeOK
<1>2. match' = [match EXCEPT ![m] = r] /\ match[m].state = "NONE"
  BY DEF CreateMatch, MayCreate
<1> HIDE DEF r
<1>3. n \in Nat  BY AmountsAssumption
<1>4. tokens' \in [Holders -> Nat] /\ allowance' \in [Players -> Nat]
  BY <1>3, StakePulled DEF CreateMatch, MayCreate
<1>5. /\ received[m] \in SUBSET (Players \X Nat) /\ received' = [received EXCEPT ![m] = received[m]]
      /\ totalCommissions' \in Nat /\ totalRewardsPaid' \in Nat
      /\ UNCHANGED <<commissionBps, arenaPaused>>
  BY DEF CreateMatch, ContractSound, ArenaTypeOK
<1> QED  BY <1>1, <1>2, <1>4, <1>5, MatchRewritten

LEMMA Joins ==
  ASSUME ContractSound, NEW m \in MatchIds, NEW p \in Players, JoinMatch(m, p)
  PROVE  /\ ContractSound' /\ OthersKept(m) /\ received'[m] = received[m]
         /\ match[m].state = "CREATED" /\ match'[m].state = "JOINED"
<1> DEFINE r == [match[m] EXCEPT !.playerB = p, !.state = "JOINED"]
<1>1. match[m].state = "CREATED" /\ p # match[m].playerA  BY DEF JoinMatch, MayJoin
<1>2. match[m] \in Match /\ match[m].stake \in Nat /\ match[m].playerA \in Players
  BY <1>1, Stake DEF ContractSound, PlayersKnown
<1>3. r \in Match /\ r.playerA = match[m].playerA /\ r.playerB = p /\ r.state = "JOINED"
  BY <1>2 DEF Match, States
<1>4. match' = [match EXCEPT ![m] = r]  BY DEF JoinMatch
<1> HIDE DEF r
<1>5. tokens' \in [Holders -> Nat] /\ allowance' \in [Players -> Nat]
  BY <1>2, StakePulled DEF JoinMatch, MayJoin
<1>6. /\ received[m] \in SUBSET (Players \X Nat) /\ received' = [received EXCEPT ![m] = received[m]]
      /\ totalCommissions' \in Nat /\ totalRewardsPaid' \in Nat
      /\ UNCHANGED <<commissionBps, arenaPaused>>
  BY DEF JoinMatch, ContractSound, ArenaTypeOK
<1> QED  BY <1>1, <1>2, <1>3, <1>4, <1>5, <1>6, MatchRewritten

LEMMA Starts ==
  ASSUME ContractSound, NEW m \in MatchIds, StartMatch(m)
  PROVE  /\ ContractSound' /\ OthersKept(m) /\ received'[m] = received[m]
         /\ match[m].state = "JOINED" /\ match'[m].state = "STARTED"
<1> DEFINE r == [match[m] EXCEPT !.state = "STARTED"]
<1>1. match[m].state = "JOINED"  BY DEF StartMatch, MayStart
<1>2. /\ match[m] \in Match /\ match[m].playerA \in Players
      /\ match[m].playerB \in Players /\ match[m].playerB # match[m].playerA
  BY <1>1, Stake DEF ContractSound, PlayersKnown
<1>3. r \in Match /\ r.playerA = match[m].playerA /\ r.playerB = match[m].playerB /\ r.state = "STARTED"
  BY <1>2 DEF Match, States
<1>4. match' = [match EXCEPT ![m] = r]  BY DEF StartMatch
<1> HIDE DEF r
<1>5. /\ received[m] \in SUBSET (Players \X Nat) /\ received' = [received EXCEPT ![m] = received[m]]
      /\ tokens' \in [Holders -> Nat] /\ allowance' \in [Players -> Nat]
      /\ totalCommissions' \in Nat /\ totalRewardsPaid' \in Nat
      /\ UNCHANGED <<commissionBps, arenaPaused>>
  BY DEF StartMatch, ContractSound, ArenaTypeOK
<1> QED  BY <1>1, <1>2, <1>3, <1>4, <1>5, MatchRewritten

LEMMA PaysOut ==
  ASSUME ContractSound, NEW m \in MatchIds, NEW p \in Players, SettleMatch(m, p)
  PROVE  /\ ContractSound' /\ OthersKept(m)
         /\ match[m].state = "STARTED" /\ match'[m].state = "SETTLED" /\ Paid(m)' = {p}
<1> DEFINE r == [match[m] EXCEPT !.state = "SETTLED"]
           pool == match[m].stake * 2
           c == Commission(pool, LockedRate(m))
<1>1. match[m].state = "STARTED" /\ pool <= tokens[Vault]
  <2>1. tokens[Vault] \in Nat /\ match[m].stake \in Nat
    BY Stake DEF ContractSound, ArenaTypeOK, Holders
  <2> QED  BY <2>1 DEF SettleMatch, MaySettle, CanSend
<1>2. /\ match[m] \in Match /\ match[m].playerA \in Players
      /\ match[m].playerB \in Players /\ match[m].playerB # match[m].playerA
      /\ pool \in Nat
  BY <1>1, Stake DEF ContractSound, PlayersKnown
<1>3. r \in Match /\ r.playerA = match[m].playerA /\ r.playerB = match[m].playerB /\ r.state = "SETTLED"
  BY <1>2 DEF Match, States
<1>4. match' = [match EXCEPT ![m] = r]  BY DEF SettleMatch
<1>5. c \in 0..pool
  <2>1. LockedRate(m) \in 0..BpsDenominator /\ BpsDenominator \in Nat \ {0}
    BY <1>2, AmountsAssumption DEF LockedRate, Match
  <2> QED  BY <1>2, <2>1, RoundedShare DEF Commission
<1>6. /\ tokens' = [tokens EXCEPT ![Vault] = @ - pool, ![p] = @ + (pool - c), ![Treasury] = @ + c]
      /\ totalCommissions' = totalCommissions + c
      /\ received' = [received EXCEPT ![m] = {<<p, pool - c>>}]
      /\ UNCHANGED <<commissionBps, arenaPaused, allowance, totalRewardsPaid>>
  BY DEF SettleMatch
<1> HIDE DEF r, pool, c
<1>7. /\ tokens \in [Holders -> Nat] /\ totalCommissions \in Nat /\ totalRewardsPaid \in Nat
      /\ allowance \in [Players -> Nat]
      /\ p \in Holders /\ Vault \in Holders /\ Treasury \in Holders
      /\ p # Vault /\ p # Treasury /\ Vault # Treasury
  BY HoldersAssumption DEF ContractSound, ArenaTypeOK, Holders
<1>8. /\ tokens[Vault] - pool \in Nat /\ tokens[p] + (pool - c) \in Nat
      /\ tokens[Treasury] + c \in Nat /\ pool - c \in Nat
  BY <1>1, <1>2, <1>5, <1>7
<1>9. /\ tokens' \in [Holders -> Nat] /\ allowance' \in [Players -> Nat]
      /\ totalCommissions' \in Nat /\ totalRewardsPaid' \in Nat
  BY <1>5, <1>6, <1>7, <1>8
<1>10. {<<p, pool - c>>} \in SUBSET (Players \X Nat)  BY <1>8
<1>11. ContractSound' /\ match'[m] = r /\ received'[m] = {<<p, pool - c>>} /\ OthersKept(m)
  BY <1>2, <1>3, <1>4, <1>6, <1>9, <1>10, MatchRewritten
<1>12. Paid(m)' = {p}  BY <1>11 DEF Paid
<1> QED  BY <1>1, <1>3, <1>11, <1>12

LEMMA Refunds ==
  ASSUME ContractSound, NEW m \in MatchIds, CancelMatch(m)
  PROVE  /\ ContractSound' /\ OthersKept(m)
         /\ match[m].state \in {"CREATED", "JOINED", "STARTED"} /\ match'[m].state = "CANCELLED"
<1> DEFINE r == [match[m] EXCEPT !.state = "CANCELLED"]
           n == match[m].stake
           back == Stakers(m)
<1>1. match[m].state \in {"CREATED", "JOINED", "STARTED"} /\ CanSend(n * Cardinality(back))
  BY DEF CancelMatch, MayCancel
<1>2. match[m] \in Match /\ match[m].playerA \in Players /\ n \in Nat
  BY <1>1, Stake DEF ContractSound, PlayersKnown
<1>3. r \in Match /\ r.playerA = match[m].playerA /\ r.state = "CANCELLED"
  BY <1>2 DEF Match, States
<1>4. match' = [match EXCEPT ![m] = r]  BY DEF CancelMatch
<1>5. back \subseteq Players /\ Cardinality(back) \in Nat
  <2>1. back \subseteq Players
    <3>1. CASE match[m].state = "CREATED"  BY <1>2, <3>1 DEF Stakers
    <3>2. CASE match[m].state # "CREATED"
      BY <1>1, <1>2, <3>2 DEF Stakers, ContractSound, PlayersKnown
    <3> QED  BY <3>1, <3>2
  <2>2. IsFiniteSet(back)
    <3>1. IsFiniteSet({match[m].playerA}) /\ IsFiniteSet({match[m].playerB})  BY FS_Singleton
    <3>2. IsFiniteSet({match[m].playerA} \cup {match[m].playerB})  BY <3>1, FS_Union
    <3>3. back \subseteq {match[m].playerA} \cup {match[m].playerB}  BY DEF Stakers
    <3> QED  BY <3>2, <3>3, FS_Subset
  <2> QED  BY <2>1, <2>2, FS_CardinalityType
<1>6. /\ tokens' = [h \in Holders |->
                      IF h = Vault THEN tokens[h] - n * Cardinality(back)
                      ELSE IF h \in back THEN tokens[h] + n ELSE tokens[h]]
      /\ received' = [received EXCEPT ![m] = {<<p, n>> : p \in back}]
      /\ UNCHANGED <<commissionBps, arenaPaused, allowance, totalCommissions, totalRewardsPaid>>
  BY DEF CancelMatch
<1> HIDE DEF r, n, back
<1>7. n * Cardinality(back) \in Nat  BY <1>2, <1>5
<1>8. /\ tokens \in [Holders -> Nat] /\ tokens[Vault] \in Nat
      /\ totalCommissions \in Nat /\ totalRewardsPaid \in Nat /\ allowance \in [Players -> Nat]
  BY DEF ContractSound, ArenaTypeOK, Holders
<1>9. tokens[Vault] - n * Cardinality(back) \in Nat  BY <1>1, <1>7, <1>8 DEF CanSend
<1>10. tokens' \in [Holders -> Nat]  BY <1>2, <1>6, <1>8, <1>9
<1>11. {<<p, n>> : p \in back} \in SUBSET (Players \X Nat)  BY <1>2, <1>5
<1>12. ContractSound' /\ match'[m] = r /\ OthersKept(m)
  BY <1>2, <1>3, <1>4, <1>6, <1>8, <1>10, <1>11, MatchRewritten
<1> QED  BY <1>1, <1>3, <1>12

-----------------------------------------------------------------------------
(* What a step leaves alone.                                               *)

\* The parts of the state that no other part relies on.
LooseTypeOK ==
  /\ kickedOff \in BOOLEAN
  /\ reported \in Open \cup Results \cup {"CANCELLED", "UNKNOWN"}
  /\ fixture \in [status : Open \cup {"FINISHED", "CANCELLED"}, result : Results \cup {None, "UNKNOWN"},
                  consensus : Picks \cup {None}]
  /\ counted \in [MatchIds -> Nat]
  /\ requests \in Nat /\ faults \in Nat

RowsTypeOK ==
  /\ pred \in [Agents -> Prediction]
  /\ battle \in [MatchIds -> Row]
  /\ record \in [MatchIds -> [state : {None, "LOCKED", "SETTLED", "CANCELLED"}, winner : Agents \cup {NoAgent}]]
  /\ granted \in [Agents -> Nat] /\ booked \in [Agents -> Nat]

RowsSound ==
  /\ \A a \in Agents : PredictionSound(a)
  /\ \A b \in MatchIds : BattleSound(b)
  /\ RowsFollowChain
  /\ WinnersWereRight

LEMMA InvParts ==
  LeagueInv <=> /\ ContractSound /\ LooseTypeOK /\ RowsTypeOK /\ RowsSound
                /\ task \in [Workers -> Task] /\ WorkersSound
BY DEF LeagueInv, LeagueTypeOK, ContractSound, LooseTypeOK, RowsTypeOK, RowsSound

LEMMA InvPartsNext ==
  ASSUME ContractSound', LooseTypeOK', RowsTypeOK', RowsSound', task' \in [Workers -> Task], WorkersSound'
  PROVE  LeagueInv'
BY DEF LeagueInv, LeagueTypeOK, ContractSound, LooseTypeOK, RowsTypeOK, RowsSound

LEMMA ApartBothWays == ASSUME NEW s, NEW t, Apart(s, t) PROVE Apart(t, s)
BY DEF Apart

\* One worker moves on to t.
LEMMA WorkerMoves ==
  ASSUME LeagueInv, NEW w \in Workers, NEW t \in Task, task' = [task EXCEPT ![w] = t],
         TaskSound(t)',
         \A v \in Workers, s \in Task : v # w /\ s = task[v] => TaskSound(s)' /\ Apart(s, t)
  PROVE  task' \in [Workers -> Task] /\ WorkersSound'
<1>1. task \in [Workers -> Task]  BY InvParts
<1>2. task'[w] = t /\ \A v \in Workers : v # w => task'[v] = task[v] /\ task[v] \in Task
  BY <1>1
<1>3. ASSUME NEW v \in Workers PROVE TaskSound(task[v])'
  <2>1. CASE v = w
    <3>1. task'[v] = t  BY <1>2, <2>1
    <3> QED  BY <3>1 DEF TaskSound, Shaped, ClaimsSound, LockSound, PayoutSound
  <2>2. CASE v # w
    <3>1. PICK s \in Task : s = task[v]  BY <1>2, <2>2
    <3>2. task'[v] = s /\ TaskSound(s)'  BY <1>2, <2>2, <3>1
    <3> QED  BY <3>2 DEF TaskSound, Shaped, ClaimsSound, LockSound, PayoutSound
  <2> QED  BY <2>1, <2>2
<1>4. ASSUME NEW u \in Workers, NEW v \in Workers, u # v PROVE Apart(task'[u], task'[v])
  <2>1. CASE u = w
    <3>1. Apart(task[v], t)  BY <1>2, <1>4, <2>1
    <3> QED  BY <1>2, <1>4, <2>1, <3>1, ApartBothWays
  <2>2. CASE v = w
    <3>1. Apart(task[u], t)  BY <1>2, <1>4, <2>2
    <3> QED  BY <1>2, <1>4, <2>2, <3>1
  <2>3. CASE u # w /\ v # w
    <3>1. Apart(task[u], task[v])  BY <1>4 DEF LeagueInv, WorkersSound
    <3> QED  BY <1>2, <2>3, <3>1
  <2> QED  BY <2>1, <2>2, <2>3
<1>5. (\A u, v \in Workers : u # v => Apart(task[u], task[v]))'  BY <1>4
<1> QED  BY <1>1, <1>3, <1>5 DEF WorkersSound

\* t claims, scores, opens, locks and marks nothing that s did not.
Recedes(s, t) ==
  /\ t.claimed \subseteq s.claimed
  /\ t.step \in Scoring => s.step \in Scoring /\ t.agent = s.agent
  /\ \A steps \in {Opening, Locking, {"mark"}} :
       t.step \in steps => s.step \in steps /\ t.game = s.game

LEMMA RecedesApart == ASSUME NEW r, NEW s, NEW t, Apart(r, s), Recedes(s, t) PROVE Apart(r, t)
BY DEF Apart, Recedes

\* What a task relies on: the rows, the chain, and nothing else.
LEMMA SoundStays ==
  ASSUME NEW s, TaskSound(s), UNCHANGED <<match, received, pred, battle, record, granted, booked>>
  PROVE  TaskSound(s)'
BY DEF TaskSound, Shaped, ClaimsSound, LockSound, PayoutSound, Paid

\* A worker moves on and leaves the chain and the rows alone.
LEMMA QuietStep ==
  ASSUME LeagueInv, NEW w \in Workers, NEW t \in Task, task' = [task EXCEPT ![w] = t],
         TaskSound(t), \A v \in Workers : v # w => Apart(task[v], t),
         UNCHANGED <<arenaVars, pred, battle, record, granted, booked>>, LooseTypeOK'
  PROVE  LeagueInv'
<1>1. UNCHANGED <<match, received, pred, battle, record, granted, booked>>  BY DEF arenaVars
<1>2. TaskSound(t)'  BY <1>1, SoundStays
<1>3. ASSUME NEW v \in Workers, NEW s \in Task, v # w, s = task[v]
      PROVE  TaskSound(s)' /\ Apart(s, t)
  <2>1. TaskSound(s)  BY <1>3 DEF LeagueInv, WorkersSound
  <2> QED  BY <1>1, <1>3, <2>1, SoundStays
<1>4. task' \in [Workers -> Task] /\ WorkersSound'  BY <1>2, <1>3, WorkerMoves
<1>5. ContractSound' /\ RowsTypeOK' /\ RowsSound'
  BY InvParts DEF arenaVars, ContractSound, ArenaTypeOK, PlayersKnown, RowsTypeOK, RowsSound,
     PredictionSound, BattleSound, RowsFollowChain, WinnersWereRight, Paid
<1> QED  BY <1>4, <1>5, InvPartsNext

-----------------------------------------------------------------------------
(* Steps of a worker alone.                                                *)

LEMMA TaskFound ==
  ASSUME LeagueInv, NEW w \in Workers
  PROVE  /\ task[w] \in Task /\ TaskSound(task[w])
         /\ \A v \in Workers : v # w => task[v] \in Task /\ TaskSound(task[v]) /\ Apart(task[v], task[w])
BY DEF LeagueInv, LeagueTypeOK, WorkersSound

\* The next task of a worker that claims nothing more is apart from the others.
LEMMA StaysApart ==
  ASSUME LeagueInv, NEW w \in Workers, NEW t, Recedes(task[w], t)
  PROVE  \A v \in Workers : v # w => Apart(task[v], t)
BY TaskFound, RecedesApart

LEMMA IdleTask ==
  /\ Idle \in Task /\ TaskSound(Idle)
  /\ \A s : Recedes(s, Idle)
BY DEF Idle, Task, Steps, None, TaskSound, Shaped, ClaimsSound, LockSound, PayoutSound, Recedes,
   AgentSteps, GameSteps, Scoring, Opening, Locking

LEMMA EndsQuietly ==
  ASSUME LeagueInv, NEW w \in Workers, Ends(w),
         UNCHANGED <<arenaVars, pred, battle, record, granted, booked>>, LooseTypeOK'
  PROVE  LeagueInv'
BY IdleTask, StaysApart, QuietStep DEF Ends

\* Fields of a task that goes to another step.
LEMMA SteppedTask ==
  ASSUME NEW s \in Task, NEW step \in Steps
  PROVE  LET t == [s EXCEPT !.step = step]
         IN  /\ t \in Task /\ t.step = step
             /\ t.agent = s.agent /\ t.game = s.game /\ t.seen = s.seen /\ t.consensus = s.consensus
             /\ t.claimed = s.claimed /\ t.games = s.games /\ t.waiting = s.waiting /\ t.winner = s.winner
BY DEF Task

\* The same, as a value that does not move with the state.
LEMMA NextTask ==
  ASSUME NEW s \in Task, NEW step \in Steps
  PROVE  \E t \in Task :
           /\ t = [s EXCEPT !.step = step]
           /\ t.step = step /\ t.agent = s.agent /\ t.game = s.game
           /\ t.claimed = s.claimed /\ t.winner = s.winner
<1> DEFINE t == [s EXCEPT !.step = step]
<1>1. /\ t \in Task /\ t.step = step /\ t.agent = s.agent /\ t.game = s.game
      /\ t.claimed = s.claimed /\ t.winner = s.winner
  BY DEF Task
<1>2. t = [s EXCEPT !.step = step]  OBVIOUS
<1> HIDE DEF t
<1> QED  BY <1>1, <1>2

LoopedTask(s) == [s EXCEPT !.step = "score", !.agent = NoAgent, !.game = None, !.winner = NoAgent]

LEMMA LoopTask ==
  ASSUME NEW s \in Task
  PROVE  LET t == LoopedTask(s)
         IN  t \in Task /\ t.step = "score" /\ t.claimed = s.claimed /\ Recedes(s, t)
<1> DEFINE t == LoopedTask(s)
<1>1. t \in Task /\ t.step = "score" /\ t.claimed = s.claimed
  BY DEF LoopedTask, Task, Steps
<1> HIDE DEF t
<1>2. Recedes(s, t)  BY <1>1 DEF Recedes, Scoring, Opening, Locking
<1> QED  BY <1>1, <1>2 DEF t

LEMMA LoopsQuietly ==
  ASSUME LeagueInv, NEW w \in Workers, Loops(w),
         UNCHANGED <<arenaVars, pred, battle, record, granted, booked>>, LooseTypeOK'
  PROVE  LeagueInv'
<1> DEFINE t == LoopedTask(task[w])
<1>1. task' = [task EXCEPT ![w] = t]  BY DEF Loops, LoopedTask
<1>2. task[w] \in Task /\ TaskSound(task[w])  BY TaskFound
<1>3. t \in Task /\ t.step = "score" /\ t.claimed = task[w].claimed /\ Recedes(task[w], t)
  BY <1>2, LoopTask
<1> HIDE DEF t
<1>4. TaskSound(t)
  BY <1>2, <1>3 DEF TaskSound, Shaped, ClaimsSound, LockSound, PayoutSound, AgentSteps, GameSteps,
     Scoring, Opening
<1> QED  BY <1>1, <1>3, <1>4, StaysApart, QuietStep

\* The steps that only take a worker to the next one, or out of it.
LEMMA GoesQuietly ==
  ASSUME LeagueInv, NEW w \in Workers, NEW step \in Steps, Goes(w, step),
         step \notin Scoring \cup Opening \cup Locking \cup {"mark"},
         TaskSound([task[w] EXCEPT !.step = step]),
         UNCHANGED <<arenaVars, pred, battle, record, granted, booked>>, LooseTypeOK'
  PROVE  LeagueInv'
<1> DEFINE t == [task[w] EXCEPT !.step = step]
<1>1. task' = [task EXCEPT ![w] = t]
  BY TaskFound DEF Goes
<1>2. t \in Task /\ t.step = step /\ t.claimed = task[w].claimed  BY TaskFound, SteppedTask
<1>3. TaskSound(t)  OBVIOUS
<1> HIDE DEF t
<1>4. Recedes(task[w], t)  BY <1>2 DEF Recedes
<1> QED  BY <1>1, <1>2, <1>3, <1>4, StaysApart, QuietStep

\* A request, or a tick of the settlement, taken up by an idle worker.
LEMMA BeginsQuietly ==
  ASSUME LeagueInv, NEW w \in Workers, NEW t \in Task, task' = [task EXCEPT ![w] = t],
         t.step \in {"generate", "edit", "accept", "poll"}, t.claimed = {}, t.winner = NoAgent,
         t.step # "poll" => t.agent \in Agents, t.step = "accept" => t.game \in MatchIds,
         UNCHANGED <<arenaVars, pred, battle, record, granted, booked>>, LooseTypeOK'
  PROVE  LeagueInv'
<1>1. TaskSound(t) /\ Recedes(task[w], t)
  BY DEF TaskSound, Shaped, ClaimsSound, LockSound, PayoutSound, AgentSteps, GameSteps,
     Scoring, Opening, Locking, Recedes
<1> QED  BY <1>1, StaysApart, QuietStep

LEMMA LooseStays ==
  ASSUME LeagueInv, UNCHANGED <<fixtureVars, fixture, counted>>, requests' \in Nat, faults' \in Nat
  PROVE  LooseTypeOK'
BY InvParts DEF LooseTypeOK, fixtureVars

LEMMA RequestStep ==
  ASSUME LeagueInv, NEW w \in Workers,
         \/ \E a \in Agents : AsksPrediction(w, a) \/ AsksOverride(w, a)
         \/ \E b \in MatchIds : AcceptBattle(w, b)
         \/ ListCandidates(w)
  PROVE  LeagueInv'
<1>0. /\ requests \in Nat /\ faults \in Nat /\ MaxRequests \in Nat
      /\ \A b \in MatchIds : Opponent(b) \in Agents
  BY LeagueAssumption DEF LeagueInv, LeagueTypeOK, Opponent
<1>1. ASSUME NEW a \in Agents, AsksPrediction(w, a) PROVE LeagueInv'
  <2> DEFINE t == [Idle EXCEPT !.step = "generate", !.agent = a]
  <2>1. /\ t \in Task /\ t.step = "generate" /\ t.claimed = {} /\ t.winner = NoAgent
        /\ t.agent = a /\ t.game = None
    BY <1>0 DEF Idle, Task, Steps, None
  <2>2. task' = [task EXCEPT ![w] = t]  BY <1>1 DEF AsksPrediction, Request, Begins
  <2> HIDE DEF t
  <2>3. LooseTypeOK'
    <3>1. requests' = requests + 1 /\ UNCHANGED <<fixtureVars, fixture, counted, faults>>
      BY <1>1 DEF AsksPrediction, Request
    <3>2. requests' \in Nat /\ faults' \in Nat  BY <1>0, <3>1
    <3> QED  BY <3>1, <3>2, LooseStays
  <2> QED  BY <1>0, <1>1, <2>1, <2>2, <2>3, BeginsQuietly DEF AsksPrediction
<1>2. ASSUME NEW a \in Agents, AsksOverride(w, a) PROVE LeagueInv'
  <2> DEFINE t == [Idle EXCEPT !.step = "edit", !.agent = a]
  <2>1. /\ t \in Task /\ t.step = "edit" /\ t.claimed = {} /\ t.winner = NoAgent
        /\ t.agent = a /\ t.game = None
    BY <1>0 DEF Idle, Task, Steps, None
  <2>2. task' = [task EXCEPT ![w] = t]  BY <1>2 DEF AsksOverride, Request, Begins
  <2> HIDE DEF t
  <2>3. LooseTypeOK'
    <3>1. requests' = requests + 1 /\ UNCHANGED <<fixtureVars, fixture, counted, faults>>
      BY <1>2 DEF AsksOverride, Request
    <3>2. requests' \in Nat /\ faults' \in Nat  BY <1>0, <3>1
    <3> QED  BY <3>1, <3>2, LooseStays
  <2> QED  BY <1>0, <1>2, <2>1, <2>2, <2>3, BeginsQuietly DEF AsksOverride
<1>3. ASSUME NEW b \in MatchIds, AcceptBattle(w, b) PROVE LeagueInv'
  <2> DEFINE t == [Idle EXCEPT !.step = "accept", !.agent = Opponent(b), !.game = b]
  <2>1. /\ t \in Task /\ t.step = "accept" /\ t.claimed = {} /\ t.winner = NoAgent
        /\ t.agent = Opponent(b) /\ t.game = b
    BY <1>0 DEF Idle, Task, Steps, None
  <2>2. task' = [task EXCEPT ![w] = t]  BY <1>3 DEF AcceptBattle, Request, Begins
  <2> HIDE DEF t
  <2>3. LooseTypeOK'
    <3>1. requests' = requests + 1 /\ UNCHANGED <<fixtureVars, fixture, counted, faults>>
      BY <1>3 DEF AcceptBattle, Request
    <3>2. requests' \in Nat /\ faults' \in Nat  BY <1>0, <3>1
    <3> QED  BY <3>1, <3>2, LooseStays
  <2> QED  BY <1>0, <1>3, <2>1, <2>2, <2>3, BeginsQuietly DEF AcceptBattle
<1>4. ASSUME ListCandidates(w) PROVE LeagueInv'
  <2> DEFINE t == [Idle EXCEPT !.step = "poll"]
  <2>1. /\ t \in Task /\ t.step = "poll" /\ t.claimed = {} /\ t.winner = NoAgent
        /\ t.agent = NoAgent /\ t.game = None
    BY <1>0 DEF Idle, Task, Steps, None
  <2>2. task' = [task EXCEPT ![w] = t]  BY <1>4 DEF ListCandidates, Begins
  <2> HIDE DEF t
  <2>3. LooseTypeOK'  BY <1>0, <1>4, LooseStays DEF ListCandidates
  <2> QED  BY <1>0, <1>4, <2>1, <2>2, <2>3, BeginsQuietly DEF ListCandidates
<1> QED  BY <1>1, <1>2, <1>3, <1>4

\* A battle's id is taken by one request alone.
LEMMA ChallengeStep ==
  ASSUME LeagueInv, NEW w \in Workers, NEW b \in MatchIds, AsksBattle(w, b)
  PROVE  LeagueInv'
<1> DEFINE t == [Idle EXCEPT !.step = "challenge", !.agent = Challenger(b), !.game = b]
<1>1. Challenger(b) \in Agents  BY LeagueAssumption DEF Challenger
<1>2. t \in Task /\ t.step = "challenge" /\ t.agent \in Agents /\ t.game = b /\ t.claimed = {}
  BY <1>1 DEF Idle, Task, Steps, None
<1>3. task' = [task EXCEPT ![w] = t]  BY DEF AsksBattle, Request, Begins
<1> HIDE DEF t
<1>4. battle[b].status = None /\ \A v \in Workers : ~(task[v].step \in Opening /\ task[v].game = b)
  BY DEF AsksBattle, Opening
<1>5. TaskSound(t)
  BY <1>2, <1>4 DEF TaskSound, Shaped, ClaimsSound, LockSound, PayoutSound, AgentSteps, GameSteps, Scoring
<1>6. \A v \in Workers : v # w => Apart(task[v], t)
  <2>1. t.step \notin Scoring /\ t.step \notin Locking /\ t.step # "mark"
    BY <1>2 DEF Scoring, Locking
  <2> QED  BY <1>2, <1>4, <2>1 DEF Apart
<1>7. LooseTypeOK'
  <2>1. requests \in Nat /\ faults \in Nat  BY DEF LeagueInv, LeagueTypeOK
  <2> QED  BY <2>1, LooseStays DEF AsksBattle, Request
<1> QED  BY <1>2, <1>3, <1>5, <1>6, <1>7, QuietStep DEF AsksBattle

LEMMA DiesStep ==
  ASSUME LeagueInv, NEW w \in Workers, Dies(w)
  PROVE  LeagueInv'
<1>1. faults' \in Nat /\ requests' \in Nat  BY DEF Dies, Fault, LeagueInv, LeagueTypeOK
<1>2. LooseTypeOK'  BY <1>1, LooseStays DEF Dies
<1> QED  BY <1>2, EndsQuietly DEF Dies

LEMMA LockReadStep ==
  ASSUME LeagueInv, NEW w \in Workers, LockRead(w)
  PROVE  LeagueInv'
<1>1. LooseTypeOK'
  <2>1. requests \in Nat /\ faults \in Nat  BY DEF LeagueInv, LeagueTypeOK
  <2> QED  BY <2>1, LooseStays DEF LockRead
<1>2. CASE Ends(w)  BY <1>1, <1>2, EndsQuietly DEF LockRead
<1>3. CASE Goes(w, "create")
  <2>1. TaskSound([task[w] EXCEPT !.step = "create"])
    <3> DEFINE t == [task[w] EXCEPT !.step = "create"]
    <3>1. /\ task[w] \in Task /\ TaskSound(task[w]) /\ task[w].step = "lock"
      BY TaskFound DEF LockRead, At
    <3>2. /\ t.step = "create" /\ t.game = task[w].game /\ t.claimed = task[w].claimed
      BY <3>1, SteppedTask DEF Steps
    <3> HIDE DEF t
    <3>3. TaskSound(t)
      BY <3>1, <3>2 DEF TaskSound, Shaped, ClaimsSound, LockSound, PayoutSound, AgentSteps, GameSteps,
         Scoring, Opening
    <3> QED  BY <3>3 DEF t
  <2>2. "create" \in Steps /\ "create" \notin Scoring \cup Opening \cup Locking \cup {"mark"}
    BY DEF Steps, Scoring, Opening, Locking
  <2> QED  BY <1>1, <1>3, <2>1, <2>2, GoesQuietly DEF LockRead
<1> QED  BY <1>2, <1>3 DEF LockRead

\* The steps of a tick that name neither an agent nor a battle.
LEMMA CalmStep ==
  ASSUME LeagueInv, NEW w \in Workers, NEW t \in Task, task' = [task EXCEPT ![w] = t],
         t.step \notin AgentSteps \cup GameSteps, t.claimed \subseteq task[w].claimed,
         t.step = "apply" => t.seen \in {"LIVE", "CANCELLED", "UNKNOWN"} \cup Results,
         t.step = "finish" => t.seen \in {"UNKNOWN"} \cup Results,
         UNCHANGED <<arenaVars, pred, battle, record, granted, booked>>, LooseTypeOK'
  PROVE  LeagueInv'
<1>1. TaskSound(task[w])  BY TaskFound
<1>2. TaskSound(t) /\ Recedes(task[w], t)
  BY <1>1 DEF TaskSound, Shaped, ClaimsSound, LockSound, PayoutSound, AgentSteps, GameSteps,
     Scoring, Opening, Locking, Recedes
<1> QED  BY <1>2, StaysApart, QuietStep

LEMMA PollStep ==
  ASSUME LeagueInv, NEW w \in Workers, Poll(w)
  PROVE  LeagueInv'
<1>1. LooseTypeOK /\ requests \in Nat /\ faults \in Nat  BY InvParts DEF LooseTypeOK
<1>2. LooseTypeOK'  BY <1>1, LooseStays DEF Poll
<1>3. CASE Ends(w)  BY <1>2, <1>3, EndsQuietly DEF Poll
<1>4. CASE reported # "SCHEDULED" /\ task' = [task EXCEPT ![w] = [@ EXCEPT !.step = "apply", !.seen = reported]]
  <2> DEFINE t == [task[w] EXCEPT !.step = "apply", !.seen = reported]
  <2>1. reported \in {"LIVE", "CANCELLED", "UNKNOWN"} \cup Results
    BY <1>1, <1>4 DEF LooseTypeOK, Open
  <2>2. task[w] \in Task  BY TaskFound
  <2>3. t \in Task /\ t.step = "apply" /\ t.seen = reported /\ t.claimed = task[w].claimed
    BY <2>1, <2>2 DEF Task, Steps
  <2>4. task' = [task EXCEPT ![w] = t]  BY <1>4
  <2> HIDE DEF t
  <2> QED  BY <1>2, <2>1, <2>3, <2>4, CalmStep DEF Poll, AgentSteps, GameSteps
<1> QED  BY <1>3, <1>4 DEF Poll

\* The consensus is counted before the result is written, and goes along with it.
LEMMA ApplyStep ==
  ASSUME LeagueInv, NEW w \in Workers, Apply(w)
  PROVE  LeagueInv'
<1>1. /\ LooseTypeOK /\ task[w] \in Task /\ TaskSound(task[w]) /\ task[w].step = "apply"
      /\ LeagueTypeOK /\ \A a \in Agents : PredictionSound(a)
  BY InvParts, TaskFound DEF LeagueInv, Apply, At
<1>2. task[w].seen \in {"LIVE", "CANCELLED", "UNKNOWN"} \cup Results
  BY <1>1 DEF TaskSound, Shaped
<1>3. CASE task[w].seen = "LIVE"
  <2>1. fixture' = [fixture EXCEPT !.status = "LIVE"] /\ Ends(w)  BY <1>3 DEF Apply
  <2>2. LooseTypeOK'  BY <1>1, <2>1 DEF LooseTypeOK, Apply, fixtureVars, Open
  <2> QED  BY <2>1, <2>2, EndsQuietly DEF Apply
<1>4. CASE task[w].seen = "CANCELLED"
  <2> DEFINE t == [task[w] EXCEPT !.step = "void"]
  <2>1. fixture' = [fixture EXCEPT !.status = "CANCELLED"] /\ task' = [task EXCEPT ![w] = t]
    BY <1>4 DEF Apply, Goes
  <2>2. LooseTypeOK'  BY <1>1, <2>1 DEF LooseTypeOK, Apply, fixtureVars
  <2>3. t \in Task /\ t.step = "void" /\ t.claimed = task[w].claimed  BY <1>1 DEF Task, Steps
  <2> HIDE DEF t
  <2> QED  BY <2>1, <2>2, <2>3, CalmStep DEF Apply, AgentSteps, GameSteps
<1>5. CASE task[w].seen \notin {"LIVE", "CANCELLED"}
  <2> DEFINE t == [task[w] EXCEPT !.step = "finish", !.consensus = Consensus]
  <2>1. task' = [task EXCEPT ![w] = t] /\ UNCHANGED fixture  BY <1>5 DEF Apply
  <2>2. Consensus \in Picks \cup {None}  BY <1>1, ConsensusPick
  <2>3. t \in Task /\ t.step = "finish" /\ t.seen = task[w].seen /\ t.claimed = task[w].claimed
    BY <1>1, <2>2 DEF Task, Steps
  <2>4. LooseTypeOK'  BY <1>1, <2>1 DEF LooseTypeOK, Apply, fixtureVars
  <2> HIDE DEF t
  <2> QED  BY <1>2, <1>5, <2>1, <2>3, <2>4, CalmStep DEF Apply, AgentSteps, GameSteps
<1> QED  BY <1>3, <1>4, <1>5

LEMMA FinishStep ==
  ASSUME LeagueInv, NEW w \in Workers, Finish(w)
  PROVE  LeagueInv'
<1> DEFINE t == [task[w] EXCEPT !.step = "result"]
<1>1. LooseTypeOK /\ task[w] \in Task /\ TaskSound(task[w]) /\ task[w].step = "finish"
  BY InvParts, TaskFound DEF Finish, At
<1>2. t \in Task /\ t.step = "result" /\ t.claimed = task[w].claimed  BY <1>1 DEF Task, Steps
<1>3. task' = [task EXCEPT ![w] = t]  BY DEF Finish, Goes
<1> HIDE DEF t
<1>4. task[w].seen \in {"UNKNOWN"} \cup Results /\ task[w].consensus \in Picks \cup {None}
  BY <1>1 DEF TaskSound, Shaped, Task
<1>5. LooseTypeOK'  BY <1>1, <1>4 DEF LooseTypeOK, Finish, fixtureVars
<1> QED  BY <1>2, <1>3, <1>5, CalmStep DEF Finish, AgentSteps, GameSteps

LEMMA ReadResultStep ==
  ASSUME LeagueInv, NEW w \in Workers, ReadResult(w)
  PROVE  LeagueInv'
<1>1. LooseTypeOK /\ requests \in Nat /\ faults \in Nat  BY InvParts DEF LooseTypeOK
<1>2. LooseTypeOK'  BY <1>1, LooseStays DEF ReadResult
<1>3. CASE fixture.result \notin Results  BY <1>2, <1>3, EndsQuietly DEF ReadResult
<1>4. CASE fixture.result \in Results
  <2> DEFINE t == [task[w] EXCEPT !.step = "claim", !.seen = fixture.result, !.consensus = fixture.consensus]
  <2>1. task[w] \in Task /\ fixture.consensus \in Picks \cup {None}
    BY <1>1, TaskFound DEF LooseTypeOK
  <2>2. t \in Task /\ t.step = "claim" /\ t.claimed = task[w].claimed
    BY <1>4, <2>1 DEF Task, Steps
  <2>3. task' = [task EXCEPT ![w] = t]  BY <1>4 DEF ReadResult
  <2> HIDE DEF t
  <2> QED  BY <1>2, <2>2, <2>3, CalmStep DEF ReadResult, AgentSteps, GameSteps
<1> QED  BY <1>3, <1>4

LEMMA ListBattlesStep ==
  ASSUME LeagueInv, NEW w \in Workers, ListBattles(w)
  PROVE  LeagueInv'
<1>1. LooseTypeOK'
  <2>1. requests \in Nat /\ faults \in Nat  BY DEF LeagueInv, LeagueTypeOK
  <2> QED  BY <2>1, LooseStays DEF ListBattles
<1>2. PICK locked \in SUBSET MatchIds, waiting \in SUBSET MatchIds :
        task' = [task EXCEPT ![w] = [@ EXCEPT !.step = "score", !.games = locked, !.waiting = waiting]]
  <2>1. PICK page \in Listed(task[w].seen) :
          LET locked == {b \in page : battle[b].status = "LOCKED"}
              pending == {b \in page : battle[b].status = "PENDING"}
              waiting == IF task[w].seen = "CANCELLED" THEN pending ELSE {}
          IN  task' = [task EXCEPT ![w] =
                         [@ EXCEPT !.step = "score", !.games = locked, !.waiting = waiting]]
    BY DEF ListBattles
  <2>2. page \subseteq MatchIds  BY DEF Listed
  <2> QED  BY <2>1, <2>2
<1> DEFINE t == [task[w] EXCEPT !.step = "score", !.games = locked, !.waiting = waiting]
<1>3. task[w] \in Task  BY TaskFound
<1>4. t \in Task /\ t.step = "score" /\ t.claimed = task[w].claimed
  BY <1>3 DEF Task, Steps
<1>5. task' = [task EXCEPT ![w] = t]  BY <1>2
<1> HIDE DEF t
<1> QED  BY <1>1, <1>4, <1>5, CalmStep DEF ListBattles, AgentSteps, GameSteps

LEMMA PredictionFailsStep ==
  ASSUME LeagueInv, NEW w \in Workers, PredictionFails(w)
  PROVE  LeagueInv'
<1>1. LooseTypeOK'
  <2>1. requests' \in Nat /\ faults' \in Nat
    BY DEF LeagueInv, LeagueTypeOK, PredictionFails, Fault
  <2> QED  BY <2>1, LooseStays DEF PredictionFails
<1>2. CASE Loops(w)  BY <1>1, <1>2, LoopsQuietly DEF PredictionFails
<1>3. ASSUME At(w, "score"), NEW c \in task[w].claimed, task' = [task EXCEPT ![w].claimed = @ \ {c}]
      PROVE  LeagueInv'
  <2> DEFINE t == [task[w] EXCEPT !.claimed = @ \ {c}]
  <2>1. task[w] \in Task /\ task[w].step = "score"  BY <1>3, TaskFound DEF At
  <2>2. t \in Task /\ t.step = "score" /\ t.claimed \subseteq task[w].claimed
    BY <2>1 DEF Task
  <2>3. task' = [task EXCEPT ![w] = t]  BY <1>3
  <2> HIDE DEF t
  <2> QED  BY <1>1, <2>2, <2>3, CalmStep DEF PredictionFails, AgentSteps, GameSteps
<1> QED  BY <1>2, <1>3 DEF PredictionFails

\* Who won a battle earned something.
LEMMA WinnerEarned ==
  ASSUME LeagueInv, NEW b \in MatchIds, BattleWinner(b) # NoAgent
  PROVE  /\ BattleWinner(b) \in {Challenger(b), Opponent(b)} /\ BattleWinner(b) \in Agents
         /\ pred[BattleWinner(b)].award > 0
<1> DEFINE c == Challenger(b)
           o == Opponent(b)
<1>1. c \in Agents /\ o \in Agents  BY LeagueAssumption DEF Challenger, Opponent
<1>2. pred[c].award \in Nat \cup {Unscored} /\ pred[o].award \in Nat \cup {Unscored}
  <2>1. pred[c] \in Prediction /\ pred[o] \in Prediction  BY <1>1 DEF LeagueInv, LeagueTypeOK
  <2>2. \A n \in Rewards : n \in Nat  BY AmountsAssumption
  <2> QED  BY <2>1, <2>2 DEF Prediction
<1>3. Score(c) \in Nat /\ Score(o) \in Nat  BY <1>2 DEF Score, Unscored
<1> HIDE DEF c, o
<1>4. CASE Score(c) > Score(o)
  <2>1. BattleWinner(b) = c  BY <1>4 DEF BattleWinner, c, o
  <2>2. pred[c].award > 0  BY <1>2, <1>3, <1>4 DEF Score, Unscored
  <2> QED  BY <1>1, <2>1, <2>2 DEF c
<1>5. CASE ~(Score(c) > Score(o)) /\ Score(o) > Score(c)
  <2>1. BattleWinner(b) = o  BY <1>5 DEF BattleWinner, c, o
  <2>2. pred[o].award > 0  BY <1>2, <1>3, <1>5 DEF Score, Unscored
  <2> QED  BY <1>1, <2>1, <2>2 DEF o
<1>6. CASE ~(Score(c) > Score(o)) /\ ~(Score(o) > Score(c))
  BY <1>6 DEF BattleWinner, c, o
<1> QED  BY <1>4, <1>5, <1>6

LEMMA JudgeStep ==
  ASSUME LeagueInv, NEW w \in Workers, JudgeNext(w)
  PROVE  LeagueInv'
<1>1. LooseTypeOK'
  <2>1. requests \in Nat /\ faults \in Nat  BY DEF LeagueInv, LeagueTypeOK
  <2> QED  BY <2>1, LooseStays DEF JudgeNext
<1>2. task[w] \in Task /\ TaskSound(task[w]) /\ task[w].step = "score" /\ task[w].claimed = {}
  BY TaskFound DEF JudgeNext, At
<1>3. PICK b \in task[w].games :
        task' = [task EXCEPT ![w] =
          IF Settles(w, b)
          THEN [task[w] EXCEPT !.step = "find", !.game = b,
                  !.winner = IF task[w].seen = "CANCELLED" THEN NoAgent ELSE BattleWinner(b),
                  !.games = task[w].games \ {b}]
          ELSE [task[w] EXCEPT !.games = task[w].games \ {b}]]
  BY DEF JudgeNext
<1>4. b \in MatchIds  BY <1>2 DEF Task
<1>5. CASE ~Settles(w, b)
  <2> DEFINE t == [task[w] EXCEPT !.games = task[w].games \ {b}]
  <2>1. t \in Task /\ t.step = "score" /\ t.claimed = {}  BY <1>2 DEF Task
  <2>2. task' = [task EXCEPT ![w] = t]  BY <1>3, <1>5
  <2> HIDE DEF t
  <2> QED  BY <1>1, <2>1, <2>2, CalmStep DEF JudgeNext, AgentSteps, GameSteps
<1>6. CASE Settles(w, b)
  <2> DEFINE winner == IF task[w].seen = "CANCELLED" THEN NoAgent ELSE BattleWinner(b)
             t == [task[w] EXCEPT !.step = "find", !.game = b, !.winner = winner, !.games = task[w].games \ {b}]
  <2>1. task' = [task EXCEPT ![w] = t]  BY <1>3, <1>6
  <2>2. /\ winner \in Agents \cup {NoAgent}
        /\ winner # NoAgent => winner \in {Challenger(b), Opponent(b)} /\ pred[winner].award > 0
    BY <1>4, WinnerEarned
  <2> HIDE DEF winner
  <2>3. t \in Task /\ t.step = "find" /\ t.game = b /\ t.winner = winner /\ t.claimed = {}
    BY <1>2, <1>4, <2>2 DEF Task, Steps
  <2> HIDE DEF t
  <2>4. TaskSound(t) /\ Recedes(task[w], t)
    BY <1>4, <2>2, <2>3 DEF TaskSound, Shaped, ClaimsSound, LockSound, PayoutSound, AgentSteps, GameSteps,
       Scoring, Opening, Locking, Recedes
  <2> QED  BY <1>1, <2>1, <2>3, <2>4, StaysApart, QuietStep DEF JudgeNext
<1> QED  BY <1>5, <1>6

LEMMA JudgeDoneStep ==
  ASSUME LeagueInv, NEW w \in Workers, JudgeDone(w)
  PROVE  LeagueInv'
<1>1. requests \in Nat /\ faults \in Nat  BY DEF LeagueInv, LeagueTypeOK
<1>2. LooseTypeOK'  BY <1>1, LooseStays DEF JudgeDone
<1> QED  BY <1>2, EndsQuietly DEF JudgeDone

\* Only a battle whose record says LOCKED goes on to the escrow.
LEMMA FindStep ==
  ASSUME LeagueInv, NEW w \in Workers, Find(w)
  PROVE  LeagueInv'
<1>1. LooseTypeOK'
  <2>1. requests \in Nat /\ faults \in Nat  BY DEF LeagueInv, LeagueTypeOK
  <2> QED  BY <2>1, LooseStays DEF Find
<1>2. task[w] \in Task /\ TaskSound(task[w]) /\ task[w].step = "find"
  BY TaskFound DEF Find, At
<1>3. CASE Loops(w)  BY <1>1, <1>3, LoopsQuietly DEF Find
<1>4. ASSUME NEW step \in {"pay", "count"}, Goes(w, step),
             step = "pay" => record[task[w].game].state # None
      PROVE  LeagueInv'
  <2> DEFINE t == [task[w] EXCEPT !.step = step]
  <2>1. /\ t \in Task /\ t.step = step /\ t.game = task[w].game /\ t.winner = task[w].winner
        /\ t.claimed = task[w].claimed
    BY <1>2, <1>4 DEF Task, Steps
  <2>2. task' = [task EXCEPT ![w] = t]  BY <1>4 DEF Goes
  <2> HIDE DEF t
  <2>3. TaskSound(t) /\ Recedes(task[w], t)
    BY <1>2, <1>4, <2>1 DEF TaskSound, Shaped, ClaimsSound, LockSound, PayoutSound, AgentSteps, GameSteps,
       Scoring, Opening, Locking, Recedes
  <2> QED  BY <1>1, <2>1, <2>2, <2>3, StaysApart, QuietStep DEF Find
<1>5. \/ Loops(w) \/ Goes(w, "count")
      \/ Goes(w, "pay") /\ record[task[w].game].state = "LOCKED"
  BY DEF Find
<1> QED  BY <1>3, <1>4, <1>5 DEF None

LEMMA CountStep ==
  ASSUME LeagueInv, NEW w \in Workers, Count(w)
  PROVE  LeagueInv'
<1>1. LooseTypeOK /\ task[w].game \in MatchIds
  BY InvParts, TaskFound DEF Count, At, TaskSound, Shaped, GameSteps
<1>2. counted' \in [MatchIds -> Nat]  BY <1>1 DEF LooseTypeOK, Count
<1>3. LooseTypeOK'  BY <1>1, <1>2 DEF LooseTypeOK, Count, fixtureVars
<1> QED  BY <1>3, LoopsQuietly DEF Count

-----------------------------------------------------------------------------
(* Steps that change predictions.                                          *)

\* Predictions that were settled stay so, with the award they have.
SettledKept ==
  \A a \in Agents : pred[a].status = "SETTLED" =>
    pred'[a].status = "SETTLED" /\ pred'[a].award = pred[a].award

LEMMA AwardedSettled ==
  ASSUME LeagueInv, NEW a \in Agents, pred[a].award # Unscored \/ pred[a].award > 0
  PROVE  pred[a].award # Unscored /\ pred[a].status = "SETTLED"
BY DEF LeagueInv, PredictionSound, Unscored

\* What the tasks rely on is about settled predictions.
LEMMA SoundThroughPredictions ==
  ASSUME LeagueInv, NEW s \in Task, TaskSound(s), SettledKept,
         UNCHANGED <<match, received, battle, record, granted, booked>>
  PROVE  TaskSound(s)'
<1>1. Shaped(s)' /\ LockSound(s)'  BY DEF TaskSound, Shaped, LockSound
<1>2. ClaimsSound(s)'
  <2>1. \A c \in s.claimed : c.agent \in Agents  BY DEF Task, Claim
  <2>2. s.step \in Scoring => s.agent \in Agents
    BY DEF TaskSound, Shaped, Scoring, AgentSteps
  <2>3. s.step \in Scoring => pred[s.agent].status = "SETTLED"
    BY <2>2, AwardedSettled DEF TaskSound, ClaimsSound
  <2> QED  BY <2>1, <2>2, <2>3 DEF TaskSound, ClaimsSound, SettledKept, Scoring
<1>3. PayoutSound(s)'
  <2>1. s.step \in {"find", "pay"} /\ s.winner # NoAgent => s.winner \in Agents  BY DEF Task
  <2>2. s.step \in {"find", "pay"} /\ s.winner # NoAgent => pred[s.winner].status = "SETTLED"
    BY <2>1, AwardedSettled DEF TaskSound, PayoutSound
  <2> QED  BY <2>1, <2>2 DEF TaskSound, PayoutSound, SettledKept, Paid
<1> QED  BY <1>1, <1>2, <1>3 DEF TaskSound

\* The battles that were paid went to agents whose award stays.
LEMMA WinnersThroughPredictions ==
  ASSUME LeagueInv, SettledKept, UNCHANGED <<match, received>>
  PROVE  WinnersWereRight'
<1> SUFFICES ASSUME NEW b \in MatchIds, match[b].state = "SETTLED"
             PROVE  \E a \in {Challenger(b), Opponent(b)} : Paid(b) = {Owner[a]} /\ pred'[a].award > 0
  BY DEF WinnersWereRight, Paid
<1>1. PICK a \in {Challenger(b), Opponent(b)} : Paid(b) = {Owner[a]} /\ pred[a].award > 0
  BY DEF LeagueInv, WinnersWereRight
<1>2. a \in Agents  BY LeagueAssumption DEF Challenger, Opponent
<1>3. pred[a].status = "SETTLED"  BY <1>1, <1>2, AwardedSettled
<1> QED  BY <1>1, <1>2, <1>3 DEF SettledKept

\* A worker moves on and changes predictions that are not settled.
LEMMA PredictionStep ==
  ASSUME LeagueInv, NEW w \in Workers, NEW t \in Task, task' = [task EXCEPT ![w] = t],
         TaskSound(t)', \A v \in Workers : v # w => Apart(task[v], t),
         pred' \in [Agents -> Prediction], \A a \in Agents : PredictionSound(a)', SettledKept,
         UNCHANGED <<arenaVars, battle, record, granted, booked>>, LooseTypeOK'
  PROVE  LeagueInv'
<1>1. UNCHANGED <<match, received, battle, record, granted, booked>>  BY DEF arenaVars
<1>2. ASSUME NEW v \in Workers, NEW s \in Task, v # w, s = task[v]
      PROVE  TaskSound(s)' /\ Apart(s, t)
  <2>1. TaskSound(s)  BY <1>2, TaskFound
  <2> QED  BY <1>1, <1>2, <2>1, SoundThroughPredictions
<1>3. task' \in [Workers -> Task] /\ WorkersSound'  BY <1>2, WorkerMoves
<1>4. WinnersWereRight'  BY <1>1, WinnersThroughPredictions
<1>5. ContractSound' /\ RowsTypeOK' /\ RowsSound'
  BY <1>4, InvParts DEF arenaVars, ContractSound, ArenaTypeOK, PlayersKnown, RowsTypeOK, RowsSound,
     BattleSound, RowsFollowChain, Paid
<1> QED  BY <1>3, <1>5, InvPartsNext

\* What happens to one row that is not settled.
LEMMA RowRewritten ==
  ASSUME LeagueInv, NEW a \in Agents, NEW r \in Prediction, pred' = [pred EXCEPT ![a] = r],
         pred[a].status = "SETTLED" => r.status = "SETTLED",
         r.award = pred[a].award,
         r.status # None => r.pick \in Picks /\ r.points \in Points,
         r.status # "SETTLED" => r.award = Unscored,
         UNCHANGED <<granted, booked>>
  PROVE  pred' \in [Agents -> Prediction] /\ (\A i \in Agents : PredictionSound(i)') /\ SettledKept
<1>1. pred \in [Agents -> Prediction] /\ \A i \in Agents : PredictionSound(i)
  BY DEF LeagueInv, LeagueTypeOK
<1>2. pred' \in [Agents -> Prediction]  BY <1>1
<1>3. pred'[a] = r /\ \A i \in Agents : i # a => pred'[i] = pred[i]  BY <1>1
<1>4. \A i \in Agents : PredictionSound(i)'
  BY <1>1, <1>3 DEF PredictionSound
<1>5. SettledKept  BY <1>3 DEF SettledKept
<1> QED  BY <1>2, <1>4, <1>5

LEMMA OverrideStep ==
  ASSUME LeagueInv, NEW w \in Workers, Override(w)
  PROVE  LeagueInv'
<1> DEFINE a == task[w].agent
<1>1. a \in Agents
  BY TaskFound DEF Override, At, TaskSound, Shaped, AgentSteps
<1>2. PICK pick \in Picks, points \in Points : pred' = [pred EXCEPT ![a].pick = pick, ![a].points = points]
  BY DEF Override
<1> HIDE DEF a
<1>3. pred \in [Agents -> Prediction] /\ PredictionSound(a)  BY <1>1 DEF LeagueInv, LeagueTypeOK
<1> DEFINE r == [pred[a] EXCEPT !.pick = pick, !.points = points]
<1>4. /\ r \in Prediction /\ r.status = pred[a].status /\ r.award = pred[a].award
      /\ r.pick = pick /\ r.points = points
  BY <1>1, <1>3 DEF Prediction
<1>5. pred' = [pred EXCEPT ![a] = r]  BY <1>1, <1>2, <1>3
<1> HIDE DEF r
<1>6. pred' \in [Agents -> Prediction] /\ (\A i \in Agents : PredictionSound(i)') /\ SettledKept
  <2>1. UNCHANGED <<granted, booked>>  BY DEF Override
  <2>2. r.status # "SETTLED" => r.award = Unscored  BY <1>3, <1>4 DEF PredictionSound
  <2> QED  BY <1>1, <1>4, <1>5, <2>1, <2>2, RowRewritten
<1>7. TaskSound(Idle)'
  BY <1>6, IdleTask, SoundThroughPredictions DEF Override, arenaVars
<1>8. LooseTypeOK'
  <2>1. requests \in Nat /\ faults \in Nat  BY DEF LeagueInv, LeagueTypeOK
  <2> QED  BY <2>1, LooseStays DEF Override
<1> QED  BY <1>6, <1>7, <1>8, IdleTask, StaysApart, PredictionStep DEF Override, Ends

\* The row that is there is kept; a new one is pending and has no award.
LEMMA EnsuredRow ==
  ASSUME LeagueInv, NEW w \in Workers, EnsurePrediction(w)
  PROVE  pred' \in [Agents -> Prediction] /\ (\A i \in Agents : PredictionSound(i)') /\ SettledKept
<1> DEFINE a == task[w].agent
<1>1. a \in Agents
  BY TaskFound DEF EnsurePrediction, TaskSound, Shaped, AgentSteps
<1>2. pred \in [Agents -> Prediction] /\ \A i \in Agents : PredictionSound(i)
  BY DEF LeagueInv, LeagueTypeOK
<1>3. UNCHANGED <<granted, booked>>  BY DEF EnsurePrediction
<1>4. CASE UNCHANGED pred
  BY <1>2, <1>3, <1>4 DEF PredictionSound, SettledKept
<1>5. ASSUME pred[a].status = None, NEW pick \in Picks, NEW points \in Points,
             pred' = [pred EXCEPT ![a] =
                        [status |-> "PENDING", pick |-> pick, points |-> points, award |-> Unscored]]
      PROVE  pred' \in [Agents -> Prediction] /\ (\A i \in Agents : PredictionSound(i)') /\ SettledKept
  <2> DEFINE r == [status |-> "PENDING", pick |-> pick, points |-> points, award |-> Unscored]
  <2>1. /\ r \in Prediction /\ r.status = "PENDING" /\ r.award = Unscored
        /\ r.pick \in Picks /\ r.points \in Points
    BY DEF Prediction
  <2>2. pred' = [pred EXCEPT ![a] = r]  BY <1>5
  <2>3. pred[a].award = Unscored /\ pred[a].status # "SETTLED"
    BY <1>1, <1>2, <1>5 DEF PredictionSound, None
  <2> HIDE DEF r, a
  <2> QED  BY <1>1, <1>3, <2>1, <2>2, <2>3, RowRewritten
<1> QED  BY <1>4, <1>5 DEF EnsurePrediction

LEMMA EnsureStep ==
  ASSUME LeagueInv, NEW w \in Workers, EnsurePrediction(w)
  PROVE  LeagueInv'
<1>1. /\ pred' \in [Agents -> Prediction] /\ (\A i \in Agents : PredictionSound(i)') /\ SettledKept
      /\ task[w] \in Task /\ TaskSound(task[w])
  BY EnsuredRow, TaskFound
<1>2. UNCHANGED <<match, received, arenaVars, battle, record, granted, booked>>
  BY DEF EnsurePrediction, arenaVars
<1>3. LooseTypeOK'
  <2>1. requests \in Nat /\ faults \in Nat  BY DEF LeagueInv, LeagueTypeOK
  <2> QED  BY <2>1, LooseStays DEF EnsurePrediction
<1>4. CASE Ends(w)
  <2>1. TaskSound(Idle)'  BY <1>1, <1>2, IdleTask, SoundThroughPredictions
  <2> QED  BY <1>1, <1>2, <1>3, <1>4, <2>1, IdleTask, StaysApart, PredictionStep DEF Ends
<1>5. ASSUME NEW step \in {"open", "lock"}, Goes(w, step),
             task[w].step = IF step = "open" THEN "challenge" ELSE "accept"
      PROVE  LeagueInv'
  <2>1. PICK t \in Task : /\ t = [task[w] EXCEPT !.step = step] /\ t.step = step
                          /\ t.game = task[w].game /\ t.claimed = task[w].claimed
    <3>1. step \in Steps  BY DEF Steps
    <3> QED  BY <1>1, <3>1, NextTask
  <2>2. task' = [task EXCEPT ![w] = t]  BY <1>5, <2>1 DEF Goes
  <2>3. TaskSound(t) /\ Recedes(task[w], t)
    BY <1>1, <1>5, <2>1 DEF TaskSound, Shaped, ClaimsSound, LockSound, PayoutSound, AgentSteps, GameSteps,
       Scoring, Opening, Locking, Recedes
  <2>4. TaskSound(t)'  BY <1>1, <1>2, <2>1, <2>3, SoundThroughPredictions
  <2>5. \A v \in Workers : v # w => Apart(task[v], t)  BY <2>3, StaysApart
  <2> QED  BY <1>1, <1>2, <1>3, <2>2, <2>4, <2>5, PredictionStep
<1> QED  BY <1>4, <1>5 DEF EnsurePrediction, At

\* Moving rows that are not settled to another status that is not.
LEMMA StatusesMoved ==
  ASSUME LeagueInv, NEW S \in SUBSET {"PENDING", "LOCKED"}, NEW status \in {"LOCKED", "VOID"},
         pred' = [a \in Agents |-> IF pred[a].status \in S THEN [pred[a] EXCEPT !.status = status] ELSE pred[a]],
         UNCHANGED <<granted, booked>>
  PROVE  pred' \in [Agents -> Prediction] /\ (\A i \in Agents : PredictionSound(i)') /\ SettledKept
<1>1. \A a \in Agents : pred[a] \in Prediction /\ PredictionSound(a)  BY DEF LeagueInv, LeagueTypeOK
<1>2. ASSUME NEW a \in Agents
      PROVE  /\ pred'[a] \in Prediction /\ PredictionSound(a)'
             /\ pred[a].status = "SETTLED" => pred'[a] = pred[a]
  <2>1. CASE pred[a].status \notin S
    BY <1>1, <2>1 DEF PredictionSound
  <2>2. CASE pred[a].status \in S
    <3>1. pred'[a] = [pred[a] EXCEPT !.status = status]  BY <2>2
    <3>2. /\ pred'[a] \in Prediction /\ pred'[a].status = status /\ pred'[a].pick = pred[a].pick
          /\ pred'[a].points = pred[a].points /\ pred'[a].award = pred[a].award
      BY <1>1, <3>1 DEF Prediction
    <3> QED  BY <1>1, <2>2, <3>2 DEF PredictionSound, None
  <2> QED  BY <2>1, <2>2
<1> QED  BY <1>2 DEF SettledKept

LEMMA VoidStep ==
  ASSUME LeagueInv, NEW w \in Workers, VoidPredictions(w)
  PROVE  LeagueInv'
<1>1. pred' \in [Agents -> Prediction] /\ (\A i \in Agents : PredictionSound(i)') /\ SettledKept
  BY StatusesMoved DEF VoidPredictions
<1>2. task[w] \in Task /\ TaskSound(task[w])  BY TaskFound
<1>3. PICK t \in Task : /\ t = [task[w] EXCEPT !.step = "battles"]
                        /\ t.step = "battles" /\ t.claimed = task[w].claimed
  <2>1. "battles" \in Steps  BY DEF Steps
  <2> QED  BY <1>2, <2>1, NextTask
<1>4. task' = [task EXCEPT ![w] = t]  BY <1>3 DEF VoidPredictions, Goes
<1>5. TaskSound(t) /\ Recedes(task[w], t)
  BY <1>2, <1>3 DEF TaskSound, Shaped, ClaimsSound, LockSound, PayoutSound, AgentSteps, GameSteps,
     Scoring, Opening, Locking, Recedes
<1>6. TaskSound(t)'
  BY <1>1, <1>3, <1>5, SoundThroughPredictions DEF VoidPredictions, arenaVars
<1>7. LooseTypeOK'
  <2>1. requests \in Nat /\ faults \in Nat  BY DEF LeagueInv, LeagueTypeOK
  <2> QED  BY <2>1, LooseStays DEF VoidPredictions
<1>8. \A v \in Workers : v # w => Apart(task[v], t)  BY <1>5, StaysApart
<1> QED  BY <1>1, <1>4, <1>6, <1>7, <1>8, PredictionStep DEF VoidPredictions

\* No worker moves.
LEMMA NobodyMoves ==
  ASSUME LeagueInv, UNCHANGED task, \A s \in Task : TaskSound(s) => TaskSound(s)'
  PROVE  task' \in [Workers -> Task] /\ WorkersSound'
<1>1. task' \in [Workers -> Task]  BY DEF LeagueInv, LeagueTypeOK
<1>2. ASSUME NEW v \in Workers PROVE TaskSound(task[v])'
  <2>1. PICK s \in Task : s = task[v] /\ TaskSound(s)  BY TaskFound
  <2>2. task'[v] = s /\ TaskSound(s)'  BY <2>1
  <2> QED  BY <2>2 DEF TaskSound, Shaped, ClaimsSound, LockSound, PayoutSound
<1>3. (\A u, v \in Workers : u # v => Apart(task[u], task[v]))'
  BY DEF LeagueInv, WorkersSound
<1> QED  BY <1>1, <1>2, <1>3 DEF WorkersSound

LEMMA LockSweepStep ==
  ASSUME LeagueInv, LockDuePredictions
  PROVE  LeagueInv'
<1>1. pred' \in [Agents -> Prediction] /\ (\A i \in Agents : PredictionSound(i)') /\ SettledKept
  <2>1. pred' = [a \in Agents |-> IF pred[a].status \in {"PENDING"}
                                  THEN [pred[a] EXCEPT !.status = "LOCKED"] ELSE pred[a]]
    BY DEF LockDuePredictions
  <2> QED  BY <2>1, StatusesMoved DEF LockDuePredictions
<1>2. UNCHANGED <<arenaVars, match, received, battle, record, granted, booked, task>>
  BY DEF LockDuePredictions, arenaVars
<1>3. task' \in [Workers -> Task] /\ WorkersSound'
  BY <1>1, <1>2, SoundThroughPredictions, NobodyMoves
<1>4. WinnersWereRight'  BY <1>1, <1>2, WinnersThroughPredictions
<1>5. LooseTypeOK'
  <2>1. requests \in Nat /\ faults \in Nat  BY DEF LeagueInv, LeagueTypeOK
  <2> QED  BY <2>1, LooseStays DEF LockDuePredictions
<1>6. ContractSound' /\ RowsTypeOK' /\ RowsSound'
  BY <1>1, <1>2, <1>4, InvParts DEF arenaVars, ContractSound, ArenaTypeOK, PlayersKnown, RowsTypeOK, RowsSound,
     BattleSound, RowsFollowChain, Paid
<1> QED  BY <1>3, <1>5, <1>6, InvPartsNext

\* A worker moves on and changes what agents have earned.
LEMMA EarningStep ==
  ASSUME LeagueInv, NEW w \in Workers, NEW t \in Task, task' = [task EXCEPT ![w] = t],
         TaskSound(t)',
         \A v \in Workers, s \in Task : v # w /\ s = task[v] => TaskSound(s)' /\ Apart(s, t),
         pred' \in [Agents -> Prediction], granted' \in [Agents -> Nat], booked' \in [Agents -> Nat],
         \A a \in Agents : PredictionSound(a)', WinnersWereRight',
         ContractSound', UNCHANGED <<match, received, battle, record>>, LooseTypeOK'
  PROVE  LeagueInv'
<1>1. task' \in [Workers -> Task] /\ WorkersSound'  BY WorkerMoves
<1>2. RowsTypeOK' /\ RowsSound'
  BY InvParts DEF RowsTypeOK, RowsSound, BattleSound, RowsFollowChain, Paid
<1> QED  BY <1>1, <1>2, InvPartsNext

LEMMA ContractKept ==
  ASSUME LeagueInv, UNCHANGED arenaVars
  PROVE  ContractSound' /\ UNCHANGED <<match, received>>
BY InvParts DEF arenaVars, ContractSound, ArenaTypeOK, PlayersKnown

\* A grant leaves the matches alone and takes no more than the treasury has.
LEMMA Grants ==
  ASSUME LeagueInv, NEW p \in Players, NEW n \in Nat, Distribute(p, n)
  PROVE  ContractSound' /\ UNCHANGED <<match, received>>
<1>1. ContractSound  BY InvParts
<1>2. /\ tokens \in [Holders -> Nat] /\ p \in Holders /\ Treasury \in Holders /\ p # Treasury
      /\ totalRewardsPaid \in Nat
  BY <1>1, HoldersAssumption DEF ContractSound, ArenaTypeOK, Holders
<1>3. tokens[Treasury] - n \in Nat /\ tokens[p] + n \in Nat /\ totalRewardsPaid' \in Nat
  BY <1>2 DEF Distribute, MayDistribute
<1>4. tokens' \in [Holders -> Nat]  BY <1>2, <1>3 DEF Distribute
<1>5. UNCHANGED <<match, commissionBps, arenaPaused, allowance, totalCommissions, received>>
  BY DEF Distribute
<1> QED  BY <1>1, <1>3, <1>4, <1>5 DEF ContractSound, ArenaTypeOK, PlayersKnown

\* A claim takes what nobody has claimed.
LEMMA ClaimStep ==
  ASSUME LeagueInv, NEW w \in Workers, ClaimPredictions(w)
  PROVE  LeagueInv'
<1> DEFINE claims == {[agent |-> a, pick |-> pred[a].pick, points |-> pred[a].points] : a \in Locked}
<1>1. /\ pred \in [Agents -> Prediction] /\ task[w] \in Task
      /\ \A a \in Agents : pred[a] \in Prediction /\ PredictionSound(a)
  BY TaskFound DEF LeagueInv, LeagueTypeOK
<1>2. /\ pred' = [a \in Agents |-> IF a \in Locked THEN [pred[a] EXCEPT !.status = "SETTLED"] ELSE pred[a]]
      /\ task' = [task EXCEPT ![w] = [@ EXCEPT !.step = "battles", !.claimed = claims]]
      /\ UNCHANGED <<granted, booked>>
  BY DEF ClaimPredictions, Claimable
<1>3. \A a \in Locked : a \in Agents /\ pred[a].status = "LOCKED"  BY DEF Locked
<1>4. claims \subseteq Claim
  BY <1>1, <1>3 DEF Claim, PredictionSound, None
<1>5. \A c \in claims : c.agent \in Locked  OBVIOUS
<1>6. \A c, d \in claims : c.agent = d.agent => c = d  OBVIOUS
<1> HIDE DEF claims
<1>7. PICK t \in Task : task' = [task EXCEPT ![w] = t] /\ t.step = "battles" /\ t.claimed = claims
  <2> DEFINE t == [task[w] EXCEPT !.step = "battles", !.claimed = claims]
  <2>1. t \in Task /\ t.step = "battles" /\ t.claimed = claims
    BY <1>1, <1>4 DEF Task, Steps
  <2>2. task' = [task EXCEPT ![w] = t]  BY <1>2
  <2> HIDE DEF t
  <2> QED  BY <2>1, <2>2
<1>8. ASSUME NEW a \in Agents
      PROVE  /\ pred'[a] \in Prediction /\ PredictionSound(a)'
             /\ pred[a].status = "SETTLED" => pred'[a] = pred[a]
             /\ a \in Locked => pred'[a].status = "SETTLED" /\ pred'[a].award = Unscored
  <2>1. CASE a \notin Locked
    BY <1>1, <1>2, <2>1 DEF PredictionSound
  <2>2. CASE a \in Locked
    <3>1. pred'[a] = [pred[a] EXCEPT !.status = "SETTLED"]  BY <1>2, <2>2
    <3>2. /\ pred'[a] \in Prediction /\ pred'[a].status = "SETTLED" /\ pred'[a].pick = pred[a].pick
          /\ pred'[a].points = pred[a].points /\ pred'[a].award = pred[a].award
      BY <1>1, <3>1 DEF Prediction
    <3> QED  BY <1>1, <1>2, <1>3, <2>2, <3>2 DEF PredictionSound, None
  <2> QED  BY <2>1, <2>2
<1>9. pred' \in [Agents -> Prediction] /\ (\A i \in Agents : PredictionSound(i)') /\ SettledKept
  BY <1>2, <1>8 DEF SettledKept
<1>10. TaskSound(t)'
  BY <1>3, <1>5, <1>6, <1>7, <1>8 DEF TaskSound, Shaped, ClaimsSound, LockSound, PayoutSound,
     AgentSteps, GameSteps, Scoring, Opening
<1>11. ASSUME NEW v \in Workers, v # w PROVE Apart(task[v], t)
  <2>1. \A d \in task[v].claimed : pred[d.agent].status = "SETTLED"
    BY <1>11, TaskFound DEF TaskSound, ClaimsSound
  <2>2. \A c \in t.claimed : pred[c.agent].status = "LOCKED"  BY <1>3, <1>5, <1>7
  <2>3. \A d \in task[v].claimed, c \in t.claimed : d.agent # c.agent  BY <2>1, <2>2
  <2> QED  BY <1>7, <2>3 DEF Apart, Scoring, Opening, Locking
<1>12. LooseTypeOK'
  <2>1. requests \in Nat /\ faults \in Nat  BY DEF LeagueInv, LeagueTypeOK
  <2> QED  BY <2>1, LooseStays DEF ClaimPredictions
<1> QED  BY <1>7, <1>9, <1>10, <1>11, <1>12, PredictionStep DEF ClaimPredictions

\* A prediction is scored by the one worker that has claimed it.
LEMMA ScoreStep ==
  ASSUME LeagueInv, NEW w \in Workers, ScoreNext(w)
  PROVE  LeagueInv'
<1>1. PICK c \in task[w].claimed :
        LET award == Award(c, task[w].seen, task[w].consensus)
        IN  /\ pred' = [pred EXCEPT ![c.agent].award = award]
            /\ task' = [task EXCEPT ![w] =
                 [@ EXCEPT !.step = IF award > 0 THEN "reward" ELSE "book",
                           !.agent = c.agent, !.claimed = task[w].claimed \ {c}]]
  BY DEF ScoreNext
<1> DEFINE x == c.agent
           award == Award(c, task[w].seen, task[w].consensus)
           step == IF award > 0 THEN "reward" ELSE "book"
<1>2. task[w] \in Task /\ TaskSound(task[w])  BY TaskFound
<1>3. c \in Claim /\ x \in Agents  BY <1>2 DEF Task, Claim
<1>4. award \in Nat /\ award \in Rewards \cup {0} /\ award # Unscored
  BY <1>3, AwardNumber DEF Unscored
<1>5. step \in Scoring  BY DEF Scoring
<1>6. /\ pred[x].status = "SETTLED" /\ pred[x].award = Unscored
      /\ granted[x] = 0 /\ booked[x] = 0
  BY <1>2, <1>3 DEF TaskSound, ClaimsSound, LeagueInv, PredictionSound
<1>7. pred' = [pred EXCEPT ![x].award = award] /\ UNCHANGED <<granted, booked, match, received, battle, record>>
  BY <1>1 DEF ScoreNext, arenaVars
<1>8. PICK t \in Task : /\ task' = [task EXCEPT ![w] = t] /\ t.step = step
                        /\ t.agent = x /\ t.claimed = task[w].claimed \ {c}
  <2> DEFINE t == [task[w] EXCEPT !.step = step, !.agent = x, !.claimed = task[w].claimed \ {c}]
  <2>1. task' = [task EXCEPT ![w] = t]  BY <1>1
  <2> HIDE DEF x, step
  <2>2. t \in Task /\ t.step = step /\ t.agent = x /\ t.claimed = task[w].claimed \ {c}
    BY <1>2, <1>3, <1>5 DEF Task, Steps, Scoring
  <2> HIDE DEF t
  <2> QED  BY <2>1, <2>2
<1> HIDE DEF x, award, step
<1>9. pred \in [Agents -> Prediction] /\ \A a \in Agents : PredictionSound(a)
  BY DEF LeagueInv, LeagueTypeOK
<1>10. /\ pred' \in [Agents -> Prediction] /\ \A a \in Agents : a # x => pred'[a] = pred[a]
       /\ pred'[x].award = award /\ pred'[x].status = "SETTLED"
       /\ pred'[x].pick = pred[x].pick /\ pred'[x].points = pred[x].points
  BY <1>3, <1>4, <1>6, <1>7, <1>9 DEF Prediction
<1>11. \A a \in Agents : PredictionSound(a)'
  BY <1>3, <1>4, <1>6, <1>7, <1>9, <1>10 DEF PredictionSound, None
<1>12. TaskSound(t)'
  <2>1. \A d \in t.claimed : d.agent \in Agents /\ d.agent # x
    BY <1>2, <1>8 DEF x, TaskSound, ClaimsSound, Task, Claim
  <2>2. Shaped(t)' /\ LockSound(t)' /\ PayoutSound(t)'
    BY <1>3, <1>5, <1>8 DEF Shaped, LockSound, PayoutSound, Scoring, AgentSteps, GameSteps, Opening
  <2>3. ClaimsSound(t)'
    BY <1>2, <1>4, <1>6, <1>7, <1>8, <1>10, <2>1 DEF TaskSound, ClaimsSound
  <2> QED  BY <2>2, <2>3 DEF TaskSound
<1>13. ASSUME NEW v \in Workers, NEW s \in Task, v # w, s = task[v]
       PROVE  TaskSound(s)' /\ Apart(s, t)
  <2>1. TaskSound(s) /\ Apart(s, task[w])  BY <1>13, TaskFound
  <2>2. \A d \in s.claimed : d.agent \in Agents /\ d.agent # x
    BY <2>1 DEF x, Apart, Task, Claim
  <2>3. s.step \in Scoring => s.agent \in Agents /\ s.agent # x
    BY <1>6, <2>1 DEF TaskSound, ClaimsSound, Shaped, Scoring, AgentSteps
  <2>4. s.step \in {"find", "pay"} /\ s.winner # NoAgent => s.winner \in Agents /\ s.winner # x
    BY <1>6, <2>1 DEF TaskSound, PayoutSound, Task, Unscored
  <2>5. ClaimsSound(s)'
    BY <1>7, <1>10, <2>1, <2>2, <2>3 DEF TaskSound, ClaimsSound, Scoring
  <2>6. Shaped(s)' /\ LockSound(s)' /\ PayoutSound(s)'
    BY <1>7, <1>10, <2>1, <2>4 DEF TaskSound, Shaped, LockSound, PayoutSound, Paid
  <2>7. Apart(s, t)
    BY <1>5, <1>8, <2>1, <2>3 DEF Apart, Scoring, Opening, Locking
  <2> QED  BY <2>5, <2>6, <2>7 DEF TaskSound
<1>14. WinnersWereRight'
  <2> SUFFICES ASSUME NEW b \in MatchIds, match[b].state = "SETTLED"
               PROVE  \E a \in {Challenger(b), Opponent(b)} : Paid(b) = {Owner[a]} /\ pred'[a].award > 0
    BY <1>7 DEF WinnersWereRight, Paid
  <2>1. PICK a \in {Challenger(b), Opponent(b)} : Paid(b) = {Owner[a]} /\ pred[a].award > 0
    BY DEF LeagueInv, WinnersWereRight
  <2>2. a \in Agents  BY LeagueAssumption DEF Challenger, Opponent
  <2>3. a # x  BY <1>6, <2>1 DEF Unscored
  <2> QED  BY <1>10, <2>1, <2>2, <2>3
<1>15. LooseTypeOK'
  <2>1. requests \in Nat /\ faults \in Nat  BY DEF LeagueInv, LeagueTypeOK
  <2> QED  BY <2>1, LooseStays DEF ScoreNext
<1>16. granted' \in [Agents -> Nat] /\ booked' \in [Agents -> Nat] /\ UNCHANGED <<arenaVars, battle, record>>
  BY DEF ScoreNext, LeagueInv, LeagueTypeOK
<1>17. ContractSound' /\ UNCHANGED <<match, received>>  BY <1>16, ContractKept
<1> QED  BY <1>8, <1>10, <1>11, <1>12, <1>13, <1>14, <1>15, <1>16, <1>17, EarningStep

\* A task that goes back to the loops, as a value.
LEMMA NextLoop ==
  ASSUME NEW s \in Task
  PROVE  \E t \in Task : t = LoopedTask(s) /\ t.step = "score" /\ t.claimed = s.claimed /\ Recedes(s, t)
<1> DEFINE t == LoopedTask(s)
<1>1. t \in Task /\ t.step = "score" /\ t.claimed = s.claimed /\ Recedes(s, t)  BY LoopTask
<1>2. t = LoopedTask(s)  OBVIOUS
<1> HIDE DEF t
<1> QED  BY <1>1, <1>2

\* What a worker that scores an agent leaves to the others.
LEMMA OthersScoreOthers ==
  ASSUME LeagueInv, NEW w \in Workers, task[w].step \in Scoring,
         NEW v \in Workers, NEW s \in Task, v # w, s = task[v],
         \A a \in Agents : a # task[w].agent => granted'[a] = granted[a] /\ booked'[a] = booked[a],
         UNCHANGED <<match, received, pred, battle, record>>
  PROVE  TaskSound(s)' /\ Apart(s, task[w])
<1>1. TaskSound(s) /\ Apart(s, task[w])  BY TaskFound
<1>2. s.step \in Scoring => s.agent \in Agents /\ s.agent # task[w].agent
  BY <1>1 DEF Apart, TaskSound, Shaped, Scoring, AgentSteps
<1>3. ClaimsSound(s)'
  BY <1>1, <1>2 DEF TaskSound, ClaimsSound, Scoring
<1>4. Shaped(s)' /\ LockSound(s)' /\ PayoutSound(s)'
  BY <1>1 DEF TaskSound, Shaped, LockSound, PayoutSound, Paid
<1> QED  BY <1>1, <1>3, <1>4 DEF TaskSound

\* The grant is made by the worker that scored the agent, before it books it,
\* and it goes back to the loops when it hears nothing.
LEMMA RewardStep ==
  ASSUME LeagueInv, NEW w \in Workers, Reward(w)
  PROVE  LeagueInv'
<1> DEFINE x == task[w].agent
<1>1. task[w] \in Task /\ TaskSound(task[w]) /\ task[w].step = "reward"
  BY TaskFound DEF Reward, At
<1>2. x \in Agents /\ pred[x].award # Unscored /\ granted[x] = 0 /\ booked[x] = 0
  BY <1>1 DEF TaskSound, Shaped, ClaimsSound, AgentSteps, Scoring
<1>3. /\ pred \in [Agents -> Prediction] /\ granted \in [Agents -> Nat] /\ booked \in [Agents -> Nat]
      /\ \A a \in Agents : PredictionSound(a)
  BY DEF LeagueInv, LeagueTypeOK
<1>4. pred[x].award \in Nat  BY <1>2, <1>3, AmountsAssumption DEF Prediction
<1>5. \/ Distribute(Owner[x], pred[x].award) /\ granted' = [granted EXCEPT ![x] = @ + pred[x].award]
      \/ UNCHANGED <<arenaVars, granted>>
  BY DEF Reward
<1> HIDE DEF x
<1>6. /\ granted' \in [Agents -> Nat] /\ granted'[x] \in {0, pred[x].award}
      /\ \A a \in Agents : a # x => granted'[a] = granted[a]
  BY <1>2, <1>3, <1>4, <1>5
<1>7. ContractSound' /\ UNCHANGED <<match, received, pred, battle, record, booked>>
  <2>1. Owner[x] \in Players  BY <1>2, LeagueAssumption
  <2>2. ContractSound' /\ UNCHANGED <<match, received>>  BY <1>4, <1>5, <2>1, Grants, ContractKept
  <2> QED  BY <2>2 DEF Reward
<1>8. \A a \in Agents : PredictionSound(a)'
  BY <1>2, <1>3, <1>6, <1>7 DEF PredictionSound
<1>9. PICK t \in Task : /\ task' = [task EXCEPT ![w] = t] /\ Recedes(task[w], t)
                        /\ t.claimed = task[w].claimed
                        /\ t.step \in {"book", "score"} /\ (t.step = "book" => t.agent = x)
  <2>1. CASE Goes(w, "book")
    <3>1. PICK t \in Task : /\ t = [task[w] EXCEPT !.step = "book"] /\ t.step = "book"
                            /\ t.agent = task[w].agent /\ t.claimed = task[w].claimed
      <4>1. "book" \in Steps  BY DEF Steps
      <4> QED  BY <1>1, <4>1, NextTask
    <3>2. Recedes(task[w], t)  BY <1>1, <3>1 DEF Recedes, Scoring, Opening, Locking
    <3> QED  BY <2>1, <3>1, <3>2 DEF Goes, x
  <2>2. CASE Loops(w)
    <3>1. PICK t \in Task : /\ t = LoopedTask(task[w]) /\ t.step = "score"
                            /\ t.claimed = task[w].claimed /\ Recedes(task[w], t)
      BY <1>1, NextLoop
    <3> QED  BY <2>2, <3>1 DEF Loops, LoopedTask
  <2> QED  BY <2>1, <2>2 DEF Reward
<1>10. TaskSound(t)'
  BY <1>1, <1>2, <1>7, <1>9 DEF TaskSound, Shaped, ClaimsSound, LockSound, PayoutSound,
     AgentSteps, GameSteps, Scoring, Opening
<1>11. ASSUME NEW v \in Workers, NEW s \in Task, v # w, s = task[v]
       PROVE  TaskSound(s)' /\ Apart(s, t)
  <2>1. TaskSound(s)' /\ Apart(s, task[w])
    BY <1>1, <1>6, <1>7, <1>11, OthersScoreOthers DEF x, Scoring
  <2> QED  BY <1>9, <2>1, RecedesApart
<1>12. WinnersWereRight'  BY <1>7 DEF LeagueInv, WinnersWereRight, Paid
<1>13. LooseTypeOK'
  <2>1. requests' \in Nat /\ faults' \in Nat  BY DEF LeagueInv, LeagueTypeOK, Reward, Fault
  <2> QED  BY <2>1, LooseStays DEF Reward
<1>14. pred' \in [Agents -> Prediction] /\ booked' \in [Agents -> Nat]  BY <1>3, <1>7
<1> QED  BY <1>6, <1>7, <1>8, <1>9, <1>10, <1>11, <1>12, <1>13, <1>14, EarningStep

LEMMA BookStep ==
  ASSUME LeagueInv, NEW w \in Workers, Book(w)
  PROVE  LeagueInv'
<1> DEFINE x == task[w].agent
<1>1. task[w] \in Task /\ TaskSound(task[w]) /\ task[w].step = "book"
  BY TaskFound DEF Book, At
<1>2. x \in Agents /\ pred[x].award # Unscored /\ booked[x] = 0
  BY <1>1 DEF TaskSound, Shaped, ClaimsSound, AgentSteps, Scoring
<1>3. /\ pred \in [Agents -> Prediction] /\ granted \in [Agents -> Nat] /\ booked \in [Agents -> Nat]
      /\ \A a \in Agents : PredictionSound(a)
  BY DEF LeagueInv, LeagueTypeOK
<1>4. booked' = [booked EXCEPT ![x] = @ + 1]  BY DEF Book
<1> HIDE DEF x
<1>5. /\ booked' \in [Agents -> Nat] /\ booked'[x] = 1
      /\ \A a \in Agents : a # x => booked'[a] = booked[a]
  BY <1>2, <1>3, <1>4
<1>6. UNCHANGED <<match, received, arenaVars, pred, battle, record, granted>>  BY DEF Book, arenaVars
<1>7. \A a \in Agents : PredictionSound(a)'
  BY <1>2, <1>3, <1>5, <1>6 DEF PredictionSound
<1>8. PICK t \in Task : /\ t = LoopedTask(task[w]) /\ t.step = "score"
                        /\ t.claimed = task[w].claimed /\ Recedes(task[w], t)
  BY <1>1, NextLoop
<1>9. task' = [task EXCEPT ![w] = t]  BY <1>8 DEF Book, Loops, LoopedTask
<1>10. TaskSound(t)'
  BY <1>1, <1>6, <1>8 DEF TaskSound, Shaped, ClaimsSound, LockSound, PayoutSound,
     AgentSteps, GameSteps, Scoring, Opening
<1>11. ASSUME NEW v \in Workers, NEW s \in Task, v # w, s = task[v]
       PROVE  TaskSound(s)' /\ Apart(s, t)
  <2>1. TaskSound(s)' /\ Apart(s, task[w])
    BY <1>1, <1>5, <1>6, <1>11, OthersScoreOthers DEF x, Scoring
  <2> QED  BY <1>8, <2>1, RecedesApart
<1>12. WinnersWereRight'  BY <1>6 DEF LeagueInv, WinnersWereRight, Paid
<1>13. LooseTypeOK'
  <2>1. requests \in Nat /\ faults \in Nat  BY DEF LeagueInv, LeagueTypeOK
  <2> QED  BY <2>1, LooseStays DEF Book
<1>14. pred' \in [Agents -> Prediction] /\ granted' \in [Agents -> Nat]  BY <1>3, <1>6
<1>15. ContractSound'  BY <1>6, ContractKept
<1> QED  BY <1>5, <1>6, <1>7, <1>9, <1>10, <1>11, <1>12, <1>13, <1>14, <1>15, EarningStep

-----------------------------------------------------------------------------
(* Steps that change the battle's row.                                     *)

\* A row that changes and still follows its record.
LEMMA BattleRewritten ==
  ASSUME LeagueInv, NEW b \in MatchIds, NEW r \in Row, battle' = [battle EXCEPT ![b] = r],
         UNCHANGED <<arenaVars, pred, record, granted, booked>>,
         r.status \in NotStaked => ~r.escrow,
         r.escrow => record[b].state # None,
         r.status = "SETTLED" => record[b].state = "SETTLED" /\ record[b].winner = r.winner,
         r.status = "VOID" /\ r.escrow => record[b].state = "CANCELLED"
  PROVE  ContractSound' /\ RowsTypeOK' /\ RowsSound'
<1>1. battle \in [MatchIds -> Row]  BY DEF LeagueInv, LeagueTypeOK
<1>2. battle' \in [MatchIds -> Row] /\ battle'[b] = r /\ \A i \in MatchIds : i # b => battle'[i] = battle[i]
  BY <1>1
<1>3. \A i \in MatchIds : BattleSound(i)'
  BY <1>2 DEF LeagueInv, BattleSound
<1>4. UNCHANGED <<match, received>>  BY DEF arenaVars
<1>5. RowsFollowChain'
  BY <1>2, <1>4 DEF LeagueInv, RowsFollowChain, Paid
<1>6. WinnersWereRight'  BY <1>4 DEF LeagueInv, WinnersWereRight, Paid
<1>7. ContractSound' /\ RowsTypeOK'
  BY <1>2, InvParts DEF arenaVars, ContractSound, ArenaTypeOK, PlayersKnown, RowsTypeOK
<1>8. \A a \in Agents : PredictionSound(a)'  BY DEF LeagueInv, PredictionSound
<1> QED  BY <1>3, <1>5, <1>6, <1>7, <1>8 DEF RowsSound

\* Only a worker that is about to open the battle relies on its row.
LEMMA SoundThroughBattle ==
  ASSUME LeagueInv, NEW s \in Task, TaskSound(s),
         NEW b \in MatchIds, NEW r \in Row, battle' = [battle EXCEPT ![b] = r],
         s.step \in Opening => s.game # b,
         UNCHANGED <<match, received, pred, record, granted, booked>>
  PROVE  TaskSound(s)'
<1>1. \A i \in MatchIds : i # b => battle'[i] = battle[i]
  BY DEF LeagueInv, LeagueTypeOK
<1>2. s.step \in Opening => s.game \in MatchIds  BY DEF TaskSound, Shaped, Opening, GameSteps
<1>3. LockSound(s)'  BY <1>1, <1>2 DEF TaskSound, LockSound
<1> QED  BY <1>3 DEF TaskSound, Shaped, ClaimsSound, PayoutSound, Paid

\* A worker moves on and rewrites a row.
LEMMA BattleStep ==
  ASSUME LeagueInv, NEW w \in Workers, NEW t \in Task, task' = [task EXCEPT ![w] = t],
         TaskSound(t), t.step \notin Opening, Recedes(task[w], t),
         NEW b \in MatchIds, NEW r \in Row, battle' = [battle EXCEPT ![b] = r],
         battle[b].status # None \/ (task[w].step \in Opening /\ task[w].game = b),
         UNCHANGED <<arenaVars, pred, record, granted, booked>>,
         r.status \in NotStaked => ~r.escrow,
         r.escrow => record[b].state # None,
         r.status = "SETTLED" => record[b].state = "SETTLED" /\ record[b].winner = r.winner,
         r.status = "VOID" /\ r.escrow => record[b].state = "CANCELLED",
         LooseTypeOK'
  PROVE  LeagueInv'
<1>1. UNCHANGED <<match, received>>  BY DEF arenaVars
<1>2. TaskSound(t)'  BY <1>1, SoundThroughBattle
<1>3. ASSUME NEW v \in Workers, NEW s \in Task, v # w, s = task[v]
      PROVE  TaskSound(s)' /\ Apart(s, t)
  <2>1. TaskSound(s) /\ Apart(s, task[w])  BY <1>3, TaskFound
  <2>2. s.step \in Opening => s.game # b
    BY <2>1 DEF TaskSound, LockSound, Apart
  <2> QED  BY <1>1, <2>1, <2>2, SoundThroughBattle, RecedesApart
<1>4. task' \in [Workers -> Task] /\ WorkersSound'  BY <1>2, <1>3, WorkerMoves
<1> QED  BY <1>4, BattleRewritten, InvPartsNext

LEMMA CreateBattleStep ==
  ASSUME LeagueInv, NEW w \in Workers, CreateBattle(w)
  PROVE  LeagueInv'
<1>1. /\ task[w].step = "open" /\ task[w].game \in MatchIds /\ battle[task[w].game].status = None
  BY TaskFound DEF CreateBattle, At, TaskSound, Shaped, LockSound, GameSteps, Opening
<1>2. PICK b \in MatchIds : b = task[w].game  BY <1>1
<1>3. battle[b] \in Row /\ ~battle[b].escrow
  BY <1>1, <1>2 DEF LeagueInv, LeagueTypeOK, BattleSound, NotStaked
<1>4. PICK r \in Row : battle' = [battle EXCEPT ![b] = r] /\ r.status = "PENDING" /\ ~r.escrow
  <2> DEFINE r == [battle[b] EXCEPT !.status = "PENDING"]
  <2>1. r \in Row /\ r.status = "PENDING" /\ ~r.escrow  BY <1>3 DEF Row
  <2>2. battle' = [battle EXCEPT ![b] = r]  BY <1>2 DEF CreateBattle
  <2> HIDE DEF r
  <2> QED  BY <2>1, <2>2
<1>5. LooseTypeOK'
  <2>1. requests \in Nat /\ faults \in Nat  BY DEF LeagueInv, LeagueTypeOK
  <2> QED  BY <2>1, LooseStays DEF CreateBattle
<1>6. Idle.step \notin Opening /\ task' = [task EXCEPT ![w] = Idle]
  BY DEF Idle, Opening, CreateBattle, Ends
<1>7. task[w].step \in Opening /\ task[w].game = b  BY <1>1, <1>2 DEF Opening
<1>8. UNCHANGED <<arenaVars, pred, record, granted, booked>>  BY DEF CreateBattle
<1>9. r.status # "SETTLED" /\ ~(r.status = "VOID" /\ r.escrow)  BY <1>4
<1>10. Idle \in Task /\ TaskSound(Idle) /\ Recedes(task[w], Idle)  BY IdleTask
<1> QED  BY <1>4, <1>5, <1>6, <1>7, <1>8, <1>9, <1>10, BattleStep

LEMMA LockRowStep ==
  ASSUME LeagueInv, NEW w \in Workers, LockRow(w)
  PROVE  LeagueInv'
<1>1. /\ task[w].step = "locked" /\ task[w].game \in MatchIds /\ record[task[w].game].state # None
  BY TaskFound DEF LockRow, At, TaskSound, Shaped, LockSound, GameSteps
<1>2. LooseTypeOK'
  <2>1. requests \in Nat /\ faults \in Nat  BY DEF LeagueInv, LeagueTypeOK
  <2> QED  BY <2>1, LooseStays DEF LockRow
<1>3. CASE UNCHANGED battle  BY <1>2, <1>3, EndsQuietly DEF LockRow
<1>4. CASE battle[task[w].game].status = "PENDING"
  <2>1. PICK b \in MatchIds : b = task[w].game  BY <1>1
  <2>2. battle[b] \in Row  BY DEF LeagueInv, LeagueTypeOK
  <2>3. PICK r \in Row : battle' = [battle EXCEPT ![b] = r] /\ r.status = "LOCKED"
    <3> DEFINE r == [battle[b] EXCEPT !.status = "LOCKED", !.escrow = TRUE]
    <3>1. r \in Row /\ r.status = "LOCKED"  BY <2>2 DEF Row
    <3>2. battle' = [battle EXCEPT ![b] = r]  BY <1>4, <2>1 DEF LockRow
    <3> HIDE DEF r
    <3> QED  BY <3>1, <3>2
  <2>4. Idle.step \notin Opening /\ task' = [task EXCEPT ![w] = Idle]
    BY DEF Idle, Opening, LockRow, Ends
  <2> QED
    BY <1>1, <1>2, <1>4, <2>1, <2>3, <2>4, IdleTask, BattleStep DEF LockRow, NotStaked, None
<1> QED  BY <1>3, <1>4 DEF LockRow

\* A waiting battle never had an escrow.
LEMMA VoidWaitingStep ==
  ASSUME LeagueInv, NEW w \in Workers, VoidWaiting(w)
  PROVE  LeagueInv'
<1>1. task[w] \in Task /\ TaskSound(task[w]) /\ task[w].step = "score"
  BY TaskFound DEF VoidWaiting, At
<1>2. LooseTypeOK'
  <2>1. requests \in Nat /\ faults \in Nat  BY DEF LeagueInv, LeagueTypeOK
  <2> QED  BY <2>1, LooseStays DEF VoidWaiting
<1>3. PICK b \in task[w].waiting :
        /\ task' = [task EXCEPT ![w].waiting = @ \ {b}]
        /\ IF battle[b].status = "PENDING" THEN battle' = [battle EXCEPT ![b].status = "VOID"]
           ELSE UNCHANGED battle
  BY DEF VoidWaiting
<1>4. b \in MatchIds  BY <1>1 DEF Task
<1>5. PICK t \in Task : task' = [task EXCEPT ![w] = t] /\ t.step = "score" /\ t.claimed = task[w].claimed
  <2> DEFINE t == [task[w] EXCEPT !.waiting = @ \ {b}]
  <2>1. t \in Task /\ t.step = "score" /\ t.claimed = task[w].claimed  BY <1>1 DEF Task
  <2>2. task' = [task EXCEPT ![w] = t]  BY <1>3
  <2> HIDE DEF t
  <2> QED  BY <2>1, <2>2
<1>6. CASE UNCHANGED battle
  BY <1>2, <1>5, <1>6, CalmStep DEF VoidWaiting, AgentSteps, GameSteps
<1>7. CASE battle[b].status = "PENDING"
  <2>1. battle[b] \in Row /\ ~battle[b].escrow
    BY <1>4, <1>7 DEF LeagueInv, LeagueTypeOK, BattleSound, NotStaked
  <2>2. PICK r \in Row : battle' = [battle EXCEPT ![b] = r] /\ r.status = "VOID" /\ ~r.escrow
    <3> DEFINE r == [battle[b] EXCEPT !.status = "VOID"]
    <3>1. r \in Row /\ r.status = "VOID" /\ ~r.escrow  BY <2>1 DEF Row
    <3>2. battle' = [battle EXCEPT ![b] = r]  BY <1>3, <1>7
    <3> HIDE DEF r
    <3> QED  BY <3>1, <3>2
  <2>3. TaskSound(t) /\ Recedes(task[w], t) /\ t.step \notin Opening
    BY <1>1, <1>5 DEF TaskSound, Shaped, ClaimsSound, LockSound, PayoutSound, AgentSteps, GameSteps,
       Scoring, Opening, Locking, Recedes
  <2> QED  BY <1>2, <1>4, <1>5, <1>7, <2>2, <2>3, BattleStep DEF VoidWaiting, None
<1> QED  BY <1>3, <1>6, <1>7

\* The word of the record is on its row when the battle closes.
LEMMA CloseStep ==
  ASSUME LeagueInv, NEW w \in Workers, Close(w)
  PROVE  LeagueInv'
<1>1. /\ task[w] \in Task /\ TaskSound(task[w]) /\ task[w].step = "close" /\ task[w].game \in MatchIds
  BY TaskFound DEF Close, At, TaskSound, Shaped, GameSteps
<1>2. PICK b \in MatchIds, winner \in Agents \cup {NoAgent} : b = task[w].game /\ winner = task[w].winner
  BY <1>1 DEF Task
<1>3. record[b] = [state |-> IF winner = NoAgent THEN "CANCELLED" ELSE "SETTLED", winner |-> winner]
  BY <1>1, <1>2 DEF TaskSound, PayoutSound
<1>4. LooseTypeOK'
  <2>1. requests \in Nat /\ faults \in Nat  BY DEF LeagueInv, LeagueTypeOK
  <2> QED  BY <2>1, LooseStays DEF Close
<1>5. PICK t \in Task : /\ task' = [task EXCEPT ![w] = t] /\ Recedes(task[w], t) /\ TaskSound(t)
                        /\ t.step \notin Opening
  <2>1. CASE Loops(w)
    <3>1. PICK t \in Task : /\ t = LoopedTask(task[w]) /\ t.step = "score"
                            /\ t.claimed = task[w].claimed /\ Recedes(task[w], t)
      BY <1>1, NextLoop
    <3>2. TaskSound(t) /\ t.step \notin Opening
      BY <1>1, <3>1 DEF TaskSound, Shaped, ClaimsSound, LockSound, PayoutSound, AgentSteps, GameSteps,
         Scoring, Opening
    <3> QED  BY <2>1, <3>1, <3>2 DEF Loops, LoopedTask
  <2>2. CASE Goes(w, "count")
    <3>1. PICK t \in Task : /\ t = [task[w] EXCEPT !.step = "count"] /\ t.step = "count"
                            /\ t.game = task[w].game /\ t.claimed = task[w].claimed
      <4>1. "count" \in Steps  BY DEF Steps
      <4> QED  BY <1>1, <4>1, NextTask
    <3>2. TaskSound(t) /\ Recedes(task[w], t) /\ t.step \notin Opening
      BY <1>1, <3>1 DEF TaskSound, Shaped, ClaimsSound, LockSound, PayoutSound, AgentSteps, GameSteps,
         Scoring, Opening, Locking, Recedes
    <3> QED  BY <2>2, <3>1, <3>2 DEF Goes
  <2> QED  BY <2>1, <2>2 DEF Close
<1>6. CASE UNCHANGED battle
  BY <1>4, <1>5, <1>6, StaysApart, QuietStep DEF Close
<1>7. CASE battle[b].status = "LOCKED"
  <2> DEFINE status == IF winner = NoAgent THEN "VOID" ELSE "SETTLED"
  <2>1. battle[b] \in Row  BY DEF LeagueInv, LeagueTypeOK
  <2>2. PICK r \in Row : /\ battle' = [battle EXCEPT ![b] = r]
                         /\ r.status = status /\ r.winner = winner
    <3> DEFINE r == [battle[b] EXCEPT !.status = status, !.winner = winner]
    <3>1. r \in Row /\ r.status = status /\ r.winner = winner  BY <2>1 DEF Row
    <3>2. battle' = [battle EXCEPT ![b] = r]  BY <1>2, <1>7 DEF Close
    <3> HIDE DEF r
    <3> QED  BY <3>1, <3>2
  <2>3. record[b].state # None /\ battle[b].status # None  BY <1>3, <1>7 DEF None
  <2>4. /\ r.status \notin NotStaked
        /\ r.status = "SETTLED" => record[b].state = "SETTLED" /\ record[b].winner = r.winner
        /\ r.status = "VOID" => record[b].state = "CANCELLED"
    BY <1>3, <2>2 DEF NotStaked, None
  <2>5. UNCHANGED <<arenaVars, pred, record, granted, booked>>  BY DEF Close
  <2> HIDE DEF status
  <2> QED  BY <1>4, <1>5, <2>2, <2>3, <2>4, <2>5, BattleStep
<1> QED  BY <1>2, <1>6, <1>7 DEF Close

LEMMA ExpireStep ==
  ASSUME LeagueInv, NEW b \in MatchIds, ExpirePendingBattle(b)
  PROVE  LeagueInv'
<1>1. battle[b] \in Row /\ battle[b].status = "PENDING" /\ ~battle[b].escrow
  BY DEF ExpirePendingBattle, LeagueInv, LeagueTypeOK, BattleSound, NotStaked
<1>2. PICK r \in Row : battle' = [battle EXCEPT ![b] = r] /\ r.status = "DECLINED" /\ ~r.escrow
  <2> DEFINE r == [battle[b] EXCEPT !.status = "DECLINED"]
  <2>1. r \in Row /\ r.status = "DECLINED" /\ ~r.escrow  BY <1>1 DEF Row
  <2>2. battle' = [battle EXCEPT ![b] = r]  BY DEF ExpirePendingBattle
  <2> HIDE DEF r
  <2> QED  BY <2>1, <2>2
<1>3. UNCHANGED <<arenaVars, match, received, pred, record, granted, booked, task>>
  BY DEF ExpirePendingBattle, arenaVars
<1>4. \A s \in Task : TaskSound(s) => TaskSound(s)'
  <2> SUFFICES ASSUME NEW s \in Task, TaskSound(s) PROVE TaskSound(s)'  OBVIOUS
  <2>1. s.step \in Opening => s.game # b  BY <1>1 DEF TaskSound, LockSound, None
  <2> QED  BY <1>2, <1>3, <2>1, SoundThroughBattle
<1>5. task' \in [Workers -> Task] /\ WorkersSound'  BY <1>3, <1>4, NobodyMoves
<1>6. ContractSound' /\ RowsTypeOK' /\ RowsSound'
  BY <1>2, <1>3, BattleRewritten DEF NotStaked
<1>7. LooseTypeOK'
  <2>1. requests \in Nat /\ faults \in Nat  BY DEF LeagueInv, LeagueTypeOK
  <2> QED  BY <2>1, LooseStays DEF ExpirePendingBattle
<1> QED  BY <1>5, <1>6, <1>7, InvPartsNext

-----------------------------------------------------------------------------
(* Steps that change the escrow record.                                    *)

RecordRow == [state : {None, "LOCKED", "SETTLED", "CANCELLED"}, winner : Agents \cup {NoAgent}]

\* The record of a battle is written by the worker that locked it, and then
\* by one that was paid out: nobody else is about to write it.
LEMMA SoundThroughRecord ==
  ASSUME LeagueInv, NEW s \in Task, TaskSound(s),
         NEW b \in MatchIds, NEW r \in RecordRow, record' = [record EXCEPT ![b] = r],
         r.state # None, record[b].state \in {None, "LOCKED"},
         s.step \in {"record", "mark"} => s.game # b,
         UNCHANGED <<match, received, pred, battle, granted, booked>>
  PROVE  TaskSound(s)'
<1>1. /\ record'[b] = r /\ \A i \in MatchIds : i # b => record'[i] = record[i]
  BY DEF LeagueInv, LeagueTypeOK
<1>2. s.step \in {"record", "locked", "pay", "mark", "close"} => s.game \in MatchIds
  BY DEF TaskSound, Shaped, GameSteps
<1>3. LockSound(s)'  BY <1>1, <1>2 DEF TaskSound, LockSound
<1>4. s.step = "close" => s.game # b
  <2>1. s.step = "close" => record[s.game].state \in {"CANCELLED", "SETTLED"}
    BY DEF TaskSound, PayoutSound
  <2> QED  BY <2>1 DEF None
<1>5. PayoutSound(s)'  BY <1>1, <1>2, <1>4 DEF TaskSound, PayoutSound, Paid
<1> QED  BY <1>3, <1>5 DEF TaskSound, Shaped, ClaimsSound

\* A worker writes the record, as the chain has it.
LEMMA RecordStep ==
  ASSUME LeagueInv, NEW w \in Workers, NEW t \in Task, task' = [task EXCEPT ![w] = t],
         TaskSound(t)', Recedes(task[w], t),
         NEW b \in MatchIds, NEW r \in RecordRow, record' = [record EXCEPT ![b] = r],
         task[w].game = b,
         \/ task[w].step = "record" /\ record[b].state = None
         \/ task[w].step = "mark" /\ record[b].state = "LOCKED",
         r.state # None,
         r.state = "LOCKED" => match[b].state = "STARTED",
         r.state = "SETTLED" => match[b].state = "SETTLED" /\ Paid(b) = {Owner[r.winner]},
         r.state = "CANCELLED" => match[b].state = "CANCELLED",
         UNCHANGED <<arenaVars, pred, battle, granted, booked>>, LooseTypeOK'
  PROVE  LeagueInv'
<1>1. UNCHANGED <<match, received>>  BY DEF arenaVars
<1>2. ASSUME NEW v \in Workers, NEW s \in Task, v # w, s = task[v]
      PROVE  TaskSound(s)' /\ Apart(s, t)
  <2>1. TaskSound(s) /\ Apart(s, task[w])  BY <1>2, TaskFound
  <2>2. s.step = "record" => s.game # b
    BY <2>1 DEF TaskSound, LockSound, Apart, Locking, None
  <2>3. s.step = "mark" => s.game # b
    BY <2>1 DEF TaskSound, PayoutSound, Apart, None
  <2> QED  BY <1>1, <2>1, <2>2, <2>3, SoundThroughRecord, RecedesApart
<1>3. task' \in [Workers -> Task] /\ WorkersSound'  BY <1>2, WorkerMoves
<1>4. record \in [MatchIds -> RecordRow]  BY DEF LeagueInv, LeagueTypeOK, RecordRow
<1>5. /\ record' \in [MatchIds -> RecordRow] /\ record'[b] = r
      /\ \A i \in MatchIds : i # b => record'[i] = record[i]
  BY <1>4
<1>6. RowsFollowChain'
  <2> SUFFICES ASSUME NEW i \in MatchIds
               PROVE  /\ record'[i].state = "LOCKED" => match[i].state \in {"STARTED", "SETTLED", "CANCELLED"}
                      /\ record'[i].state = "SETTLED" =>
                           match[i].state = "SETTLED" /\ Paid(i) = {Owner[record'[i].winner]}
                      /\ record'[i].state = "CANCELLED" => match[i].state = "CANCELLED"
                      /\ battle[i].escrow => record'[i].state # None
                      /\ battle[i].status = "SETTLED" =>
                           record'[i].state = "SETTLED" /\ record'[i].winner = battle[i].winner
                      /\ battle[i].status = "VOID" /\ battle[i].escrow => record'[i].state = "CANCELLED"
    BY <1>1 DEF RowsFollowChain, Paid
  <2>1. CASE i = b
    <3>1. battle[b].status # "SETTLED" /\ ~(battle[b].status = "VOID" /\ battle[b].escrow)
      BY DEF LeagueInv, RowsFollowChain, None
    <3> QED  BY <1>5, <2>1, <3>1
  <2>2. CASE i # b  BY <1>5, <2>2 DEF LeagueInv, RowsFollowChain
  <2> QED  BY <2>1, <2>2
<1>7. WinnersWereRight'  BY <1>1 DEF LeagueInv, WinnersWereRight, Paid
<1>8. ContractSound' /\ RowsTypeOK'
  BY <1>5, InvParts DEF arenaVars, ContractSound, ArenaTypeOK, PlayersKnown, RowsTypeOK, RecordRow
<1>9. (\A a \in Agents : PredictionSound(a)') /\ \A i \in MatchIds : BattleSound(i)'
  BY DEF LeagueInv, PredictionSound, BattleSound
<1>10. RowsSound'  BY <1>6, <1>7, <1>9 DEF RowsSound
<1> QED  BY <1>3, <1>8, <1>10, InvPartsNext

LEMMA RecordLockStep ==
  ASSUME LeagueInv, NEW w \in Workers, RecordLock(w)
  PROVE  LeagueInv'
<1>1. /\ task[w] \in Task /\ TaskSound(task[w]) /\ task[w].step = "record" /\ task[w].game \in MatchIds
  BY TaskFound DEF RecordLock, At, TaskSound, Shaped, GameSteps
<1>2. PICK b \in MatchIds : b = task[w].game  BY <1>1
<1>3. match[b].state = "STARTED" /\ record[b].state = None
  BY <1>1, <1>2 DEF TaskSound, LockSound
<1>4. LooseTypeOK'
  <2>1. requests \in Nat /\ faults \in Nat  BY DEF LeagueInv, LeagueTypeOK
  <2> QED  BY <2>1, LooseStays DEF RecordLock
<1>5. record \in [MatchIds -> RecordRow]  BY DEF LeagueInv, LeagueTypeOK, RecordRow
<1>6. PICK r \in RecordRow : record' = [record EXCEPT ![b] = r] /\ r.state = "LOCKED"
  <2> DEFINE r == [record[b] EXCEPT !.state = "LOCKED"]
  <2>1. r \in RecordRow /\ r.state = "LOCKED"  BY <1>5 DEF RecordRow
  <2>2. record' = [record EXCEPT ![b] = r]  BY <1>2 DEF RecordLock
  <2> HIDE DEF r
  <2> QED  BY <2>1, <2>2
<1>7. PICK t \in Task : /\ t = [task[w] EXCEPT !.step = "locked"] /\ t.step = "locked"
                        /\ t.game = task[w].game /\ t.claimed = task[w].claimed
  <2>1. "locked" \in Steps  BY DEF Steps
  <2> QED  BY <1>1, <2>1, NextTask
<1>8. task' = [task EXCEPT ![w] = t]  BY <1>7 DEF RecordLock, Goes
<1>9. Recedes(task[w], t)  BY <1>7 DEF Recedes, Scoring, Opening, Locking
<1>10. record'[t.game].state = "LOCKED"  BY <1>2, <1>5, <1>6, <1>7
<1>11. UNCHANGED <<arenaVars, pred, battle, granted, booked>>  BY DEF RecordLock
<1>12. TaskSound(t)'
  BY <1>1, <1>7, <1>10, <1>11 DEF TaskSound, Shaped, ClaimsSound, LockSound, PayoutSound,
     AgentSteps, GameSteps, Scoring, Opening, None
<1>13. r.state # None /\ r.state # "SETTLED" /\ r.state # "CANCELLED"  BY <1>6 DEF None
<1>14. task[w].game = b /\ task[w].step = "record" /\ record[b].state = None  BY <1>1, <1>2, <1>3
<1> QED  BY <1>3, <1>4, <1>6, <1>8, <1>9, <1>11, <1>12, <1>13, <1>14, RecordStep

\* The chain has answered before the record is marked.
LEMMA MarkStep ==
  ASSUME LeagueInv, NEW w \in Workers, Mark(w)
  PROVE  LeagueInv'
<1>1. /\ task[w] \in Task /\ TaskSound(task[w]) /\ task[w].step = "mark" /\ task[w].game \in MatchIds
  BY TaskFound DEF Mark, At, TaskSound, Shaped, GameSteps
<1>2. PICK b \in MatchIds, winner \in Agents \cup {NoAgent} : b = task[w].game /\ winner = task[w].winner
  BY <1>1 DEF Task
<1>3. /\ record[b].state = "LOCKED"
      /\ winner = NoAgent => match[b].state = "CANCELLED"
      /\ winner # NoAgent => match[b].state = "SETTLED" /\ Paid(b) = {Owner[winner]}
  BY <1>1, <1>2 DEF TaskSound, PayoutSound
<1>4. LooseTypeOK'
  <2>1. requests \in Nat /\ faults \in Nat  BY DEF LeagueInv, LeagueTypeOK
  <2> QED  BY <2>1, LooseStays DEF Mark
<1>5. PICK r \in RecordRow :
        /\ record' = [record EXCEPT ![b] = r]
        /\ r = [state |-> IF winner = NoAgent THEN "CANCELLED" ELSE "SETTLED", winner |-> winner]
  <2> DEFINE r == [state |-> IF winner = NoAgent THEN "CANCELLED" ELSE "SETTLED", winner |-> winner]
  <2>1. r \in RecordRow  BY DEF RecordRow
  <2>2. record' = [record EXCEPT ![b] = r]  BY <1>2 DEF Mark
  <2>3. r = [state |-> IF winner = NoAgent THEN "CANCELLED" ELSE "SETTLED", winner |-> winner]  OBVIOUS
  <2> HIDE DEF r
  <2> QED  BY <2>1, <2>2, <2>3
<1>6. r.winner = winner /\ r.state = IF winner = NoAgent THEN "CANCELLED" ELSE "SETTLED"  BY <1>5
<1>7. PICK t \in Task : /\ t = [task[w] EXCEPT !.step = "close"] /\ t.step = "close"
                        /\ t.game = task[w].game /\ t.claimed = task[w].claimed /\ t.winner = task[w].winner
  <2>1. "close" \in Steps  BY DEF Steps
  <2> QED  BY <1>1, <2>1, NextTask
<1>8. task' = [task EXCEPT ![w] = t]  BY <1>7 DEF Mark, Goes
<1>9. Recedes(task[w], t)  BY <1>7 DEF Recedes, Scoring, Opening, Locking
<1>10. record'[t.game] = [state |-> IF t.winner = NoAgent THEN "CANCELLED" ELSE "SETTLED", winner |-> t.winner]
  BY <1>2, <1>5, <1>7 DEF LeagueInv, LeagueTypeOK
<1>11. UNCHANGED <<arenaVars, pred, battle, granted, booked>>  BY DEF Mark
<1>12. TaskSound(t)'
  <2>1. PayoutSound(t)'  BY <1>7, <1>10 DEF PayoutSound
  <2> QED  BY <1>1, <1>7, <1>11, <2>1 DEF TaskSound, Shaped, ClaimsSound, LockSound,
     AgentSteps, GameSteps, Scoring, Opening
<1>13. /\ r.state # None
       /\ r.state = "LOCKED" => match[b].state = "STARTED"
       /\ r.state = "SETTLED" => match[b].state = "SETTLED" /\ Paid(b) = {Owner[r.winner]}
       /\ r.state = "CANCELLED" => match[b].state = "CANCELLED"
  BY <1>3, <1>6 DEF None
<1>14. task[w].game = b /\ task[w].step = "mark" /\ record[b].state = "LOCKED"  BY <1>1, <1>2, <1>3
<1> QED  BY <1>4, <1>5, <1>8, <1>9, <1>11, <1>12, <1>13, <1>14, RecordStep

-----------------------------------------------------------------------------
(* Steps by way of the contract.                                           *)

\* A transaction on a match that is open: only who locks the match, or is
\* about to mark what came of it, relies on its state.
LEMMA SoundThroughContract ==
  ASSUME LeagueInv, NEW s \in Task, TaskSound(s), NEW b \in MatchIds, OthersKept(b),
         match[b].state \in {"NONE", "CREATED", "JOINED", "STARTED"},
         s.step \in Locking => s.game # b,
         UNCHANGED <<pred, battle, record, granted, booked>>
  PROVE  TaskSound(s)'
<1>1. s.step \in GameSteps => s.game \in MatchIds  BY DEF TaskSound, Shaped
<1>2. s.step = "mark" => s.game # b  BY DEF TaskSound, PayoutSound
<1>3. LockSound(s)'
  BY <1>1 DEF TaskSound, LockSound, OthersKept, Locking, GameSteps
<1>4. PayoutSound(s)'
  BY <1>1, <1>2 DEF TaskSound, PayoutSound, OthersKept, GameSteps, Paid
<1> QED  BY <1>3, <1>4 DEF TaskSound, Shaped, ClaimsSound

\* A worker's transaction, and what it does next.
LEMMA ContractStep ==
  ASSUME LeagueInv, NEW w \in Workers, NEW t \in Task, task' = [task EXCEPT ![w] = t],
         TaskSound(t)', \A v \in Workers : v # w => Apart(task[v], t),
         NEW b \in MatchIds, ContractSound', OthersKept(b),
         match[b].state \in {"NONE", "CREATED", "JOINED", "STARTED"},
         match[b].state = "STARTED" => match'[b].state \in {"SETTLED", "CANCELLED"},
         match'[b].state = "SETTLED" =>
           \E a \in {Challenger(b), Opponent(b)} : Paid(b)' = {Owner[a]} /\ pred[a].award > 0,
         \A v \in Workers : v # w /\ task[v].step \in Locking => task[v].game # b,
         UNCHANGED <<pred, battle, record, granted, booked>>, LooseTypeOK'
  PROVE  LeagueInv'
<1>1. ASSUME NEW v \in Workers, NEW s \in Task, v # w, s = task[v]
      PROVE  TaskSound(s)' /\ Apart(s, t)
  <2>1. TaskSound(s)  BY <1>1, TaskFound
  <2> QED  BY <1>1, <2>1, SoundThroughContract
<1>2. task' \in [Workers -> Task] /\ WorkersSound'  BY <1>1, WorkerMoves
<1>3. RowsFollowChain'
  <2> SUFFICES ASSUME NEW i \in MatchIds
               PROVE  /\ record[i].state = "LOCKED" => match'[i].state \in {"STARTED", "SETTLED", "CANCELLED"}
                      /\ record[i].state = "SETTLED" =>
                           match'[i].state = "SETTLED" /\ Paid(i)' = {Owner[record[i].winner]}
                      /\ record[i].state = "CANCELLED" => match'[i].state = "CANCELLED"
    BY DEF LeagueInv, RowsFollowChain
  <2>1. CASE i = b
    <3>1. /\ record[b].state = "LOCKED" => match[b].state = "STARTED"
          /\ record[b].state # "SETTLED" /\ record[b].state # "CANCELLED"
      BY DEF LeagueInv, RowsFollowChain
    <3> QED  BY <2>1, <3>1
  <2>2. CASE i # b  BY <2>2 DEF LeagueInv, RowsFollowChain, OthersKept, Paid
  <2> QED  BY <2>1, <2>2
<1>4. WinnersWereRight'
  <2> SUFFICES ASSUME NEW i \in MatchIds, match'[i].state = "SETTLED"
               PROVE  \E a \in {Challenger(i), Opponent(i)} : Paid(i)' = {Owner[a]} /\ pred[a].award > 0
    BY DEF WinnersWereRight
  <2>1. CASE i = b  BY <2>1
  <2>2. CASE i # b  BY <2>2 DEF LeagueInv, WinnersWereRight, OthersKept, Paid
  <2> QED  BY <2>1, <2>2
<1>5. (\A a \in Agents : PredictionSound(a)') /\ \A i \in MatchIds : BattleSound(i)'
  BY DEF LeagueInv, PredictionSound, BattleSound
<1>6. RowsTypeOK' /\ RowsSound'  BY <1>3, <1>4, <1>5, InvParts DEF RowsTypeOK, RowsSound
<1> QED  BY <1>2, <1>6, InvPartsNext

\* Where the lock of a battle is, before and after a transaction of it.
LockMoves ==
  {<<"create", "NONE", "CREATED", "join">>, <<"join", "CREATED", "JOINED", "start">>,
   <<"start", "JOINED", "STARTED", "record">>}

\* Nobody else is locking the battle: a match is only created once.
LEMMA LocksAlone ==
  ASSUME LeagueInv, NEW w \in Workers, NEW b \in MatchIds, task[w].game = b,
         (task[w].step = "create" /\ match[b].state = "NONE") \/ task[w].step \in Locking
  PROVE  \A v \in Workers : v # w /\ task[v].step \in Locking => task[v].game # b
<1> SUFFICES ASSUME NEW v \in Workers, v # w, task[v].step \in Locking, task[v].game = b
             PROVE  FALSE
  OBVIOUS
<1>1. TaskSound(task[v]) /\ Apart(task[v], task[w])  BY TaskFound
<1>2. match[b].state # "NONE"  BY <1>1 DEF TaskSound, LockSound, Locking
<1> QED  BY <1>1, <1>2 DEF Apart

\* A transaction of a lock went through, whether or not its answer arrives.
LEMMA LockTransaction ==
  ASSUME LeagueInv, NEW w \in Workers, NEW b \in MatchIds, b = task[w].game,
         NEW m \in LockMoves, task[w].step = m[1], match[b].state = m[2], match'[b].state = m[3],
         ContractSound', OthersKept(b), Goes(w, m[4]) \/ Ends(w),
         UNCHANGED <<pred, battle, record, granted, booked>>, LooseTypeOK'
  PROVE  LeagueInv'
<1>1. task[w] \in Task /\ TaskSound(task[w])  BY TaskFound
<1>2. \A v \in Workers : v # w /\ task[v].step \in Locking => task[v].game # b
  <2>1. (task[w].step = "create" /\ match[b].state = "NONE") \/ task[w].step \in Locking
    BY DEF LockMoves, Locking
  <2> QED  BY <2>1, LocksAlone
<1>3. record[b].state = None
  <2>1. match[b].state \notin {"STARTED", "SETTLED", "CANCELLED"}  BY DEF LockMoves
  <2>2. record[b].state \in {None, "LOCKED", "SETTLED", "CANCELLED"}  BY DEF LeagueInv, LeagueTypeOK
  <2> QED  BY <2>1, <2>2 DEF LeagueInv, RowsFollowChain
<1>4. PICK t \in Task : /\ task' = [task EXCEPT ![w] = t] /\ TaskSound(t)'
                        /\ \A v \in Workers : v # w => Apart(task[v], t)
  <2>1. CASE Ends(w)
    <3>1. Idle \in Task /\ TaskSound(Idle)' /\ Recedes(task[w], Idle)
      BY IdleTask DEF Idle, Task, Steps, None, TaskSound, Shaped, ClaimsSound, LockSound, PayoutSound,
         AgentSteps, GameSteps, Scoring, Opening
    <3> QED  BY <2>1, <3>1, StaysApart DEF Ends
  <2>2. CASE Goes(w, m[4])
    <3>1. m[4] \in Locking /\ m[4] \in Steps  BY DEF LockMoves, Locking, Steps
    <3>2. PICK t \in Task : /\ t = [task[w] EXCEPT !.step = m[4]] /\ t.step = m[4]
                            /\ t.game = task[w].game /\ t.claimed = task[w].claimed
      BY <1>1, <3>1, NextTask
    <3>3. t.step \notin Scoring /\ t.step \notin Opening /\ t.step # "mark"
      BY <3>1, <3>2 DEF Locking, Scoring, Opening
    <3>4. \A v \in Workers : v # w => Apart(task[v], t)
      BY <1>2, <3>2, <3>3, TaskFound DEF Apart
    <3>5. LockSound(t)'
      BY <1>3, <3>2, <3>3 DEF LockSound, LockMoves
    <3>6. Shaped(t)' /\ ClaimsSound(t)' /\ PayoutSound(t)'
      BY <1>1, <3>1, <3>2, <3>3 DEF TaskSound, Shaped, ClaimsSound, PayoutSound, AgentSteps, GameSteps,
         Scoring, Locking
    <3> QED  BY <2>2, <3>2, <3>4, <3>5, <3>6 DEF Goes, TaskSound
  <2> QED  BY <2>1, <2>2
<1>5. /\ match[b].state \in {"NONE", "CREATED", "JOINED", "STARTED"}
      /\ match[b].state = "STARTED" => match'[b].state \in {"SETTLED", "CANCELLED"}
      /\ match'[b].state = "SETTLED" =>
           \E a \in {Challenger(b), Opponent(b)} : Paid(b)' = {Owner[a]} /\ pred[a].award > 0
  <2>1. match[b].state \in {"NONE", "CREATED", "JOINED"} /\ match'[b].state # "SETTLED"
    BY DEF LockMoves
  <2> QED  BY <2>1
<1> QED  BY <1>2, <1>4, <1>5, ContractStep

LEMMA RelayLockStep ==
  ASSUME LeagueInv, NEW w \in Workers, RelayLock(w)
  PROVE  LeagueInv'
<1>1. /\ ContractSound /\ task[w].game \in MatchIds
      /\ faults \in Nat /\ requests \in Nat
  <2>1. task[w].step \in {"create", "join", "start"}  BY DEF RelayLock, At
  <2> QED  BY <2>1, InvParts, TaskFound DEF TaskSound, Shaped, GameSteps, LooseTypeOK
<1>2. PICK b \in MatchIds : b = task[w].game  BY <1>1
<1>3. PICK a \in Players, o \in Players, n \in Stakes :
        a = Owner[Challenger(b)] /\ o = Owner[Opponent(b)] /\ n = Staked[b]
  BY LeagueAssumption DEF Challenger, Opponent
<1>4. UNCHANGED <<fixtureVars, fixture, pred, battle, record, granted, booked, counted, requests>>
  BY DEF RelayLock, Relays
<1>5. LooseTypeOK'
  <2>1. faults' \in Nat  BY <1>1 DEF RelayLock, Relays, Fault
  <2> QED  BY <1>1, <1>4, <2>1, LooseStays
<1>6. CASE Ends(w) /\ UNCHANGED arenaVars  BY <1>4, <1>5, <1>6, EndsQuietly
<1>7. ASSUME task[w].step = "create", CreateMatch(b, a, n), Goes(w, "join") \/ Ends(w)
      PROVE  LeagueInv'
  <2>1. /\ ContractSound' /\ OthersKept(b)
        /\ match[b].state = "NONE" /\ match'[b].state = "CREATED"
    BY <1>1, <1>7, Creates
  <2>2. <<"create", "NONE", "CREATED", "join">> \in LockMoves  BY DEF LockMoves
  <2> QED  BY <1>2, <1>4, <1>5, <1>7, <2>1, <2>2, LockTransaction
<1>8. ASSUME task[w].step = "join", JoinMatch(b, o), Goes(w, "start") \/ Ends(w)
      PROVE  LeagueInv'
  <2>1. /\ ContractSound' /\ OthersKept(b)
        /\ match[b].state = "CREATED" /\ match'[b].state = "JOINED"
    BY <1>1, <1>8, Joins
  <2>2. <<"join", "CREATED", "JOINED", "start">> \in LockMoves  BY DEF LockMoves
  <2> QED  BY <1>2, <1>4, <1>5, <1>8, <2>1, <2>2, LockTransaction
<1>9. ASSUME task[w].step = "start", StartMatch(b), Goes(w, "record") \/ Ends(w)
      PROVE  LeagueInv'
  <2>1. /\ ContractSound' /\ OthersKept(b)
        /\ match[b].state = "JOINED" /\ match'[b].state = "STARTED"
    BY <1>1, <1>9, Starts
  <2>2. <<"start", "JOINED", "STARTED", "record">> \in LockMoves  BY DEF LockMoves
  <2> QED  BY <1>2, <1>4, <1>5, <1>9, <2>1, <2>2, LockTransaction
<1>10. \/ Ends(w) /\ UNCHANGED arenaVars
       \/ task[w].step = "create" /\ CreateMatch(b, a, n) /\ (Goes(w, "join") \/ Ends(w))
       \/ task[w].step = "join" /\ JoinMatch(b, o) /\ (Goes(w, "start") \/ Ends(w))
       \/ task[w].step = "start" /\ StartMatch(b) /\ (Goes(w, "record") \/ Ends(w))
  BY <1>2, <1>3 DEF RelayLock, Relays, At
<1> QED  BY <1>6, <1>7, <1>8, <1>9, <1>10

\* The stakes left the contract, whether or not the answer arrives.
LEMMA PayTransaction ==
  ASSUME LeagueInv, NEW w \in Workers, NEW b \in MatchIds, b = task[w].game, task[w].step = "pay",
         match[b].state \in {"CREATED", "JOINED", "STARTED"},
         task[w].winner = NoAgent => match'[b].state = "CANCELLED",
         task[w].winner # NoAgent => match'[b].state = "SETTLED" /\ Paid(b)' = {Owner[task[w].winner]},
         ContractSound', OthersKept(b), Goes(w, "mark") \/ Loops(w),
         UNCHANGED <<pred, battle, record, granted, booked>>, LooseTypeOK'
  PROVE  LeagueInv'
<1>1. task[w] \in Task /\ TaskSound(task[w])  BY TaskFound
<1>2. /\ task[w].winner # NoAgent =>
           task[w].winner \in {Challenger(b), Opponent(b)} /\ pred[task[w].winner].award > 0
      /\ record[b].state # None
  BY <1>1 DEF TaskSound, PayoutSound
<1>3. record[b].state = "LOCKED" /\ match[b].state = "STARTED"
  <2>1. record[b].state \in {None, "LOCKED", "SETTLED", "CANCELLED"}  BY DEF LeagueInv, LeagueTypeOK
  <2> QED  BY <1>2, <2>1 DEF LeagueInv, RowsFollowChain
<1>4. \A v \in Workers : v # w /\ task[v].step \in Locking => task[v].game # b
  <2> SUFFICES ASSUME NEW v \in Workers, v # w, task[v].step \in Locking, task[v].game = b
               PROVE  FALSE
    OBVIOUS
  <2>1. TaskSound(task[v])  BY TaskFound
  <2> QED  BY <1>3, <2>1 DEF TaskSound, LockSound, Locking, None
<1>5. \A v \in Workers : v # w /\ task[v].step = "mark" => task[v].game # b
  <2> SUFFICES ASSUME NEW v \in Workers, v # w, task[v].step = "mark", task[v].game = b
               PROVE  FALSE
    OBVIOUS
  <2>1. TaskSound(task[v])  BY TaskFound
  <2> QED  BY <1>3, <2>1 DEF TaskSound, PayoutSound
<1>6. PICK t \in Task : /\ task' = [task EXCEPT ![w] = t] /\ TaskSound(t)'
                        /\ \A v \in Workers : v # w => Apart(task[v], t)
  <2>1. CASE Loops(w)
    <3>1. PICK t \in Task : /\ t = LoopedTask(task[w]) /\ t.step = "score"
                            /\ t.claimed = task[w].claimed /\ Recedes(task[w], t)
      BY <1>1, NextLoop
    <3>2. TaskSound(t)'
      BY <1>1, <3>1 DEF TaskSound, Shaped, ClaimsSound, LockSound, PayoutSound, AgentSteps, GameSteps,
         Scoring, Opening
    <3>3. task' = [task EXCEPT ![w] = t]  BY <2>1, <3>1 DEF Loops, LoopedTask
    <3> QED  BY <3>1, <3>2, <3>3, StaysApart
  <2>2. CASE Goes(w, "mark")
    <3>1. PICK t \in Task : /\ t = [task[w] EXCEPT !.step = "mark"] /\ t.step = "mark"
                            /\ t.game = task[w].game /\ t.claimed = task[w].claimed
                            /\ t.winner = task[w].winner
      <4>1. "mark" \in Steps  BY DEF Steps
      <4> QED  BY <1>1, <4>1, NextTask
    <3>2. t.step \notin Scoring /\ t.step \notin Opening /\ t.step \notin Locking
      BY <3>1 DEF Locking, Scoring, Opening
    <3>3. \A v \in Workers : v # w => Apart(task[v], t)
      BY <1>5, <3>1, <3>2, TaskFound DEF Apart
    <3>4. PayoutSound(t)'
      BY <1>3, <3>1 DEF PayoutSound
    <3>5. Shaped(t)' /\ ClaimsSound(t)' /\ LockSound(t)'
      BY <1>1, <3>1, <3>2 DEF TaskSound, Shaped, ClaimsSound, LockSound, AgentSteps, GameSteps
    <3> QED  BY <2>2, <3>1, <3>3, <3>4, <3>5 DEF Goes, TaskSound
  <2> QED  BY <2>1, <2>2
<1>7. /\ match'[b].state \in {"SETTLED", "CANCELLED"}
      /\ match'[b].state = "SETTLED" =>
           \E a \in {Challenger(b), Opponent(b)} : Paid(b)' = {Owner[a]} /\ pred[a].award > 0
  BY <1>2
<1> QED  BY <1>3, <1>4, <1>6, <1>7, ContractStep

LEMMA PayStep ==
  ASSUME LeagueInv, NEW w \in Workers, Pay(w)
  PROVE  LeagueInv'
<1>1. /\ ContractSound /\ faults \in Nat /\ requests \in Nat
      /\ task[w] \in Task /\ TaskSound(task[w]) /\ task[w].step = "pay" /\ task[w].game \in MatchIds
  BY InvParts, TaskFound DEF Pay, At, TaskSound, Shaped, GameSteps, LooseTypeOK
<1>2. PICK b \in MatchIds, winner \in Agents \cup {NoAgent} : b = task[w].game /\ winner = task[w].winner
  BY <1>1 DEF Task
<1>3. UNCHANGED <<fixtureVars, fixture, pred, battle, record, granted, booked, counted, requests>>
  BY DEF Pay, Relays
<1>4. LooseTypeOK'
  <2>1. faults' \in Nat  BY <1>1 DEF Pay, Relays, Fault
  <2> QED  BY <1>1, <1>3, <2>1, LooseStays
<1>5. CASE Loops(w) /\ UNCHANGED arenaVars  BY <1>3, <1>4, <1>5, LoopsQuietly
<1>6. ASSUME winner # NoAgent, SettleMatch(b, Owner[winner]), Goes(w, "mark") \/ Loops(w)
      PROVE  LeagueInv'
  <2>1. Owner[winner] \in Players  BY <1>6, LeagueAssumption
  <2>2. /\ ContractSound' /\ OthersKept(b)
        /\ match[b].state = "STARTED" /\ match'[b].state = "SETTLED" /\ Paid(b)' = {Owner[winner]}
    BY <1>1, <1>6, <2>1, PaysOut
  <2> QED  BY <1>1, <1>2, <1>3, <1>4, <1>6, <2>2, PayTransaction
<1>7. ASSUME winner = NoAgent, CancelMatch(b), Goes(w, "mark") \/ Loops(w)
      PROVE  LeagueInv'
  <2>1. /\ ContractSound' /\ OthersKept(b)
        /\ match[b].state \in {"CREATED", "JOINED", "STARTED"} /\ match'[b].state = "CANCELLED"
    BY <1>1, <1>7, Refunds
  <2> QED  BY <1>1, <1>2, <1>3, <1>4, <1>7, <2>1, PayTransaction
<1>8. \/ Loops(w) /\ UNCHANGED arenaVars
      \/ winner # NoAgent /\ SettleMatch(b, Owner[winner]) /\ (Goes(w, "mark") \/ Loops(w))
      \/ winner = NoAgent /\ CancelMatch(b) /\ (Goes(w, "mark") \/ Loops(w))
  BY <1>2 DEF Pay, Relays
<1> QED  BY <1>5, <1>6, <1>7, <1>8

-----------------------------------------------------------------------------
(* The invariant, over all the steps.                                      *)

\* A step of nobody that leaves the chain and the rows alone.
LEMMA QuietlyByItself ==
  ASSUME LeagueInv, UNCHANGED <<arenaVars, pred, battle, record, granted, booked, task>>, LooseTypeOK'
  PROVE  LeagueInv'
<1>1. UNCHANGED <<match, received>>  BY DEF arenaVars
<1>2. \A s \in Task : TaskSound(s) => TaskSound(s)'  BY <1>1, SoundStays
<1>3. task' \in [Workers -> Task] /\ WorkersSound'  BY <1>2, NobodyMoves
<1>4. ContractSound' /\ RowsTypeOK' /\ RowsSound'
  BY InvParts DEF arenaVars, ContractSound, ArenaTypeOK, PlayersKnown, RowsTypeOK, RowsSound,
     PredictionSound, BattleSound, RowsFollowChain, WinnersWereRight, Paid
<1> QED  BY <1>3, <1>4, InvPartsNext

LEMMA ProviderStep ==
  ASSUME LeagueInv, ProviderSide
  PROVE  LeagueInv'
<1>1. LooseTypeOK  BY InvParts
<1>2. kickedOff' \in BOOLEAN /\ reported' \in Open \cup Results \cup {"CANCELLED", "UNKNOWN"}
  BY <1>1 DEF ProviderSide, LooseTypeOK, Open
<1>3. LooseTypeOK'  BY <1>1, <1>2 DEF LooseTypeOK, ProviderSide
<1> QED  BY <1>3, QuietlyByItself DEF ProviderSide

LEMMA StutterStep ==
  ASSUME LeagueInv, UNCHANGED leagueVars
  PROVE  LeagueInv'
<1>1. LooseTypeOK'  BY InvParts DEF leagueVars, LooseTypeOK
<1>2. UNCHANGED <<arenaVars, pred, battle, record, granted, booked, task>>  BY DEF leagueVars, arenaVars
<1> QED  BY <1>1, <1>2, QuietlyByItself

LEMMA LeagueBegins ==
  ASSUME LeagueInit
  PROVE  LeagueInv
<1>1. ArenaTypeOK
  <2>1. match \in [MatchIds -> Match]
    <3>1. BlankMatch \in Match  BY AmountsAssumption DEF BlankMatch, Match, States
    <3> QED  BY <3>1 DEF LeagueInit, ArenaInit
  <2>2. tokens \in [Holders -> Nat] /\ allowance \in [Players -> Nat]
    BY AmountsAssumption DEF LeagueInit, ArenaInit
  <2>3. received \in [MatchIds -> SUBSET (Players \X Nat)]  BY DEF LeagueInit, ArenaInit
  <2> QED  BY <2>1, <2>2, <2>3, AmountsAssumption DEF LeagueInit, ArenaInit, ArenaTypeOK
<1>2. PlayersKnown
  BY DEF LeagueInit, ArenaInit, BlankMatch, PlayersKnown
<1>3. LooseTypeOK
  BY DEF LeagueInit, LooseTypeOK, Open, None
<1>4. RowsTypeOK
  BY DEF LeagueInit, RowsTypeOK, Prediction, Row, None
<1>5. /\ \A a \in Agents : PredictionSound(a)
      /\ \A b \in MatchIds : BattleSound(b)
  BY DEF LeagueInit, PredictionSound, BattleSound
<1>6. RowsFollowChain /\ WinnersWereRight
  BY DEF LeagueInit, ArenaInit, BlankMatch, RowsFollowChain, WinnersWereRight, None
<1>7. task \in [Workers -> Task] /\ \A w \in Workers : task[w] = Idle
  BY IdleTask DEF LeagueInit
<1>8. WorkersSound
  <2>1. Apart(Idle, Idle)  BY DEF Idle, Apart, Scoring, Opening, Locking
  <2> QED  BY <1>7, <2>1, IdleTask DEF WorkersSound
<1> QED  BY <1>1, <1>2, <1>3, <1>4, <1>5, <1>6, <1>7, <1>8, InvParts DEF ContractSound, RowsSound

\* Every step of the league keeps the invariant.
LEMMA LeagueStep ==
  ASSUME LeagueInv, [LeagueNext]_leagueVars
  PROVE  LeagueInv'
<1>1. ASSUME NEW w \in Workers, Continues(w) PROVE LeagueInv'
  BY <1>1, EnsureStep, OverrideStep, CreateBattleStep, LockReadStep, RelayLockStep, RecordLockStep,
     LockRowStep, PollStep, ApplyStep, FinishStep, VoidStep, ReadResultStep, ClaimStep, ListBattlesStep,
     ScoreStep, RewardStep, BookStep, JudgeStep, VoidWaitingStep, JudgeDoneStep, FindStep, PayStep,
     MarkStep, CloseStep, CountStep
  DEF Continues
<1>2. ASSUME NEW w \in Workers, Receives(w) PROVE LeagueInv'
  BY <1>2, RequestStep, ChallengeStep DEF Receives
<1>3. ASSUME NEW w \in Workers, ListCandidates(w) \/ PredictionFails(w) \/ Dies(w) PROVE LeagueInv'
  BY <1>3, RequestStep, PredictionFailsStep, DiesStep
<1>4. CASE LockDuePredictions \/ ProviderSide  BY <1>4, LockSweepStep, ProviderStep
<1>5. ASSUME NEW b \in MatchIds, ExpirePendingBattle(b) PROVE LeagueInv'  BY <1>5, ExpireStep
<1>6. CASE UNCHANGED leagueVars  BY <1>6, StutterStep
<1> QED  BY <1>1, <1>2, <1>3, <1>4, <1>5, <1>6 DEF LeagueNext

\* The invariant behind the theorems below, over every interleaving of requests,
\* sweeps, ticks and faults: what each worker read is still so when it acts on it.
THEOREM LeagueInvariance == LeagueSpec => []LeagueInv
<1>1. LeagueInit => LeagueInv  BY LeagueBegins
<1>2. LeagueInv /\ [LeagueNext]_leagueVars => LeagueInv'  BY LeagueStep
<1> QED  BY <1>1, <1>2, PTL DEF LeagueSpec

\* Every variable of the league and of the contract under it keeps its type: no
\* balance goes below zero, and every task is one the code can be at.
THEOREM LeagueWellTyped == LeagueSpec => []LeagueTypeOK
<1>1. LeagueInv => LeagueTypeOK  BY DEF LeagueInv
<1> QED  BY <1>1, LeagueInvariance, PTL

\* Whatever stopped or was lost between two of the ledgers, a record of a battle
\* that names an end names the chain's, with the payout to the recorded winner's
\* owner, and a row that shows a payout or the refund of an escrow shows the
\* record's (lockLeagueEscrow, settleLeagueBattle, voidLeagueBattle).  Nothing is
\* said of what lags behind: RowsFollowChain names the cases.
THEOREM LedgersAgree == LeagueSpec => []RowsFollowChain
<1>1. LeagueInv => RowsFollowChain  BY DEF LeagueInv
<1> QED  BY <1>1, LeagueInvariance, PTL

\* A prediction is granted its award once at most and booked once at most, however
\* many ticks settle the fixture at a time (claimPredictionsForSettlement).
THEOREM AwardsGrantedOnce == LeagueSpec => []RewardedOnce
<1>1. LeagueInv => RewardedOnce  BY DEF LeagueInv, PredictionSound, RewardedOnce
<1> QED  BY <1>1, LeagueInvariance, PTL

\* A pool only ever goes to an agent of the battle whose own prediction came
\* true, even when ticks judge it on what each sees of the awards
\* (determineBattleWinner, settleLeagueBattle).
THEOREM RightAgentsPaid == LeagueSpec => []WinnersWereRight
<1>1. LeagueInv => WinnersWereRight  BY DEF LeagueInv
<1> QED  BY <1>1, LeagueInvariance, PTL

-----------------------------------------------------------------------------
(* What a step may never do.                                               *)

\* The steps that touch each part of the state.
LEMMA WhoChangesWhat ==
  ASSUME [LeagueNext]_leagueVars
  PROVE  /\ \/ UNCHANGED arenaVars
            \/ \E w \in Workers : RelayLock(w) \/ Pay(w) \/ Reward(w)
         /\ \/ UNCHANGED pred
            \/ \E w \in Workers : \/ EnsurePrediction(w) \/ Override(w) \/ VoidPredictions(w)
                                  \/ ClaimPredictions(w) \/ ScoreNext(w)
            \/ LockDuePredictions
         /\ UNCHANGED granted \/ \E w \in Workers : Reward(w)
         /\ UNCHANGED record \/ \E w \in Workers : RecordLock(w) \/ Mark(w)
         /\ \/ UNCHANGED battle
            \/ \E w \in Workers : CreateBattle(w) \/ LockRow(w) \/ VoidWaiting(w) \/ Close(w)
            \/ \E b \in MatchIds : ExpirePendingBattle(b)
<1> USE DEF arenaVars
<1>1. ASSUME NEW w \in Workers, Continues(w)
      PROVE  /\ UNCHANGED arenaVars \/ RelayLock(w) \/ Pay(w) \/ Reward(w)
             /\ \/ UNCHANGED pred
                \/ EnsurePrediction(w) \/ Override(w) \/ VoidPredictions(w)
                \/ ClaimPredictions(w) \/ ScoreNext(w)
             /\ UNCHANGED granted \/ Reward(w)
             /\ UNCHANGED record \/ RecordLock(w) \/ Mark(w)
             /\ \/ UNCHANGED battle
                \/ CreateBattle(w) \/ LockRow(w) \/ VoidWaiting(w) \/ Close(w)
  <2>1. CASE EnsurePrediction(w) \/ Override(w) \/ VoidPredictions(w) \/ ClaimPredictions(w) \/ ScoreNext(w)
    BY <2>1 DEF EnsurePrediction, Override, VoidPredictions, ClaimPredictions, ScoreNext
  <2>2. CASE CreateBattle(w) \/ LockRow(w) \/ VoidWaiting(w) \/ Close(w)
    BY <2>2 DEF CreateBattle, LockRow, VoidWaiting, Close
  <2>3. CASE RelayLock(w) \/ Pay(w)  BY <2>3 DEF RelayLock, Pay, Relays
  <2>4. CASE RecordLock(w) \/ Mark(w) \/ Reward(w)  BY <2>4 DEF RecordLock, Mark, Reward
  <2>5. CASE LockRead(w) \/ Poll(w) \/ Apply(w) \/ Finish(w) \/ ReadResult(w) \/ ListBattles(w)
    BY <2>5 DEF LockRead, Poll, Apply, Finish, ReadResult, ListBattles
  <2>6. CASE Book(w) \/ JudgeNext(w) \/ JudgeDone(w) \/ Find(w) \/ Count(w)
    BY <2>6 DEF Book, JudgeNext, JudgeDone, Find, Count
  <2> QED  BY <1>1, <2>1, <2>2, <2>3, <2>4, <2>5, <2>6 DEF Continues
<1>2. ASSUME NEW w \in Workers, Receives(w) \/ ListCandidates(w) \/ PredictionFails(w) \/ Dies(w)
      PROVE  UNCHANGED <<arenaVars, pred, granted, record, battle>>
  BY <1>2 DEF Receives, AsksPrediction, AsksOverride, AsksBattle, AcceptBattle, ListCandidates,
     PredictionFails, Dies
<1>3. LockDuePredictions => UNCHANGED <<arenaVars, granted, record, battle>>  BY DEF LockDuePredictions
<1>4. ASSUME NEW b \in MatchIds, ExpirePendingBattle(b)
      PROVE  UNCHANGED <<arenaVars, pred, granted, record>>
  BY <1>4 DEF ExpirePendingBattle
<1>5. ProviderSide \/ UNCHANGED leagueVars => UNCHANGED <<arenaVars, pred, granted, record, battle>>
  BY DEF ProviderSide, leagueVars
<1> QED  BY <1>1, <1>2, <1>3, <1>4, <1>5 DEF LeagueNext

\* The league acts on the contract through its transactions alone.
LEMMA ContractStepOfLeague ==
  ASSUME LeagueInv, [LeagueNext]_leagueVars
  PROVE  [ArenaNext]_arenaVars
<1>1. ASSUME NEW w \in Workers, RelayLock(w) PROVE ArenaNext \/ UNCHANGED arenaVars
  <2>1. task[w].game \in MatchIds
    <3>1. task[w].step \in {"create", "join", "start"}  BY <1>1 DEF RelayLock, At
    <3> QED  BY <3>1, TaskFound DEF TaskSound, Shaped, GameSteps
  <2>2. PICK b \in MatchIds : b = task[w].game  BY <2>1
  <2>3. PICK a \in Players, o \in Players, n \in Stakes :
          a = Owner[Challenger(b)] /\ o = Owner[Opponent(b)] /\ n = Staked[b]
    BY LeagueAssumption DEF Challenger, Opponent
  <2>4. CreateMatch(b, a, n) \/ JoinMatch(b, o) \/ StartMatch(b) \/ UNCHANGED arenaVars
    BY <1>1, <2>2, <2>3 DEF RelayLock, Relays
  <2>5. CreateMatch(b, a, n) \/ JoinMatch(b, o) \/ StartMatch(b) => Relayer(b)  BY DEF Relayer
  <2> QED  BY <2>4, <2>5 DEF ArenaNext
<1>2. ASSUME NEW w \in Workers, Pay(w) PROVE ArenaNext \/ UNCHANGED arenaVars
  <2>1. task[w] \in Task /\ task[w].game \in MatchIds
    BY <1>2, TaskFound DEF Pay, At, TaskSound, Shaped, GameSteps
  <2>2. PICK b \in MatchIds, winner \in Agents \cup {NoAgent} : b = task[w].game /\ winner = task[w].winner
    BY <2>1 DEF Task
  <2>3. (winner # NoAgent /\ SettleMatch(b, Owner[winner])) \/ CancelMatch(b) \/ UNCHANGED arenaVars
    BY <1>2, <2>2 DEF Pay, Relays
  <2>4. winner # NoAgent => Owner[winner] \in Players  BY LeagueAssumption
  <2>5. (winner # NoAgent /\ SettleMatch(b, Owner[winner])) \/ CancelMatch(b) => Relayer(b)
    BY <2>4 DEF Relayer
  <2> QED  BY <2>3, <2>5 DEF ArenaNext
<1>3. ASSUME NEW w \in Workers, Reward(w) PROVE ArenaNext \/ UNCHANGED arenaVars
  <2> DEFINE x == task[w].agent
             n == pred[x].award
  <2>1. x \in Agents  BY <1>3, TaskFound DEF Reward, At, TaskSound, Shaped, AgentSteps
  <2>2. Owner[x] \in Players /\ n \in Rewards \cup {0, Unscored}
    BY <2>1, LeagueAssumption DEF LeagueInv, LeagueTypeOK, Prediction
  <2>3. Distribute(Owner[x], n) \/ UNCHANGED arenaVars  BY <1>3 DEF Reward
  <2> HIDE DEF x, n
  <2>4. Distribute(Owner[x], n) => n \in Rewards  BY <2>2 DEF Distribute, MayDistribute, Unscored
  <2>5. Distribute(Owner[x], n) => TreasurySide  BY <2>2, <2>4 DEF TreasurySide
  <2> QED  BY <2>3, <2>5 DEF ArenaNext
<1> QED  BY <1>1, <1>2, <1>3, WhoChangesWhat

\* The league only ever acts on the contract through its transactions, so all
\* that holds of the contract, whoever its relayer is, holds under the league:
\* its vault is exact and it keeps WagerPromise.
THEOREM LeagueUsesTheContract == LeagueSpec => ArenaSpec
<1>1. LeagueInit => ArenaInit  BY DEF LeagueInit
<1>2. LeagueInv /\ [LeagueNext]_leagueVars => [ArenaNext]_arenaVars  BY ContractStepOfLeague
<1> QED  BY <1>1, <1>2, LeagueInvariance, PTL DEF LeagueSpec, ArenaSpec

\* The results of the fixture, in its predictions, its escrow records and its
\* battles: once one is there, no step takes it back or changes it.
OverStaysOver ==
  /\ \A a \in Agents :
       /\ pred[a].status \in {"SETTLED", "VOID"} => pred'[a].status = pred[a].status
       /\ pred[a].award # Unscored => pred'[a].award = pred[a].award
       /\ granted[a] # 0 => granted'[a] = granted[a]
  /\ \A b \in MatchIds :
       /\ record[b].state \in {"SETTLED", "CANCELLED"} => record'[b] = record[b]
       /\ battle[b].status \in {"SETTLED", "VOID", "DECLINED"} => battle'[b] = battle[b]

LEMMA PredictionsStay ==
  ASSUME LeagueInv, [LeagueNext]_leagueVars, NEW a \in Agents
  PROVE  /\ pred[a].status \in {"SETTLED", "VOID"} => pred'[a].status = pred[a].status
         /\ pred[a].award # Unscored => pred'[a].award = pred[a].award
<1>1. pred \in [Agents -> Prediction] /\ pred[a] \in Prediction  BY DEF LeagueInv, LeagueTypeOK
<1>2. ASSUME NEW w \in Workers, EnsurePrediction(w)
      PROVE  pred[a].status # None => pred'[a] = pred[a]
  BY <1>1, <1>2 DEF EnsurePrediction
<1>3. ASSUME NEW w \in Workers, Override(w)
      PROVE  pred'[a].status = pred[a].status /\ pred'[a].award = pred[a].award
  BY <1>1, <1>3 DEF Override, Prediction
<1>4. ASSUME NEW w \in Workers, VoidPredictions(w) \/ ClaimPredictions(w)
      PROVE  /\ pred[a].status \in {"SETTLED", "VOID"} => pred'[a].status = pred[a].status
             /\ pred'[a].award = pred[a].award
  BY <1>1, <1>4 DEF VoidPredictions, ClaimPredictions, Claimable, Locked, Prediction
<1>5. LockDuePredictions =>
        /\ pred[a].status \in {"SETTLED", "VOID"} => pred'[a].status = pred[a].status
        /\ pred'[a].award = pred[a].award
  BY <1>1 DEF LockDuePredictions, Prediction
<1>6. ASSUME NEW w \in Workers, ScoreNext(w)
      PROVE  pred'[a].status = pred[a].status /\ (pred[a].award # Unscored => pred'[a] = pred[a])
  <2>1. PICK c \in task[w].claimed :
          pred' = [pred EXCEPT ![c.agent].award = Award(c, task[w].seen, task[w].consensus)]
    BY <1>6 DEF ScoreNext
  <2>2. c.agent \in Agents /\ pred[c.agent].award = Unscored
    BY TaskFound DEF TaskSound, ClaimsSound, Task, Claim
  <2> QED  BY <1>1, <2>1, <2>2 DEF Prediction
<1>7. pred[a].award # Unscored => pred[a].status # None
  BY DEF LeagueInv, PredictionSound, None
<1> QED  BY <1>2, <1>3, <1>4, <1>5, <1>6, <1>7, WhoChangesWhat DEF None

LEMMA BattlesStay ==
  ASSUME LeagueInv, [LeagueNext]_leagueVars, NEW b \in MatchIds
  PROVE  /\ record[b].state \in {"SETTLED", "CANCELLED"} => record'[b] = record[b]
         /\ battle[b].status \in {"SETTLED", "VOID", "DECLINED"} => battle'[b] = battle[b]
<1>1. /\ record \in [MatchIds -> RecordRow] /\ battle \in [MatchIds -> Row]
  BY DEF LeagueInv, LeagueTypeOK, RecordRow
<1>2. ASSUME NEW w \in Workers, RecordLock(w) \/ Mark(w)
      PROVE  record[b].state \in {"SETTLED", "CANCELLED"} => record'[b] = record[b]
  <2>1. record[task[w].game].state \in {None, "LOCKED"}
    BY <1>2, TaskFound DEF RecordLock, Mark, At, TaskSound, LockSound, PayoutSound
  <2> QED  BY <1>1, <1>2, <2>1 DEF RecordLock, Mark, None
<1>3. ASSUME NEW w \in Workers, CreateBattle(w)
      PROVE  battle[b].status # None => battle'[b] = battle[b]
  <2>1. battle[task[w].game].status = None
    BY <1>3, TaskFound DEF CreateBattle, At, TaskSound, LockSound, Opening
  <2> QED  BY <1>1, <1>3, <2>1 DEF CreateBattle
<1>4. ASSUME NEW w \in Workers, LockRow(w) \/ VoidWaiting(w)
      PROVE  battle[b].status # "PENDING" => battle'[b] = battle[b]
  BY <1>1, <1>4 DEF LockRow, VoidWaiting
<1>5. ASSUME NEW w \in Workers, Close(w)
      PROVE  battle[b].status # "LOCKED" => battle'[b] = battle[b]
  BY <1>1, <1>5 DEF Close
<1>6. ASSUME NEW c \in MatchIds, ExpirePendingBattle(c)
      PROVE  battle[b].status # "PENDING" => battle'[b] = battle[b]
  BY <1>1, <1>6 DEF ExpirePendingBattle
<1> QED  BY <1>2, <1>3, <1>4, <1>5, <1>6, WhoChangesWhat DEF None

\* Ticks that overlap, repeat or hold an older view never take back what is
\* over: an award stands once it is written, a grant once it is made, and a
\* settled, voided or declined battle and its record are never rewritten
\* (claimPredictionsForSettlement, settleLeagueBattle, the lock sweep).
THEOREM ResultsStand == LeagueSpec => [][OverStaysOver]_leagueVars
<1>1. LeagueInv /\ [LeagueNext]_leagueVars => OverStaysOver
  <2> SUFFICES ASSUME LeagueInv, [LeagueNext]_leagueVars PROVE OverStaysOver  OBVIOUS
  <2>1. ASSUME NEW a \in Agents, granted[a] # 0 PROVE granted'[a] = granted[a]
    <3>1. ASSUME NEW w \in Workers, Reward(w) PROVE granted'[a] = granted[a]
      <4>1. task[w].agent \in Agents /\ granted[task[w].agent] = 0
        BY <3>1, TaskFound DEF Reward, At, TaskSound, Shaped, ClaimsSound, AgentSteps
      <4>2. granted \in [Agents -> Nat]  BY DEF LeagueInv, LeagueTypeOK
      <4> QED  BY <2>1, <3>1, <4>1, <4>2 DEF Reward
    <3> QED  BY <3>1, WhoChangesWhat
  <2> QED  BY <2>1, PredictionsStay, BattlesStay DEF OverStaysOver
<1> QED  BY <1>1, LeagueInvariance, PTL DEF LeagueSpec

=============================================================================
