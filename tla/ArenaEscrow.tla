---------------------------- MODULE ArenaEscrow ----------------------------
(***************************************************************************)
(* The on-chain escrow of arena battles and its treasury,                  *)
(* contracts/evm/contracts/arena/ArenaEscrow.sol and ArenaTreasury.sol.    *)
(*                                                                         *)
(* A transaction is one action.  What a transaction requires is a state    *)
(* predicate of its own (May...), because the relayer that sends it acts   *)
(* on the revert too.  The relayer holds RELAYER_ROLE, the admin           *)
(* DEFAULT_ADMIN_ROLE; the contract trusts the relayer for who won.        *)
(***************************************************************************)
EXTENDS Integers, FiniteSets, Units

CONSTANTS
  MatchIds,          \* keccak256 of a battle's id
  Players,           \* wallet addresses
  NoPlayer,          \* address(0)
  Vault,             \* the address of this contract
  Treasury,          \* the address of ArenaTreasury
  Tournament,        \* the address of ArenaTournament
  Stakes,            \* stake amounts, in ARENA
  Allowances,        \* amounts that players approve
  BpsDenominator,    \* 10_000
  MaxCommissionBps,  \* MAX_COMMISSION_BPS
  Rates,             \* commission rates the admin asks for
  InitialRate,       \* commissionBps at deployment
  InitialTokens,     \* ARENA of each player
  InitialAllowance,  \* what each player has approved before
  InitialTreasury,   \* ARENA minted to the treasury
  InitialTournament, \* entry fees that tournaments hold
  Rewards            \* amounts that the relayer grants from the treasury

Holders == Players \cup {Vault, Treasury, Tournament}

ASSUME HoldersAssumption ==
  /\ Vault \notin Players /\ Treasury \notin Players /\ Tournament \notin Players
  /\ Vault # Treasury /\ Vault # Tournament /\ Treasury # Tournament
  /\ NoPlayer \notin Holders
ASSUME AmountsAssumption ==
  /\ Stakes \subseteq Nat \ {0}
  /\ Allowances \subseteq Nat /\ Rates \subseteq Nat
  /\ BpsDenominator \in Nat \ {0} /\ MaxCommissionBps \in 0..BpsDenominator
  /\ InitialRate \in 0..MaxCommissionBps
  /\ InitialTokens \in Nat /\ InitialAllowance \in Nat
  /\ InitialTreasury \in Nat /\ InitialTournament \in Nat /\ Rewards \subseteq Nat

-----------------------------------------------------------------------------

VARIABLES
  match,             \* matches
  commissionBps,
  arenaPaused,
  tokens,            \* balances of the ARENA token
  allowance,         \* what each player lets the escrow take
  totalCommissions,  \* of ArenaTreasury
  totalRewardsPaid,  \* of ArenaTreasury
  received           \* what each match paid to whom, from the token's events

arenaVars ==
  <<match, commissionBps, arenaPaused, tokens, allowance, totalCommissions, totalRewardsPaid, received>>

States == {"NONE", "CREATED", "JOINED", "STARTED", "SETTLED", "CANCELLED"}

Match ==
  [playerA : Players \cup {NoPlayer}, playerB : Players \cup {NoPlayer},
   stake : Stakes \cup {0}, state : States, bps : 0..MaxCommissionBps]

BlankMatch ==
  [playerA |-> NoPlayer, playerB |-> NoPlayer, stake |-> 0, state |-> "NONE", bps |-> 0]

ArenaInit ==
  /\ match = [m \in MatchIds |-> BlankMatch]
  /\ commissionBps = InitialRate
  /\ arenaPaused = FALSE
  /\ tokens = [h \in Holders |->
                 CASE h = Vault -> 0
                   [] h = Treasury -> InitialTreasury
                   [] h = Tournament -> InitialTournament
                   [] OTHER -> InitialTokens]
  /\ allowance = [p \in Players |-> InitialAllowance]
  /\ totalCommissions = 0 /\ totalRewardsPaid = 0
  /\ received = [m \in MatchIds |-> {}]

-----------------------------------------------------------------------------
(* The token, as the escrow calls it.                                      *)

CanPull(player, amount) == tokens[player] >= amount /\ allowance[player] >= amount

Pull(player, amount) ==
  /\ tokens' = [tokens EXCEPT ![player] = @ - amount, ![Vault] = @ + amount]
  /\ allowance' = [allowance EXCEPT ![player] = @ - amount]

\* A transfer out of the escrow reverts when its balance is too small.
CanSend(amount) == tokens[Vault] >= amount

\* A player approves, or withdraws its approval, by a permit it signs.
Approve(player, amount) ==
  /\ allowance[player] # amount
  /\ allowance' = [allowance EXCEPT ![player] = amount]
  /\ UNCHANGED <<match, commissionBps, arenaPaused, tokens, totalCommissions, totalRewardsPaid, received>>

-----------------------------------------------------------------------------
(* The relayer's transactions.                                             *)

MayCreate(m, playerA, stake) ==
  /\ ~arenaPaused
  /\ match[m].state = "NONE"
  /\ CanPull(playerA, stake)

CreateMatch(m, playerA, stake) ==
  /\ MayCreate(m, playerA, stake)
  /\ match' = [match EXCEPT ![m] =
                 [playerA |-> playerA, playerB |-> NoPlayer, stake |-> stake,
                  state |-> "CREATED", bps |-> commissionBps]]
  /\ Pull(playerA, stake)
  /\ UNCHANGED <<commissionBps, arenaPaused, totalCommissions, totalRewardsPaid, received>>

MayJoin(m, playerB) ==
  /\ ~arenaPaused
  /\ match[m].state = "CREATED"
  /\ playerB # match[m].playerA
  /\ CanPull(playerB, match[m].stake)

JoinMatch(m, playerB) ==
  /\ MayJoin(m, playerB)
  /\ match' = [match EXCEPT ![m].playerB = playerB, ![m].state = "JOINED"]
  /\ Pull(playerB, match[m].stake)
  /\ UNCHANGED <<commissionBps, arenaPaused, totalCommissions, totalRewardsPaid, received>>

MayStart(m) == ~arenaPaused /\ match[m].state = "JOINED"

StartMatch(m) ==
  /\ MayStart(m)
  /\ match' = [match EXCEPT ![m].state = "STARTED"]
  /\ UNCHANGED <<commissionBps, arenaPaused, tokens, allowance, totalCommissions, totalRewardsPaid, received>>

Commission(pool, bps) == (pool * bps) \div BpsDenominator

\* The rate of the moment instead of the one the players staked under.
LockedRateOfTheMoment(m) == commissionBps
LockedRate(m) == match[m].bps

MaySettle(m, winner) ==
  /\ ~arenaPaused
  /\ match[m].state = "STARTED"
  /\ winner \in {match[m].playerA, match[m].playerB}
  /\ CanSend(match[m].stake * 2)

SettleMatch(m, winner) ==
  LET pool == match[m].stake * 2
      commission == Commission(pool, LockedRate(m))
      payout == pool - commission
  IN  /\ MaySettle(m, winner)
      /\ match' = [match EXCEPT ![m].state = "SETTLED"]
      /\ tokens' = [tokens EXCEPT ![Vault] = @ - pool, ![winner] = @ + payout,
                                  ![Treasury] = @ + commission]
      /\ totalCommissions' = totalCommissions + commission
      /\ received' = [received EXCEPT ![m] = {<<winner, payout>>}]
      /\ UNCHANGED <<commissionBps, arenaPaused, allowance, totalRewardsPaid>>

\* The challenger's stake alone, as if nobody had joined.
Challengers(m) == {match[m].playerA}
Stakers(m) ==
  IF match[m].state = "CREATED" THEN {match[m].playerA}
  ELSE {match[m].playerA, match[m].playerB}

MayCancel(m) ==
  /\ ~arenaPaused
  /\ match[m].state \in {"CREATED", "JOINED", "STARTED"}
  /\ CanSend(match[m].stake * Cardinality(Stakers(m)))

CancelMatch(m) ==
  LET refunded == Stakers(m)
      stake == match[m].stake
  IN  /\ MayCancel(m)
      /\ match' = [match EXCEPT ![m].state = "CANCELLED"]
      /\ tokens' = [h \in Holders |->
                      IF h = Vault THEN tokens[h] - stake * Cardinality(refunded)
                      ELSE IF h \in refunded THEN tokens[h] + stake ELSE tokens[h]]
      /\ received' = [received EXCEPT ![m] = {<<p, stake>> : p \in refunded}]
      /\ UNCHANGED <<commissionBps, arenaPaused, allowance, totalCommissions, totalRewardsPaid>>

-----------------------------------------------------------------------------
(* The treasury's other callers.  The relayer has RewardDistributor pay    *)
(* rewards out of it.  A tournament that settles sends its commission; the *)
(* fees and prizes between it and its entrants are left out, and so is     *)
(* ARENA that anybody transfers to a contract on its own.                  *)

MayDistribute(amount) == amount > 0 /\ tokens[Treasury] >= amount

Distribute(player, amount) ==
  /\ MayDistribute(amount)
  /\ totalRewardsPaid' = totalRewardsPaid + amount
  /\ tokens' = [tokens EXCEPT ![Treasury] = @ - amount, ![player] = @ + amount]
  /\ UNCHANGED <<match, commissionBps, arenaPaused, allowance, totalCommissions, received>>

TournamentCommission(amount) ==
  /\ amount > 0 /\ tokens[Tournament] >= amount
  /\ tokens' = [tokens EXCEPT ![Tournament] = @ - amount, ![Treasury] = @ + amount]
  /\ totalCommissions' = totalCommissions + amount
  /\ UNCHANGED <<match, commissionBps, arenaPaused, allowance, totalRewardsPaid, received>>

TreasurySide ==
  \/ \E p \in Players, n \in Rewards : Distribute(p, n)
  \/ \E n \in 1..tokens[Tournament] : TournamentCommission(n)

-----------------------------------------------------------------------------
(* The admin.                                                              *)

SetCommissionBps(bps) ==
  /\ bps <= MaxCommissionBps
  /\ commissionBps' = bps
  /\ UNCHANGED <<match, arenaPaused, tokens, allowance, totalCommissions, totalRewardsPaid, received>>

SetPause(on) ==
  /\ arenaPaused = ~on
  /\ arenaPaused' = on
  /\ UNCHANGED <<match, commissionBps, tokens, allowance, totalCommissions, totalRewardsPaid, received>>

Relayer(m) ==
  \/ \E p \in Players, n \in Stakes : CreateMatch(m, p, n)
  \/ \E p \in Players : JoinMatch(m, p) \/ SettleMatch(m, p)
  \/ StartMatch(m)
  \/ CancelMatch(m)

ArenaAdmin == (\E bps \in Rates : SetCommissionBps(bps)) \/ (\E on \in BOOLEAN : SetPause(on))

ArenaNext ==
  \/ \E m \in MatchIds : Relayer(m)
  \/ \E p \in Players, n \in Allowances : Approve(p, n)
  \/ TreasurySide
  \/ ArenaAdmin

ArenaSpec == ArenaInit /\ [][ArenaNext]_arenaVars

-----------------------------------------------------------------------------
(* Properties.                                                             *)

ArenaTypeOK ==
  /\ match \in [MatchIds -> Match]
  /\ commissionBps \in 0..MaxCommissionBps
  /\ arenaPaused \in BOOLEAN
  /\ tokens \in [Holders -> Nat]
  /\ allowance \in [Players -> Nat]
  /\ totalCommissions \in Nat /\ totalRewardsPaid \in Nat
  /\ received \in [MatchIds -> SUBSET (Players \X Nat)]

\* The tokens a match has in the escrow; those of all matches, one by one.
Held(m) ==
  IF match[m].state = "CREATED" THEN match[m].stake
  ELSE IF match[m].state \in {"JOINED", "STARTED"} THEN 2 * match[m].stake
  ELSE 0
HeldTokens == UnitsOf([m \in MatchIds |-> Held(m)])

(* The escrow holds the stakes of all open matches, to the token: nobody's *)
(* payout comes out of another match, and nothing is left behind           *)
(* (settleMatch, cancelMatch).                                             *)
VaultExact == tokens[Vault] = Cardinality(HeldTokens)

(* The treasury's accounting "stays in sync with the real token balance":  *)
(* what it was minted and every commission reported to it, less every      *)
(* reward it paid, is what it holds (notifyCommission moves no tokens: it  *)
(* trusts the transfer before it).                                         *)
TreasuryBooks ==
  tokens[Treasury] + totalRewardsPaid = InitialTreasury + totalCommissions

StakesOf(m) ==
  IF match[m].playerA = NoPlayer THEN {}
  ELSE {<<p, match[m].stake>> : p \in {match[m].playerA, match[m].playerB} \ {NoPlayer}}

\* A match keeps WagerPromise: stakes equal, commission as agreed, one end.
Promise == INSTANCE WagerPromise WITH
  Denominator <- BpsDenominator,
  Cap <- MaxCommissionBps,
  stakes <- [m \in MatchIds |-> StakesOf(m)],
  cut <- [m \in MatchIds |-> match[m].bps],
  closed <- {m \in MatchIds : match[m].state \in {"SETTLED", "CANCELLED"}},
  got <- received

KeepsWagerPromise == Promise!Spec

=============================================================================
