---------------------------- MODULE WagerProofs ----------------------------
(***************************************************************************)
(* The contract of arena battles, whatever its relayer, its players and    *)
(* its admin send it (ArenaSpec): no stake is ever short or left over, and *)
(* it keeps WagerPromise.  Then the services that drive it: every step of  *)
(* theirs is a step of the contract or leaves it alone, and their records  *)
(* never say more than it did.                                             *)
(***************************************************************************)
EXTENDS Wager, UnitsProofs

-----------------------------------------------------------------------------
(* Commission.                                                             *)

\* The commission is the agreed share of the pool, rounded down, and never
\* more than the pool.
LEMMA ArenaCommission ==
  ASSUME NEW pool \in Nat, NEW bps \in 0..MaxCommissionBps
  PROVE  LET c == Commission(pool, bps)
         IN  /\ c \in 0..pool
             /\ c * BpsDenominator <= pool * bps
             /\ pool * bps < (c + 1) * BpsDenominator
BY AmountsAssumption, RoundedShare DEF Commission

-----------------------------------------------------------------------------
(* The contract's invariant.                                               *)

Holdings == [m \in MatchIds |-> Held(m)]

\* Whom a match knows, in each of its states.
Joined == {"JOINED", "STARTED", "SETTLED"}
PlayersKnown ==
  \A m \in MatchIds :
    /\ match[m].state = "NONE" => match[m] = BlankMatch
    /\ match[m].state # "NONE" => match[m].playerA \in Players /\ match[m].stake \in Stakes
    /\ match[m].state = "CREATED" => match[m].playerB = NoPlayer
    /\ match[m].state \in Joined => match[m].playerB \in Players /\ match[m].playerB # match[m].playerA

ArenaInv ==
  /\ ArenaTypeOK
  /\ PlayersKnown
  /\ SumIs(Holdings, tokens[Vault])
  /\ TreasuryBooks

LEMMA ArenaInvInit == ArenaInit => ArenaInv
<1> SUFFICES ASSUME ArenaInit PROVE ArenaInv  OBVIOUS
<1> USE AmountsAssumption, HoldersAssumption DEF ArenaInit
<1>1. BlankMatch \in Match /\ BlankMatch.state = "NONE"  BY DEF BlankMatch, Match, States
<1>2. ArenaTypeOK  BY <1>1 DEF ArenaTypeOK, Holders
<1>3. PlayersKnown  BY <1>1 DEF PlayersKnown, Joined
<1>4. SumIs(Holdings, tokens[Vault])
  <2>1. Holdings \in [MatchIds -> Nat] /\ \A m \in MatchIds : Holdings[m] = 0
    BY <1>1 DEF Holdings, Held
  <2>2. tokens[Vault] = 0  BY DEF Holders
  <2> QED  BY <2>1, <2>2, SumOfZeros
<1>5. TreasuryBooks  BY DEF TreasuryBooks, Holders
<1> QED  BY <1>2, <1>3, <1>4, <1>5 DEF ArenaInv

LEMMA StakeNumber == ASSUME NEW r \in Match PROVE r.stake \in Nat
<1>1. r.stake \in Stakes \cup {0}  BY DEF Match
<1>2. \A n \in Stakes : n \in Nat  BY AmountsAssumption
<1>3. CASE r.stake = 0  BY <1>3
<1>4. CASE r.stake \in Stakes  BY <1>2, <1>4
<1> QED  BY <1>1, <1>3, <1>4

\* What a match holds is a number, and no more than the escrow has.
LEMMA HeldInVault ==
  ASSUME ArenaInv, NEW m \in MatchIds
  PROVE  /\ Holdings \in [MatchIds -> Nat]
         /\ Held(m) \in Nat /\ Held(m) <= tokens[Vault] /\ tokens[Vault] \in Nat
<1>1. \A i \in MatchIds : match[i].stake \in Nat
  BY StakeNumber DEF ArenaInv, ArenaTypeOK
<1>2. \A i \in MatchIds : Held(i) \in Nat  BY <1>1 DEF Held
<1>3. Holdings \in [MatchIds -> Nat] /\ Holdings[m] = Held(m)  BY <1>2 DEF Holdings
<1>4. tokens[Vault] \in Nat  BY DEF ArenaInv, ArenaTypeOK, Holders
<1>5. Holdings[m] <= tokens[Vault]
  BY <1>3, <1>4, SumChanges DEF ArenaInv
<1> QED  BY <1>2, <1>3, <1>4, <1>5

\* A step that changes one match, and takes from the escrow exactly what that
\* match no longer holds.
LEMMA VaultFollows ==
  ASSUME ArenaInv, NEW m \in MatchIds, NEW r \in Match, match' = [match EXCEPT ![m] = r],
         tokens'[Vault] = tokens[Vault] - Held(m) + Held(m)'
  PROVE  SumIs(Holdings, tokens[Vault])'
<1>1. Holdings \in [MatchIds -> Nat] /\ tokens[Vault] \in Nat /\ Holdings[m] = Held(m)
  BY HeldInVault DEF Holdings
<1>2. Held(m)' \in Nat
  <2>1. match'[m] = r /\ r.stake \in Nat  BY StakeNumber DEF ArenaInv, ArenaTypeOK
  <2> QED  BY <2>1 DEF Held
<1>3. \A i \in MatchIds : i # m => Held(i)' = Held(i)  BY DEF Held
<1>4. Holdings' = [Holdings EXCEPT ![m] = Held(m)']  BY <1>3 DEF Holdings
<1>5. SumIs(Holdings, tokens[Vault])  BY DEF ArenaInv
<1> HIDE DEF Holdings
<1>6. SumIs(Holdings', tokens[Vault] - Holdings[m] + Held(m)')
  BY <1>1, <1>2, <1>4, <1>5, SumChanges
<1> QED  BY <1>1, <1>6

-----------------------------------------------------------------------------
(* The contract's steps.                                                   *)

Known(r) ==
  /\ r.state # "NONE" /\ r.playerA \in Players /\ r.stake \in Stakes
  /\ r.state = "CREATED" => r.playerB = NoPlayer
  /\ r.state \in Joined => r.playerB \in Players /\ r.playerB # r.playerA

HeldBy(r) ==
  IF r.state = "CREATED" THEN r.stake
  ELSE IF r.state \in {"JOINED", "STARTED"} THEN 2 * r.stake
  ELSE 0

\* A transaction that rewrites one match, and moves tokens accordingly.
LEMMA MatchStep ==
  ASSUME ArenaInv, NEW m \in MatchIds, NEW r \in Match, Known(r),
         match' = [match EXCEPT ![m] = r],
         tokens' \in [Holders -> Nat], allowance' \in [Players -> Nat], totalCommissions' \in Nat,
         received' \in [MatchIds -> SUBSET (Players \X Nat)],
         UNCHANGED <<commissionBps, arenaPaused, totalRewardsPaid>>,
         tokens'[Vault] = tokens[Vault] - Held(m) + HeldBy(r),
         tokens'[Treasury] - tokens[Treasury] = totalCommissions' - totalCommissions
  PROVE  ArenaInv'
<1>1. match \in [MatchIds -> Match]  BY DEF ArenaInv, ArenaTypeOK
<1>2. ArenaTypeOK'  BY <1>1 DEF ArenaInv, ArenaTypeOK
<1>3. PlayersKnown'
  <2> SUFFICES ASSUME NEW i \in MatchIds
               PROVE  /\ match'[i].state = "NONE" => match'[i] = BlankMatch
                      /\ match'[i].state # "NONE" => match'[i].playerA \in Players /\ match'[i].stake \in Stakes
                      /\ match'[i].state = "CREATED" => match'[i].playerB = NoPlayer
                      /\ match'[i].state \in Joined => match'[i].playerB \in Players /\ match'[i].playerB # match'[i].playerA
    BY DEF PlayersKnown, BlankMatch, Joined
  <2>1. CASE i = m
    <3>1. match'[i] = r  BY <1>1, <2>1
    <3> QED  BY <3>1 DEF Known
  <2>2. CASE i # m
    <3>1. match'[i] = match[i]  BY <1>1, <2>2
    <3> QED  BY <3>1 DEF ArenaInv, PlayersKnown
  <2> QED  BY <2>1, <2>2
<1>4. SumIs(Holdings, tokens[Vault])'
  <2>1. Held(m)' = HeldBy(r)
    <3>1. match'[m] = r  BY <1>1
    <3> QED  BY <3>1 DEF Held, HeldBy
  <2> QED  BY <2>1, VaultFollows
<1>5. TreasuryBooks'
  <2>1. /\ tokens[Treasury] \in Nat /\ tokens'[Treasury] \in Nat /\ totalCommissions \in Nat
        /\ totalRewardsPaid \in Nat /\ InitialTreasury \in Nat
        /\ tokens[Treasury] + totalRewardsPaid = InitialTreasury + totalCommissions
    BY AmountsAssumption DEF ArenaInv, ArenaTypeOK, TreasuryBooks, Holders
  <2> QED  BY <2>1 DEF TreasuryBooks
<1> QED  BY <1>2, <1>3, <1>4, <1>5 DEF ArenaInv

\* Taking a stake from a player who has approved it.
LEMMA PullTokens ==
  ASSUME ArenaInv, NEW p \in Players, NEW n \in Nat, CanPull(p, n), Pull(p, n)
  PROVE  /\ tokens' \in [Holders -> Nat] /\ allowance' \in [Players -> Nat]
         /\ tokens'[Vault] = tokens[Vault] + n /\ tokens'[Treasury] = tokens[Treasury]
<1>1. /\ tokens \in [Holders -> Nat] /\ allowance \in [Players -> Nat]
      /\ p \in Holders /\ Vault \in Holders /\ Treasury \in Holders
      /\ p # Vault /\ p # Treasury /\ Vault # Treasury
  BY HoldersAssumption DEF ArenaInv, ArenaTypeOK, Holders
<1>2. tokens[p] - n \in Nat /\ allowance[p] - n \in Nat /\ tokens[Vault] + n \in Nat
  BY <1>1 DEF CanPull
<1> QED  BY <1>1, <1>2 DEF Pull

\* A match that was found in one of its states has the players of that state.
LEMMA MatchFound ==
  ASSUME ArenaInv, NEW m \in MatchIds, match[m].state # "NONE"
  PROVE  /\ match[m] \in Match /\ match[m].stake \in Nat /\ match[m].stake \in Stakes
         /\ Known(match[m])
BY StakeNumber DEF ArenaInv, ArenaTypeOK, PlayersKnown, Known

LEMMA CreateInv ==
  ASSUME ArenaInv, NEW m \in MatchIds, NEW p \in Players, NEW n \in Stakes, CreateMatch(m, p, n)
  PROVE  ArenaInv'
<1> DEFINE r == [playerA |-> p, playerB |-> NoPlayer, stake |-> n, state |-> "CREATED",
                 bps |-> commissionBps]
<1>1. r \in Match /\ Known(r) /\ HeldBy(r) = n
  BY DEF Match, States, Known, HeldBy, Joined, ArenaInv, ArenaTypeOK
<1>2. match' = [match EXCEPT ![m] = r] /\ match[m].state = "NONE"
  BY DEF CreateMatch, MayCreate
<1> HIDE DEF r
<1>3. n \in Nat  BY AmountsAssumption
<1>4. /\ tokens' \in [Holders -> Nat] /\ allowance' \in [Players -> Nat]
      /\ tokens'[Vault] = tokens[Vault] + n /\ tokens'[Treasury] = tokens[Treasury]
  BY <1>3, PullTokens DEF CreateMatch, MayCreate
<1>5. Held(m) = 0  BY <1>2 DEF Held
<1>6. tokens[Vault] \in Nat /\ tokens[Treasury] \in Nat /\ totalCommissions \in Nat
  BY DEF ArenaInv, ArenaTypeOK, Holders
<1>7. /\ tokens'[Vault] = tokens[Vault] - Held(m) + HeldBy(r)
      /\ tokens'[Treasury] - tokens[Treasury] = totalCommissions' - totalCommissions
  BY <1>1, <1>3, <1>4, <1>5, <1>6 DEF CreateMatch
<1>8. /\ UNCHANGED <<commissionBps, arenaPaused, totalRewardsPaid>> /\ totalCommissions' \in Nat
      /\ received' \in [MatchIds -> SUBSET (Players \X Nat)]
  BY DEF CreateMatch, ArenaInv, ArenaTypeOK
<1> QED  BY <1>1, <1>2, <1>4, <1>7, <1>8, MatchStep

LEMMA JoinInv ==
  ASSUME ArenaInv, NEW m \in MatchIds, NEW p \in Players, JoinMatch(m, p)
  PROVE  ArenaInv'
<1> DEFINE r == [match[m] EXCEPT !.playerB = p, !.state = "JOINED"]
           n == match[m].stake
<1>0. match[m].state = "CREATED" /\ p # match[m].playerA  BY DEF JoinMatch, MayJoin
<1>1. match[m] \in Match /\ n \in Nat /\ Known(match[m])  BY <1>0, MatchFound
<1>2. r \in Match /\ Known(r) /\ HeldBy(r) = 2 * n
  BY <1>0, <1>1 DEF Match, States, Known, HeldBy, Joined
<1>3. match' = [match EXCEPT ![m] = r]  BY DEF JoinMatch
<1>4. /\ tokens' \in [Holders -> Nat] /\ allowance' \in [Players -> Nat]
      /\ tokens'[Vault] = tokens[Vault] + n /\ tokens'[Treasury] = tokens[Treasury]
  BY <1>1, PullTokens DEF JoinMatch, MayJoin
<1>5. Held(m) = n  BY <1>0 DEF Held
<1>6. tokens[Vault] \in Nat /\ tokens[Treasury] \in Nat /\ totalCommissions \in Nat
  BY DEF ArenaInv, ArenaTypeOK, Holders
<1> HIDE DEF r, n
<1>7. /\ tokens'[Vault] = tokens[Vault] - Held(m) + HeldBy(r)
      /\ tokens'[Treasury] - tokens[Treasury] = totalCommissions' - totalCommissions
  BY <1>1, <1>2, <1>4, <1>5, <1>6 DEF JoinMatch
<1>8. /\ UNCHANGED <<commissionBps, arenaPaused, totalRewardsPaid>> /\ totalCommissions' \in Nat
      /\ received' \in [MatchIds -> SUBSET (Players \X Nat)]
  BY DEF JoinMatch, ArenaInv, ArenaTypeOK
<1> QED  BY <1>2, <1>3, <1>4, <1>7, <1>8, MatchStep

LEMMA StartInv ==
  ASSUME ArenaInv, NEW m \in MatchIds, StartMatch(m)
  PROVE  ArenaInv'
<1> DEFINE r == [match[m] EXCEPT !.state = "STARTED"]
<1>0. match[m].state = "JOINED"  BY DEF StartMatch, MayStart
<1>1. match[m] \in Match /\ match[m].stake \in Nat /\ Known(match[m])  BY <1>0, MatchFound
<1>2. r \in Match /\ Known(r) /\ HeldBy(r) = Held(m) /\ Held(m) \in Nat
  BY <1>0, <1>1 DEF Match, States, Known, HeldBy, Held, Joined
<1>3. match' = [match EXCEPT ![m] = r]  BY DEF StartMatch
<1> HIDE DEF r
<1>4. /\ tokens \in [Holders -> Nat] /\ tokens[Vault] \in Nat /\ tokens[Treasury] \in Nat
      /\ totalCommissions \in Nat
  BY DEF ArenaInv, ArenaTypeOK, Holders
<1>5. /\ tokens'[Vault] = tokens[Vault] - Held(m) + HeldBy(r)
      /\ tokens'[Treasury] - tokens[Treasury] = totalCommissions' - totalCommissions
  BY <1>2, <1>4 DEF StartMatch
<1>6. /\ UNCHANGED <<commissionBps, arenaPaused, totalRewardsPaid>> /\ totalCommissions' \in Nat
      /\ tokens' \in [Holders -> Nat] /\ allowance' \in [Players -> Nat]
      /\ received' \in [MatchIds -> SUBSET (Players \X Nat)]
  BY DEF StartMatch, ArenaInv, ArenaTypeOK
<1> QED  BY <1>2, <1>3, <1>5, <1>6, MatchStep

LEMMA SettleInv ==
  ASSUME ArenaInv, NEW m \in MatchIds, NEW w \in Players, SettleMatch(m, w)
  PROVE  ArenaInv'
<1> DEFINE r == [match[m] EXCEPT !.state = "SETTLED"]
           pool == match[m].stake * 2
           c == Commission(pool, LockedRate(m))
<1>0. match[m].state = "STARTED"  BY DEF SettleMatch, MaySettle
<1>1. match[m] \in Match /\ match[m].stake \in Nat /\ Known(match[m])  BY <1>0, MatchFound
<1>2. r \in Match /\ Known(r) /\ HeldBy(r) = 0 /\ Held(m) = pool /\ pool \in Nat
  BY <1>0, <1>1 DEF Match, States, Known, HeldBy, Held, Joined
<1>3. match' = [match EXCEPT ![m] = r]  BY DEF SettleMatch
<1>4. c \in 0..pool
  <2>1. LockedRate(m) \in 0..MaxCommissionBps  BY <1>1 DEF LockedRate, Match
  <2> QED  BY <1>2, <2>1, ArenaCommission
<1>5. /\ tokens' = [tokens EXCEPT ![Vault] = @ - pool, ![w] = @ + (pool - c), ![Treasury] = @ + c]
      /\ totalCommissions' = totalCommissions + c
      /\ received' = [received EXCEPT ![m] = {<<w, pool - c>>}]
  BY DEF SettleMatch
<1> HIDE DEF r, pool, c
<1>6. /\ tokens \in [Holders -> Nat] /\ totalCommissions \in Nat
      /\ w \in Holders /\ Vault \in Holders /\ Treasury \in Holders
      /\ w # Vault /\ w # Treasury /\ Vault # Treasury
  BY HoldersAssumption DEF ArenaInv, ArenaTypeOK, Holders
<1>7. pool <= tokens[Vault]  BY <1>2, HeldInVault
<1>8. /\ tokens[Vault] - pool \in Nat /\ tokens[w] + (pool - c) \in Nat
      /\ tokens[Treasury] + c \in Nat /\ pool - c \in Nat
  BY <1>2, <1>4, <1>6, <1>7
<1>9. /\ tokens' \in [Holders -> Nat] /\ tokens'[Vault] = tokens[Vault] - pool
      /\ tokens'[Treasury] = tokens[Treasury] + c
  BY <1>5, <1>6, <1>8
<1>10. /\ tokens'[Vault] = tokens[Vault] - Held(m) + HeldBy(r)
       /\ tokens'[Treasury] - tokens[Treasury] = totalCommissions' - totalCommissions
       /\ totalCommissions' \in Nat
  BY <1>2, <1>4, <1>5, <1>6, <1>8, <1>9
<1>11. /\ UNCHANGED <<commissionBps, arenaPaused, totalRewardsPaid>> /\ allowance' \in [Players -> Nat]
       /\ received' \in [MatchIds -> SUBSET (Players \X Nat)]
  BY <1>5, <1>8 DEF SettleMatch, ArenaInv, ArenaTypeOK
<1> QED  BY <1>2, <1>3, <1>9, <1>10, <1>11, MatchStep

LEMMA CancelInv ==
  ASSUME ArenaInv, NEW m \in MatchIds, CancelMatch(m)
  PROVE  ArenaInv'
<1> DEFINE r == [match[m] EXCEPT !.state = "CANCELLED"]
           n == match[m].stake
           back == Stakers(m)
<1>0. match[m].state \in {"CREATED", "JOINED", "STARTED"}  BY DEF CancelMatch, MayCancel
<1>1. match[m] \in Match /\ n \in Nat /\ Known(match[m])  BY <1>0, MatchFound
<1>2. r \in Match /\ Known(r) /\ HeldBy(r) = 0
  BY <1>0, <1>1 DEF Match, States, Known, HeldBy, Joined
<1>3. match' = [match EXCEPT ![m] = r]  BY DEF CancelMatch
<1>4. back \subseteq Players /\ Held(m) = n * Cardinality(back)
  <2>1. CASE match[m].state = "CREATED"
    <3>1. back = {match[m].playerA} /\ match[m].playerA \in Players /\ Held(m) = n
      BY <1>1, <2>1 DEF Stakers, Known, Held
    <3>2. Cardinality(back) = 1  BY <3>1, FS_Singleton
    <3> QED  BY <1>1, <3>1, <3>2
  <2>2. CASE match[m].state # "CREATED"
    <3>1. /\ back = {match[m].playerA, match[m].playerB} /\ match[m].playerA \in Players
          /\ match[m].playerB \in Players /\ match[m].playerA # match[m].playerB /\ Held(m) = 2 * n
      BY <1>0, <1>1, <2>2 DEF Stakers, Known, Held, Joined
    <3>2. Cardinality({match[m].playerA} \cup {match[m].playerB}) = 2
      <4>1. IsFiniteSet({match[m].playerA}) /\ Cardinality({match[m].playerA}) = 1  BY FS_Singleton
      <4>2. match[m].playerB \notin {match[m].playerA}  BY <3>1
      <4>3. Cardinality({match[m].playerA} \cup {match[m].playerB}) = Cardinality({match[m].playerA}) + 1
        BY <4>1, <4>2, FS_AddElement, Zenon
      <4> QED  BY <4>1, <4>3
    <3>3. back = {match[m].playerA} \cup {match[m].playerB}  BY <3>1
    <3>4. Cardinality(back) = 2  BY <3>2, <3>3
    <3> QED  BY <1>1, <3>1, <3>4
  <2> QED  BY <2>1, <2>2
<1>5. /\ tokens' = [h \in Holders |->
                      IF h = Vault THEN tokens[h] - n * Cardinality(back)
                      ELSE IF h \in back THEN tokens[h] + n ELSE tokens[h]]
      /\ received' = [received EXCEPT ![m] = {<<p, n>> : p \in back}]
  BY DEF CancelMatch
<1> HIDE DEF r, n, back
<1>6. /\ tokens \in [Holders -> Nat] /\ totalCommissions \in Nat
      /\ Vault \in Holders /\ Treasury \in Holders
      /\ Vault \notin Players /\ Treasury \notin Players /\ Vault # Treasury
  BY HoldersAssumption DEF ArenaInv, ArenaTypeOK, Holders
<1>7. tokens[Vault] - Held(m) \in Nat  BY HeldInVault
<1>8. /\ tokens' \in [Holders -> Nat] /\ tokens'[Vault] = tokens[Vault] - Held(m)
      /\ tokens'[Treasury] = tokens[Treasury]
  BY <1>1, <1>4, <1>5, <1>6, <1>7
<1>9. /\ tokens'[Vault] = tokens[Vault] - Held(m) + HeldBy(r)
      /\ tokens'[Treasury] - tokens[Treasury] = totalCommissions' - totalCommissions
  <2>1. totalCommissions' = totalCommissions  BY DEF CancelMatch
  <2>2. tokens[Treasury] \in Nat  BY <1>6
  <2> QED  BY <1>2, <1>6, <1>7, <1>8, <2>1, <2>2
<1>10. received' \in [MatchIds -> SUBSET (Players \X Nat)]
  <2>1. {<<p, n>> : p \in back} \in SUBSET (Players \X Nat)  BY <1>1, <1>4
  <2> HIDE DEF back
  <2> QED  BY <1>5, <2>1 DEF ArenaInv, ArenaTypeOK
<1>11. /\ UNCHANGED <<commissionBps, arenaPaused, totalRewardsPaid>> /\ allowance' \in [Players -> Nat]
       /\ totalCommissions' \in Nat
  BY DEF CancelMatch, ArenaInv, ArenaTypeOK
<1> QED  BY <1>2, <1>3, <1>8, <1>9, <1>10, <1>11, MatchStep

\* The treasury pays or takes in, and its books say so.
LEMMA TreasuryStep ==
  ASSUME ArenaInv, UNCHANGED <<match, commissionBps, arenaPaused, allowance, received>>,
         tokens' \in [Holders -> Nat], tokens'[Vault] = tokens[Vault],
         totalCommissions' \in Nat, totalRewardsPaid' \in Nat, TreasuryBooks'
  PROVE  ArenaInv'
<1>1. ArenaTypeOK' /\ PlayersKnown'
  BY DEF ArenaInv, ArenaTypeOK, PlayersKnown
<1>2. SumIs(Holdings, tokens[Vault])'
  <2>1. Holdings' = Holdings  BY DEF Holdings, Held
  <2> QED  BY <2>1 DEF ArenaInv, SumIs
<1> QED  BY <1>1, <1>2 DEF ArenaInv

LEMMA BooksTyped ==
  ASSUME ArenaInv
  PROVE  /\ tokens \in [Holders -> Nat] /\ totalCommissions \in Nat /\ totalRewardsPaid \in Nat
         /\ tokens[Treasury] + totalRewardsPaid = InitialTreasury + totalCommissions
         /\ InitialTreasury \in Nat /\ Players \subseteq Holders
         /\ Vault \in Holders /\ Treasury \in Holders /\ Tournament \in Holders
         /\ Vault \notin Players /\ Treasury \notin Players /\ Tournament \notin Players
         /\ Vault # Treasury /\ Vault # Tournament /\ Treasury # Tournament
BY AmountsAssumption, HoldersAssumption DEF ArenaInv, ArenaTypeOK, TreasuryBooks, Holders

LEMMA DistributeInv ==
  ASSUME ArenaInv, NEW p \in Players, NEW n \in Nat, Distribute(p, n)
  PROVE  ArenaInv'
<1>1. /\ tokens' = [tokens EXCEPT ![Treasury] = @ - n, ![p] = @ + n]
      /\ totalRewardsPaid' = totalRewardsPaid + n /\ tokens[Treasury] >= n
      /\ UNCHANGED <<match, commissionBps, arenaPaused, allowance, totalCommissions, received>>
  BY DEF Distribute, MayDistribute
<1>2. p \in Holders /\ p # Vault /\ p # Treasury  BY BooksTyped
<1>3. tokens[Treasury] - n \in Nat /\ tokens[p] + n \in Nat  BY <1>1, <1>2, BooksTyped
<1>4. /\ tokens' \in [Holders -> Nat] /\ tokens'[Vault] = tokens[Vault]
      /\ tokens'[Treasury] = tokens[Treasury] - n
  BY <1>1, <1>2, <1>3, BooksTyped
<1>5. totalRewardsPaid' \in Nat /\ totalCommissions' \in Nat /\ TreasuryBooks'
  BY <1>1, <1>3, <1>4, BooksTyped DEF TreasuryBooks
<1> QED  BY <1>1, <1>4, <1>5, TreasuryStep

LEMMA TournamentInv ==
  ASSUME ArenaInv, NEW n \in Nat, TournamentCommission(n)
  PROVE  ArenaInv'
<1>1. /\ tokens' = [tokens EXCEPT ![Tournament] = @ - n, ![Treasury] = @ + n]
      /\ totalCommissions' = totalCommissions + n /\ tokens[Tournament] >= n
      /\ UNCHANGED <<match, commissionBps, arenaPaused, allowance, totalRewardsPaid, received>>
  BY DEF TournamentCommission
<1>2. tokens[Tournament] - n \in Nat /\ tokens[Treasury] + n \in Nat  BY <1>1, BooksTyped
<1>3. /\ tokens' \in [Holders -> Nat] /\ tokens'[Vault] = tokens[Vault]
      /\ tokens'[Treasury] = tokens[Treasury] + n
  BY <1>1, <1>2, BooksTyped
<1>4. totalRewardsPaid' \in Nat /\ totalCommissions' \in Nat /\ TreasuryBooks'
  BY <1>1, <1>2, <1>3, BooksTyped DEF TreasuryBooks
<1> QED  BY <1>1, <1>3, <1>4, TreasuryStep

LEMMA ArenaInvStep == ArenaInv /\ [ArenaNext]_arenaVars => ArenaInv'
<1> SUFFICES ASSUME ArenaInv, [ArenaNext]_arenaVars PROVE ArenaInv'  OBVIOUS
<1>1. ASSUME NEW m \in MatchIds, Relayer(m) PROVE ArenaInv'
  BY <1>1, CreateInv, JoinInv, StartInv, SettleInv, CancelInv DEF Relayer
<1>2. ASSUME NEW p \in Players, NEW n \in Allowances, Approve(p, n) PROVE ArenaInv'
  <2>1. n \in Nat  BY AmountsAssumption
  <2>2. /\ UNCHANGED <<match, commissionBps, arenaPaused, tokens, totalCommissions, totalRewardsPaid, received>>
        /\ allowance' = [allowance EXCEPT ![p] = n]
    BY <1>2 DEF Approve
  <2>3. ArenaTypeOK'  BY <2>1, <2>2 DEF ArenaInv, ArenaTypeOK
  <2> QED  BY <2>2, <2>3 DEF ArenaInv, PlayersKnown, Holdings, Held, TreasuryBooks
<1>3. CASE ArenaAdmin
  <2>1. /\ UNCHANGED <<match, tokens, allowance, totalCommissions, totalRewardsPaid, received>>
        /\ commissionBps' \in 0..MaxCommissionBps /\ arenaPaused' \in BOOLEAN
    BY <1>3, AmountsAssumption DEF ArenaAdmin, SetCommissionBps, SetPause, ArenaInv, ArenaTypeOK
  <2>2. ArenaTypeOK'  BY <2>1 DEF ArenaInv, ArenaTypeOK
  <2> QED  BY <2>1, <2>2 DEF ArenaInv, PlayersKnown, Holdings, Held, TreasuryBooks
<1>4. CASE UNCHANGED arenaVars
  BY <1>4 DEF arenaVars, ArenaInv, ArenaTypeOK, PlayersKnown, Holdings, Held, TreasuryBooks
<1>5. CASE TreasurySide
  <2>1. ASSUME NEW p \in Players, NEW n \in Rewards, Distribute(p, n) PROVE ArenaInv'
    BY <2>1, AmountsAssumption, DistributeInv
  <2>2. ASSUME NEW n \in 1..tokens[Tournament], TournamentCommission(n) PROVE ArenaInv'
    <3>1. n \in Nat  BY BooksTyped
    <3> QED  BY <2>2, <3>1, TournamentInv
  <2> QED  BY <1>5, <2>1, <2>2 DEF TreasurySide
<1> QED  BY <1>1, <1>2, <1>3, <1>4, <1>5 DEF ArenaNext

THEOREM ArenaInvariance == ArenaSpec => []ArenaInv
<1> QED  BY ArenaInvInit, ArenaInvStep, PTL DEF ArenaSpec

\* Whatever is staked, settled, cancelled or repriced, the escrow holds the
\* stakes of the open matches to the token.
THEOREM VaultAlwaysExact == ArenaSpec => []VaultExact
<1>1. ArenaInv => VaultExact  BY DEF ArenaInv, VaultExact, HeldTokens, Holdings, SumIs
<1> QED  BY <1>1, ArenaInvariance, PTL

\* The treasury holds what it was minted and every commission reported to it,
\* by the escrow or by tournaments, less every reward paid out of it.
THEOREM TreasuryBooksRight == ArenaSpec => []TreasuryBooks
<1>1. ArenaInv => TreasuryBooks  BY DEF ArenaInv
<1> QED  BY <1>1, ArenaInvariance, PTL

-----------------------------------------------------------------------------
(* The contract keeps WagerPromise.                                        *)

StakesIn(r) ==
  IF r.playerA = NoPlayer THEN {}
  ELSE {<<p, r.stake>> : p \in {r.playerA, r.playerB} \ {NoPlayer}}
Ended(r) == r.state \in {"SETTLED", "CANCELLED"}

\* What the promise sees of a transaction that rewrites one match.
LEMMA PromiseSees ==
  ASSUME ArenaInv, NEW m \in MatchIds, NEW r, match' = [match EXCEPT ![m] = r],
         match[m].state \notin {"SETTLED", "CANCELLED"}
  PROVE  /\ [i \in MatchIds |-> StakesOf(i)]' = [[i \in MatchIds |-> StakesOf(i)] EXCEPT ![m] = StakesIn(r)]
         /\ [i \in MatchIds |-> match[i].bps]' = [[i \in MatchIds |-> match[i].bps] EXCEPT ![m] = r.bps]
         /\ {i \in MatchIds : match[i].state \in {"SETTLED", "CANCELLED"}}' =
              {i \in MatchIds : match[i].state \in {"SETTLED", "CANCELLED"}}
                \cup (IF Ended(r) THEN {m} ELSE {})
<1>1. match \in [MatchIds -> Match]  BY DEF ArenaInv, ArenaTypeOK
<1>2. match'[m] = r /\ \A i \in MatchIds : i # m => match'[i] = match[i]  BY <1>1
<1>3. StakesOf(m)' = StakesIn(r) /\ \A i \in MatchIds : i # m => StakesOf(i)' = StakesOf(i)
  BY <1>2 DEF StakesOf, StakesIn
<1>4. [i \in MatchIds |-> StakesOf(i)]' = [[i \in MatchIds |-> StakesOf(i)] EXCEPT ![m] = StakesIn(r)]
  BY <1>3
<1>5. [i \in MatchIds |-> match[i].bps]' = [[i \in MatchIds |-> match[i].bps] EXCEPT ![m] = r.bps]
  <2>1. match'[m].bps = r.bps /\ \A i \in MatchIds : i # m => match'[i].bps = match[i].bps  BY <1>2
  <2> QED  BY <2>1
<1>6. {i \in MatchIds : match[i].state \in {"SETTLED", "CANCELLED"}}' =
        {i \in MatchIds : match[i].state \in {"SETTLED", "CANCELLED"}}
          \cup (IF Ended(r) THEN {m} ELSE {})
  <2>1. match'[m].state = r.state /\ \A i \in MatchIds : i # m => match'[i].state = match[i].state  BY <1>2
  <2> QED  BY <2>1 DEF Ended
<1> QED  BY <1>4, <1>5, <1>6

\* What it sees of one that leaves the match open, and of one that ends it.
LEMMA PromiseSeesOpen ==
  ASSUME ArenaInv, NEW m \in MatchIds, NEW r, match' = [match EXCEPT ![m] = r],
         match[m].state \notin {"SETTLED", "CANCELLED"}, r.bps = match[m].bps, ~Ended(r)
  PROVE  /\ [i \in MatchIds |-> StakesOf(i)]' = [[i \in MatchIds |-> StakesOf(i)] EXCEPT ![m] = StakesIn(r)]
         /\ [i \in MatchIds |-> match[i].bps]' = [i \in MatchIds |-> match[i].bps]
         /\ {i \in MatchIds : match[i].state \in {"SETTLED", "CANCELLED"}}' =
              {i \in MatchIds : match[i].state \in {"SETTLED", "CANCELLED"}}
<1>1. [[i \in MatchIds |-> match[i].bps] EXCEPT ![m] = match[m].bps] = [i \in MatchIds |-> match[i].bps]
  OBVIOUS
<1> DEFINE over == {i \in MatchIds : match[i].state \in {"SETTLED", "CANCELLED"}}
<1>2. /\ [i \in MatchIds |-> StakesOf(i)]' = [[i \in MatchIds |-> StakesOf(i)] EXCEPT ![m] = StakesIn(r)]
      /\ [i \in MatchIds |-> match[i].bps]' = [[i \in MatchIds |-> match[i].bps] EXCEPT ![m] = r.bps]
      /\ over' = over \cup (IF Ended(r) THEN {m} ELSE {})
  BY PromiseSees
<1> HIDE DEF over
<1>3. over' = over  BY <1>2
<1>4. [i \in MatchIds |-> match[i].bps]' = [i \in MatchIds |-> match[i].bps]  BY <1>1, <1>2
<1> QED  BY <1>2, <1>3, <1>4 DEF over

LEMMA PromiseSeesEnd ==
  ASSUME ArenaInv, NEW m \in MatchIds, NEW r, match' = [match EXCEPT ![m] = r],
         match[m].state \notin {"SETTLED", "CANCELLED"}, r.bps = match[m].bps, Ended(r),
         StakesIn(r) = StakesOf(m)
  PROVE  /\ [i \in MatchIds |-> StakesOf(i)]' = [i \in MatchIds |-> StakesOf(i)]
         /\ [i \in MatchIds |-> match[i].bps]' = [i \in MatchIds |-> match[i].bps]
         /\ {i \in MatchIds : match[i].state \in {"SETTLED", "CANCELLED"}}' =
              {i \in MatchIds : match[i].state \in {"SETTLED", "CANCELLED"}} \cup {m}
<1> DEFINE rates == [i \in MatchIds |-> match[i].bps]
           stakes == [i \in MatchIds |-> StakesOf(i)]
           over == {i \in MatchIds : match[i].state \in {"SETTLED", "CANCELLED"}}
<1>1. [rates EXCEPT ![m] = match[m].bps] = rates  OBVIOUS
<1>2. [stakes EXCEPT ![m] = StakesOf(m)] = stakes  OBVIOUS
<1>3. (IF Ended(r) THEN {m} ELSE {}) = {m}  OBVIOUS
<1>4. /\ stakes' = [stakes EXCEPT ![m] = StakesIn(r)] /\ rates' = [rates EXCEPT ![m] = r.bps]
      /\ over' = over \cup (IF Ended(r) THEN {m} ELSE {})
  BY PromiseSees
<1> HIDE DEF rates, stakes
<1>5. stakes' = stakes /\ rates' = rates /\ over' = over \cup {m}  BY <1>1, <1>2, <1>3, <1>4
<1> QED  BY <1>5 DEF rates, stakes

LEMMA PromiseInit == ArenaInit => Promise!Init
<1> SUFFICES ASSUME ArenaInit PROVE Promise!Init  OBVIOUS
<1>1. \A m \in MatchIds : match[m] = BlankMatch /\ StakesOf(m) = {} /\ received[m] = {}
  BY DEF ArenaInit, StakesOf, BlankMatch
<1>2. BlankMatch.bps = 0 /\ BlankMatch.state = "NONE"  BY DEF BlankMatch
<1> QED  BY <1>1, <1>2 DEF Promise!Init, ArenaInit

LEMMA PromiseStep == ArenaInv /\ [ArenaNext]_arenaVars => [Promise!Next]_(Promise!pvars)
<1> SUFFICES ASSUME ArenaInv, [ArenaNext]_arenaVars PROVE Promise!Next \/ UNCHANGED Promise!pvars
  OBVIOUS
<1> DEFINE staked == [i \in MatchIds |-> StakesOf(i)]
           rates == [i \in MatchIds |-> match[i].bps]
           over == {i \in MatchIds : match[i].state \in {"SETTLED", "CANCELLED"}}
<1>0. /\ match \in [MatchIds -> Match] /\ received \in [MatchIds -> SUBSET (Players \X Nat)]
      /\ NoPlayer \notin Players
  BY HoldersAssumption DEF ArenaInv, ArenaTypeOK, Holders
<1>1. ASSUME NEW m \in MatchIds, NEW p \in Players, NEW n \in Stakes, CreateMatch(m, p, n)
      PROVE  Promise!Open(m)
  <2> DEFINE r == [playerA |-> p, playerB |-> NoPlayer, stake |-> n, state |-> "CREATED",
                   bps |-> commissionBps]
  <2>1. match' = [match EXCEPT ![m] = r] /\ match[m].state = "NONE" /\ received' = received
    BY <1>1 DEF CreateMatch, MayCreate
  <2>2. StakesIn(r) = {<<p, n>>} /\ ~Ended(r) /\ r.bps = commissionBps
    BY <1>0 DEF StakesIn, Ended
  <2>3. commissionBps \in 0..MaxCommissionBps  BY DEF ArenaInv, ArenaTypeOK
  <2>4. match[m] = BlankMatch  BY <2>1 DEF ArenaInv, PlayersKnown
  <2>5. StakesOf(m) = {}  BY <2>4 DEF StakesOf, BlankMatch
  <2> HIDE DEF r
  <2>6. /\ staked' = [staked EXCEPT ![m] = {<<p, n>>}]
        /\ rates' = [rates EXCEPT ![m] = commissionBps]
        /\ over' = over
    BY <2>1, <2>2, PromiseSees
  <2>7. staked[m] = {}  BY <2>5
  <2> QED  BY <2>1, <2>3, <2>6, <2>7 DEF Promise!Open
<1>2. ASSUME NEW m \in MatchIds, NEW q \in Players, JoinMatch(m, q)
      PROVE  Promise!Match(m)
  <2> DEFINE r == [match[m] EXCEPT !.playerB = q, !.state = "JOINED"]
             p == match[m].playerA
             n == match[m].stake
  <2>1. /\ match' = [match EXCEPT ![m] = r] /\ match[m].state = "CREATED" /\ q # p
        /\ received' = received
    BY <1>2 DEF JoinMatch, MayJoin
  <2>2. match[m] \in Match /\ n \in Stakes /\ p \in Players /\ match[m].playerB = NoPlayer
    BY <2>1, MatchFound DEF Known
  <2>3. r.playerA = p /\ r.playerB = q /\ r.stake = n /\ r.bps = match[m].bps /\ r.state = "JOINED"
    BY <2>2 DEF Match
  <2>4. StakesOf(m) = {<<p, n>>}  BY <1>0, <2>2 DEF StakesOf
  <2> HIDE DEF r, p, n
  <2>5. StakesIn(r) = {<<p, n>>, <<q, n>>} /\ ~Ended(r)
    BY <1>0, <2>2, <2>3 DEF StakesIn, Ended
  <2>6. /\ staked' = [staked EXCEPT ![m] = {<<p, n>>, <<q, n>>}]
        /\ rates' = rates /\ over' = over
    <3>1. match[m].state \notin {"SETTLED", "CANCELLED"}  BY <2>1
    <3>2. staked' = [staked EXCEPT ![m] = StakesIn(r)] /\ rates' = rates /\ over' = over
      BY <2>1, <2>3, <2>5, <3>1, PromiseSeesOpen
    <3> QED  BY <2>5, <3>2
  <2>7. m \notin over  BY <2>1
  <2>8. over' = over /\ rates' = rates  BY <2>6
  <2>9. staked[m] = {<<p, n>>}  BY <2>4
  <2> HIDE DEF staked, rates, over
  <2>10. m \notin over /\ (\E x, y \in Players, k \in Stakes :
           /\ x # y /\ staked[m] = {<<x, k>>}
           /\ staked' = [staked EXCEPT ![m] = {<<x, k>>, <<y, k>>}])
    BY <2>1, <2>2, <2>6, <2>7, <2>9
  <2> QED  BY <2>1, <2>8, <2>10 DEF Promise!Match, staked, rates, over
<1>3. ASSUME NEW m \in MatchIds, StartMatch(m) PROVE UNCHANGED Promise!pvars
  <2> DEFINE r == [match[m] EXCEPT !.state = "STARTED"]
  <2>1. match' = [match EXCEPT ![m] = r] /\ match[m].state = "JOINED" /\ received' = received
    BY <1>3 DEF StartMatch, MayStart
  <2>2. match[m] \in Match  BY <1>0
  <2>3. /\ r.playerA = match[m].playerA /\ r.playerB = match[m].playerB
        /\ r.stake = match[m].stake /\ r.bps = match[m].bps /\ r.state = "STARTED"
    BY <2>2 DEF Match
  <2> HIDE DEF r
  <2>4. StakesIn(r) = StakesOf(m) /\ ~Ended(r)  BY <2>3 DEF StakesIn, StakesOf, Ended
  <2>5. /\ staked' = [staked EXCEPT ![m] = StakesOf(m)]
        /\ rates' = rates /\ over' = over
    <3>1. match[m].state \notin {"SETTLED", "CANCELLED"}  BY <2>1
    <3>2. staked' = [staked EXCEPT ![m] = StakesIn(r)] /\ rates' = rates /\ over' = over
      BY <2>1, <2>3, <2>4, <3>1, PromiseSeesOpen
    <3> QED  BY <2>4, <3>2
  <2>6. [staked EXCEPT ![m] = StakesOf(m)] = staked  OBVIOUS
  <2>7. staked' = staked /\ rates' = rates /\ over' = over  BY <2>5, <2>6
  <2> QED  BY <2>1, <2>7 DEF Promise!pvars
<1>4. ASSUME NEW m \in MatchIds, NEW w \in Players, SettleMatch(m, w)
      PROVE  Promise!Award(m)
  <2> DEFINE r == [match[m] EXCEPT !.state = "SETTLED"]
             n == match[m].stake
             bps == match[m].bps
             c == Commission(n * 2, bps)
  <2>1. /\ match' = [match EXCEPT ![m] = r] /\ match[m].state = "STARTED"
        /\ w \in {match[m].playerA, match[m].playerB}
        /\ received' = [received EXCEPT ![m] = {<<w, n * 2 - c>>}]
    BY <1>4 DEF SettleMatch, MaySettle, LockedRate
  <2>2. /\ match[m] \in Match /\ n \in Stakes /\ n \in Nat /\ match[m].playerA \in Players
        /\ match[m].playerB \in Players /\ match[m].playerA # match[m].playerB
    BY <2>1, MatchFound DEF Known, Joined
  <2>3. /\ r.playerA = match[m].playerA /\ r.playerB = match[m].playerB
        /\ r.stake = match[m].stake /\ r.bps = bps /\ r.state = "SETTLED" /\ bps \in 0..MaxCommissionBps
    BY <2>2 DEF Match
  <2> HIDE DEF r
  <2>4. StakesIn(r) = StakesOf(m) /\ Ended(r)  BY <2>3 DEF StakesIn, StakesOf, Ended
  <2>5. StakesOf(m) = {<<match[m].playerA, n>>, <<match[m].playerB, n>>}
    BY <1>0, <2>2 DEF StakesOf
  <2>6. /\ c \in 0..(n * 2) /\ c * BpsDenominator <= n * 2 * bps
        /\ n * 2 * bps < (c + 1) * BpsDenominator
    <3>1. n * 2 \in Nat  BY <2>2
    <3> QED  BY <2>3, <3>1, ArenaCommission
  <2> HIDE DEF c, bps, n
  <2>7. n * 2 = 2 * n  BY <2>2
  <2>8. staked' = staked /\ rates' = rates /\ over' = over \cup {m}
    BY <2>1, <2>3, <2>4, PromiseSeesEnd DEF bps
  <2>9. staked' = staked /\ rates' = rates  BY <2>8
  <2>10. m \notin over /\ rates[m] = bps /\ staked[m] = StakesOf(m)  BY <2>1 DEF bps
  <2> HIDE DEF staked, rates, over
  <2>11. PICK p, q \in Players : p # q /\ p = w /\ StakesOf(m) = {<<p, n>>, <<q, n>>}
    BY <2>1, <2>2, <2>5
  <2>12. /\ c \in 0..(2 * n) /\ c * BpsDenominator <= 2 * n * rates[m]
         /\ 2 * n * rates[m] < (c + 1) * BpsDenominator
         /\ received' = [received EXCEPT ![m] = {<<p, 2 * n - c>>}]
    BY <2>1, <2>6, <2>7, <2>10, <2>11
  <2>13. \E x, y \in Players, k \in Stakes : \E commission \in 0..(2 * k) :
           /\ x # y /\ staked[m] = {<<x, k>>, <<y, k>>}
           /\ commission * BpsDenominator <= 2 * k * rates[m]
           /\ 2 * k * rates[m] < (commission + 1) * BpsDenominator
           /\ received' = [received EXCEPT ![m] = {<<x, 2 * k - commission>>}]
    BY <2>2, <2>10, <2>11, <2>12
  <2>14. m \notin over /\ over' = over \cup {m}  BY <2>8, <2>10
  <2> QED  BY <2>9, <2>13, <2>14 DEF Promise!Award, staked, rates, over
<1>5. ASSUME NEW m \in MatchIds, CancelMatch(m)
      PROVE  Promise!Refund(m)
  <2> DEFINE r == [match[m] EXCEPT !.state = "CANCELLED"]
  <2>1. /\ match' = [match EXCEPT ![m] = r] /\ match[m].state \in {"CREATED", "JOINED", "STARTED"}
        /\ received' = [received EXCEPT ![m] = {<<p, match[m].stake>> : p \in Stakers(m)}]
    BY <1>5 DEF CancelMatch, MayCancel
  <2>2. /\ match[m] \in Match /\ match[m].playerA \in Players
        /\ match[m].state = "CREATED" => match[m].playerB = NoPlayer
        /\ match[m].state # "CREATED" => match[m].playerB \in Players
    BY <2>1, MatchFound DEF Known, Joined
  <2>3. /\ r.playerA = match[m].playerA /\ r.playerB = match[m].playerB
        /\ r.stake = match[m].stake /\ r.bps = match[m].bps /\ r.state = "CANCELLED"
    BY <2>2 DEF Match
  <2> HIDE DEF r
  <2>4. StakesIn(r) = StakesOf(m) /\ Ended(r)  BY <2>3 DEF StakesIn, StakesOf, Ended
  <2>5. Stakers(m) = {match[m].playerA, match[m].playerB} \ {NoPlayer}
    BY <1>0, <2>2 DEF Stakers
  <2>6. StakesOf(m) = {<<p, match[m].stake>> : p \in Stakers(m)} /\ StakesOf(m) # {}
    <3>1. match[m].playerA # NoPlayer  BY <1>0, <2>2
    <3>2. StakesOf(m) = {<<p, match[m].stake>> : p \in Stakers(m)}
      BY <2>5, <3>1 DEF StakesOf
    <3>3. match[m].playerA \in Stakers(m)  BY <2>5, <3>1
    <3> QED  BY <3>2, <3>3
  <2>7. staked' = staked /\ rates' = rates /\ over' = over \cup {m}
    BY <2>1, <2>3, <2>4, PromiseSeesEnd
  <2>8. staked' = staked /\ rates' = rates  BY <2>7
  <2>9. m \notin over /\ staked[m] = StakesOf(m)  BY <2>1
  <2>10. m \notin over /\ staked[m] # {} /\ received' = [received EXCEPT ![m] = staked[m]]
    BY <2>1, <2>6, <2>9
  <2> QED  BY <2>7, <2>8, <2>10 DEF Promise!Refund
<1>6. ASSUME UNCHANGED <<match, received>> PROVE UNCHANGED Promise!pvars
  BY <1>6 DEF Promise!pvars, StakesOf
<1>7. CASE \/ ArenaAdmin \/ (\E p \in Players, n \in Allowances : Approve(p, n))
           \/ TreasurySide \/ UNCHANGED arenaVars
  BY <1>6, <1>7
  DEF ArenaAdmin, SetCommissionBps, SetPause, Approve, TreasurySide, Distribute,
      TournamentCommission, arenaVars
<1>8. ASSUME NEW m \in MatchIds, Relayer(m) PROVE Promise!Next \/ UNCHANGED Promise!pvars
  BY <1>1, <1>2, <1>3, <1>4, <1>5, <1>8 DEF Relayer, Promise!Next
<1> QED  BY <1>7, <1>8 DEF ArenaNext

\* The contract implements its promise: equal stakes, the commission agreed on
\* when the match was created, and one end for every match.
THEOREM ArenaKeepsPromise == ArenaSpec => KeepsWagerPromise
<1>1. ArenaInit => Promise!Init  BY PromiseInit
<1>2. ArenaInv /\ [ArenaNext]_arenaVars => [Promise!Next]_(Promise!pvars)  BY PromiseStep
<1> QED  BY <1>1, <1>2, ArenaInvariance, PTL DEF ArenaSpec, KeepsWagerPromise, Promise!Spec

-----------------------------------------------------------------------------
(* The services.  What a handler remembers of the chain and of the rows    *)
(* stays true while it waits, because neither ever goes back.              *)

Ran == {"STARTED", "SETTLED", "CANCELLED"}
PaidTo(b) == {x[1] : x \in received[b]}

PlayersAsPaired ==
  \A b \in MatchIds : match[b].state # "NONE" =>
    match[b].playerA = Challenger(b) /\ match[b].playerB \in {NoPlayer, Opponent(b)}

Truthful(t) ==
  /\ t.step = "record" =>
       /\ match[t.battle].state \in Ran
       /\ match[t.battle].playerA = Challenger(t.battle) /\ match[t.battle].playerB = Opponent(t.battle)
  /\ t.step \in EndSteps => t.winner \in Agents
  /\ t.step \in {"result", "find", "settle", "settled"} => rated[t.battle] > 0
  /\ t.step \in {"find", "settle", "settled"} => t.winner \in results[t.battle]
  /\ t.step = "settled" => match[t.battle].state = "SETTLED" /\ PaidTo(t.battle) = {Owner[t.winner]}

WagerInv ==
  /\ ArenaInv
  /\ WagerTypeOK
  /\ PlayersAsPaired
  /\ RecordFollowsChain
  /\ PaidAfterResult
  /\ \A h \in Handlers : Truthful(task[h])

LEMMA WagerInvInit == WagerInit => WagerInv
<1> SUFFICES ASSUME WagerInit PROVE WagerInv  OBVIOUS
<1>1. ArenaInv  BY ArenaInvInit DEF WagerInit
<1>2. \A b \in MatchIds : match[b].state = "NONE" /\ received[b] = {}
  BY DEF WagerInit, ArenaInit, BlankMatch
<1>3. WagerTypeOK  BY <1>1 DEF WagerInit, WagerTypeOK, ArenaInv, Statuses, Tasks
<1>4. PlayersAsPaired /\ PaidAfterResult  BY <1>2 DEF PlayersAsPaired, PaidAfterResult
<1>5. RecordFollowsChain  BY DEF WagerInit, RecordFollowsChain
<1>6. \A h \in Handlers : Truthful(task[h])  BY DEF WagerInit, Truthful, Idle, EndSteps
<1> QED  BY <1>1, <1>3, <1>4, <1>5, <1>6 DEF WagerInv

\* A handler that is at a step has a battle of its own, whose owners play.
LEMMA AtWork ==
  ASSUME WagerInv, NEW h \in Handlers, task[h].step # "idle"
  PROVE  /\ task[h] \in [step : Steps, battle : MatchIds, winner : Agents \cup {NoAgent}, waits : BOOLEAN]
         /\ task[h].battle \in MatchIds
<1>1. task[h] \in Tasks  BY DEF WagerInv, WagerTypeOK
<1>2. task[h] # Idle  BY DEF Idle
<1> QED  BY <1>1, <1>2 DEF Tasks

LEMMA OwnersPlay ==
  ASSUME NEW b \in MatchIds
  PROVE  /\ Challenger(b) \in Players /\ Opponent(b) \in Players /\ Wagered[b] \in Stakes
         /\ Pair[b][1] \in Agents /\ Pair[b][2] \in Agents
<1>1. Pair[b] \in Agents \X Agents  BY WagerAssumption
<1>2. Pair[b][1] \in Agents /\ Pair[b][2] \in Agents  BY <1>1
<1> QED  BY <1>2, WagerAssumption DEF Challenger, Opponent

-----------------------------------------------------------------------------
(* What each transaction does to the matches.                              *)

ChainMoves ==
  \A b \in MatchIds :
    /\ match[b].state \in Ran =>
         /\ match'[b].state \in Ran
         /\ match'[b].playerA = match[b].playerA /\ match'[b].playerB = match[b].playerB
    /\ match[b].state = "SETTLED" => match'[b].state = "SETTLED" /\ received'[b] = received[b]

NoneSettles == \A b \in MatchIds : match'[b].state = "SETTLED" => match[b].state = "SETTLED"

LEMMA ChainStill ==
  ASSUME WagerInv, UNCHANGED <<match, received>>
  PROVE  ChainMoves /\ NoneSettles /\ PlayersAsPaired'
BY DEF ChainMoves, NoneSettles, WagerInv, PlayersAsPaired, Challenger, Opponent

LEMMA CreateMoves ==
  ASSUME WagerInv, NEW m \in MatchIds, CreateMatch(m, Challenger(m), Wagered[m])
  PROVE  ChainMoves /\ NoneSettles /\ PlayersAsPaired'
<1> DEFINE r == [playerA |-> Challenger(m), playerB |-> NoPlayer, stake |-> Wagered[m],
                 state |-> "CREATED", bps |-> commissionBps]
<1>1. match' = [match EXCEPT ![m] = r] /\ match[m].state = "NONE" /\ received' = received
  BY DEF CreateMatch, MayCreate
<1>2. r.state = "CREATED" /\ r.playerA = Challenger(m) /\ r.playerB = NoPlayer  OBVIOUS
<1> HIDE DEF r
<1>3. match'[m] = r /\ \A b \in MatchIds : b # m => match'[b] = match[b]
  BY <1>1 DEF WagerInv, ArenaInv, ArenaTypeOK
<1> QED  BY <1>1, <1>2, <1>3
         DEF ChainMoves, NoneSettles, WagerInv, PlayersAsPaired, Challenger, Opponent, Ran

LEMMA JoinMoves ==
  ASSUME WagerInv, NEW m \in MatchIds, JoinMatch(m, Opponent(m))
  PROVE  ChainMoves /\ NoneSettles /\ PlayersAsPaired'
<1> DEFINE r == [match[m] EXCEPT !.playerB = Opponent(m), !.state = "JOINED"]
<1>1. match' = [match EXCEPT ![m] = r] /\ match[m].state = "CREATED" /\ received' = received
  BY DEF JoinMatch, MayJoin
<1>0. match[m] \in Match  BY DEF WagerInv, ArenaInv, ArenaTypeOK
<1>2. r.state = "JOINED" /\ r.playerA = match[m].playerA /\ r.playerB = Opponent(m)  BY <1>0 DEF Match
<1> HIDE DEF r
<1>3. match'[m] = r /\ \A b \in MatchIds : b # m => match'[b] = match[b]
  BY <1>1 DEF WagerInv, ArenaInv, ArenaTypeOK
<1> QED  BY <1>1, <1>2, <1>3
         DEF ChainMoves, NoneSettles, WagerInv, PlayersAsPaired, Challenger, Opponent, Ran

\* A match that goes from a state to a later one, with the players it has.
LEMMA StateMoves ==
  ASSUME WagerInv, NEW m \in MatchIds, NEW state, match' = [match EXCEPT ![m].state = state],
         match[m].state \in {"CREATED", "JOINED", "STARTED"}, state \in Ran,
         \A b \in MatchIds : b # m => received'[b] = received[b]
  PROVE  /\ ChainMoves /\ PlayersAsPaired' /\ (state # "SETTLED" => NoneSettles)
         /\ match'[m].state = state
         /\ match'[m].playerA = match[m].playerA /\ match'[m].playerB = match[m].playerB
         /\ \A b \in MatchIds : b # m => match'[b] = match[b]
<1> DEFINE r == [match[m] EXCEPT !.state = state]
<1>0. match[m] \in Match  BY DEF WagerInv, ArenaInv, ArenaTypeOK
<1>1. match' = [match EXCEPT ![m] = r]  OBVIOUS
<1>2. r.state = state /\ r.playerA = match[m].playerA /\ r.playerB = match[m].playerB
  BY <1>0 DEF Match
<1> HIDE DEF r
<1>3. match'[m] = r /\ \A b \in MatchIds : b # m => match'[b] = match[b]
  BY <1>1 DEF WagerInv, ArenaInv, ArenaTypeOK
<1> QED  BY <1>2, <1>3
         DEF ChainMoves, NoneSettles, WagerInv, PlayersAsPaired, Challenger, Opponent, Ran

LEMMA StartMoves ==
  ASSUME WagerInv, NEW m \in MatchIds, StartMatch(m)
  PROVE  /\ ChainMoves /\ NoneSettles /\ PlayersAsPaired'
         /\ match'[m].state = "STARTED"
         /\ match'[m].playerA = Challenger(m) /\ match'[m].playerB = Opponent(m)
<1>1. /\ match' = [match EXCEPT ![m].state = "STARTED"] /\ match[m].state = "JOINED"
      /\ received' = received
  BY DEF StartMatch, MayStart
<1>2. match[m].playerA = Challenger(m) /\ match[m].playerB \in {NoPlayer, Opponent(m)}
  BY <1>1 DEF WagerInv, PlayersAsPaired
<1>3. match[m].playerB \in Players /\ NoPlayer \notin Players
  BY <1>1, HoldersAssumption DEF WagerInv, ArenaInv, PlayersKnown, Joined, Holders
<1>4. /\ ChainMoves /\ PlayersAsPaired' /\ NoneSettles /\ match'[m].state = "STARTED"
      /\ match'[m].playerA = match[m].playerA /\ match'[m].playerB = match[m].playerB
  BY <1>1, StateMoves DEF Ran
<1> QED  BY <1>2, <1>3, <1>4

LEMMA SettleMoves ==
  ASSUME WagerInv, NEW m \in MatchIds, NEW w, SettleMatch(m, w)
  PROVE  /\ ChainMoves /\ PlayersAsPaired'
         /\ match'[m].state = "SETTLED" /\ PaidTo(m)' = {w}
         /\ \A b \in MatchIds : b # m => match'[b] = match[b] /\ received'[b] = received[b]
<1> DEFINE amount == match[m].stake * 2 - Commission(match[m].stake * 2, LockedRate(m))
<1>1. /\ match' = [match EXCEPT ![m].state = "SETTLED"] /\ match[m].state = "STARTED"
      /\ received' = [received EXCEPT ![m] = {<<w, amount>>}]
  BY DEF SettleMatch, MaySettle
<1> HIDE DEF amount
<1>2. received'[m] = {<<w, amount>>} /\ \A b \in MatchIds : b # m => received'[b] = received[b]
  BY <1>1 DEF WagerInv, ArenaInv, ArenaTypeOK
<1>3. PaidTo(m)' = {w}  BY <1>2 DEF PaidTo
<1> QED  BY <1>1, <1>2, <1>3, StateMoves DEF Ran

LEMMA CancelMoves ==
  ASSUME WagerInv, NEW m \in MatchIds, CancelMatch(m)
  PROVE  ChainMoves /\ NoneSettles /\ PlayersAsPaired'
<1>1. /\ match' = [match EXCEPT ![m].state = "CANCELLED"]
      /\ match[m].state \in {"CREATED", "JOINED", "STARTED"}
      /\ \A b \in MatchIds : b # m => received'[b] = received[b]
  BY DEF CancelMatch, MayCancel, WagerInv, ArenaInv, ArenaTypeOK
<1> QED  BY <1>1, StateMoves DEF Ran

-----------------------------------------------------------------------------
(* What each step of a handler does to the rows.                           *)

RowsGrow ==
  \A b \in MatchIds : (rated[b] > 0 => rated'[b] > 0) /\ results[b] \subseteq results'[b]

\* A step of one handler: the others remember what they did, and it is true.
LEMMA TaskStaysTrue ==
  ASSUME WagerInv, ChainMoves, PlayersAsPaired', RowsGrow, NEW k \in Handlers, task'[k] = task[k]
  PROVE  Truthful(task[k])'
<1>1. CASE task[k].step = "idle"  BY <1>1 DEF Truthful, EndSteps
<1>2. CASE task[k].step # "idle"
  <2>1. task[k].battle \in MatchIds  BY <1>2, AtWork
  <2>2. Truthful(task[k])  BY DEF WagerInv
  <2> QED
    BY <2>1, <2>2
    DEF Truthful, ChainMoves, RowsGrow, PaidTo, Challenger, Opponent, Ran
<1> QED  BY <1>1, <1>2

LEMMA RowsStay ==
  ASSUME WagerInv, ArenaInv', WagerTypeOK', ChainMoves, PlayersAsPaired', RowsGrow,
         NEW h, \A k \in Handlers : k # h => task'[k] = task[k],
         h \in Handlers => Truthful(task[h])',
         RecordFollowsChain', PaidAfterResult'
  PROVE  WagerInv'
<1>1. ASSUME NEW k \in Handlers PROVE Truthful(task[k])'
  <2>1. CASE k = h  BY <2>1
  <2>2. CASE k # h  BY <2>2, TaskStaysTrue
  <2> QED  BY <2>1, <2>2
<1> QED  BY <1>1 DEF WagerInv

\* Records that are not rewritten stay true, and so do payments that are none.
RecordTrue(b) ==
  /\ record[b].state = "LOCKED" =>
       /\ match[b].state \in Ran
       /\ match[b].playerA = Challenger(b) /\ match[b].playerB = Opponent(b)
  /\ record[b].state = "SETTLED" =>
       /\ match[b].state = "SETTLED"
       /\ PaidTo(b) = {Owner[record[b].winner]}

LEMMA RecordsTrue == RecordFollowsChain <=> \A b \in MatchIds : RecordTrue(b)
BY DEF RecordFollowsChain, RecordTrue, Ran, PaidTo

\* One record rewritten, truly.
LEMMA RecordWritten ==
  ASSUME WagerInv, ChainMoves, NEW b \in MatchIds, RecordTrue(b)',
         \A i \in MatchIds : i # b => record'[i] = record[i]
  PROVE  RecordFollowsChain'
<1>1. ASSUME NEW i \in MatchIds, i # b PROVE RecordTrue(i)'
  <2>1. RecordTrue(i)  BY RecordsTrue DEF WagerInv
  <2>2. record'[i] = record[i]  BY <1>1
  <2> QED
    BY <2>1, <2>2 DEF RecordTrue, ChainMoves, PaidTo, Challenger, Opponent, Ran
<1>2. \A i \in MatchIds : RecordTrue(i)'  BY <1>1
<1> QED  BY <1>2 DEF RecordFollowsChain, RecordTrue, Ran, PaidTo

LEMMA RecordsStay ==
  ASSUME WagerInv, ChainMoves, record' = record
  PROVE  RecordFollowsChain'
BY DEF WagerInv, RecordFollowsChain, ChainMoves, Challenger, Opponent, Ran

LEMMA PaymentsStay ==
  ASSUME WagerInv, ChainMoves, NoneSettles, RowsGrow
  PROVE  PaidAfterResult'
<1> SUFFICES ASSUME NEW b \in MatchIds, match'[b].state = "SETTLED"
             PROVE  /\ rated'[b] > 0
                    /\ \E w \in results'[b] : {x[1] : x \in received'[b]} = {Owner[w]}
  BY DEF PaidAfterResult
<1>1. match[b].state = "SETTLED" /\ received'[b] = received[b]
  BY DEF NoneSettles, ChainMoves
<1>2. rated[b] > 0 /\ \E w \in results[b] : {x[1] : x \in received[b]} = {Owner[w]}
  BY <1>1 DEF WagerInv, PaidAfterResult
<1> QED  BY <1>1, <1>2 DEF RowsGrow

\* The usual step: one handler goes on, and no record is written, nobody paid.
LEMMA HandlerStep ==
  ASSUME WagerInv, ArenaInv', ChainMoves, NoneSettles, PlayersAsPaired', RowsGrow,
         NEW h \in Handlers, NEW t \in Tasks, task' = [task EXCEPT ![h] = t], Truthful(t)',
         record' = record,
         battle' \in [MatchIds -> [status : Statuses, winner : Agents \cup {NoAgent}]],
         rated' \in [MatchIds -> Nat], results' \in [MatchIds -> SUBSET Agents], faults' \in Nat
  PROVE  WagerInv'
<1>1. task \in [Handlers -> Tasks]  BY DEF WagerInv, WagerTypeOK
<1>2. task'[h] = t /\ \A k \in Handlers : k # h => task'[k] = task[k]  BY <1>1
<1>3. WagerTypeOK'  BY <1>1 DEF WagerInv, WagerTypeOK, ArenaInv
<1>4. Truthful(task[h])'  BY <1>2 DEF Truthful, PaidTo
<1> QED  BY <1>2, <1>3, <1>4, RowsStay, RecordsStay, PaymentsStay

\* What a fault adds.
LEMMA FaultCount == ASSUME WagerInv, Fault \/ UNCHANGED faults PROVE faults' \in Nat
BY DEF WagerInv, WagerTypeOK, Fault

LEMMA RowsAlone == ASSUME UNCHANGED <<rated, results>> PROVE RowsGrow
BY DEF RowsGrow

\* A task that is at another step, of the same battle and winner.
LEMMA NextTask ==
  ASSUME WagerInv, NEW h \in Handlers, task[h].step # "idle", NEW step \in Steps,
         task' = [task EXCEPT ![h].step = step]
  PROVE  \E t \in Tasks :
           /\ task' = [task EXCEPT ![h] = t]
           /\ t.step = step /\ t.battle = task[h].battle /\ t.winner = task[h].winner
<1> DEFINE t == [task[h] EXCEPT !.step = step]
<1>1. task[h] \in [step : Steps, battle : MatchIds, winner : Agents \cup {NoAgent}, waits : BOOLEAN]
  BY AtWork
<1>2. /\ t \in Tasks /\ t.step = step /\ t.battle = task[h].battle /\ t.winner = task[h].winner
  BY <1>1 DEF Tasks
<1>3. task' = [task EXCEPT ![h] = t]  OBVIOUS
<1> HIDE DEF t
<1> QED  BY <1>2, <1>3

\* The steps of the end of a battle are steps.
LEMMA EndStepsAreSteps == {"result", "find", "settle", "settled"} \subseteq Steps
BY DEF Steps, EndSteps

LEMMA GoesTask ==
  ASSUME WagerInv, NEW h \in Handlers, task[h].step # "idle",
         NEW step \in {"result", "find", "settle", "settled"}, Goes(h, step)
  PROVE  \E t \in Tasks :
           /\ task' = [task EXCEPT ![h] = t]
           /\ t.step = step /\ t.battle = task[h].battle /\ t.winner = task[h].winner
<1>1. step \in Steps  BY EndStepsAreSteps
<1>2. task' = [task EXCEPT ![h].step = step]  BY DEF Goes
<1> HIDE DEF Goes
<1> QED  BY <1>1, <1>2, NextTask

\* Steps that a handler remembers nothing about.
LEMMA PlainTask ==
  ASSUME NEW t, t.step \notin EndSteps \cup {"record"}
  PROVE  Truthful(t) /\ Truthful(t)'
BY DEF Truthful, EndSteps

LEMMA IdleTask == Idle \in Tasks /\ Idle.step \notin EndSteps \cup {"record"}
BY DEF Idle, Tasks, EndSteps

\* The lock.

LEMMA CreateStep ==
  ASSUME WagerInv, ArenaInv', NEW h \in Handlers, RelayCreate(h)
  PROVE  WagerInv'
<1> DEFINE b == task[h].battle
<1>1. task[h].step = "create" /\ b \in MatchIds  BY AtWork DEF RelayCreate, At
<1>2. UNCHANGED <<battle, record, rated, results>> /\ faults' \in Nat
  BY FaultCount DEF RelayCreate, Answered, Unanswered, Refused
<1>3. PICK step \in {"join", "refused"} : task' = [task EXCEPT ![h].step = step]
  BY DEF RelayCreate, Answered, Unanswered, Refused, Goes
<1>4. ChainMoves /\ NoneSettles /\ PlayersAsPaired'
  <2>1. CreateMatch(b, Challenger(b), Wagered[b]) \/ UNCHANGED arenaVars
    BY DEF RelayCreate, Refused
  <2> QED  BY <1>1, <2>1, CreateMoves, ChainStill DEF arenaVars
<1>5. PICK t \in Tasks : t.step = step /\ task' = [task EXCEPT ![h] = t]
  <2>1. step \in Steps /\ task[h].step # "idle"
    <3>1. step \in LockSteps  BY <1>3 DEF LockSteps
    <3>2. task[h].step # "idle"  BY <1>1
    <3> QED  BY <3>1, <3>2 DEF Steps
  <2>2. task' = [task EXCEPT ![h].step = step]  BY <1>3
  <2>3. \E t \in Tasks : /\ task' = [task EXCEPT ![h] = t]
                         /\ t.step = step /\ t.battle = task[h].battle /\ t.winner = task[h].winner
    BY <2>1, <2>2, NextTask, Zenon
  <2> QED  BY <2>3
<1>6. Truthful(t)'  BY <1>5, PlainTask DEF EndSteps
<1> QED  BY <1>2, <1>4, <1>5, <1>6, RowsAlone, HandlerStep DEF WagerInv, WagerTypeOK

LEMMA JoinStep ==
  ASSUME WagerInv, ArenaInv', NEW h \in Handlers, RelayJoin(h)
  PROVE  WagerInv'
<1> DEFINE b == task[h].battle
<1>1. task[h].step = "join" /\ b \in MatchIds  BY AtWork DEF RelayJoin, At
<1>2. UNCHANGED <<battle, record, rated, results>> /\ faults' \in Nat
  BY FaultCount DEF RelayJoin, Answered, Unanswered, Refused
<1>3. PICK step \in {"start", "refused"} : task' = [task EXCEPT ![h].step = step]
  BY DEF RelayJoin, Answered, Unanswered, Refused, Goes
<1>4. ChainMoves /\ NoneSettles /\ PlayersAsPaired'
  <2>1. JoinMatch(b, Opponent(b)) \/ UNCHANGED arenaVars  BY DEF RelayJoin, Refused
  <2> QED  BY <1>1, <2>1, JoinMoves, ChainStill DEF arenaVars
<1>5. PICK t \in Tasks : t.step = step /\ task' = [task EXCEPT ![h] = t]
  <2>1. step \in Steps /\ task[h].step # "idle"
    <3>1. step \in LockSteps  BY <1>3 DEF LockSteps
    <3>2. task[h].step # "idle"  BY <1>1
    <3> QED  BY <3>1, <3>2 DEF Steps
  <2>2. task' = [task EXCEPT ![h].step = step]  BY <1>3
  <2>3. \E t \in Tasks : /\ task' = [task EXCEPT ![h] = t]
                         /\ t.step = step /\ t.battle = task[h].battle /\ t.winner = task[h].winner
    BY <2>1, <2>2, NextTask, Zenon
  <2> QED  BY <2>3
<1>6. Truthful(t)'  BY <1>5, PlainTask DEF EndSteps
<1> QED  BY <1>2, <1>4, <1>5, <1>6, RowsAlone, HandlerStep DEF WagerInv, WagerTypeOK

LEMMA StartStep ==
  ASSUME WagerInv, ArenaInv', NEW h \in Handlers, RelayStart(h)
  PROVE  WagerInv'
<1>0. PICK b \in MatchIds : b = task[h].battle /\ task[h].step = "start"
  BY AtWork DEF RelayStart, At
<1>1. task[h].step = "start" /\ b \in MatchIds  BY <1>0
<1>2. UNCHANGED <<battle, record, rated, results>> /\ faults' \in Nat
  BY FaultCount DEF RelayStart, Answered, Unanswered, Refused
<1>3. PICK step \in {"record", "refused"} :
        /\ task' = [task EXCEPT ![h].step = step]
        /\ (step = "record" /\ StartMatch(b)) \/ (step = "refused" /\ (StartMatch(b) \/ UNCHANGED arenaVars))
  BY <1>0 DEF RelayStart, Answered, Unanswered, Refused, Goes
<1>4. ChainMoves /\ NoneSettles /\ PlayersAsPaired'
  BY <1>1, <1>3, StartMoves, ChainStill DEF arenaVars
<1>5. PICK t \in Tasks : t.step = step /\ t.battle = b /\ task' = [task EXCEPT ![h] = t]
  <2>1. step \in Steps /\ task[h].step # "idle"
    <3>1. step \in LockSteps  BY <1>3 DEF LockSteps
    <3>2. task[h].step # "idle"  BY <1>0
    <3> QED  BY <3>1, <3>2 DEF Steps
  <2>2. task' = [task EXCEPT ![h].step = step]  BY <1>3
  <2>3. \E t \in Tasks : /\ task' = [task EXCEPT ![h] = t]
                         /\ t.step = step /\ t.battle = task[h].battle /\ t.winner = task[h].winner
    BY <2>1, <2>2, NextTask, Zenon
  <2> QED  BY <1>0, <2>3
<1>6. Truthful(t)'
  <2>1. CASE step = "refused"  BY <1>5, <2>1, PlainTask DEF EndSteps
  <2>2. CASE step = "record"
    <3>1. /\ match'[b].state = "STARTED"
          /\ match'[b].playerA = Challenger(b) /\ match'[b].playerB = Opponent(b)
      BY <1>1, <1>3, <2>2, StartMoves
    <3> QED  BY <1>5, <2>2, <3>1 DEF Truthful, Ran, EndSteps, Challenger, Opponent
  <2> QED  BY <2>1, <2>2
<1> QED  BY <1>2, <1>4, <1>5, <1>6, RowsAlone, HandlerStep DEF WagerInv, WagerTypeOK

LEMMA RecordLockStep ==
  ASSUME WagerInv, ArenaInv', NEW h \in Handlers, RecordLock(h)
  PROVE  WagerInv'
<1>1. PICK b \in MatchIds : b = task[h].battle /\ task[h].step = "record"
  BY AtWork DEF RecordLock, At
<1>2. /\ record' = [record EXCEPT ![b] = [state |-> "LOCKED", winner |-> NoAgent]]
      /\ task' = [task EXCEPT ![h] = Idle]
      /\ UNCHANGED <<arenaVars, battle, rated, results, faults>>
  BY <1>1 DEF RecordLock, Ends
<1>3. /\ match[b].state \in Ran
      /\ match[b].playerA = Challenger(b) /\ match[b].playerB = Opponent(b)
  BY <1>1 DEF WagerInv, Truthful
<1>4. ChainMoves /\ NoneSettles /\ PlayersAsPaired'  BY <1>2, ChainStill DEF arenaVars
<1>5. RowsGrow  BY <1>2, RowsAlone
<1>6. WagerTypeOK'
  BY <1>1, <1>2, IdleTask DEF WagerInv, WagerTypeOK, ArenaInv
<1>7. /\ task'[h] = Idle /\ \A k \in Handlers : k # h => task'[k] = task[k]
      /\ record'[b] = [state |-> "LOCKED", winner |-> NoAgent]
      /\ \A i \in MatchIds : i # b => record'[i] = record[i]
  BY <1>1, <1>2 DEF WagerInv, WagerTypeOK
<1>8. Truthful(task[h])'
  BY <1>7, IdleTask DEF Truthful, EndSteps
<1>9. RecordFollowsChain'
  <2>1. RecordTrue(b)'
    BY <1>2, <1>3, <1>7 DEF RecordTrue, arenaVars, Challenger, Opponent
  <2> QED  BY <1>4, <1>7, <2>1, RecordWritten
<1> QED  BY <1>4, <1>5, <1>6, <1>7, <1>8, <1>9, PaymentsStay, RowsStay

\* The steps that leave the chain, the records and the ratings alone.

LEMMA StatusWritten ==
  ASSUME WagerInv, NEW b \in MatchIds, NEW status \in Statuses, SetStatus(b, status)
  PROVE  battle' \in [MatchIds -> [status : Statuses, winner : Agents \cup {NoAgent}]]
BY DEF SetStatus, WagerInv, WagerTypeOK

LEMMA QuietStep ==
  ASSUME WagerInv, NEW h \in Handlers, NEW t \in Tasks, task' = [task EXCEPT ![h] = t],
         t.step \notin EndSteps \cup {"record"},
         UNCHANGED <<arenaVars, record, rated, results>>, faults' \in Nat,
         battle' \in [MatchIds -> [status : Statuses, winner : Agents \cup {NoAgent}]]
  PROVE  WagerInv'
<1>1. ArenaInv'  BY ArenaInvStep DEF WagerInv
<1>2. ChainMoves /\ NoneSettles /\ PlayersAsPaired'  BY ChainStill DEF arenaVars
<1>3. Truthful(t)'  BY PlainTask
<1>4. /\ rated' \in [MatchIds -> Nat] /\ results' \in [MatchIds -> SUBSET Agents]
      /\ RowsGrow /\ record' = record
  BY RowsAlone DEF WagerInv, WagerTypeOK
<1> QED  BY <1>1, <1>2, <1>3, <1>4, HandlerStep

LEMMA EndsStep ==
  ASSUME WagerInv, NEW h \in Handlers, Ends(h),
         UNCHANGED <<arenaVars, record, rated, results>>, faults' \in Nat,
         battle' \in [MatchIds -> [status : Statuses, winner : Agents \cup {NoAgent}]]
  PROVE  WagerInv'
<1>1. PICK t \in Tasks : t = Idle  BY IdleTask
<1>2. task' = [task EXCEPT ![h] = t] /\ t.step \notin EndSteps \cup {"record"}
  BY <1>1, IdleTask DEF Ends
<1> QED  BY <1>2, QuietStep

LEMMA CancelUnlockedStep ==
  ASSUME WagerInv, NEW h \in Handlers, CancelUnlocked(h)
  PROVE  WagerInv'
<1>1. task[h].battle \in MatchIds  BY AtWork DEF CancelUnlocked, At
<1>2. battle' \in [MatchIds -> [status : Statuses, winner : Agents \cup {NoAgent}]]
  <2>1. SetStatus(task[h].battle, "CANCELLED") \/ battle' = battle  BY DEF CancelUnlocked
  <2> QED  BY <1>1, <2>1, StatusWritten DEF Statuses, WagerInv, WagerTypeOK
<1>3. Ends(h) /\ UNCHANGED <<arenaVars, record, rated, results, faults>>  BY DEF CancelUnlocked
<1>4. faults' \in Nat  BY <1>3, FaultCount
<1> QED  BY <1>2, <1>3, <1>4, EndsStep

LEMMA StatusStep ==
  ASSUME WagerInv, NEW h \in Handlers, BeginWrite(h) \/ CleanWrite(h)
  PROVE  WagerInv'
<1>1. /\ task[h].step \in {"begin", "clean"} /\ Ends(h)
      /\ UNCHANGED <<arenaVars, record, rated, results, faults>>
      /\ SetStatus(task[h].battle, "IN_PROGRESS") \/ SetStatus(task[h].battle, "CANCELLED")
  BY DEF BeginWrite, CleanWrite, At
<1>2. task[h].battle \in MatchIds  BY <1>1, AtWork
<1>3. battle' \in [MatchIds -> [status : Statuses, winner : Agents \cup {NoAgent}]]
  BY <1>1, <1>2, StatusWritten DEF Statuses
<1>4. faults' \in Nat  BY <1>1, FaultCount
<1> QED  BY <1>1, <1>3, <1>4, EndsStep

LEMMA DiesStep ==
  ASSUME WagerInv, NEW h \in Handlers, Dies(h)
  PROVE  WagerInv'
<1>1. Ends(h) /\ UNCHANGED <<arenaVars, battle, record, rated, results>> /\ faults' \in Nat
  BY FaultCount DEF Dies
<1>2. battle' \in [MatchIds -> [status : Statuses, winner : Agents \cup {NoAgent}]]
  BY <1>1 DEF WagerInv, WagerTypeOK
<1> QED  BY <1>1, <1>2, EndsStep

LEMMA LockCallBreaksStep ==
  ASSUME WagerInv, NEW h \in Handlers, LockCallBreaks(h)
  PROVE  WagerInv'
<1>1. /\ task[h].step \in LockSteps /\ SetStatus(task[h].battle, "CANCELLED")
      /\ task' = [task EXCEPT ![h].waits = FALSE]
      /\ UNCHANGED <<arenaVars, record, rated, results>> /\ faults' \in Nat
  BY FaultCount DEF LockCallBreaks
<1>2. /\ task[h] \in [step : Steps, battle : MatchIds, winner : Agents \cup {NoAgent}, waits : BOOLEAN]
      /\ task[h].battle \in MatchIds
  BY <1>1, AtWork DEF LockSteps
<1>3. PICK t : t = [task[h] EXCEPT !.waits = FALSE]  OBVIOUS
<1>4. /\ t \in Tasks /\ t.step = task[h].step /\ t.battle = task[h].battle
      /\ t.winner = task[h].winner /\ task' = [task EXCEPT ![h] = t]
  BY <1>1, <1>2, <1>3 DEF Tasks
<1>5. Truthful(t)'
  <2>1. Truthful(task[h])  BY DEF WagerInv
  <2> QED
    BY <1>1, <1>2, <1>4, <2>1
    DEF Truthful, LockSteps, EndSteps, arenaVars, PaidTo, Challenger, Opponent
<1>6. battle' \in [MatchIds -> [status : Statuses, winner : Agents \cup {NoAgent}]]
  BY <1>1, <1>2, StatusWritten DEF Statuses
<1>7. ArenaInv'  BY <1>1, ArenaInvStep DEF WagerInv
<1>8. ChainMoves /\ NoneSettles /\ PlayersAsPaired'  BY <1>1, ChainStill DEF arenaVars
<1>9. /\ rated' \in [MatchIds -> Nat] /\ results' \in [MatchIds -> SUBSET Agents]
      /\ RowsGrow /\ record' = record
  BY <1>1, RowsAlone DEF WagerInv, WagerTypeOK
<1> QED  BY <1>1, <1>4, <1>5, <1>6, <1>7, <1>8, <1>9, HandlerStep

\* A request that begins.
LEMMA BeginsTask ==
  ASSUME WagerInv, NEW h \in Handlers, NEW b \in MatchIds, NEW step \in Steps,
         NEW w \in Agents \cup {NoAgent}, Begins(h, b, step, w)
  PROVE  \E t \in Tasks :
           task' = [task EXCEPT ![h] = t] /\ t.step = step /\ t.battle = b /\ t.winner = w
<1>1. PICK t : t = [step |-> step, battle |-> b, winner |-> w, waits |-> TRUE]  OBVIOUS
<1>2. t \in Tasks /\ t.step = step /\ t.battle = b /\ t.winner = w  BY <1>1 DEF Tasks
<1>3. task' = [task EXCEPT ![h] = t]  BY <1>1 DEF Begins
<1> QED  BY <1>2, <1>3

LEMMA ReceivesStep ==
  ASSUME WagerInv, NEW h \in Handlers, NEW b \in MatchIds, Receives(h, b)
  PROVE  WagerInv'
<1>1. CASE CreateBattle(h, b) \/ BeginRead(h, b) \/ CleanRead(h, b)
  <2>1. PICK step \in {"create", "begin", "clean"} : Begins(h, b, step, NoAgent)
    BY <1>1 DEF CreateBattle, BeginRead, CleanRead
  <2>2. PICK t \in Tasks : task' = [task EXCEPT ![h] = t] /\ t.step = step
    BY <2>1, BeginsTask DEF Steps, LockSteps
  <2>3. t.step \notin EndSteps \cup {"record"}  BY <2>2 DEF EndSteps
  <2>4. /\ UNCHANGED <<arenaVars, record, rated, results, faults>>
        /\ SetStatus(b, "PENDING") \/ battle' = battle
    BY <1>1 DEF CreateBattle, BeginRead, CleanRead
  <2>5. battle' \in [MatchIds -> [status : Statuses, winner : Agents \cup {NoAgent}]]
    BY <2>4, StatusWritten DEF Statuses, WagerInv, WagerTypeOK
  <2>6. faults' \in Nat  BY <2>4, FaultCount
  <2> QED  BY <2>2, <2>3, <2>4, <2>5, <2>6, QuietStep
<1>2. ASSUME NEW w \in Agents, EndRead(h, b, w) PROVE WagerInv'
  <2>1. /\ Begins(h, b, "rate", w)
        /\ UNCHANGED <<arenaVars, battle, record, rated, results, faults>>
    BY <1>2 DEF EndRead
  <2>2. PICK t \in Tasks : task' = [task EXCEPT ![h] = t] /\ t.step = "rate" /\ t.winner = w
    BY <2>1, BeginsTask DEF Steps, EndSteps
  <2>3. Truthful(t)'  BY <2>2 DEF Truthful, EndSteps
  <2>4. ArenaInv'  BY <2>1, ArenaInvStep DEF WagerInv
  <2>5. ChainMoves /\ NoneSettles /\ PlayersAsPaired'  BY <2>1, ChainStill DEF arenaVars
  <2>6. RowsGrow  BY <2>1, RowsAlone
  <2> QED  BY <2>1, <2>2, <2>3, <2>4, <2>5, <2>6, HandlerStep DEF WagerInv, WagerTypeOK
<1> QED  BY <1>1, <1>2 DEF Receives

\* The end.

LEMMA RateStep ==
  ASSUME WagerInv, NEW h \in Handlers, Rate(h)
  PROVE  WagerInv'
<1>1. PICK b \in MatchIds : b = task[h].battle /\ task[h].step = "rate"
  BY AtWork DEF Rate, At
<1>2. /\ rated' = [rated EXCEPT ![b] = @ + 1] /\ Goes(h, "result")
      /\ UNCHANGED <<arenaVars, battle, record, results, faults>>
  BY <1>1 DEF Rate
<1>3. /\ rated \in [MatchIds -> Nat] /\ rated' \in [MatchIds -> Nat] /\ rated'[b] > 0
      /\ RowsGrow
  BY <1>2 DEF WagerInv, WagerTypeOK, RowsGrow
<1>4. PICK t \in Tasks : /\ task' = [task EXCEPT ![h] = t] /\ t.step = "result"
                        /\ t.battle = b /\ t.winner = task[h].winner
  <2>1. \E t \in Tasks : /\ task' = [task EXCEPT ![h] = t] /\ t.step = "result"
                         /\ t.battle = task[h].battle /\ t.winner = task[h].winner
    BY <1>1, <1>2, GoesTask
  <2> QED  BY <1>1, <2>1
<1>5. task[h].winner \in Agents  BY <1>1 DEF WagerInv, Truthful, EndSteps
<1>6. Truthful(t)'  BY <1>3, <1>4, <1>5 DEF Truthful
<1>7. ArenaInv'  BY <1>2, ArenaInvStep DEF WagerInv
<1>8. ChainMoves /\ NoneSettles /\ PlayersAsPaired'  BY <1>2, ChainStill DEF arenaVars
<1> QED  BY <1>2, <1>3, <1>4, <1>6, <1>7, <1>8, HandlerStep DEF WagerInv, WagerTypeOK

LEMMA WriteResultStep ==
  ASSUME WagerInv, NEW h \in Handlers, WriteResult(h)
  PROVE  WagerInv'
<1>1. PICK b \in MatchIds : b = task[h].battle /\ task[h].step = "result"
  BY AtWork DEF WriteResult, At
<1>2. PICK w \in Agents : w = task[h].winner /\ rated[b] > 0
  BY <1>1 DEF WagerInv, Truthful, EndSteps
<1>3. /\ battle' = [battle EXCEPT ![b] = [status |-> "COMPLETED", winner |-> w]]
      /\ results' = [results EXCEPT ![b] = @ \cup {w}] /\ Goes(h, "find")
      /\ UNCHANGED <<arenaVars, record, rated, faults>>
  BY <1>1, <1>2 DEF WriteResult, StoreResult
<1>4. /\ battle' \in [MatchIds -> [status : Statuses, winner : Agents \cup {NoAgent}]]
      /\ results' \in [MatchIds -> SUBSET Agents] /\ w \in results'[b] /\ RowsGrow
  BY <1>3 DEF WagerInv, WagerTypeOK, RowsGrow, Statuses
<1>5. PICK t \in Tasks : /\ task' = [task EXCEPT ![h] = t] /\ t.step = "find"
                        /\ t.battle = b /\ t.winner = w
  <2>1. \E t \in Tasks : /\ task' = [task EXCEPT ![h] = t] /\ t.step = "find"
                         /\ t.battle = task[h].battle /\ t.winner = task[h].winner
    BY <1>1, <1>3, GoesTask
  <2> QED  BY <1>1, <1>2, <2>1
<1>6. Truthful(t)'  BY <1>2, <1>3, <1>4, <1>5 DEF Truthful
<1>7. ArenaInv'  BY <1>3, ArenaInvStep DEF WagerInv
<1>8. ChainMoves /\ NoneSettles /\ PlayersAsPaired'  BY <1>3, ChainStill DEF arenaVars
<1> QED  BY <1>3, <1>4, <1>5, <1>6, <1>7, <1>8, HandlerStep DEF WagerInv, WagerTypeOK

LEMMA SettleFindStep ==
  ASSUME WagerInv, NEW h \in Handlers, SettleFind(h)
  PROVE  WagerInv'
<1>1. /\ task[h].step = "find" /\ UNCHANGED <<arenaVars, battle, record, rated, results, faults>>
      /\ Goes(h, "settle") \/ Ends(h)
  BY DEF SettleFind, FindLocked, At
<1>2. battle' \in [MatchIds -> [status : Statuses, winner : Agents \cup {NoAgent}]] /\ faults' \in Nat
  BY <1>1 DEF WagerInv, WagerTypeOK
<1>3. CASE Goes(h, "settle")
  <2>1. PICK t \in Tasks : /\ task' = [task EXCEPT ![h] = t] /\ t.step = "settle"
                           /\ t.battle = task[h].battle /\ t.winner = task[h].winner
    BY <1>1, <1>3, GoesTask
  <2>2. Truthful(task[h])  BY DEF WagerInv
  <2>3. Truthful(t)'  BY <1>1, <2>1, <2>2 DEF Truthful, EndSteps
  <2>4. ArenaInv'  BY <1>1, ArenaInvStep DEF WagerInv
  <2>5. ChainMoves /\ NoneSettles /\ PlayersAsPaired'  BY <1>1, ChainStill DEF arenaVars
  <2>6. RowsGrow  BY <1>1, RowsAlone
  <2> QED  BY <1>1, <1>2, <2>1, <2>3, <2>4, <2>5, <2>6, HandlerStep DEF WagerInv, WagerTypeOK
<1> QED  BY <1>1, <1>2, <1>3, EndsStep

\* The payment itself: the battle has a result, and it is what the chain pays.
LEMMA RelaySettleStep ==
  ASSUME WagerInv, ArenaInv', NEW h \in Handlers, RelaySettle(h)
  PROVE  WagerInv'
<1>1. PICK b \in MatchIds : b = task[h].battle /\ task[h].step = "settle"
  BY AtWork DEF RelaySettle, At
<1>2. PICK w \in Agents : w = task[h].winner /\ rated[b] > 0 /\ w \in results[b]
  BY <1>1 DEF WagerInv, Truthful, EndSteps
<1>3. /\ UNCHANGED <<battle, record, rated, results>> /\ faults' \in Nat
      /\ \/ SettleMatch(b, Owner[w]) /\ (Goes(h, "settled") \/ Ends(h))
         \/ Ends(h) /\ UNCHANGED arenaVars
  BY <1>1, <1>2, FaultCount DEF RelaySettle, SettleRefused
<1>4. /\ battle' \in [MatchIds -> [status : Statuses, winner : Agents \cup {NoAgent}]]
      /\ rated' \in [MatchIds -> Nat] /\ results' \in [MatchIds -> SUBSET Agents] /\ RowsGrow
  BY <1>3, RowsAlone DEF WagerInv, WagerTypeOK
<1>5. CASE Ends(h) /\ UNCHANGED arenaVars
  BY <1>3, <1>4, <1>5, EndsStep
<1>6. CASE SettleMatch(b, Owner[w]) /\ (Goes(h, "settled") \/ Ends(h))
  <2>1. /\ ChainMoves /\ PlayersAsPaired' /\ match'[b].state = "SETTLED" /\ PaidTo(b)' = {Owner[w]}
        /\ \A i \in MatchIds : i # b => match'[i] = match[i] /\ received'[i] = received[i]
    BY <1>6, SettleMoves
  <2>2. PICK t \in Tasks : /\ task' = [task EXCEPT ![h] = t]
                           /\ t = Idle \/ (t.step = "settled" /\ t.battle = b /\ t.winner = w)
    <3>1. CASE Goes(h, "settled")
      <4>1. \E t \in Tasks : /\ task' = [task EXCEPT ![h] = t] /\ t.step = "settled"
                              /\ t.battle = task[h].battle /\ t.winner = task[h].winner
        BY <1>1, <3>1, GoesTask
      <4> QED  BY <1>1, <1>2, <4>1
    <3>2. CASE Ends(h)
      BY <3>2, IdleTask DEF Ends
    <3> QED  BY <1>6, <3>1, <3>2
  <2>3. Truthful(t)'
    <3>1. CASE t = Idle  BY <3>1, IdleTask, PlainTask
    <3>2. CASE t.step = "settled" /\ t.battle = b /\ t.winner = w
      BY <1>2, <1>3, <2>1, <3>2 DEF Truthful, EndSteps
    <3> QED  BY <2>2, <3>1, <3>2
  <2>4. task'[h] = t /\ \A k \in Handlers : k # h => task'[k] = task[k]
    BY <2>2 DEF WagerInv, WagerTypeOK
  <2>5. WagerTypeOK'
    BY <1>3, <1>4, <2>2 DEF WagerInv, WagerTypeOK, ArenaInv
  <2>6. Truthful(task[h])'  BY <2>3, <2>4 DEF Truthful, PaidTo
  <2>7. RecordFollowsChain'  BY <1>3, <2>1, RecordsStay
  <2>8. PaidAfterResult'
    <3> SUFFICES ASSUME NEW i \in MatchIds, match'[i].state = "SETTLED"
                 PROVE  /\ rated'[i] > 0
                        /\ \E v \in results'[i] : {x[1] : x \in received'[i]} = {Owner[v]}
      BY DEF PaidAfterResult
    <3>1. CASE i = b  BY <1>2, <1>3, <2>1, <3>1 DEF PaidTo
    <3>2. CASE i # b
      <4>1. match[i].state = "SETTLED" /\ received'[i] = received[i]  BY <2>1, <3>2
      <4> QED  BY <1>3, <4>1 DEF WagerInv, PaidAfterResult
    <3> QED  BY <3>1, <3>2
  <2> QED  BY <1>4, <2>1, <2>4, <2>5, <2>6, <2>7, <2>8, RowsStay
<1> QED  BY <1>3, <1>5, <1>6

LEMMA RecordSettledStep ==
  ASSUME WagerInv, NEW h \in Handlers, RecordSettled(h)
  PROVE  WagerInv'
<1>1. PICK b \in MatchIds : b = task[h].battle /\ task[h].step = "settled"
  BY AtWork DEF RecordSettled, At
<1>2. PICK w \in Agents : w = task[h].winner /\ match[b].state = "SETTLED" /\ PaidTo(b) = {Owner[w]}
  BY <1>1 DEF WagerInv, Truthful, EndSteps
<1>3. /\ record' = [record EXCEPT ![b] = [state |-> "SETTLED", winner |-> w]]
      /\ task' = [task EXCEPT ![h] = Idle]
      /\ UNCHANGED <<arenaVars, battle, rated, results, faults>>
  BY <1>1, <1>2 DEF RecordSettled, Ends
<1>4. ArenaInv'  BY <1>3, ArenaInvStep DEF WagerInv
<1>5. ChainMoves /\ NoneSettles /\ PlayersAsPaired'  BY <1>3, ChainStill DEF arenaVars
<1>6. RowsGrow  BY <1>3, RowsAlone
<1>7. WagerTypeOK'
  BY <1>3, <1>4, IdleTask DEF WagerInv, WagerTypeOK, ArenaInv
<1>8. /\ task'[h] = Idle /\ \A k \in Handlers : k # h => task'[k] = task[k]
      /\ record'[b] = [state |-> "SETTLED", winner |-> w]
      /\ \A i \in MatchIds : i # b => record'[i] = record[i]
  BY <1>3 DEF WagerInv, WagerTypeOK
<1>9. Truthful(task[h])'  BY <1>8, IdleTask DEF Truthful, EndSteps
<1>10. RecordTrue(b)'  BY <1>2, <1>3, <1>8 DEF RecordTrue, arenaVars, PaidTo
<1>11. RecordFollowsChain'  BY <1>5, <1>8, <1>10, RecordWritten
<1> QED  BY <1>4, <1>5, <1>6, <1>7, <1>8, <1>9, <1>11, PaymentsStay, RowsStay

\* Steps of nobody's handler.
LEMMA OutsideStep ==
  ASSUME WagerInv, ArenaInv', ChainMoves, NoneSettles, PlayersAsPaired',
         UNCHANGED <<record, rated, results, task, faults>>,
         battle' \in [MatchIds -> [status : Statuses, winner : Agents \cup {NoAgent}]]
  PROVE  WagerInv'
<1>1. RowsGrow  BY RowsAlone
<1>2. WagerTypeOK'  BY DEF WagerInv, WagerTypeOK, ArenaInv
<1>3. RecordFollowsChain' /\ PaidAfterResult'  BY <1>1, RecordsStay, PaymentsStay
<1>4. ASSUME NEW k \in Handlers PROVE Truthful(task[k])'
  BY <1>1, TaskStaysTrue
<1> QED  BY <1>2, <1>3, <1>4 DEF WagerInv

LEMMA DisputeStep ==
  ASSUME WagerInv, NEW b \in MatchIds, Dispute(b)
  PROVE  WagerInv'
<1>1. SetStatus(b, "DISPUTED") /\ UNCHANGED <<arenaVars, record, rated, results, task, faults>>
  BY DEF Dispute
<1>2. battle' \in [MatchIds -> [status : Statuses, winner : Agents \cup {NoAgent}]]
  BY <1>1, StatusWritten DEF Statuses
<1>3. ArenaInv'  BY <1>1, ArenaInvStep DEF WagerInv
<1>4. ChainMoves /\ NoneSettles /\ PlayersAsPaired'  BY <1>1, ChainStill DEF arenaVars
<1> QED  BY <1>1, <1>2, <1>3, <1>4, OutsideStep

LEMMA ChainSideStep ==
  ASSUME WagerInv, ArenaInv', ChainSide
  PROVE  WagerInv'
<1>1. UNCHANGED rowVars  BY DEF ChainSide
<1>2. battle' \in [MatchIds -> [status : Statuses, winner : Agents \cup {NoAgent}]]
  BY <1>1 DEF rowVars, WagerInv, WagerTypeOK
<1>3. ChainMoves /\ NoneSettles /\ PlayersAsPaired'
  <2>1. CASE \/ ArenaAdmin \/ (\E p \in Players, n \in Allowances : Approve(p, n)) \/ TreasurySide
    <3>1. UNCHANGED <<match, received>>
      BY <2>1
      DEF ArenaAdmin, SetCommissionBps, SetPause, Approve, TreasurySide, Distribute,
          TournamentCommission
    <3> QED  BY <3>1, ChainStill
  <2>2. ASSUME NEW b \in MatchIds, CancelMatch(b) PROVE ChainMoves /\ NoneSettles /\ PlayersAsPaired'
    BY <2>2, CancelMoves
  <2> QED  BY <2>1, <2>2 DEF ChainSide
<1> QED  BY <1>1, <1>2, <1>3, OutsideStep DEF rowVars

-----------------------------------------------------------------------------

\* Every step of the services is a step of the contract, or none.
LEMMA ChainStep == WagerInv /\ [WagerNext]_wagerVars => [ArenaNext]_arenaVars
<1> SUFFICES ASSUME WagerInv, [WagerNext]_wagerVars PROVE ArenaNext \/ UNCHANGED arenaVars
  OBVIOUS
<1>1. ASSUME NEW m \in MatchIds, Relayer(m) PROVE ArenaNext  BY <1>1 DEF ArenaNext
<1>2. ASSUME NEW h \in Handlers, Continues(h) PROVE ArenaNext \/ UNCHANGED arenaVars
  <2>1. CASE RelayCreate(h)
    <3>1. PICK b \in MatchIds : b = task[h].battle  BY <2>1, AtWork DEF RelayCreate, At
    <3>2. CreateMatch(b, Challenger(b), Wagered[b]) \/ UNCHANGED arenaVars
      BY <2>1, <3>1 DEF RelayCreate, Refused
    <3> QED  BY <1>1, <3>2, OwnersPlay DEF Relayer
  <2>2. CASE RelayJoin(h)
    <3>1. PICK b \in MatchIds : b = task[h].battle  BY <2>2, AtWork DEF RelayJoin, At
    <3>2. JoinMatch(b, Opponent(b)) \/ UNCHANGED arenaVars  BY <2>2, <3>1 DEF RelayJoin, Refused
    <3> QED  BY <1>1, <3>2, OwnersPlay DEF Relayer
  <2>3. CASE RelayStart(h)
    <3>1. PICK b \in MatchIds : b = task[h].battle  BY <2>3, AtWork DEF RelayStart, At
    <3>2. StartMatch(b) \/ UNCHANGED arenaVars  BY <2>3, <3>1 DEF RelayStart, Refused
    <3> QED  BY <1>1, <3>2 DEF Relayer
  <2>4. CASE RelaySettle(h)
    <3>1. PICK b \in MatchIds : b = task[h].battle /\ task[h].step = "settle"
      BY <2>4, AtWork DEF RelaySettle, At
    <3>2. PICK w \in Agents : w = task[h].winner  BY <3>1 DEF WagerInv, Truthful, EndSteps
    <3>3. SettleMatch(b, Owner[w]) \/ UNCHANGED arenaVars
      BY <2>4, <3>1, <3>2 DEF RelaySettle, SettleRefused
    <3>4. Owner[w] \in Players  BY WagerAssumption
    <3> QED  BY <1>1, <3>3, <3>4 DEF Relayer
  <2>5. CASE RecordLock(h) \/ CancelUnlocked(h) \/ BeginWrite(h) \/ CleanWrite(h)
             \/ Rate(h) \/ WriteResult(h) \/ SettleFind(h) \/ RecordSettled(h)
    BY <2>5
    DEF RecordLock, CancelUnlocked, BeginWrite, CleanWrite, Rate, WriteResult, SettleFind, RecordSettled
  <2> QED  BY <1>2, <2>1, <2>2, <2>3, <2>4, <2>5 DEF Continues
<1>3. ASSUME NEW h \in Handlers, LockCallBreaks(h) \/ Dies(h) PROVE UNCHANGED arenaVars
  BY <1>3 DEF LockCallBreaks, Dies
<1>4. ASSUME NEW h \in Handlers, NEW b \in MatchIds, Receives(h, b) PROVE UNCHANGED arenaVars
  BY <1>4 DEF Receives, CreateBattle, BeginRead, CleanRead, EndRead
<1>5. ASSUME NEW b \in MatchIds, Dispute(b) PROVE UNCHANGED arenaVars
  BY <1>5 DEF Dispute
<1>6. CASE ChainSide
  BY <1>1, <1>6 DEF ChainSide, ArenaNext, Relayer
<1>7. CASE UNCHANGED wagerVars
  BY <1>7 DEF wagerVars, arenaVars
<1> QED  BY <1>2, <1>3, <1>4, <1>5, <1>6, <1>7 DEF WagerNext

LEMMA WagerInvStep == WagerInv /\ [WagerNext]_wagerVars => WagerInv'
<1> SUFFICES ASSUME WagerInv, [WagerNext]_wagerVars PROVE WagerInv'  OBVIOUS
<1>0. ArenaInv'  BY ChainStep, ArenaInvStep DEF WagerInv
<1>1. ASSUME NEW h \in Handlers, Continues(h) PROVE WagerInv'
  BY <1>0, <1>1, CreateStep, JoinStep, StartStep, RecordLockStep, CancelUnlockedStep, StatusStep,
     RateStep, WriteResultStep, SettleFindStep, RelaySettleStep, RecordSettledStep
  DEF Continues
<1>2. ASSUME NEW h \in Handlers, LockCallBreaks(h) \/ Dies(h) PROVE WagerInv'
  BY <1>2, LockCallBreaksStep, DiesStep
<1>3. ASSUME NEW h \in Handlers, NEW b \in MatchIds, Receives(h, b) PROVE WagerInv'
  BY <1>3, ReceivesStep
<1>4. ASSUME NEW b \in MatchIds, Dispute(b) PROVE WagerInv'  BY <1>4, DisputeStep
<1>5. CASE ChainSide  BY <1>0, <1>5, ChainSideStep
<1>6. CASE UNCHANGED wagerVars
  <2>1. UNCHANGED <<match, received>> /\ UNCHANGED <<record, rated, results, task, faults>> /\ battle' = battle
    BY <1>6 DEF wagerVars
  <2>2. battle' \in [MatchIds -> [status : Statuses, winner : Agents \cup {NoAgent}]]
    BY <2>1 DEF WagerInv, WagerTypeOK
  <2> QED  BY <1>0, <2>1, <2>2, ChainStill, OutsideStep
<1> QED  BY <1>1, <1>2, <1>3, <1>4, <1>5, <1>6 DEF WagerNext

THEOREM WagerInvariance == WagerSpec => []WagerInv
<1> QED  BY WagerInvInit, WagerInvStep, PTL DEF WagerSpec

\* The services only ever act on the contract through its transactions, so all
\* that holds of the contract holds while they drive it.
THEOREM ServicesUseTheContract == WagerSpec => ArenaSpec
<1>1. WagerInit => ArenaInit  BY DEF WagerInit
<1> QED  BY <1>1, ChainStep, WagerInvariance, PTL DEF WagerSpec, ArenaSpec

\* Every variable of the contract and of the rows keeps its type: no balance
\* and no allowance is ever negative.
THEOREM WagerTypeCorrect == WagerSpec => []WagerTypeOK
<1>1. WagerInv => WagerTypeOK  BY DEF WagerInv
<1> QED  BY <1>1, WagerInvariance, PTL

\* Records never say more than the chain, whatever was lost, raced or repeated.
THEOREM RecordsFollowChain == WagerSpec => []RecordFollowsChain
<1>1. WagerInv => RecordFollowsChain  BY DEF WagerInv
<1> QED  BY <1>1, WagerInvariance, PTL

\* Nobody is paid before a result that names his agent is stored.
THEOREM NobodyPaidEarly == WagerSpec => []PaidAfterResult
<1>1. WagerInv => PaidAfterResult  BY DEF WagerInv
<1> QED  BY <1>1, WagerInvariance, PTL

\* While the services drive it, the escrow stays exact, its treasury's books are
\* right and it keeps its promise.
THEOREM WagersAreKept == WagerSpec => []VaultExact /\ []TreasuryBooks /\ KeepsWagerPromise
<1> QED  BY ServicesUseTheContract, VaultAlwaysExact, TreasuryBooksRight, ArenaKeepsPromise, PTL

=============================================================================
