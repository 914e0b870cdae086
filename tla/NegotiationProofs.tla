--------------------------- MODULE NegotiationProofs ---------------------------
(***************************************************************************)
(* Theorems about Negotiation for every budget, policy, lifetime and limit *)
(* and any number of concurrent handlers.                                  *)
(***************************************************************************)
EXTENDS Negotiation, WellFoundedInduction, TLAPS

-----------------------------------------------------------------------------
(* Numbers.                                                                *)

LEMMA LeastExists ==
  ASSUME NEW T, T \subseteq Nat, T # {}
  PROVE  \E x \in T : \A y \in T : x <= y
<1> DEFINE R == OpToRel(<, Nat)
<1>1. \A x, y \in Nat : x < y => <<x, y>> \in R
  BY DEF OpToRel
<1>2. IsWellFoundedOn(R, Nat)  BY NatLessThanWellFounded
<1> HIDE DEF R
<1>3. PICK x \in T : \A y \in T : ~ (<<y, x>> \in R)  BY <1>2, WFMin
<1>4. ASSUME NEW y \in T PROVE x <= y
  <2>1. x \in Nat /\ y \in Nat  OBVIOUS
  <2>2. ~ (y < x)  BY <1>1, <1>3, <2>1
  <2> QED  BY <2>1, <2>2
<1> QED  BY <1>4

\* Some place of a sequence is the last one with a property.
LEMMA GreatestExists ==
  ASSUME NEW n \in Nat, NEW S, S \subseteq 1..n, S # {}
  PROVE  \E i \in S : \A k \in S : k <= i
<1> DEFINE T == {n - i : i \in S}
<1>1. \A i \in S : i \in Nat /\ n - i \in Nat
  <2>1. \A i \in S : i \in Nat /\ i <= n  OBVIOUS
  <2> QED  BY <2>1
<1>2. T \subseteq Nat /\ T # {}
  <2>1. T \subseteq Nat  BY <1>1
  <2>2. PICK j : j \in S  OBVIOUS
  <2>3. n - j \in T  BY <2>2
  <2> QED  BY <2>1, <2>3
<1>3. PICK x \in T : \A y \in T : x <= y  BY <1>2, LeastExists
<1>4. PICK i \in S : x = n - i  BY <1>3
<1>5. ASSUME NEW k \in S PROVE k <= i
  <2>1. n - i <= n - k  BY <1>3, <1>4
  <2> QED  BY <2>1, <1>1
<1> QED  BY <1>5

-----------------------------------------------------------------------------
(* Transcripts.                                                            *)

\* The digest of a chain has its length and its contents.
LEMMA DigestType ==
  ASSUME NEW s \in Seq(Offer)
  PROVE  /\ Digest(s) \in Seq(Content) /\ Len(Digest(s)) = Len(s)
         /\ \A i \in 1..Len(s) : Digest(s)[i] = ContentOf(s[i])
<1>1. ASSUME NEW i \in 1..Len(s) PROVE ContentOf(s[i]) \in Content
  <2>1. s[i] \in Offer  OBVIOUS
  <2>2. /\ s[i].role \in Roles /\ s[i].kind \in Kinds
        /\ s[i].price \in Nat /\ s[i].expiresAt \in Nat
    BY <2>1 DEF Offer
  <2> QED  BY <2>2 DEF ContentOf, Content
<1> DEFINE c(i) == ContentOf(s[i])
           d == [i \in 1..Len(s) |-> c(i)]
<1> HIDE DEF c
<1>2. \A i \in 1..Len(s) : c(i) \in Content  BY <1>1 DEF c
<1>3. d \in Seq(Content) /\ Len(d) = Len(s) /\ \A i \in 1..Len(s) : d[i] = c(i)
  BY <1>2
<1> QED  BY <1>3 DEF Digest, c

\* What was said before place n stays so when the transcript grows.
LEMMA PrefixKept ==
  ASSUME NEW s \in Seq(Offer), NEW offer \in Offer, NEW n \in 0..Len(s)
  PROVE  SubSeq(Append(s, offer), 1, n) = SubSeq(s, 1, n)
<1>1. /\ SubSeq(s, 1, n) = [i \in 1..n |-> s[i]]
      /\ SubSeq(Append(s, offer), 1, n) = [i \in 1..n |-> Append(s, offer)[i]]
  OBVIOUS
<1>2. \A i \in 1..n : Append(s, offer)[i] = s[i]  OBVIOUS
<1> QED  BY <1>1, <1>2

LEMMA WholePrefix ==
  ASSUME NEW s \in Seq(Offer)
  PROVE  SubSeq(s, 1, Len(s)) = s
OBVIOUS

\* Appending an offer built on the whole chain keeps the chain unbroken.
LEMMA ChainAppend ==
  ASSUME NEW s \in Seq(Offer), NEW offer \in Offer, Verifies(s),
         offer.seq = Len(s), offer.prev = Digest(s)
  PROVE  Verifies(Append(s, offer))
<1> DEFINE t == Append(s, offer)
<1>1. ASSUME NEW i \in 1..Len(t)
      PROVE  t[i].seq = i - 1 /\ t[i].prev = Digest(SubSeq(t, 1, i - 1))
  <2>1. CASE i \in 1..Len(s)
    <3>1. t[i] = s[i] /\ i - 1 \in 0..Len(s)  BY <2>1
    <3>2. SubSeq(t, 1, i - 1) = SubSeq(s, 1, i - 1)  BY <3>1, PrefixKept
    <3> QED  BY <2>1, <3>1, <3>2 DEF Verifies
  <2>2. CASE i = Len(s) + 1
    <3>1. t[i] = offer /\ i - 1 = Len(s)  BY <2>2
    <3>2. SubSeq(t, 1, Len(s)) = s  BY PrefixKept, WholePrefix
    <3> QED  BY <3>1, <3>2
  <2> QED  BY <2>1, <2>2
<1> QED  BY <1>1 DEF Verifies

\* A place that is still free can only be the next one.
LEMMA FreePlace ==
  ASSUME TypeOK, ChainVerifies, NEW offer, offer.seq \in Nat, offer.seq <= Len(transcript),
         SeqFree(offer)
  PROVE  offer.seq = Len(transcript)
<1>1. Len(transcript) \in Nat  BY DEF TypeOK
<1>2. \A i \in 1..Len(transcript) : transcript[i].seq = i - 1
  BY DEF ChainVerifies, Verifies
<1>3. SUFFICES ASSUME offer.seq < Len(transcript) PROVE FALSE  BY <1>1
<1>4. offer.seq + 1 \in 1..Len(transcript)  BY <1>1, <1>3
<1>5. transcript[offer.seq + 1].seq = offer.seq  BY <1>2, <1>4
<1> QED  BY <1>4, <1>5 DEF SeqFree

-----------------------------------------------------------------------------
(* The inductive invariant.  A handler's offer was valid on the transcript  *)
(* it loaded; it fits the stored one as long as its place is the next one,  *)
(* and once that place is taken the unique index refuses it.               *)

\* Offers may still follow.
Unclosed(messages) == messages = <<>> \/ LastOf(messages).kind \in {"PROPOSE", "COUNTER"}

\* The offer obeys the rules after these messages.
Fits(messages, offer) ==
  /\ offer.prev = Digest(messages)
  /\ Unclosed(messages)
  /\ Len(messages) < MaxMessages
  /\ offer.role = TurnOf(messages)
  /\ messages = <<>> <=> offer.kind = "PROPOSE"
  /\ IF offer.kind = "DECLINE" THEN offer.price = 0 ELSE PriceAllowed(offer)
  /\ offer.kind = "ACCEPT" => AcceptsLast(messages, offer)

\* A move that its floor allows, for a provider whose policy speaks.
AboveFloor(move) ==
  policy # ByHand /\ move.kind \in {"ACCEPT", "COUNTER"} => move.price >= policy.floor

\* What agreement a says is what the transcript, closed by now, says.
Binding(a) ==
  /\ transcript # <<>> /\ LastOf(transcript).kind = "ACCEPT"
  /\ a.price = LastOf(transcript).price
  /\ a.transcript = Digest(transcript)

\* An outcome is the transcript's own.
Honest(view) == view.state \in {"AGREED", "DECLINED"} => view = ViewOf(transcript)

\* What a handler holds is still worth what it was when it was read.
Sound(w) ==
  /\ w.step \in {"signing", "inserting"} =>
       /\ w.offer.seq <= Len(transcript)
       /\ w.offer.seq = Len(transcript) => Fits(transcript, w.offer)
       /\ w.offer.role = "PROVIDER" => AboveFloor(w.offer)
  /\ w.step = "decided" => AboveFloor(w.move)
  /\ w.step = "writing" => Honest(w.view)
  /\ w.step \in {"agreeing", "storing"} => Binding(w.agreement)
  /\ w.step = "storing" => w.agreement \in signed

FloorHeld ==
  \A i \in 1..Len(transcript) :
    transcript[i].role = "PROVIDER" => AboveFloor(transcript[i])

ThreadInv ==
  /\ TypeOK /\ ChainVerifies /\ FairDialogue /\ AgreementsBinding /\ RowNeverAhead
  /\ FloorHeld
  /\ \A h \in Handlers : Sound(work[h])

\* Whose turn it is follows from the parity of the transcript's length.
LEMMA TurnByParity ==
  ASSUME TypeOK, FairDialogue
  PROVE  TurnOf(transcript) = (IF (Len(transcript) + 1) % 2 = 1 THEN "CREATOR" ELSE "PROVIDER")
<1>1. transcript \in Seq(Offer) /\ Len(transcript) \in Nat  BY DEF TypeOK
<1>2. CASE transcript = <<>>
  BY <1>2 DEF TurnOf
<1>3. CASE transcript # <<>>
  <2>1. Len(transcript) \in 1..Len(transcript)  BY <1>1, <1>3
  <2>2. LastOf(transcript).role = (IF Len(transcript) % 2 = 1 THEN "CREATOR" ELSE "PROVIDER")
    BY <2>1 DEF FairDialogue, Legal, LastOf
  <2>3. (Len(transcript) + 1) % 2 = 1 <=> Len(transcript) % 2 # 1  BY <1>1
  <2> QED  BY <1>3, <2>2, <2>3 DEF TurnOf
<1> QED  BY <1>2, <1>3

-----------------------------------------------------------------------------
(* Types.                                                                  *)

LEMMA WorkShape ==
  ASSUME NEW w \in Works
  PROVE  /\ w.step \in {"signing", "inserting"} => w.offer \in Offer
         /\ w.step = "decided" => w.move \in [kind : Kinds, price : Nat]
         /\ w.step = "writing" => w.view \in View
         /\ w.step \in {"agreeing", "storing"} => w.agreement \in Agreement
BY DEF Works, Idle

LEMMA OfferShape ==
  ASSUME NEW offer \in Offer
  PROVE  /\ offer.role \in Roles /\ offer.kind \in Kinds /\ offer.price \in Nat
         /\ offer.expiresAt \in Nat /\ offer.seq \in Nat /\ offer.prev \in Seq(Content)
BY DEF Offer

LEMMA LastOfTranscript ==
  ASSUME TypeOK, transcript # <<>>
  PROVE  LastOf(transcript) \in Offer /\ Len(transcript) \in 1..Len(transcript)
<1>1. transcript \in Seq(Offer)  BY DEF TypeOK
<1>2. Len(transcript) \in 1..Len(transcript)  BY <1>1
<1> QED  BY <1>1, <1>2 DEF LastOf

LEMMA NextOfferType ==
  ASSUME TypeOK, NEW role \in Roles, NEW kind \in Kinds, NEW price \in Nat, NEW ttl \in Nat
  PROVE  /\ NextOffer(transcript, role, kind, price, ttl) \in Offer
         /\ NextOffer(transcript, role, kind, price, ttl).seq = Len(transcript)
         /\ NextOffer(transcript, role, kind, price, ttl).prev = Digest(transcript)
         /\ NextOffer(transcript, role, kind, price, ttl).role = role
         /\ NextOffer(transcript, role, kind, price, ttl).kind = kind
         /\ NextOffer(transcript, role, kind, price, ttl).price = IF kind = "DECLINE" THEN 0 ELSE price
<1>1. Len(transcript) \in Nat /\ Digest(transcript) \in Seq(Content) /\ now + ttl \in Nat
  BY DigestType DEF TypeOK
<1>2. (IF kind = "DECLINE" THEN 0 ELSE price) \in Nat  OBVIOUS
<1> DEFINE digest == Digest(transcript)
<1> HIDE DEF digest
<1>3. NextOffer(transcript, role, kind, price, ttl) =
        [role |-> role, kind |-> kind, price |-> IF kind = "DECLINE" THEN 0 ELSE price,
         expiresAt |-> now + ttl, seq |-> Len(transcript), prev |-> digest]
  BY DEF NextOffer, digest
<1>4. digest \in Seq(Content) /\ digest = Digest(transcript)  BY <1>1 DEF digest
<1> QED  BY <1>1, <1>2, <1>3, <1>4 DEF Offer

LEMMA ScaleType ==
  ASSUME NEW value \in Nat, NEW fraction \in Nat
  PROVE  Scale(value, fraction) \in Nat
<1>1. value * fraction \in Nat  OBVIOUS
<1> QED  BY <1>1, PolicyAssumption DEF Scale

LEMMA PolicyShape ==
  ASSUME TypeOK, policy # ByHand
  PROVE  policy.floor \in Nat /\ policy.opening \in Nat /\ policy.concession \in Nat
<1>1. policy \in [floor : Nat, opening : 0..ScaleUnit, concession : 0..ScaleUnit]
  BY PolicyAssumption DEF TypeOK
<1> QED  BY <1>1

\* The next ask is an amount, and never below the floor, whatever the transcript.
LEMMA AskAboveFloor ==
  ASSUME TypeOK, policy # ByHand
  PROVE  NextAsk(transcript) \in Nat /\ NextAsk(transcript) >= policy.floor
<1>1. /\ policy.floor \in Nat /\ policy.opening \in Nat /\ policy.concession \in Nat
  BY PolicyShape
<1>2. PreviousAsk(transcript) \in Nat
  <2> DEFINE own == {i \in 1..Len(transcript) :
                       transcript[i].role = "PROVIDER" /\ transcript[i].kind # "DECLINE"}
             latest == CHOOSE i \in own : \A k \in own : k <= i
  <2>1. Scale(BudgetMax, policy.opening) \in Nat
    BY <1>1, ScaleType, BudgetAssumption
  <2>2. ASSUME own # {} PROVE transcript[latest].price \in Nat
    <3>1. \A i \in 1..Len(transcript) : transcript[i].price \in Nat
      BY OfferShape DEF TypeOK
    <3>2. latest \in own
      <4>1. \E i \in own : \A k \in own : k <= i
        <5> DEFINE n == Len(transcript)
        <5>1. n \in Nat /\ own \subseteq 1..n  BY DEF TypeOK
        <5> HIDE DEF own
        <5> QED  BY <5>1, <2>2, GreatestExists
      <4> QED  BY <4>1
    <3> QED  BY <3>1, <3>2
  <2> QED  BY <2>1, <2>2 DEF PreviousAsk
<1> DEFINE ask == PreviousAsk(transcript)
           gap == IF ask > policy.floor THEN ask - policy.floor ELSE 0
<1>3. gap \in Nat  BY <1>1, <1>2
<1>4. Scale(gap, policy.concession) \in Nat  BY <1>1, <1>3, ScaleType
<1>5. NextAsk(transcript) =
        IF ask - Scale(gap, policy.concession) < policy.floor THEN policy.floor
        ELSE ask - Scale(gap, policy.concession)
  BY DEF NextAsk
<1> HIDE DEF ask, gap
<1>6. ask \in Nat  BY <1>2 DEF ask
<1> QED  BY <1>1, <1>4, <1>5, <1>6

LEMMA DecisionType ==
  ASSUME TypeOK, policy # ByHand
  PROVE  Decision(transcript) \in [kind : Kinds, price : Nat] /\ AboveFloor(Decision(transcript))
<1>1. policy.floor \in Nat /\ policy.opening \in Nat  BY PolicyShape
<1>2. NextAsk(transcript) \in Nat /\ NextAsk(transcript) >= policy.floor  BY AskAboveFloor
<1>3. Scale(BudgetMax, policy.opening) \in Nat  BY <1>1, ScaleType, BudgetAssumption
<1>4. transcript # <<>> => LastOf(transcript).price \in Nat  BY LastOfTranscript, OfferShape
<1>5. ASSUME NEW kind \in Kinds, NEW price \in Nat,
             kind \in {"ACCEPT", "COUNTER"} => price >= policy.floor
      PROVE  Move(kind, price) \in [kind : Kinds, price : Nat] /\ AboveFloor(Move(kind, price))
  BY <1>5 DEF Move, AboveFloor
<1>6. CASE policy.floor > BudgetMax
  BY <1>5, <1>6 DEF Decision, Kinds
<1>7. CASE ~(policy.floor > BudgetMax) /\ transcript = <<>>
  <2>1. Decision(transcript) = Move("PROPOSE", Scale(BudgetMax, policy.opening))
    BY <1>7 DEF Decision
  <2> QED  BY <1>3, <1>5, <2>1 DEF Kinds
<1>8. CASE ~(policy.floor > BudgetMax) /\ transcript # <<>>
  <2>1. \/ /\ Decision(transcript) = Move("ACCEPT", LastOf(transcript).price)
           /\ LastOf(transcript).price >= policy.floor
        \/ Decision(transcript) = Move("COUNTER", NextAsk(transcript))
    <3>1. CASE LastOf(transcript).price >= policy.floor
      BY <1>8, <3>1 DEF Decision
    <3>2. CASE ~(LastOf(transcript).price >= policy.floor)
      <4>1. ~(NextAsk(transcript) <= LastOf(transcript).price)
        BY <1>1, <1>2, <1>4, <1>8, <3>2
      <4> QED  BY <1>8, <3>2, <4>1 DEF Decision
    <3> QED  BY <3>1, <3>2
  <2>2. "ACCEPT" \in Kinds /\ "COUNTER" \in Kinds  BY DEF Kinds
  <2>3. LastOf(transcript).price \in Nat  BY <1>4, <1>8
  <2>4. CASE /\ Decision(transcript) = Move("ACCEPT", LastOf(transcript).price)
             /\ LastOf(transcript).price >= policy.floor
    BY <1>5, <2>2, <2>3, <2>4
  <2>5. CASE Decision(transcript) = Move("COUNTER", NextAsk(transcript))
    BY <1>2, <1>5, <2>2, <2>5
  <2> QED  BY <2>1, <2>4, <2>5
<1> QED  BY <1>6, <1>7, <1>8

-----------------------------------------------------------------------------
(* What a step leaves standing.                                            *)

\* An outcome does not depend on the clock.
LEMMA OutcomeStays ==
  ASSUME NEW view, Honest(view), transcript' = transcript
  PROVE  Honest(view)'
BY DEF Honest, ViewOf, StateOf, LastOf

LEMMA SoundStays ==
  ASSUME NEW w, Sound(w),
         transcript' = transcript, policy' = policy, signed \subseteq signed'
  PROVE  Sound(w)'
<1>1. Honest(w.view) => Honest(w.view)'  BY OutcomeStays
<1>2. \A move : AboveFloor(move) => AboveFloor(move)'  BY DEF AboveFloor
<1>3. Binding(w.agreement) => Binding(w.agreement)'  BY DEF Binding
<1> QED  BY <1>1, <1>2, <1>3 DEF Sound

\* The transcript's own rules survive a step that does not write it.
LEMMA TranscriptStays ==
  ASSUME ThreadInv, transcript' = transcript, policy' = policy
  PROVE  ChainVerifies' /\ FairDialogue' /\ FloorHeld'
<1>1. ChainVerifies'  BY DEF ThreadInv, ChainVerifies
<1>2. FairDialogue'  BY DEF ThreadInv, FairDialogue, Legal
<1>3. FloorHeld'  BY DEF ThreadInv, FloorHeld, AboveFloor
<1> QED  BY <1>1, <1>2, <1>3

\* A handler that takes up w disturbs no other handler.
LEMMA Takes ==
  ASSUME ThreadInv, NEW h \in Handlers, NEW w \in Works, Goes(h, w), Sound(w)',
         transcript' = transcript, policy' = policy, signed \subseteq signed'
  PROVE  /\ work' \in [Handlers -> Works]
         /\ \A g \in Handlers : Sound(work[g])'
<1>1. work \in [Handlers -> Works]  BY DEF ThreadInv, TypeOK
<1>2. work' \in [Handlers -> Works] /\ \A g \in Handlers : work'[g] = IF g = h THEN w ELSE work[g]
  BY <1>1 DEF Goes
<1>3. ASSUME NEW g \in Handlers PROVE Sound(work[g])'
  <2>1. CASE g = h
    <3>1. work'[g] = w  BY <1>2, <2>1
    <3> QED  BY <3>1 DEF Sound
  <2>2. CASE g # h
    <3>1. work'[g] = work[g]  BY <1>2, <2>2
    <3>2. Sound(work[g])  BY DEF ThreadInv
    <3> QED  BY <3>1, <3>2, SoundStays DEF Sound
  <2> QED  BY <2>1, <2>2
<1> QED  BY <1>2, <1>3

\* A step that only changes what one handler holds.
LEMMA HandlerOnly ==
  ASSUME ThreadInv, NEW h \in Handlers, NEW w \in Works, Goes(h, w), Sound(w),
         UNCHANGED <<policy, transcript, row, agreement, signed, now>>
  PROVE  ThreadInv'
<1>1. Sound(w)'  BY SoundStays
<1>2. work' \in [Handlers -> Works] /\ \A g \in Handlers : Sound(work[g])'
  BY <1>1, Takes
<1>3. ChainVerifies' /\ FairDialogue' /\ FloorHeld'  BY TranscriptStays
<1>4. TypeOK'  BY <1>2 DEF ThreadInv, TypeOK
<1>5. AgreementsBinding'  BY DEF ThreadInv, AgreementsBinding
<1>6. RowNeverAhead'
  <2>1. Honest(row)  BY DEF ThreadInv, RowNeverAhead, Honest
  <2>2. Honest(row)' => (row.state \in {"AGREED", "DECLINED"} => row = ViewOf(transcript)')
    BY DEF Honest
  <2> QED  BY <2>1, OutcomeStays DEF RowNeverAhead, Honest
<1> QED  BY <1>2, <1>3, <1>4, <1>5, <1>6 DEF ThreadInv

-----------------------------------------------------------------------------
(* One lemma per action.                                                   *)

\* An offer built on the stored transcript and found valid there fits it.
LEMMA PrepareKeeps ==
  ASSUME ThreadInv, NEW h \in Handlers, NEW role \in Roles, NEW kind \in Kinds,
         NEW price \in Nat, NEW ttl \in Nat, Prepare(h, role, kind, price, ttl),
         role = "PROVIDER" => AboveFloor(Move(kind, price)),
         UNCHANGED <<policy, transcript, row, agreement, signed, now>>
  PROVE  ThreadInv'
<1> DEFINE offer == NextOffer(transcript, role, kind, price, ttl)
           w == [step |-> "signing", offer |-> offer]
<1>0. TypeOK  BY DEF ThreadInv
<1>1. /\ offer \in Offer /\ offer.seq = Len(transcript) /\ offer.prev = Digest(transcript)
      /\ offer.role = role /\ offer.kind = kind
      /\ offer.price = IF kind = "DECLINE" THEN 0 ELSE price
  BY <1>0, NextOfferType
<1>2. ValidNext(transcript, offer) /\ Goes(h, w)  BY DEF Prepare
<1> HIDE DEF offer
<1>3. Unclosed(transcript)
  <2>1. transcript # <<>> => LastOf(transcript).kind \in Kinds  BY <1>0, LastOfTranscript, OfferShape
  <2>2. Open(transcript)  BY <1>2 DEF ValidNext
  <2> QED  BY <2>1, <2>2 DEF Open, StateOf, Unclosed, Kinds
<1>4. Fits(transcript, offer)
  BY <1>1, <1>2, <1>3 DEF Fits, ValidNext, InTurn
<1>5. offer.role = "PROVIDER" => AboveFloor(offer)
  BY <1>1 DEF AboveFloor, Move
<1>6. w \in Works  BY <1>1 DEF Works
<1>7. Len(transcript) \in Nat  BY <1>0 DEF TypeOK
<1>8. Sound(w)  BY <1>1, <1>4, <1>5, <1>7 DEF Sound
<1> HIDE DEF w
<1> QED  BY <1>2, <1>6, <1>8, HandlerOnly

LEMMA SpeakKeeps ==
  ASSUME ThreadInv, NEW h \in Handlers, NEW role \in Roles, NEW kind \in Kinds,
         NEW price \in AskedPrices, NEW ttl \in Ttls, Speak(h, role, kind, price, ttl)
  PROVE  ThreadInv'
<1>1. price \in Nat /\ ttl \in Nat  BY BudgetAssumption, BoundsAssumption
<1>2. Prepare(h, role, kind, price, ttl)  BY DEF Speak
<1>3. role = "PROVIDER" => AboveFloor(Move(kind, price))  BY DEF Speak, AboveFloor
<1>4. UNCHANGED <<policy, transcript, row, agreement, signed, now>>  BY DEF Speak
<1> QED  BY <1>1, <1>2, <1>3, <1>4, PrepareKeeps

LEMMA DecideKeeps ==
  ASSUME ThreadInv, NEW h \in Handlers, Decide(h)
  PROVE  ThreadInv'
<1> DEFINE move == Decision(transcript)
           w == [step |-> "decided", move |-> move]
<1>1. policy # ByHand /\ TypeOK  BY DEF ThreadInv, Decide
<1>2. move \in [kind : Kinds, price : Nat] /\ AboveFloor(move)  BY <1>1, DecisionType
<1>3. Goes(h, w) /\ UNCHANGED <<policy, transcript, row, agreement, signed, now>>  BY DEF Decide
<1> HIDE DEF move
<1>4. w \in Works  BY <1>2 DEF Works
<1>5. Sound(w)  BY <1>2 DEF Sound
<1> HIDE DEF w
<1> QED  BY <1>3, <1>4, <1>5, HandlerOnly

LEMMA PlayDecisionKeeps ==
  ASSUME ThreadInv, NEW h \in Handlers, NEW ttl \in Ttls, PlayDecision(h, ttl)
  PROVE  ThreadInv'
<1> DEFINE move == work[h].move
<1>1. work[h] \in Works /\ work[h].step = "decided" /\ Sound(work[h])
  BY DEF ThreadInv, TypeOK, PlayDecision
<1>2. move \in [kind : Kinds, price : Nat] /\ AboveFloor(move)
  BY <1>1, WorkShape DEF Sound
<1>3. /\ Prepare(h, "PROVIDER", move.kind, move.price, ttl)
      /\ UNCHANGED <<policy, transcript, row, agreement, signed, now>>
  BY DEF PlayDecision
<1>4. ttl \in Nat /\ "PROVIDER" \in Roles  BY BoundsAssumption DEF Roles
<1> HIDE DEF move
<1>5. move.kind \in Kinds /\ move.price \in Nat  BY <1>2
<1>6. AboveFloor(Move(move.kind, move.price))  BY <1>2 DEF AboveFloor, Move
<1> QED  BY <1>3, <1>4, <1>5, <1>6, PrepareKeeps

LEMMA SignKeeps ==
  ASSUME ThreadInv, NEW h \in Handlers, Sign(h)
  PROVE  ThreadInv'
<1> DEFINE w == [step |-> "inserting", offer |-> work[h].offer]
<1>1. work[h] \in Works /\ work[h].step = "signing" /\ Sound(work[h])
  BY DEF ThreadInv, TypeOK, Sign
<1>2. work[h].offer \in Offer  BY <1>1, WorkShape
<1>3. w \in Works  BY <1>2 DEF Works
<1>4. Sound(w)  BY <1>1 DEF Sound
<1>5. Goes(h, w) /\ UNCHANGED <<policy, transcript, row, agreement, signed, now>>  BY DEF Sign
<1> HIDE DEF w
<1> QED  BY <1>3, <1>4, <1>5, HandlerOnly

LEMMA ViewType ==
  ASSUME TypeOK
  PROVE  ViewOf(transcript) \in View
<1>1. StateOf(transcript) = "AGREED" => LastOf(transcript).price \in Nat
  BY LastOfTranscript, OfferShape DEF StateOf
<1>2. StateOf(transcript) \in {"OPEN", "AGREED", "DECLINED", "EXPIRED"}  BY DEF StateOf
<1> QED  BY <1>1, <1>2 DEF ViewOf, View

LEMMA ReloadKeeps ==
  ASSUME ThreadInv, NEW h \in Handlers, Reload(h)
  PROVE  ThreadInv'
<1> DEFINE view == ViewOf(transcript)
           w == [step |-> "writing", view |-> view]
<1>1. view \in View /\ Honest(view)  BY ViewType DEF ThreadInv, Honest
<1>2. Goes(h, w) /\ UNCHANGED <<policy, transcript, row, agreement, signed, now>>  BY DEF Reload
<1> HIDE DEF view
<1>3. w \in Works  BY <1>1 DEF Works
<1>4. Sound(w)  BY <1>1 DEF Sound
<1> HIDE DEF w
<1> QED  BY <1>2, <1>3, <1>4, HandlerOnly

LEMMA AbandonKeeps ==
  ASSUME ThreadInv, NEW h \in Handlers, Abandon(h)
  PROVE  ThreadInv'
<1>1. Idle \in Works  BY DEF Works
<1>2. Sound(Idle)  BY DEF Sound, Idle
<1>3. Goes(h, Idle) /\ UNCHANGED <<policy, transcript, row, agreement, signed, now>>  BY DEF Abandon
<1> QED  BY <1>1, <1>2, <1>3, HandlerOnly

LEMMA ComposeAgreementKeeps ==
  ASSUME ThreadInv, NEW h \in Handlers, ComposeAgreement(h)
  PROVE  ThreadInv'
<1> DEFINE a == [price |-> LastOf(transcript).price, transcript |-> Digest(transcript),
                 expiry |-> now + AgreementTtl]
           w == [step |-> "agreeing", agreement |-> a]
<1>1. TypeOK /\ StateOf(transcript) = "AGREED"  BY DEF ThreadInv, ComposeAgreement
<1>2. transcript # <<>> /\ LastOf(transcript).kind = "ACCEPT"  BY <1>1 DEF StateOf
<1>3. /\ LastOf(transcript).price \in Nat /\ Digest(transcript) \in Seq(Content)
      /\ now + AgreementTtl \in Nat
  BY <1>1, <1>2, LastOfTranscript, OfferShape, DigestType, BoundsAssumption DEF TypeOK
<1>4. a \in Agreement  BY <1>3 DEF Agreement
<1>5. Binding(a)  BY <1>2 DEF Binding
<1>6. Goes(h, w) /\ UNCHANGED <<policy, transcript, row, agreement, signed, now>>
  BY DEF ComposeAgreement
<1> HIDE DEF a
<1>7. w \in Works  BY <1>4 DEF Works
<1>8. Sound(w)  BY <1>5 DEF Sound
<1> HIDE DEF w
<1> QED  BY <1>6, <1>7, <1>8, HandlerOnly

LEMMA WriteKeeps ==
  ASSUME ThreadInv, NEW h \in Handlers, Write(h)
  PROVE  ThreadInv'
<1>1. work[h] \in Works /\ work[h].step = "writing" /\ Sound(work[h])
  BY DEF ThreadInv, TypeOK, Write
<1>2. work[h].view \in View /\ Honest(work[h].view)  BY <1>1, WorkShape DEF Sound
<1>3. /\ row' = work[h].view /\ Goes(h, Idle)
      /\ UNCHANGED <<policy, transcript, agreement, signed, now>>
  BY DEF Write
<1>4. Idle \in Works /\ Sound(Idle)'  BY DEF Works, Sound, Idle
<1>5. work' \in [Handlers -> Works] /\ \A g \in Handlers : Sound(work[g])'
  BY <1>3, <1>4, Takes
<1>6. ChainVerifies' /\ FairDialogue' /\ FloorHeld'  BY <1>3, TranscriptStays
<1>7. TypeOK'  BY <1>2, <1>3, <1>5 DEF ThreadInv, TypeOK
<1>8. AgreementsBinding'  BY <1>3 DEF ThreadInv, AgreementsBinding
<1>9. RowNeverAhead'
  BY <1>2, <1>3 DEF RowNeverAhead, Honest, ViewOf, StateOf
<1> QED  BY <1>5, <1>6, <1>7, <1>8, <1>9 DEF ThreadInv

LEMMA SignAgreementKeeps ==
  ASSUME ThreadInv, NEW h \in Handlers, SignAgreement(h)
  PROVE  ThreadInv'
<1> DEFINE a == work[h].agreement
           w == [step |-> "storing", agreement |-> a]
<1>1. work[h] \in Works /\ work[h].step = "agreeing" /\ Sound(work[h])
  BY DEF ThreadInv, TypeOK, SignAgreement
<1>2. a \in Agreement /\ Binding(a)  BY <1>1, WorkShape DEF Sound
<1>3. /\ signed' = signed \cup {a} /\ Goes(h, w)
      /\ UNCHANGED <<policy, transcript, row, agreement, now>>
  BY DEF SignAgreement
<1> HIDE DEF a
<1>4. w \in Works  BY <1>2 DEF Works
<1>5. \A held : held = w => Sound(held)'
  <2>1. a \in signed'  BY <1>3
  <2> QED  BY <1>2, <1>3, <2>1 DEF Sound, Binding
<1> HIDE DEF w
<1>6. work' \in [Handlers -> Works] /\ \A g \in Handlers : Sound(work[g])'
  <2>1. PICK held \in Works : held = w  BY <1>4
  <2>2. Goes(h, held) /\ Sound(held)'  BY <1>3, <1>5, <2>1
  <2> QED  BY <1>3, <2>2, Takes
<1>7. ChainVerifies' /\ FairDialogue' /\ FloorHeld'  BY <1>3, TranscriptStays
<1>8. TypeOK'  BY <1>2, <1>3, <1>6 DEF ThreadInv, TypeOK
<1>9. AgreementsBinding'
  BY <1>2, <1>3 DEF ThreadInv, AgreementsBinding, Binding
<1>10. RowNeverAhead'  BY <1>3 DEF ThreadInv, RowNeverAhead, ViewOf, StateOf
<1> QED  BY <1>6, <1>7, <1>8, <1>9, <1>10 DEF ThreadInv

LEMMA StoreAgreementKeeps ==
  ASSUME ThreadInv, NEW h \in Handlers, StoreAgreement(h)
  PROVE  ThreadInv'
<1>1. work[h] \in Works /\ work[h].step = "storing" /\ Sound(work[h])
  BY DEF ThreadInv, TypeOK, StoreAgreement
<1>2. work[h].agreement \in Agreement /\ work[h].agreement \in signed
  BY <1>1, WorkShape DEF Sound
<1>3. /\ agreement' = work[h].agreement /\ Goes(h, Idle)
      /\ UNCHANGED <<policy, transcript, row, signed, now>>
  BY DEF StoreAgreement
<1>4. Idle \in Works /\ Sound(Idle)'  BY DEF Works, Sound, Idle
<1>5. work' \in [Handlers -> Works] /\ \A g \in Handlers : Sound(work[g])'
  BY <1>3, <1>4, Takes
<1>6. ChainVerifies' /\ FairDialogue' /\ FloorHeld'  BY <1>3, TranscriptStays
<1>7. TypeOK'  BY <1>2, <1>3, <1>5 DEF ThreadInv, TypeOK
<1>8. AgreementsBinding'  BY <1>2, <1>3 DEF ThreadInv, AgreementsBinding
<1>9. RowNeverAhead'  BY <1>3 DEF ThreadInv, RowNeverAhead, ViewOf, StateOf
<1> QED  BY <1>5, <1>6, <1>7, <1>8, <1>9 DEF ThreadInv

LEMMA TickKeeps ==
  ASSUME ThreadInv, Tick
  PROVE  ThreadInv'
<1>1. now' = now + 1 /\ UNCHANGED <<policy, transcript, row, agreement, signed, work>>
  BY DEF Tick
<1>2. ChainVerifies' /\ FairDialogue' /\ FloorHeld'  BY <1>1, TranscriptStays
<1>3. TypeOK'  BY <1>1 DEF ThreadInv, TypeOK
<1>4. AgreementsBinding'  BY <1>1 DEF ThreadInv, AgreementsBinding
<1>5. RowNeverAhead'  BY <1>1 DEF ThreadInv, RowNeverAhead, ViewOf, StateOf
<1>6. ASSUME NEW g \in Handlers PROVE Sound(work[g])'
  <2>1. Sound(work[g])  BY DEF ThreadInv
  <2>2. work'[g] = work[g]  BY <1>1
  <2> QED  BY <1>1, <2>1, <2>2, SoundStays DEF Sound
<1> QED  BY <1>2, <1>3, <1>4, <1>5, <1>6 DEF ThreadInv

\* The transcript grows by an offer that fits it, and only while offers may
\* follow: no outcome is announced or signed by then.
LEMMA InsertKeeps ==
  ASSUME ThreadInv, NEW h \in Handlers, Insert(h)
  PROVE  ThreadInv'
<1> DEFINE offer == work[h].offer
           n == Len(transcript)
<1>0. TypeOK /\ ChainVerifies /\ FairDialogue /\ FloorHeld /\ AgreementsBinding /\ RowNeverAhead
  BY DEF ThreadInv
<1>1. /\ work[h] \in Works /\ work[h].step = "inserting" /\ Sound(work[h]) /\ SeqFree(offer)
      /\ transcript' = Append(transcript, offer) /\ Goes(h, [step |-> "reloading"])
      /\ UNCHANGED <<policy, row, agreement, signed, now>>
  BY DEF ThreadInv, TypeOK, Insert
<1>2. offer \in Offer  BY <1>1, WorkShape
<1>3. n \in Nat /\ transcript \in Seq(Offer) /\ offer.seq \in Nat
  BY <1>0, <1>2, OfferShape DEF TypeOK
<1>4. /\ offer.seq = n /\ Fits(transcript, offer)
      /\ offer.role = "PROVIDER" => AboveFloor(offer)
  <2>1. offer.seq <= n  BY <1>1 DEF Sound
  <2>2. offer.seq = n  BY <1>0, <1>1, <1>3, <2>1, FreePlace
  <2> QED  BY <1>1, <2>2 DEF Sound
<1> HIDE DEF offer
<1>5. /\ transcript' \in Seq(Offer) /\ Len(transcript') = n + 1 /\ transcript' # <<>>
      /\ \A i \in 1..n : transcript'[i] = transcript[i]
      /\ transcript'[n + 1] = offer
  BY <1>1, <1>2, <1>3
<1>6. ChainVerifies'
  <2>1. Verifies(transcript) /\ offer.prev = Digest(transcript)
    BY <1>0, <1>4 DEF ChainVerifies, Fits
  <2> QED  BY <1>1, <1>2, <1>3, <1>4, <2>1, ChainAppend DEF ChainVerifies
<1>7. FairDialogue'
  <2>1. n + 1 <= MaxMessages  BY <1>3, <1>4, BoundsAssumption DEF Fits
  <2>2. ASSUME NEW i \in 1..n PROVE Legal(i)'
    <3>1. Legal(i)  BY <1>0 DEF FairDialogue
    <3>2. i = n => transcript[i].kind \in {"PROPOSE", "COUNTER"}
      BY <1>3, <1>4 DEF Fits, Unclosed, LastOf
    <3>3. i # n => i < n  BY <1>3
    <3>4. transcript'[i] = transcript[i]  BY <1>5
    <3>5. i # 1 => transcript'[i - 1] = transcript[i - 1]
      <4>1. i # 1 => i - 1 \in 1..n  BY <1>3
      <4> QED  BY <1>5, <4>1
    <3>6. i = 1 => transcript[i].kind = "PROPOSE"  BY <3>1 DEF Legal
    <3> QED  BY <3>1, <3>2, <3>3, <3>4, <3>5, <3>6 DEF Legal, PriceAllowed
  <2>3. ASSUME NEW i, i = n + 1 PROVE Legal(i)'
    <3>1. offer.role = (IF (n + 1) % 2 = 1 THEN "CREATOR" ELSE "PROVIDER")
      BY <1>0, <1>4, TurnByParity DEF Fits
    <3>2. offer.kind = "PROPOSE" <=> n + 1 = 1
      <4>1. transcript = <<>> <=> n = 0  BY <1>3
      <4> QED  BY <1>3, <1>4, <4>1 DEF Fits
    <3>3. IF offer.kind = "DECLINE" THEN offer.price = 0 ELSE PriceAllowed(offer)
      BY <1>4 DEF Fits
    <3>4. offer.kind = "ACCEPT" => offer.price = transcript'[n + 1 - 1].price
      <4>1. offer.kind = "ACCEPT" => transcript # <<>> /\ offer.price = transcript[n].price
        BY <1>4 DEF Fits, AcceptsLast, LastOf
      <4>2. transcript # <<>> => n \in 1..n  BY <1>3
      <4>3. n + 1 - 1 = n  BY <1>3
      <4> QED  BY <1>5, <4>1, <4>2, <4>3
    <3>5. ~(n + 1 < Len(transcript'))  BY <1>3, <1>5
    <3>6. transcript'[i] = offer  BY <1>5, <2>3
    <3> QED  BY <2>3, <3>1, <3>2, <3>3, <3>4, <3>5, <3>6 DEF Legal, PriceAllowed
  <2>4. \A i \in 1..(n + 1) : i \in 1..n \/ i = n + 1  BY <1>3
  <2>5. ASSUME NEW i \in 1..(n + 1) PROVE Legal(i)'
    <3>1. CASE i \in 1..n  BY <2>2, <3>1
    <3>2. CASE i = n + 1  BY <2>3, <3>2
    <3> QED  BY <2>4, <3>1, <3>2
  <2> QED  BY <1>5, <2>1, <2>5 DEF FairDialogue
<1>8. FloorHeld'
  <2>1. \A move : AboveFloor(move) => AboveFloor(move)'  BY <1>1 DEF AboveFloor
  <2>2. \A i \in 1..(n + 1) : i \in 1..n \/ i = n + 1  BY <1>3
  <2>3. ASSUME NEW i \in 1..(n + 1), transcript'[i].role = "PROVIDER"
        PROVE  AboveFloor(transcript'[i])
    BY <1>0, <1>4, <1>5, <2>2, <2>3 DEF FloorHeld
  <2> QED  BY <1>1, <1>5, <2>1, <2>3 DEF FloorHeld, AboveFloor
<1>9. Unclosed(transcript)  BY <1>4 DEF Fits
<1>10. ASSUME NEW a, Binding(a) PROVE FALSE
  BY <1>9, <1>10 DEF Unclosed, Binding
<1>11. ASSUME NEW view, Honest(view) PROVE view.state \notin {"AGREED", "DECLINED"}
  BY <1>9, <1>11 DEF Unclosed, Honest, ViewOf, StateOf
<1>12. AgreementsBinding'
  <2>1. signed = {}  BY <1>0, <1>10 DEF AgreementsBinding, Binding
  <2> QED  BY <1>0, <1>1, <2>1 DEF AgreementsBinding
<1>13. RowNeverAhead'
  BY <1>0, <1>1, <1>11 DEF RowNeverAhead, Honest
<1>14. ASSUME NEW w, Sound(w),
              w.step \in {"signing", "inserting"} => w.offer.seq <= n /\ w.offer.seq \in Nat
       PROVE  Sound(w)'
  <2>1. w.step \in {"signing", "inserting"} =>
           w.offer.seq <= Len(transcript') /\ w.offer.seq # Len(transcript')
    BY <1>3, <1>5, <1>14
  <2>2. w.step = "writing" => Honest(w.view)'
    <3>1. w.step = "writing" => w.view.state \notin {"AGREED", "DECLINED"}
      BY <1>11, <1>14 DEF Sound
    <3> QED  BY <3>1 DEF Honest
  <2>3. w.step \notin {"agreeing", "storing"}  BY <1>10, <1>14 DEF Sound
  <2>4. \A move : AboveFloor(move) => AboveFloor(move)'  BY <1>1 DEF AboveFloor
  <2> QED  BY <1>14, <2>1, <2>2, <2>3, <2>4 DEF Sound
<1>15. /\ work' \in [Handlers -> Works]
       /\ \A g \in Handlers : work'[g] = IF g = h THEN [step |-> "reloading"] ELSE work[g]
  <2>1. [step |-> "reloading"] \in Works  BY DEF Works
  <2> QED  BY <1>0, <1>1, <2>1 DEF TypeOK, Goes
<1>16. ASSUME NEW g \in Handlers PROVE Sound(work[g])'
  <2>1. CASE g = h
    BY <1>15, <2>1 DEF Sound
  <2>2. CASE g # h
    <3>1. work'[g] = work[g] /\ Sound(work[g]) /\ work[g] \in Works
      BY <1>15, <2>2 DEF ThreadInv, TypeOK
    <3>2. work[g].step \in {"signing", "inserting"} =>
            work[g].offer.seq <= n /\ work[g].offer.seq \in Nat
      BY <3>1, WorkShape, OfferShape DEF Sound
    <3> QED  BY <1>14, <3>1, <3>2 DEF Sound
  <2> QED  BY <2>1, <2>2
<1>17. TypeOK'  BY <1>0, <1>1, <1>5, <1>15 DEF TypeOK
<1> QED  BY <1>6, <1>7, <1>8, <1>12, <1>13, <1>16, <1>17 DEF ThreadInv

-----------------------------------------------------------------------------
(* The theorems.                                                           *)

LEMMA InitHolds ==
  ASSUME Init
  PROVE  ThreadInv
<1>1. /\ transcript = <<>> /\ Len(transcript) = 0 /\ transcript \in Seq(Offer)
      /\ agreement = NoAgreement /\ signed = {} /\ row = [state |-> "OPEN", price |-> 0]
      /\ now = 0
  BY DEF Init
<1>2. TypeOK
  <2>1. NoAgreement \in Agreement  BY DEF NoAgreement, Agreement
  <2>2. Idle \in Works  BY DEF Works
  <2> QED  BY <1>1, <2>1, <2>2 DEF Init, TypeOK, View
<1>3. ChainVerifies /\ FloorHeld  BY <1>1 DEF ChainVerifies, Verifies, FloorHeld
<1>4. FairDialogue  BY <1>1, BoundsAssumption DEF FairDialogue
<1>5. AgreementsBinding /\ RowNeverAhead  BY <1>1 DEF AgreementsBinding, RowNeverAhead
<1>6. ASSUME NEW h \in Handlers PROVE Sound(work[h])
  <2>1. work[h] = Idle  BY DEF Init
  <2> QED  BY <2>1 DEF Sound, Idle
<1> QED  BY <1>2, <1>3, <1>4, <1>5, <1>6 DEF ThreadInv

LEMMA StepKeeps ==
  ASSUME ThreadInv, [Next]_vars
  PROVE  ThreadInv'
<1>1. CASE UNCHANGED vars
  <2>1. /\ transcript' = transcript /\ policy' = policy /\ signed' = signed /\ work' = work
        /\ row' = row /\ agreement' = agreement /\ now' = now
    BY <1>1 DEF vars
  <2>2. ChainVerifies' /\ FairDialogue' /\ FloorHeld'  BY <2>1, TranscriptStays
  <2>3. TypeOK'  BY <2>1 DEF ThreadInv, TypeOK
  <2>4. AgreementsBinding'  BY <2>1 DEF ThreadInv, AgreementsBinding
  <2>5. RowNeverAhead'  BY <2>1 DEF ThreadInv, RowNeverAhead, ViewOf, StateOf
  <2>6. ASSUME NEW g \in Handlers PROVE Sound(work[g])'
    <3>1. Sound(work[g]) /\ work'[g] = work[g]  BY <2>1 DEF ThreadInv
    <3> QED  BY <2>1, <3>1, SoundStays DEF Sound
  <2> QED  BY <2>2, <2>3, <2>4, <2>5, <2>6 DEF ThreadInv
<1>2. CASE Tick
  BY <1>2, TickKeeps
<1>3. ASSUME NEW h \in Handlers, Handler(h) PROVE ThreadInv'
  <2>1. CASE \E role \in Roles, kind \in Kinds, price \in AskedPrices, ttl \in Ttls :
               Speak(h, role, kind, price, ttl)
    BY <2>1, SpeakKeeps
  <2>2. CASE Decide(h)  BY <2>2, DecideKeeps
  <2>3. CASE \E ttl \in Ttls : PlayDecision(h, ttl)  BY <2>3, PlayDecisionKeeps
  <2>4. CASE Sign(h)  BY <2>4, SignKeeps
  <2>5. CASE Insert(h)  BY <2>5, InsertKeeps
  <2>6. CASE Reload(h)  BY <2>6, ReloadKeeps
  <2>7. CASE Write(h)  BY <2>7, WriteKeeps
  <2>8. CASE ComposeAgreement(h)  BY <2>8, ComposeAgreementKeeps
  <2>9. CASE SignAgreement(h)  BY <2>9, SignAgreementKeeps
  <2>10. CASE StoreAgreement(h)  BY <2>10, StoreAgreementKeeps
  <2>11. CASE Abandon(h)  BY <2>11, AbandonKeeps
  <2> QED
    BY <1>3, <2>1, <2>2, <2>3, <2>4, <2>5, <2>6, <2>7, <2>8, <2>9, <2>10, <2>11 DEF Handler
<1> QED  BY <1>1, <1>2, <1>3 DEF Next

\* Every reachable state of a thread satisfies the inductive invariant.
THEOREM ThreadInvariance == Spec => []ThreadInv
<1>1. Init => ThreadInv  BY InitHolds
<1>2. ThreadInv /\ [Next]_vars => ThreadInv'  BY StepKeeps
<1> QED  BY <1>1, <1>2, PTL DEF Spec

\* The variables, and what every handler holds, keep their types.
THEOREM ThreadTypeCorrect == Spec => []TypeOK
<1>1. ThreadInv => TypeOK  BY DEF ThreadInv
<1> QED  BY <1>1, ThreadInvariance, PTL

\* With any number of handlers appending at once the stored rows form one
\* unbroken chain, which verifyTranscript accepts.
THEOREM TranscriptVerifies == Spec => []ChainVerifies
<1>1. ThreadInv => ChainVerifies  BY DEF ThreadInv
<1> QED  BY <1>1, ThreadInvariance, PTL

\* Every stored message obeys the rules that were checked against a copy of the
\* transcript: turns alternate, nothing follows a closing message, prices stay in
\* the budget, ACCEPT names the other side's price.
THEOREM RulesHoldOfTheRows == Spec => []FairDialogue
<1>1. ThreadInv => FairDialogue  BY DEF ThreadInv
<1> QED  BY <1>1, ThreadInvariance, PTL

\* Whatever was ever signed for a thread says the same price and transcript.
THEOREM SignedIsAgreed == Spec => []AgreementsBinding
<1>1. ThreadInv => AgreementsBinding  BY DEF ThreadInv
<1> QED  BY <1>1, ThreadInvariance, PTL

\* A row that announces an outcome announces the transcript's own.
THEOREM RowIsHonest == Spec => []RowNeverAhead
<1>1. ThreadInv => RowNeverAhead  BY DEF ThreadInv
<1> QED  BY <1>1, ThreadInvariance, PTL

\* A provider that leaves its moves to its policy is bound to no price below its
\* floor: an ACCEPT of its own is at least the floor, and so is every ask of its
\* own that the creator accepts.
THEOREM NeverBelowTheFloor == Spec => []FloorKept
<1>1. ThreadInv => FloorKept
  <2> SUFFICES ASSUME ThreadInv, policy # ByHand, StateOf(transcript) = "AGREED"
               PROVE  LastOf(transcript).price >= policy.floor
    BY DEF FloorKept
  <2> DEFINE n == Len(transcript)
  <2>1. transcript # <<>> /\ LastOf(transcript).kind = "ACCEPT"  BY DEF StateOf
  <2>2. n \in Nat /\ n \in 1..n /\ TypeOK  BY <2>1, LastOfTranscript DEF ThreadInv, TypeOK
  <2>3. Legal(n) /\ FloorHeld  BY <2>2 DEF ThreadInv, FairDialogue
  <2>4. CASE LastOf(transcript).role = "PROVIDER"
    BY <2>1, <2>2, <2>3, <2>4 DEF FloorHeld, AboveFloor, LastOf
  <2>5. CASE LastOf(transcript).role # "PROVIDER"
    <3>1. n % 2 = 1 /\ n # 1  BY <2>1, <2>2, <2>3, <2>5 DEF Legal, LastOf
    <3>2. n - 1 \in 1..n /\ (n - 1) % 2 # 1 /\ n - 1 < n
      <4> DEFINE m == n - 1
      <4>1. m \in Nat /\ n = m + 1 /\ m \in 1..n /\ m < n
        <5>1. n \in Nat /\ n # 1 /\ n # 0  BY <2>2, <3>1
        <5> HIDE DEF n
        <5> QED  BY <5>1
      <4>2. (m + 1) % 2 = 1 => m % 2 # 1
        <5> HIDE DEF m
        <5> QED  BY <4>1
      <4> QED  BY <3>1, <4>1, <4>2
    <3>3. /\ transcript[n - 1].role = "PROVIDER"
          /\ transcript[n - 1].kind \in {"PROPOSE", "COUNTER"}
          /\ n - 1 = 1 <=> transcript[n - 1].kind = "PROPOSE"
      <4>1. Legal(n - 1)  BY <3>2 DEF ThreadInv, FairDialogue
      <4> QED  BY <3>2, <4>1 DEF Legal
    <3>4. transcript[n - 1].kind = "COUNTER"
      <4>1. n - 1 # 1
        <5>1. 1 % 2 = 1  OBVIOUS
        <5> HIDE DEF n
        <5> QED  BY <3>2, <5>1
      <4> QED  BY <3>3, <4>1
    <3>5. transcript[n - 1].price >= policy.floor
      BY <2>3, <3>2, <3>3, <3>4 DEF FloorHeld, AboveFloor
    <3>6. LastOf(transcript).price = transcript[n - 1].price
      BY <2>1, <2>3 DEF Legal, LastOf
    <3> QED  BY <3>5, <3>6
  <2> QED  BY <2>4, <2>5
<1> QED  BY <1>1, ThreadInvariance, PTL

=============================================================================
