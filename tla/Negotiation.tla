----------------------------- MODULE Negotiation -----------------------------
(***************************************************************************)
(* One negotiation thread between a job's creator and one provider:        *)
(* packages/a2a-protocol/src/negotiation.ts (the transcript's rules and    *)
(* the provider's policy) as driven by concurrent HTTP handlers in         *)
(* services/a2a-marketplace-service/src/negotiation.service.ts.            *)
(*                                                                         *)
(* A handler runs from one await to the next.  What it read before an      *)
(* await it still uses after it; it may also die there.  The digest of a   *)
(* message, which commits the whole chain, is the sequence of the contents *)
(* up to that message: two chains have equal digests only if they are      *)
(* equal.                                                                  *)
(***************************************************************************)
EXTENDS Integers, Sequences, FiniteSets

CONSTANTS
  Handlers,              \* slots of concurrently running requests
  BudgetMin, BudgetMax,  \* the job's price range
  AskedPrices,           \* prices named by hand
  Policies,              \* auto-respond policies of the provider
  ByHand,                \* no policy: the provider's owner speaks for it
  ScaleUnit,             \* PRECISION of scale()
  MaxMessages,           \* MAX_NEGOTIATION_MESSAGES
  Ttls,                  \* lifetimes asked for an offer
  AgreementTtl,          \* AGREEMENT_TTL_SECONDS
  MaxTime                \* bound: the last instant

Roles == {"CREATOR", "PROVIDER"}
Kinds == {"PROPOSE", "COUNTER", "ACCEPT", "DECLINE"}

ASSUME BudgetAssumption ==
  BudgetMin \in Nat /\ BudgetMax \in Nat /\ BudgetMin <= BudgetMax /\ AskedPrices \subseteq Nat
ASSUME PolicyAssumption ==
  /\ ScaleUnit \in Nat \ {0}
  /\ Policies \subseteq [floor : Nat, opening : 0..ScaleUnit, concession : 0..ScaleUnit]
  /\ ByHand \notin Policies
ASSUME BoundsAssumption ==
  MaxMessages \in Nat /\ Ttls \subseteq Nat /\ AgreementTtl \in Nat /\ MaxTime \in Nat

VARIABLES
  policy,      \* who speaks for the provider: one policy, or its owner
  transcript,  \* the thread's A2ANegotiationMessage rows, in seq order
  row,         \* the state stored in the A2ANegotiation row
  agreement,   \* the agreement stored in the row
  signed,      \* every agreement that both agents' keys signed
  work,        \* what each handler holds between two awaits
  now

vars == <<policy, transcript, row, agreement, signed, work, now>>

-----------------------------------------------------------------------------
(* The protocol: pure functions of a transcript.                           *)

Content == [role : Roles, kind : Kinds, price : Nat, expiresAt : Nat]

Offer ==
  [role : Roles, kind : Kinds, price : Nat, expiresAt : Nat,
   seq : Nat, prev : Seq(Content)]

ContentOf(message) ==
  [role |-> message.role, kind |-> message.kind,
   price |-> message.price, expiresAt |-> message.expiresAt]

\* offerDigest of the last message; the empty chain has ZERO_HASH.
Digest(messages) == [i \in 1..Len(messages) |-> ContentOf(messages[i])]

\* verifyTranscript: every message's place and predecessor, recomputed.
Verifies(messages) ==
  \A i \in 1..Len(messages) :
    /\ messages[i].seq = i - 1
    /\ messages[i].prev = Digest(SubSeq(messages, 1, i - 1))

LastOf(messages) == messages[Len(messages)]

\* deriveState.
StateOf(messages) ==
  IF messages = <<>> THEN "OPEN"
  ELSE IF LastOf(messages).kind = "DECLINE" THEN "DECLINED"
  ELSE IF LastOf(messages).kind = "ACCEPT" THEN "AGREED"
  ELSE IF LastOf(messages).expiresAt > 0 /\ now > LastOf(messages).expiresAt THEN "EXPIRED"
  ELSE "OPEN"

TurnOf(messages) ==
  IF messages = <<>> \/ LastOf(messages).role = "PROVIDER" THEN "CREATOR" ELSE "PROVIDER"

\* buildNextOffer.
NextOffer(messages, role, kind, price, ttl) ==
  [role |-> role, kind |-> kind, price |-> IF kind = "DECLINE" THEN 0 ELSE price,
   expiresAt |-> now + ttl, seq |-> Len(messages), prev |-> Digest(messages)]

OpenUnlessDeclined(messages) == StateOf(messages) \notin {"DECLINED", "EXPIRED"}

Open(messages) == StateOf(messages) = "OPEN"

InTurnOrRaising(messages, offer) == offer.role = TurnOf(messages) \/ offer.kind = "COUNTER"

InTurn(messages, offer) == offer.role = TurnOf(messages)

PriceAllowed(offer) == offer.price \in BudgetMin..BudgetMax

AcceptsAnything(messages, offer) == messages # <<>>

\* ACCEPT takes the price of the offer it accepts.
AcceptsLast(messages, offer) == messages # <<>> /\ offer.price = LastOf(messages).price

\* assertValidNext; seq and prevHash come right out of NextOffer.
ValidNext(messages, offer) ==
  /\ Open(messages)
  /\ Len(messages) < MaxMessages
  /\ InTurn(messages, offer)
  /\ offer.expiresAt > now
  /\ messages = <<>> <=> offer.kind = "PROPOSE"
  /\ offer.kind = "DECLINE" \/ PriceAllowed(offer)
  /\ offer.kind = "ACCEPT" => AcceptsLast(messages, offer)

Scale(value, fraction) == (value * fraction) \div ScaleUnit

\* The provider's last ask, or its opening ask when it has not spoken.
PreviousAsk(messages) ==
  LET own == {i \in 1..Len(messages) :
                messages[i].role = "PROVIDER" /\ messages[i].kind # "DECLINE"}
  IN  IF own = {} THEN Scale(BudgetMax, policy.opening)
      ELSE messages[CHOOSE i \in own : \A k \in own : k <= i].price

NextAskUnclamped(messages) ==
  LET ask == PreviousAsk(messages)
      gap == IF ask > policy.floor THEN ask - policy.floor ELSE 0
  IN  ask - Scale(gap, policy.concession)

\* Concede from the last ask toward the counterparty, never below the floor.
NextAsk(messages) ==
  LET ask == PreviousAsk(messages)
      gap == IF ask > policy.floor THEN ask - policy.floor ELSE 0
      conceded == ask - Scale(gap, policy.concession)
  IN  IF conceded < policy.floor THEN policy.floor ELSE conceded

Move(kind, price) == [kind |-> kind, price |-> price]

\* decideProviderResponse, and providerRespond's choice of the kind to append.
Decision(messages) ==
  IF policy.floor > BudgetMax THEN Move("DECLINE", 0)
  ELSE IF messages = <<>> THEN Move("PROPOSE", Scale(BudgetMax, policy.opening))
  ELSE IF LastOf(messages).price >= policy.floor THEN Move("ACCEPT", LastOf(messages).price)
  ELSE IF NextAsk(messages) <= LastOf(messages).price THEN Move("ACCEPT", LastOf(messages).price)
  ELSE Move("COUNTER", NextAsk(messages))

-----------------------------------------------------------------------------
(* The handlers.                                                           *)

Agreement == [price : Nat, transcript : Seq(Content), expiry : Nat]
NoAgreement == [price |-> 0, transcript |-> <<>>, expiry |-> 0]

View == [state : {"OPEN", "AGREED", "DECLINED", "EXPIRED"}, price : Nat]

Idle == [step |-> "idle"]

\* deriveState's result as it is written to the row.
ViewOf(messages) ==
  [state |-> StateOf(messages),
   price |-> IF StateOf(messages) = "AGREED" THEN LastOf(messages).price ELSE 0]

Init ==
  /\ policy \in Policies \cup {ByHand}
  /\ transcript = <<>>
  /\ row = [state |-> "OPEN", price |-> 0]
  /\ agreement = NoAgreement
  /\ signed = {}
  /\ work = [h \in Handlers |-> Idle]
  /\ now = 0

Goes(h, holding) == work' = [work EXCEPT ![h] = holding]

\* appendOffer up to the request for a signature: the transcript is loaded, the
\* offer built on it and validated against it, and nothing is written yet.
Prepare(h, role, kind, price, ttl) ==
  LET offer == NextOffer(transcript, role, kind, price, ttl)
  IN  /\ Verifies(transcript)
      /\ ValidNext(transcript, offer)
      /\ Goes(h, [step |-> "signing", offer |-> offer])

\* POST /negotiations/:id/offers, by the owner of that side's agent.
Speak(h, role, kind, price, ttl) ==
  /\ work[h] = Idle
  /\ role = "PROVIDER" => policy = ByHand
  /\ Prepare(h, role, kind, price, ttl)
  /\ UNCHANGED <<policy, transcript, row, agreement, signed, now>>

\* providerRespond's own load of the transcript and its decision.
Decide(h) ==
  /\ work[h] = Idle
  /\ policy # ByHand
  /\ Goes(h, [step |-> "decided", move |-> Decision(transcript)])
  /\ UNCHANGED <<policy, transcript, row, agreement, signed, now>>

\* appendOffer loads the transcript again, and plays or refuses the decision.
PlayDecision(h, ttl) ==
  /\ work[h].step = "decided"
  /\ Prepare(h, "PROVIDER", work[h].move.kind, work[h].move.price, ttl)
  /\ UNCHANGED <<policy, transcript, row, agreement, signed, now>>

\* The signing service answers; the message row is created next.
Sign(h) ==
  /\ work[h].step = "signing"
  /\ Goes(h, [step |-> "inserting", offer |-> work[h].offer])
  /\ UNCHANGED <<policy, transcript, row, agreement, signed, now>>

AnySeq(offer) == TRUE

\* @@unique([negotiationId, seq]).
SeqFree(offer) == \A i \in 1..Len(transcript) : transcript[i].seq # offer.seq

Insert(h) ==
  /\ work[h].step = "inserting"
  /\ SeqFree(work[h].offer)
  /\ transcript' = Append(transcript, work[h].offer)
  /\ Goes(h, [step |-> "reloading"])
  /\ UNCHANGED <<policy, row, agreement, signed, now>>

Reload(h) ==
  /\ work[h].step = "reloading"
  /\ Goes(h, [step |-> "writing", view |-> ViewOf(transcript)])
  /\ UNCHANGED <<policy, transcript, row, agreement, signed, now>>

Write(h) ==
  /\ work[h].step = "writing"
  /\ row' = work[h].view
  /\ Goes(h, Idle)
  /\ UNCHANGED <<policy, transcript, agreement, signed, now>>

\* signAgreement up to the first signature.
ComposeAgreement(h) ==
  /\ work[h] = Idle
  /\ Verifies(transcript)
  /\ StateOf(transcript) = "AGREED"
  /\ Goes(h, [step |-> "agreeing",
              agreement |-> [price |-> LastOf(transcript).price,
                             transcript |-> Digest(transcript),
                             expiry |-> now + AgreementTtl]])
  /\ UNCHANGED <<policy, transcript, row, agreement, signed, now>>

\* Both agents' keys sign the same digest.
SignAgreement(h) ==
  /\ work[h].step = "agreeing"
  /\ signed' = signed \cup {work[h].agreement}
  /\ Goes(h, [step |-> "storing", agreement |-> work[h].agreement])
  /\ UNCHANGED <<policy, transcript, row, agreement, now>>

StoreAgreement(h) ==
  /\ work[h].step = "storing"
  /\ agreement' = work[h].agreement
  /\ Goes(h, Idle)
  /\ UNCHANGED <<policy, transcript, row, signed, now>>

\* The request ends here: refused by a check or by the unique index, failed by
\* the signing service or the database, or lost with the process.
Abandon(h) ==
  /\ work[h] # Idle
  /\ Goes(h, Idle)
  /\ UNCHANGED <<policy, transcript, row, agreement, signed, now>>

Tick ==
  /\ now < MaxTime
  /\ now' = now + 1
  /\ UNCHANGED <<policy, transcript, row, agreement, signed, work>>

Handler(h) ==
  \/ \E role \in Roles, kind \in Kinds, price \in AskedPrices, ttl \in Ttls :
        Speak(h, role, kind, price, ttl)
  \/ Decide(h)
  \/ \E ttl \in Ttls : PlayDecision(h, ttl)
  \/ Sign(h) \/ Insert(h) \/ Reload(h) \/ Write(h)
  \/ ComposeAgreement(h) \/ SignAgreement(h) \/ StoreAgreement(h)
  \/ Abandon(h)

Next == (\E h \in Handlers : Handler(h)) \/ Tick

Spec == Init /\ [][Next]_vars

-----------------------------------------------------------------------------
(* Properties.                                                             *)

HoldsOffer(h) == work[h].step \in {"signing", "inserting"}
HoldsAgreement(h) == work[h].step \in {"agreeing", "storing"}

Works ==
  {Idle} \cup [step : {"decided"}, move : [kind : Kinds, price : Nat]]
         \cup [step : {"signing", "inserting"}, offer : Offer]
         \cup [step : {"reloading"}]
         \cup [step : {"writing"}, view : View]
         \cup [step : {"agreeing", "storing"}, agreement : Agreement]

TypeOK ==
  /\ policy \in Policies \cup {ByHand}
  /\ transcript \in Seq(Offer)
  /\ row \in View
  /\ agreement \in Agreement
  /\ signed \subseteq Agreement
  /\ work \in [Handlers -> Works]
  /\ now \in Nat

\* However many handlers append at once, the stored rows always form one
\* unbroken chain: a handler that lost a race cannot leave a message built on a
\* transcript other than the one that precedes it (verifyTranscript would then
\* refuse every later message, and the thread would be dead).
ChainVerifies == Verifies(transcript)

\* The message at place i obeys the rules of the table: the creator opens, turns
\* alternate, nothing follows an ACCEPT or a DECLINE, prices are in the budget,
\* and ACCEPT names the counterparty's own price.
Legal(i) ==
  LET message == transcript[i]
  IN  /\ message.role = (IF i % 2 = 1 THEN "CREATOR" ELSE "PROVIDER")
      /\ message.kind = "PROPOSE" <=> i = 1
      /\ i < Len(transcript) => message.kind \in {"PROPOSE", "COUNTER"}
      /\ IF message.kind = "DECLINE" THEN message.price = 0 ELSE PriceAllowed(message)
      /\ message.kind = "ACCEPT" => message.price = transcript[i - 1].price

\* The rules hold of the whole stored transcript, although each was checked
\* against a copy that may be stale when the message is inserted.
FairDialogue ==
  /\ Len(transcript) <= MaxMessages
  /\ \A i \in 1..Len(transcript) : Legal(i)

\* Every agreement the two keys ever signed for this thread, stored or lost with
\* its handler, has the price and the transcript that closed it: two concurrent
\* or repeated signings differ in their expiry alone.
AgreementsBinding ==
  /\ \A a \in signed :
       /\ transcript # <<>> /\ LastOf(transcript).kind = "ACCEPT"
       /\ a.price = LastOf(transcript).price
       /\ a.transcript = Digest(transcript)
  /\ agreement = NoAgreement \/ agreement \in signed

\* The row's state may lag behind the transcript it is derived from, for good if
\* two handlers write in the wrong order; it never announces an outcome the
\* transcript does not have.
RowNeverAhead ==
  row.state \in {"AGREED", "DECLINED"} => row = ViewOf(transcript)

\* A provider that leaves its moves to its policy is never bound below its floor
\* (decideProviderResponse: "never below the floor - that is the whole point of
\* having one"), whatever decisions are stale when they are played.
FloorKept ==
  policy # ByHand /\ StateOf(transcript) = "AGREED" => LastOf(transcript).price >= policy.floor

=============================================================================
