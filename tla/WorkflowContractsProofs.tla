----------------------- MODULE WorkflowContractsProofs ----------------------
(***************************************************************************)
(* Proofs about WorkflowContracts, for any wallets, amounts, sources,      *)
(* references and any number of calls that are not final yet.              *)
(*                                                                         *)
(* The argument: every contract an accepted call found, and the one the    *)
(* last call left, satisfies its template's own invariant (Sound); every   *)
(* accepted call moved the money in one of four ways (MovesRight); and the *)
(* finalized contract's counters are what was received.  An appeal goes    *)
(* back to a contract of the chain, a finalization moves its beginning.    *)
(***************************************************************************)
EXTENDS WorkflowContracts, FiniteSetTheorems, TLAPS

-----------------------------------------------------------------------------
\* The invariants of the four templates.

PaymentSound(c) ==
  /\ c.state = "CREATED" => c.balance = 0
  /\ c.state \in {"RELEASED", "REFUNDED"} => c.balance = 0
  /\ c.state \notin {"CREATED", "RELEASED", "REFUNDED"} => c.balance = Amount
  /\ c.state # "RELEASED" => c.paid_amount = 0
  /\ c.state # "REFUNDED" => c.refunded_amount = 0
  /\ c.state = "RELEASED" => c.outcome = "SATISFIED"
  /\ c.state = "REFUNDED" => c.outcome = "NOT_SATISFIED"
  /\ c.outcome \in {"SATISFIED", "NOT_SATISFIED"} =>
       /\ c.evidence_quality = "SUFFICIENT"
       /\ c.evidence_sources # {}
       /\ c.evidence_sources_used = c.evidence_sources
       /\ c.state \in {c.outcome, "RELEASED", "REFUNDED"}

EscrowSound(c) ==
  /\ c.released \/ c.cancelled => c.balance = 0 /\ ~c.disputed
  /\ ~(c.released \/ c.cancelled) => c.balance > 0
  /\ ~c.released => c.released_amount = 0
  /\ ~c.cancelled => c.refunded_amount = 0
  /\ ~(c.released /\ c.cancelled)

PlanSound(c) ==
  /\ c.balance = 0
  /\ IsFiniteSet(c.payment_references)
  /\ c.total_paid = Amount * Cardinality(c.payment_references)

ContestSound(c) ==
  /\ c.open <=> c.balance > 0
  /\ c.open => ~c.winner_selected /\ c.refunded_amount = 0
  /\ ~c.winner_selected => c.paid_amount = 0
  /\ c.winner_selected => c.refunded_amount = 0 /\ c.winner # Owner
  /\ Owner \notin c.reviewed_submissions

Sound(k, c) ==
  CASE k = "conditional_payment" -> PaymentSound(c)
    [] k = "escrow" -> EscrowSound(c)
    [] k = "subscription" -> PlanSound(c)
    [] k = "bounty" -> ContestSound(c)

\* The counters of post are those of e.before and the transfer of e.
Booked(k, e, post) ==
  \A p \in Party :
    PaidTo(k, post, p) = PaidTo(k, e.before, p) + IF e.to = p THEN e.paid ELSE 0

\* How a call may move money.
Keeps(e, post) == e.to = NULL /\ post.balance = e.before.balance
PaysIn(k, e, post) ==
  /\ k # "subscription" /\ e.to = NULL
  /\ e.before.balance = 0 /\ post.balance > 0
  /\ \A p \in Party : PaidTo(k, e.before, p) = 0
PaysOut(k, e, post) ==
  /\ k # "subscription" /\ e.to \in Party
  /\ e.before.balance > 0 /\ e.paid = e.before.balance /\ post.balance = 0
PassesOn(k, e, post) ==
  /\ k = "subscription" /\ e.to \in Party
  /\ e.paid > 0 /\ post.balance = e.before.balance

MovesRight(k, e, post) ==
  /\ Booked(k, e, post)
  /\ Keeps(e, post) \/ PaysIn(k, e, post) \/ PaysOut(k, e, post) \/ PassesOn(k, e, post)

AppBuilds(k, e) ==
  e.by \in AuthorizedFor(k, e.method) /\ e.value = ActionValue(k, e.method)

\* How a call may decide: never again after a decision, and of a conditional
\* payment never on nothing.
Verdict(c) == c.outcome \in {"SATISFIED", "NOT_SATISFIED"}

Decides(k, e, post) ==
  /\ ~Closed(k, e.before)
  /\ k = "conditional_payment" =>
       /\ post.evidence_sources = e.before.evidence_sources
       /\ Verdict(e.before) =>
            /\ post.outcome = e.before.outcome
            /\ post.evidence_sources_used = e.before.evidence_sources_used
       /\ e.before.evidence_sources = {} =>
            e.to = NULL /\ post.balance >= e.before.balance

EntryType(k) ==
  [method: ActionsOf(k), by: Party, value: Nat, before: ContractType(k),
   to: Party \cup {NULL}, paid: Nat]

EntryOK(k, e, post) ==
  /\ Sound(k, e.before)
  /\ MovesRight(k, e, post) /\ Decides(k, e, post) /\ AppBuilds(k, e)

\* What the i-th accepted call left behind.
After(i) == IF i = Len(accepted) THEN contract ELSE accepted[i + 1].before

ChainOK == \A i \in 1 .. Len(accepted) : EntryOK(kind, accepted[i], After(i))

IInv ==
  /\ kind \in Kind
  /\ contract \in ContractType(kind) /\ Sound(kind, contract)
  /\ accepted \in Seq(EntryType(kind)) /\ Len(accepted) <= MaxOpen
  /\ ChainOK
  /\ received \in [Party -> Nat]
  /\ BooksMatchMoney

\* A call adds one sound entry and leaves a sound contract.
CallOK ==
  /\ contract' \in ContractType(kind) /\ Sound(kind, contract')
  /\ \E e \in EntryType(kind) :
       /\ e.before = contract
       /\ accepted' = Append(accepted, e)
       /\ MovesRight(kind, e, contract') /\ Decides(kind, e, contract')
       /\ AppBuilds(kind, e)
  /\ Len(accepted) < MaxOpen
  /\ received' = received

-----------------------------------------------------------------------------
\* What a call must establish, however it is written in its template.

LEMMA OneEntry ==
  ASSUME NEW method \in ActionsOf(kind), NEW by \in Party, NEW value \in Nat,
         NEW post \in ContractType(kind), NEW to \in Party \cup {NULL}, NEW paid \in Nat,
         contract \in ContractType(kind),
         Transfer(method, by, value, post, to, paid),
         Sound(kind, post),
         MovesRight(kind, Entry(method, by, value, to, paid), post),
         Decides(kind, Entry(method, by, value, to, paid), post),
         AppBuilds(kind, Entry(method, by, value, to, paid))
  PROVE  CallOK
<1>1. Entry(method, by, value, to, paid) \in EntryType(kind)
  BY DEF Entry, EntryType
<1>2. Entry(method, by, value, to, paid).before = contract
  BY DEF Entry
<1> QED  BY <1>1, <1>2 DEF Transfer, CallOK

LEMMA PaymentKind ==
  ASSUME kind = "conditional_payment"
  PROVE  /\ ContractType(kind) = Cond!Payment
         /\ \A c : Sound(kind, c) <=> PaymentSound(c)
         /\ \A c : Closed(kind, c) <=> (c.state \in {"RELEASED", "REFUNDED"})
         /\ \A c, p : PaidTo(kind, c, p) = Cond!PaidTo(c, p)
         /\ ActionsOf(kind) = {"fund", "request_evaluation", "evaluate",
                               "settle_release", "settle_refund"}
         /\ \A m : AuthorizedFor(kind, m) =
              IF m = "fund" THEN {Owner} ELSE {Owner, Counterparty}
         /\ \A m : ActionValue(kind, m) = IF m = "fund" THEN Amount ELSE 0
BY DEF ContractType, Sound, Closed, PaidTo, ActionsOf, AuthorizedFor, ActionValue

LEMMA PaymentCall ==
  ASSUME kind = "conditional_payment",
         contract \in ContractType(kind), Sound(kind, contract),
         NEW by \in Party, NEW value \in Value, Cond!Call(by, value)
  PROVE  CallOK
<1>a. /\ Owner \in Party /\ Counterparty \in Party /\ Owner # Counterparty
      /\ Amount \in Nat /\ Amount > 0 /\ value \in Nat /\ NULL \notin Party
  BY WorkflowAssumption
<1>k. /\ contract \in Cond!Payment /\ PaymentSound(contract)
      /\ ContractType(kind) = Cond!Payment
  BY PaymentKind
<1>1. CASE Cond!fund(by, value)
  <2> DEFINE post == [contract EXCEPT !.state = "FUNDED", !.balance = Amount]
             e == Entry("fund", by, value, NULL, 0)
  <2>1. /\ by = Owner /\ value = Amount /\ contract.state = "CREATED"
        /\ Transfer("fund", by, value, post, NULL, 0)
    BY <1>1, <1>a, <1>k DEF Cond!fund, Cond!Payment, Cond!Update, Cond!Transfer, Cond!Entry, Transfer, Entry
  <2>2. post \in Cond!Payment
    BY <1>a, <1>k, <2>1 DEF Cond!Payment, Cond!State
  <2>3. PaymentSound(post)
    BY <1>a, <1>k, <2>1 DEF PaymentSound, Cond!Payment
  <2>4. MovesRight(kind, e, post)
    <3>1. PaysIn(kind, e, post)
      BY <1>a, <1>k, <2>1, PaymentKind DEF PaysIn, Entry, PaymentSound, Cond!Payment, Cond!PaidTo
    <3>2. /\ post.paid_amount = 0 /\ post.refunded_amount = 0
          /\ contract.paid_amount = 0 /\ contract.refunded_amount = 0
      BY <1>a, <1>k, <2>1 DEF PaymentSound, Cond!Payment
    <3> HIDE DEF post
    <3>3. Booked(kind, e, post)
      BY <1>a, <3>2, PaymentKind DEF Booked, Entry, Cond!PaidTo
    <3> QED  BY <3>1, <3>3 DEF MovesRight
  <2>5. AppBuilds(kind, e)
    BY <2>1, PaymentKind DEF AppBuilds, Entry
  <2>7. Decides(kind, e, post)
    BY <1>a, <1>k, <2>1, PaymentKind DEF Decides, Verdict, Entry, Cond!Payment, PaymentSound
  <2> HIDE DEF post
  <2> QED  BY <1>a, <1>k, <2>1, <2>2, <2>3, <2>4, <2>5, <2>7, PaymentKind, OneEntry
<1>2. CASE Cond!request_evaluation(by)
  <2> DEFINE post == [contract EXCEPT !.state = "EVALUATION_AVAILABLE"]
             e == Entry("request_evaluation", by, 0, NULL, 0)
  <2>1. /\ by \in {Owner, Counterparty}
        /\ contract.state \in {"FUNDED", "INSUFFICIENT_EVIDENCE"}
        /\ Transfer("request_evaluation", by, 0, post, NULL, 0)
    BY <1>2 DEF Cond!request_evaluation, Cond!Participant, Cond!Update,
                Cond!Transfer, Cond!Entry, Transfer, Entry
  <2>2. post \in Cond!Payment
    BY <1>a, <1>k, <2>1 DEF Cond!Payment, Cond!State
  <2>3. PaymentSound(post)
    BY <1>a, <1>k, <2>1 DEF PaymentSound, Cond!Payment
  <2>4. MovesRight(kind, e, post)
    <3>1. /\ post.paid_amount = contract.paid_amount
          /\ post.refunded_amount = contract.refunded_amount
          /\ post.balance = contract.balance
          /\ contract.paid_amount \in Nat /\ contract.refunded_amount \in Nat
      BY <1>k DEF Cond!Payment
    <3> HIDE DEF post
    <3>2. Booked(kind, e, post) /\ Keeps(e, post)
      BY <1>a, <3>1, PaymentKind DEF Keeps, Booked, Entry, Cond!PaidTo
    <3> QED  BY <3>2 DEF MovesRight
  <2>5. AppBuilds(kind, e)
    BY <2>1, PaymentKind DEF AppBuilds, Entry
  <2>7. Decides(kind, e, post)
    BY <1>a, <1>k, <2>1, PaymentKind DEF Decides, Verdict, Entry, Cond!Payment, PaymentSound
  <2> HIDE DEF post
  <2> QED  BY <1>a, <1>k, <2>1, <2>2, <2>3, <2>4, <2>5, <2>7, PaymentKind, OneEntry
<1>3. CASE Cond!Evaluation(by)
  <2>0. PICK usable \in SUBSET contract.evidence_sources, answer \in Cond!Answer :
          Cond!evaluate(by, usable, answer)
    BY <1>3 DEF Cond!Evaluation
  <2> DEFINE r == Cond!Judgment(contract.evidence_sources, usable, answer)
             post == [contract EXCEPT !.state = r.outcome, !.outcome = r.outcome,
                        !.evidence_quality = r.quality,
                        !.evidence_sources_used = r.sources]
             e == Entry("evaluate", by, 0, NULL, 0)
  <2>1. /\ by \in {Owner, Counterparty}
        /\ contract.state = "EVALUATION_AVAILABLE"
        /\ Transfer("evaluate", by, 0, post, NULL, 0)
    BY <2>0 DEF Cond!evaluate, Cond!Participant, Cond!Update,
                Cond!Transfer, Cond!Entry, Transfer, Entry
  <2>r. /\ r.outcome \in Cond!Outcome /\ r.quality \in Cond!Quality
        /\ r.sources \in SUBSET Source
        /\ r.outcome \in {"SATISFIED", "NOT_SATISFIED"} =>
             /\ r.quality = "SUFFICIENT"
             /\ contract.evidence_sources # {}
             /\ r.sources = contract.evidence_sources
    BY <1>a, <1>k DEF Cond!Judgment, Cond!Answer, Cond!Payment, Cond!Outcome, Cond!Quality
  <2> HIDE DEF r
  <2>2. post \in Cond!Payment
    BY <1>a, <1>k, <2>r DEF Cond!Payment, Cond!State
  <2>3. PaymentSound(post)
    BY <1>a, <1>k, <2>1, <2>r DEF PaymentSound, Cond!Payment, Cond!Outcome
  <2>4. MovesRight(kind, e, post)
    <3>1. /\ post.paid_amount = contract.paid_amount
          /\ post.refunded_amount = contract.refunded_amount
          /\ post.balance = contract.balance
          /\ contract.paid_amount \in Nat /\ contract.refunded_amount \in Nat
      BY <1>k DEF Cond!Payment
    <3> HIDE DEF post
    <3>2. Booked(kind, e, post) /\ Keeps(e, post)
      BY <1>a, <3>1, PaymentKind DEF Keeps, Booked, Entry, Cond!PaidTo
    <3> QED  BY <3>2 DEF MovesRight
  <2>5. AppBuilds(kind, e)
    BY <2>1, PaymentKind DEF AppBuilds, Entry
  <2>7. Decides(kind, e, post)
    BY <1>a, <1>k, <2>1, PaymentKind DEF Decides, Verdict, Entry, Cond!Payment, PaymentSound
  <2> HIDE DEF post
  <2> QED  BY <1>a, <1>k, <2>1, <2>2, <2>3, <2>4, <2>5, <2>7, PaymentKind, OneEntry
<1>4. CASE Cond!settle_release(by)
  <2> DEFINE post == [contract EXCEPT !.state = "RELEASED", !.paid_amount = Amount,
                        !.balance = 0]
             e == Entry("settle_release", by, 0, Counterparty, Amount)
  <2>1. /\ by \in {Owner, Counterparty}
        /\ contract.state = "SATISFIED" /\ contract.outcome = "SATISFIED"
        /\ contract.balance = Amount
        /\ Transfer("settle_release", by, 0, post, Counterparty, Amount)
    <3>1. contract.balance = Amount /\ contract.balance - Amount = 0
      BY <1>4, <1>a DEF Cond!settle_release
    <3> QED
      BY <1>4, <3>1 DEF Cond!settle_release, Cond!Participant, Cond!Transfer, Cond!Entry,
                       Transfer, Entry
  <2>2. post \in Cond!Payment
    BY <1>a, <1>k, <2>1 DEF Cond!Payment, Cond!State
  <2>3. PaymentSound(post)
    BY <1>a, <1>k, <2>1 DEF PaymentSound, Cond!Payment
  <2>4. MovesRight(kind, e, post)
    <3>1. PaysOut(kind, e, post)
      BY <1>a, <1>k, <2>1 DEF PaysOut, Entry, Cond!Payment
    <3>2. /\ post.paid_amount = Amount /\ post.refunded_amount = 0
          /\ contract.paid_amount = 0 /\ contract.refunded_amount = 0
      BY <1>a, <1>k, <2>1 DEF PaymentSound, Cond!Payment
    <3> HIDE DEF post
    <3>3. Booked(kind, e, post)
      BY <1>a, <3>2, PaymentKind DEF Booked, Entry, Cond!PaidTo
    <3> QED  BY <3>1, <3>3 DEF MovesRight
  <2>5. AppBuilds(kind, e)
    BY <2>1, PaymentKind DEF AppBuilds, Entry
  <2>7. Decides(kind, e, post)
    BY <1>a, <1>k, <2>1, PaymentKind DEF Decides, Verdict, Entry, Cond!Payment, PaymentSound
  <2> HIDE DEF post
  <2> QED  BY <1>a, <1>k, <2>1, <2>2, <2>3, <2>4, <2>5, <2>7, PaymentKind, OneEntry
<1>5. CASE Cond!settle_refund(by)
  <2> DEFINE post == [contract EXCEPT !.state = "REFUNDED", !.refunded_amount = Amount,
                        !.balance = 0]
             e == Entry("settle_refund", by, 0, Owner, Amount)
  <2>1. /\ by \in {Owner, Counterparty}
        /\ contract.state = "NOT_SATISFIED" /\ contract.outcome = "NOT_SATISFIED"
        /\ contract.balance = Amount
        /\ Transfer("settle_refund", by, 0, post, Owner, Amount)
    <3>1. contract.balance = Amount /\ contract.balance - Amount = 0
      BY <1>5, <1>a DEF Cond!settle_refund
    <3> QED
      BY <1>5, <3>1 DEF Cond!settle_refund, Cond!Participant, Cond!Transfer, Cond!Entry,
                       Transfer, Entry
  <2>2. post \in Cond!Payment
    BY <1>a, <1>k, <2>1 DEF Cond!Payment, Cond!State
  <2>3. PaymentSound(post)
    BY <1>a, <1>k, <2>1 DEF PaymentSound, Cond!Payment
  <2>4. MovesRight(kind, e, post)
    <3>1. PaysOut(kind, e, post)
      BY <1>a, <1>k, <2>1 DEF PaysOut, Entry, Cond!Payment
    <3>2. /\ post.paid_amount = 0 /\ post.refunded_amount = Amount
          /\ contract.paid_amount = 0 /\ contract.refunded_amount = 0
      BY <1>a, <1>k, <2>1 DEF PaymentSound, Cond!Payment
    <3> HIDE DEF post
    <3>3. Booked(kind, e, post)
      BY <1>a, <3>2, PaymentKind DEF Booked, Entry, Cond!PaidTo
    <3> QED  BY <3>1, <3>3 DEF MovesRight
  <2>5. AppBuilds(kind, e)
    BY <2>1, PaymentKind DEF AppBuilds, Entry
  <2>7. Decides(kind, e, post)
    BY <1>a, <1>k, <2>1, PaymentKind DEF Decides, Verdict, Entry, Cond!Payment, PaymentSound
  <2> HIDE DEF post
  <2> QED  BY <1>a, <1>k, <2>1, <2>2, <2>3, <2>4, <2>5, <2>7, PaymentKind, OneEntry
<1> QED  BY <1>1, <1>2, <1>3, <1>4, <1>5 DEF Cond!Call

LEMMA EscrowKind ==
  ASSUME kind = "escrow"
  PROVE  /\ ContractType(kind) = Esc!Deposit
         /\ \A c : Sound(kind, c) <=> EscrowSound(c)
         /\ \A c : Closed(kind, c) <=> (c.released \/ c.cancelled \/ c.disputed)
         /\ \A c, p : PaidTo(kind, c, p) = Esc!PaidTo(c, p)
         /\ ActionsOf(kind) = {"approve_release", "raise_dispute", "cancel_escrow"}
         /\ \A m : AuthorizedFor(kind, m) = 
              IF m = "raise_dispute" THEN {Owner, Counterparty} ELSE {Owner}
         /\ \A m : ActionValue(kind, m) = 0
BY DEF ContractType, Sound, Closed, PaidTo, ActionsOf, AuthorizedFor, ActionValue

LEMMA EscrowCall ==
  ASSUME kind = "escrow",
         contract \in ContractType(kind), Sound(kind, contract),
         NEW by \in Party, Esc!Call(by)
  PROVE  CallOK
<1>a. /\ Owner \in Party /\ Counterparty \in Party /\ Owner # Counterparty
      /\ Amount \in Nat /\ Amount > 0 /\ NULL \notin Party
  BY WorkflowAssumption
<1>k. /\ contract \in Esc!Deposit /\ EscrowSound(contract)
      /\ ContractType(kind) = Esc!Deposit
  BY EscrowKind
<1>1. CASE Esc!approve_release(by)
  <2> DEFINE post == [contract EXCEPT !.released = TRUE, !.released_amount = Amount,
                        !.balance = 0]
             e == Entry("approve_release", by, 0, Counterparty, Amount)
  <2>1. /\ by = Owner /\ contract.balance = Amount
        /\ ~contract.cancelled /\ ~contract.disputed /\ ~contract.released
        /\ Transfer("approve_release", by, 0, post, Counterparty, Amount)
    <3>1. contract.balance = Amount /\ contract.balance - Amount = 0
      BY <1>1, <1>a DEF Esc!approve_release
    <3> QED
      BY <1>1, <3>1 DEF Esc!approve_release, Esc!Transfer, Esc!Entry,
                       Transfer, Entry
  <2>2. post \in Esc!Deposit
    BY <1>a, <1>k, <2>1 DEF Esc!Deposit
  <2>3. EscrowSound(post)
    BY <1>a, <1>k, <2>1 DEF EscrowSound, Esc!Deposit
  <2>4. MovesRight(kind, e, post)
    <3>1. PaysOut(kind, e, post)
      BY <1>a, <1>k, <2>1 DEF PaysOut, Entry, Esc!Deposit, EscrowSound
    <3>2. /\ post.released_amount = Amount /\ post.refunded_amount = 0
          /\ contract.released_amount = 0 /\ contract.refunded_amount = 0
      BY <1>a, <1>k, <2>1 DEF EscrowSound, Esc!Deposit
    <3> HIDE DEF post
    <3>3. Booked(kind, e, post)
      BY <1>a, <2>1, <3>2, EscrowKind DEF Booked, Entry, Esc!PaidTo
    <3> QED  BY <3>1, <3>3 DEF MovesRight
  <2>5. AppBuilds(kind, e)
    BY <2>1, EscrowKind DEF AppBuilds, Entry
  <2>7. Decides(kind, e, post)
    BY <1>k, <2>1, EscrowKind DEF Decides, Entry
  <2> HIDE DEF post
  <2> QED  BY <1>a, <1>k, <2>1, <2>2, <2>3, <2>4, <2>5, <2>7, EscrowKind, OneEntry
<1>2. CASE Esc!raise_dispute(by)
  <2> DEFINE post == [contract EXCEPT !.disputed = TRUE]
             e == Entry("raise_dispute", by, 0, NULL, 0)
  <2>1. /\ by \in {Owner, Counterparty}
        /\ ~contract.released /\ ~contract.cancelled /\ ~contract.disputed
        /\ Transfer("raise_dispute", by, 0, post, NULL, 0)
    BY <1>2 DEF Esc!raise_dispute, Esc!Update, Esc!Transfer, Esc!Entry,
                Transfer, Entry
  <2>2. post \in Esc!Deposit
    BY <1>a, <1>k, <2>1 DEF Esc!Deposit
  <2>3. EscrowSound(post)
    BY <1>a, <1>k, <2>1 DEF EscrowSound, Esc!Deposit
  <2>4. MovesRight(kind, e, post)
    <3>1. /\ post.balance = contract.balance
          /\ post.released_amount = contract.released_amount
          /\ post.refunded_amount = contract.refunded_amount
          /\ contract.released_amount \in Nat /\ contract.refunded_amount \in Nat
      BY <1>k DEF Esc!Deposit
    <3> HIDE DEF post
    <3>2. Booked(kind, e, post) /\ Keeps(e, post)
      BY <1>a, <3>1, EscrowKind DEF Keeps, Booked, Entry, Esc!PaidTo
    <3> QED  BY <3>2 DEF MovesRight
  <2>5. AppBuilds(kind, e)
    BY <2>1, EscrowKind DEF AppBuilds, Entry
  <2>7. Decides(kind, e, post)
    BY <1>k, <2>1, EscrowKind DEF Decides, Entry
  <2> HIDE DEF post
  <2> QED  BY <1>a, <1>k, <2>1, <2>2, <2>3, <2>4, <2>5, <2>7, EscrowKind, OneEntry
<1>3. CASE Esc!cancel_escrow(by)
  <2> DEFINE post == [contract EXCEPT !.cancelled = TRUE, !.refunded_amount = contract.balance,
                        !.balance = 0]
             e == Entry("cancel_escrow", by, 0, Owner, contract.balance)
  <2>1. /\ by = Owner /\ contract.balance > 0
        /\ ~contract.released /\ ~contract.disputed /\ ~contract.cancelled
        /\ Transfer("cancel_escrow", by, 0, post, Owner, contract.balance)
    <3>1. contract.balance > 0
      BY <1>3, <1>k DEF Esc!cancel_escrow, EscrowSound
    <3> QED
      BY <1>3, <3>1 DEF Esc!cancel_escrow, Esc!Transfer, Esc!Entry,
                       Transfer, Entry
  <2>2. post \in Esc!Deposit
    BY <1>a, <1>k, <2>1 DEF Esc!Deposit
  <2>3. EscrowSound(post)
    BY <1>a, <1>k, <2>1 DEF EscrowSound, Esc!Deposit
  <2>4. MovesRight(kind, e, post)
    <3>1. PaysOut(kind, e, post)
      BY <1>a, <1>k, <2>1 DEF PaysOut, Entry, Esc!Deposit, EscrowSound
    <3>2. /\ post.released_amount = 0 /\ post.refunded_amount = contract.balance
          /\ contract.released_amount = 0 /\ contract.refunded_amount = 0
          /\ contract.balance \in Nat
      BY <1>a, <1>k, <2>1 DEF EscrowSound, Esc!Deposit
    <3> HIDE DEF post
    <3>3. Booked(kind, e, post)
      BY <1>a, <2>1, <3>2, EscrowKind DEF Booked, Entry, Esc!PaidTo
    <3> QED  BY <3>1, <3>3 DEF MovesRight
  <2>5. AppBuilds(kind, e)
    BY <2>1, EscrowKind DEF AppBuilds, Entry
  <2>6. contract.balance \in Nat
    BY <1>k DEF Esc!Deposit
  <2>7. Decides(kind, e, post)
    BY <1>k, <2>1, EscrowKind DEF Decides, Entry
  <2> HIDE DEF post
  <2> QED  BY <1>a, <1>k, <2>1, <2>2, <2>3, <2>4, <2>5, <2>6, <2>7, EscrowKind, OneEntry
<1> QED  BY <1>1, <1>2, <1>3 DEF Esc!Call

LEMMA PlanKind ==
  ASSUME kind = "subscription"
  PROVE  /\ ContractType(kind) = Sub!Plan
         /\ \A c : Sound(kind, c) <=> PlanSound(c)
         /\ \A c : Closed(kind, c) <=> (c.cancelled)
         /\ \A c, p : PaidTo(kind, c, p) = Sub!PaidTo(c, p)
         /\ ActionsOf(kind) = {"record_payment", "pause", "resume", "cancel"}
         /\ \A m : AuthorizedFor(kind, m) = {Owner}
         /\ \A m : ActionValue(kind, m) = 
              IF m = "record_payment" THEN Amount ELSE 0
BY DEF ContractType, Sound, Closed, PaidTo, ActionsOf, AuthorizedFor, ActionValue

LEMMA PlanCall ==
  ASSUME kind = "subscription",
         contract \in ContractType(kind), Sound(kind, contract),
         NEW by \in Party, NEW value \in Value, Sub!Call(by, value)
  PROVE  CallOK
<1>a. /\ Owner \in Party /\ Counterparty \in Party /\ Owner # Counterparty
      /\ Amount \in Nat /\ Amount > 0 /\ NULL \notin Party
  BY WorkflowAssumption
<1>k. /\ contract \in Sub!Plan /\ PlanSound(contract)
      /\ ContractType(kind) = Sub!Plan
  BY PlanKind
<1>1. CASE \E reference \in Reference : Sub!record_payment(by, value, reference)
  <2>0. PICK reference \in Reference : Sub!record_payment(by, value, reference)
    BY <1>1
  <2> DEFINE post == [contract EXCEPT
                        !.payment_references = @ \cup {reference},
                        !.payment_count = @ + 1,
                        !.total_paid = @ + Amount, !.balance = 0]
             e == Entry("record_payment", by, Amount, Counterparty, Amount)
  <2>1. /\ by = Owner /\ reference \notin contract.payment_references
        /\ ~contract.cancelled
        /\ Transfer("record_payment", by, Amount, post, Counterparty, Amount)
    <3>1. contract.balance = 0 /\ (0 + Amount) - Amount = 0
      BY <1>a, <1>k DEF PlanSound
    <3>2. value = Amount
      BY <2>0 DEF Sub!record_payment
    <3> QED
      BY <2>0, <3>1, <3>2 DEF Sub!record_payment, Sub!Transfer, Sub!Entry, Transfer, Entry
  <2>2. post \in Sub!Plan
    <3> DEFINE refs == contract.payment_references \cup {reference}
               count == contract.payment_count + 1
               total == contract.total_paid + Amount
    <3>1. refs \in SUBSET Reference /\ count \in Nat /\ total \in Nat
      BY <1>a, <1>k DEF Sub!Plan
    <3> HIDE DEF refs, count, total
    <3>2. [contract EXCEPT !.payment_references = refs, !.payment_count = count,
             !.total_paid = total, !.balance = 0] \in Sub!Plan
      BY <1>k, <3>1 DEF Sub!Plan
    <3> QED  BY <3>2 DEF refs, count, total
  <2>3. PlanSound(post)
    <3> DEFINE refs == contract.payment_references
               n == Cardinality(refs)
    <3>1. /\ IsFiniteSet(refs) /\ contract.total_paid = Amount * n
          /\ reference \notin refs
      BY <1>k, <2>1 DEF PlanSound
    <3>2. /\ IsFiniteSet(refs \cup {reference})
          /\ Cardinality(refs \cup {reference}) = n + 1 /\ n \in Nat
      BY <3>1, FS_AddElement, FS_CardinalityType
    <3>3. /\ post.balance = 0
          /\ post.payment_references = refs \cup {reference}
          /\ post.total_paid = contract.total_paid + Amount
      BY <1>k DEF Sub!Plan
    <3> HIDE DEF post, refs, n
    <3>4. Amount * n + Amount = Amount * (n + 1)
      BY <1>a, <3>2
    <3> QED  BY <3>1, <3>2, <3>3, <3>4 DEF PlanSound
  <2>4. MovesRight(kind, e, post)
    <3>1. /\ post.balance = contract.balance
          /\ post.total_paid = contract.total_paid + Amount
          /\ contract.total_paid \in Nat
      BY <1>k DEF Sub!Plan, PlanSound
    <3> HIDE DEF post
    <3>2. Booked(kind, e, post)
      BY <1>a, <3>1, PlanKind DEF Booked, Entry, Sub!PaidTo
    <3>3. PassesOn(kind, e, post)
      BY <1>a, <3>1 DEF PassesOn, Entry
    <3> QED  BY <3>2, <3>3 DEF MovesRight
  <2>5. AppBuilds(kind, e)
    BY <2>1, PlanKind DEF AppBuilds, Entry
  <2>7. Decides(kind, e, post)
    BY <1>k, <2>1, PlanKind DEF Decides, Entry
  <2> HIDE DEF post
  <2> QED  BY <1>a, <1>k, <2>1, <2>2, <2>3, <2>4, <2>5, <2>7, PlanKind, OneEntry
<1>2. CASE Sub!pause(by)
  <2> DEFINE post == [contract EXCEPT !.active = FALSE]
             e == Entry("pause", by, 0, NULL, 0)
  <2>1. /\ by = Owner /\ ~contract.cancelled
        /\ Transfer("pause", by, 0, post, NULL, 0)
    BY <1>2 DEF Sub!pause, Sub!Update, Sub!Transfer, Sub!Entry,
                Transfer, Entry
  <2>2. post \in Sub!Plan
    BY <1>a, <1>k, <2>1 DEF Sub!Plan
  <2>3. PlanSound(post)
    BY <1>a, <1>k, <2>1 DEF PlanSound, Sub!Plan
  <2>4. MovesRight(kind, e, post)
    <3>1. /\ post.balance = contract.balance
          /\ post.total_paid = contract.total_paid
          /\ contract.total_paid \in Nat
      BY <1>k DEF Sub!Plan
    <3> HIDE DEF post
    <3>2. Booked(kind, e, post) /\ Keeps(e, post)
      BY <1>a, <3>1, PlanKind DEF Keeps, Booked, Entry, Sub!PaidTo
    <3> QED  BY <3>2 DEF MovesRight
  <2>5. AppBuilds(kind, e)
    BY <2>1, PlanKind DEF AppBuilds, Entry
  <2>7. Decides(kind, e, post)
    BY <1>k, <2>1, PlanKind DEF Decides, Entry
  <2> HIDE DEF post
  <2> QED  BY <1>a, <1>k, <2>1, <2>2, <2>3, <2>4, <2>5, <2>7, PlanKind, OneEntry
<1>3. CASE Sub!resume(by)
  <2> DEFINE post == [contract EXCEPT !.active = TRUE]
             e == Entry("resume", by, 0, NULL, 0)
  <2>1. /\ by = Owner /\ ~contract.cancelled
        /\ Transfer("resume", by, 0, post, NULL, 0)
    BY <1>3 DEF Sub!resume, Sub!Update, Sub!Transfer, Sub!Entry,
                Transfer, Entry
  <2>2. post \in Sub!Plan
    BY <1>a, <1>k, <2>1 DEF Sub!Plan
  <2>3. PlanSound(post)
    BY <1>a, <1>k, <2>1 DEF PlanSound, Sub!Plan
  <2>4. MovesRight(kind, e, post)
    <3>1. /\ post.balance = contract.balance
          /\ post.total_paid = contract.total_paid
          /\ contract.total_paid \in Nat
      BY <1>k DEF Sub!Plan
    <3> HIDE DEF post
    <3>2. Booked(kind, e, post) /\ Keeps(e, post)
      BY <1>a, <3>1, PlanKind DEF Keeps, Booked, Entry, Sub!PaidTo
    <3> QED  BY <3>2 DEF MovesRight
  <2>5. AppBuilds(kind, e)
    BY <2>1, PlanKind DEF AppBuilds, Entry
  <2>7. Decides(kind, e, post)
    BY <1>k, <2>1, PlanKind DEF Decides, Entry
  <2> HIDE DEF post
  <2> QED  BY <1>a, <1>k, <2>1, <2>2, <2>3, <2>4, <2>5, <2>7, PlanKind, OneEntry
<1>4. CASE Sub!cancel(by)
  <2> DEFINE post == [contract EXCEPT !.active = FALSE, !.cancelled = TRUE]
             e == Entry("cancel", by, 0, NULL, 0)
  <2>1. /\ by = Owner /\ ~contract.cancelled
        /\ Transfer("cancel", by, 0, post, NULL, 0)
    BY <1>4 DEF Sub!cancel, Sub!Update, Sub!Transfer, Sub!Entry,
                Transfer, Entry
  <2>2. post \in Sub!Plan
    BY <1>a, <1>k, <2>1 DEF Sub!Plan
  <2>3. PlanSound(post)
    BY <1>a, <1>k, <2>1 DEF PlanSound, Sub!Plan
  <2>4. MovesRight(kind, e, post)
    <3>1. /\ post.balance = contract.balance
          /\ post.total_paid = contract.total_paid
          /\ contract.total_paid \in Nat
      BY <1>k DEF Sub!Plan
    <3> HIDE DEF post
    <3>2. Booked(kind, e, post) /\ Keeps(e, post)
      BY <1>a, <3>1, PlanKind DEF Keeps, Booked, Entry, Sub!PaidTo
    <3> QED  BY <3>2 DEF MovesRight
  <2>5. AppBuilds(kind, e)
    BY <2>1, PlanKind DEF AppBuilds, Entry
  <2>7. Decides(kind, e, post)
    BY <1>k, <2>1, PlanKind DEF Decides, Entry
  <2> HIDE DEF post
  <2> QED  BY <1>a, <1>k, <2>1, <2>2, <2>3, <2>4, <2>5, <2>7, PlanKind, OneEntry
<1> QED  BY <1>1, <1>2, <1>3, <1>4 DEF Sub!Call

LEMMA ContestKind ==
  ASSUME kind = "bounty"
  PROVE  /\ ContractType(kind) = Bnt!Contest
         /\ \A c : Sound(kind, c) <=> ContestSound(c)
         /\ \A c : Closed(kind, c) <=> (~c.open)
         /\ \A c, p : PaidTo(kind, c, p) = Bnt!PaidTo(c, p)
         /\ ActionsOf(kind) = {"review_submission", "select_winner", "close_bounty"}
         /\ \A m : AuthorizedFor(kind, m) = {Owner}
         /\ \A m : ActionValue(kind, m) = 0
BY DEF ContractType, Sound, Closed, PaidTo, ActionsOf, AuthorizedFor, ActionValue

LEMMA ContestCall ==
  ASSUME kind = "bounty",
         contract \in ContractType(kind), Sound(kind, contract),
         NEW by \in Party, Bnt!Call(by)
  PROVE  CallOK
<1>a. /\ Owner \in Party /\ Counterparty \in Party /\ Owner # Counterparty
      /\ Amount \in Nat /\ Amount > 0 /\ NULL \notin Party
  BY WorkflowAssumption
<1>k. /\ contract \in Bnt!Contest /\ ContestSound(contract)
      /\ ContractType(kind) = Bnt!Contest
  BY ContestKind
<1>1. CASE \E p \in Party : Bnt!review_submission(by, p)
  <2>0. PICK submitter \in Party : Bnt!review_submission(by, submitter)
    BY <1>1
  <2> DEFINE post == [contract EXCEPT !.reviewed_submissions = @ \cup {submitter},
                        !.submission_count = @ + 1]
             e == Entry("review_submission", by, 0, NULL, 0)
  <2>1. /\ by = Owner /\ submitter # Owner /\ contract.open
        /\ Transfer("review_submission", by, 0, post, NULL, 0)
    BY <2>0 DEF Bnt!review_submission, Bnt!Update, Bnt!Transfer, Bnt!Entry,
                Transfer, Entry
  <2>2. post \in Bnt!Contest
    <3> DEFINE reviewed == contract.reviewed_submissions \cup {submitter}
               count == contract.submission_count + 1
    <3>1. reviewed \in SUBSET Party /\ count \in Nat
      BY <1>k DEF Bnt!Contest
    <3> HIDE DEF reviewed, count
    <3>2. [contract EXCEPT !.reviewed_submissions = reviewed,
             !.submission_count = count] \in Bnt!Contest
      BY <1>k, <3>1 DEF Bnt!Contest
    <3> QED  BY <3>2 DEF reviewed, count
  <2>3. ContestSound(post)
    BY <1>a, <1>k, <2>1 DEF ContestSound, Bnt!Contest
  <2>4. MovesRight(kind, e, post)
    <3>1. /\ post.balance = contract.balance
          /\ post.paid_amount = contract.paid_amount
          /\ post.refunded_amount = contract.refunded_amount
          /\ post.winner = contract.winner
          /\ post.winner_selected = contract.winner_selected
          /\ contract.paid_amount \in Nat /\ contract.refunded_amount \in Nat
      BY <1>k DEF Bnt!Contest
    <3> HIDE DEF post
    <3>2. Booked(kind, e, post) /\ Keeps(e, post)
      BY <1>a, <3>1, ContestKind DEF Keeps, Booked, Entry, Bnt!PaidTo
    <3> QED  BY <3>2 DEF MovesRight
  <2>5. AppBuilds(kind, e)
    BY <2>1, ContestKind DEF AppBuilds, Entry
  <2>7. Decides(kind, e, post)
    BY <1>k, <2>1, ContestKind DEF Decides, Entry
  <2> HIDE DEF post
  <2> QED  BY <1>a, <1>k, <2>1, <2>2, <2>3, <2>4, <2>5, <2>7, ContestKind, OneEntry
<1>2. CASE \E p \in Party : Bnt!select_winner(by, p)
  <2>0. PICK winner \in Party : Bnt!select_winner(by, winner)
    BY <1>2
  <2> DEFINE post == [contract EXCEPT !.winner = winner, !.winner_selected = TRUE,
                        !.open = FALSE, !.paid_amount = Amount, !.balance = 0]
             e == Entry("select_winner", by, 0, winner, Amount)
  <2>1. /\ by = Owner /\ contract.open /\ contract.balance = Amount
        /\ winner \in contract.reviewed_submissions
        /\ Transfer("select_winner", by, 0, post, winner, Amount)
    <3>1. contract.balance = Amount /\ contract.balance - Amount = 0
      BY <2>0, <1>a DEF Bnt!select_winner
    <3> QED
      BY <2>0, <3>1 DEF Bnt!select_winner, Bnt!Transfer, Bnt!Entry,
                       Transfer, Entry
  <2>2. post \in Bnt!Contest
    BY <1>a, <1>k, <2>1 DEF Bnt!Contest
  <2>3. ContestSound(post)
    BY <1>a, <1>k, <2>1 DEF ContestSound, Bnt!Contest
  <2>4. MovesRight(kind, e, post)
    <3>1. PaysOut(kind, e, post)
      BY <1>a, <1>k, <2>1 DEF PaysOut, Entry, Bnt!Contest, ContestSound
    <3>2. /\ post.paid_amount = Amount /\ post.refunded_amount = 0
          /\ post.winner_selected /\ post.winner = winner
          /\ ~contract.winner_selected /\ contract.refunded_amount = 0
      BY <1>a, <1>k, <2>1 DEF ContestSound, Bnt!Contest
    <3> HIDE DEF post
    <3>3. Booked(kind, e, post)
      BY <1>a, <2>1, <3>2, ContestKind DEF Booked, Entry, Bnt!PaidTo
    <3> QED  BY <3>1, <3>3 DEF MovesRight
  <2>5. AppBuilds(kind, e)
    BY <2>1, ContestKind DEF AppBuilds, Entry
  <2>7. Decides(kind, e, post)
    BY <1>k, <2>1, ContestKind DEF Decides, Entry
  <2> HIDE DEF post
  <2> QED  BY <1>a, <1>k, <2>1, <2>2, <2>3, <2>4, <2>5, <2>7, ContestKind, OneEntry
<1>3. CASE Bnt!close_bounty(by)
  <2> DEFINE post == [contract EXCEPT !.open = FALSE, !.refunded_amount = contract.balance,
                        !.balance = 0]
             e == Entry("close_bounty", by, 0, Owner, contract.balance)
  <2>1. /\ by = Owner /\ contract.open /\ contract.balance > 0
        /\ Transfer("close_bounty", by, 0, post, Owner, contract.balance)
    <3>1. contract.balance > 0
      BY <1>3, <1>k DEF Bnt!close_bounty, ContestSound
    <3> QED
      BY <1>3, <3>1 DEF Bnt!close_bounty, Bnt!Transfer, Bnt!Entry,
                       Transfer, Entry
  <2>2. post \in Bnt!Contest
    BY <1>a, <1>k, <2>1 DEF Bnt!Contest
  <2>3. ContestSound(post)
    BY <1>a, <1>k, <2>1 DEF ContestSound, Bnt!Contest
  <2>4. MovesRight(kind, e, post)
    <3>1. PaysOut(kind, e, post)
      BY <1>a, <1>k, <2>1 DEF PaysOut, Entry, Bnt!Contest, ContestSound
    <3>2. /\ post.refunded_amount = contract.balance /\ contract.refunded_amount = 0
          /\ ~post.winner_selected /\ ~contract.winner_selected
          /\ contract.balance \in Nat
      BY <1>a, <1>k, <2>1 DEF ContestSound, Bnt!Contest
    <3> HIDE DEF post
    <3>3. Booked(kind, e, post)
      BY <1>a, <2>1, <3>2, ContestKind DEF Booked, Entry, Bnt!PaidTo
    <3> QED  BY <3>1, <3>3 DEF MovesRight
  <2>5. AppBuilds(kind, e)
    BY <2>1, ContestKind DEF AppBuilds, Entry
  <2>6. contract.balance \in Nat
    BY <1>k DEF Bnt!Contest
  <2>7. Decides(kind, e, post)
    BY <1>k, <2>1, ContestKind DEF Decides, Entry
  <2> HIDE DEF post
  <2> QED  BY <1>a, <1>k, <2>1, <2>2, <2>3, <2>4, <2>5, <2>6, <2>7, ContestKind, OneEntry
<1> QED  BY <1>1, <1>2, <1>3 DEF Bnt!Call

-----------------------------------------------------------------------------
\* The invariant is inductive.

LEMMA Initially == Init => IInv
<1> SUFFICES ASSUME Init PROVE IInv
  OBVIOUS
<1>a. /\ Owner \in Party /\ Counterparty \in Party
      /\ Amount \in Nat /\ Amount > 0 /\ MaxOpen \in Nat
      /\ Surplus \subseteq Nat
  BY WorkflowAssumption
<1>1. kind \in Kind /\ accepted = <<>> /\ received = [p \in Party |-> 0]
  BY DEF Init
<1>2. /\ contract \in ContractType(kind) /\ Sound(kind, contract)
      /\ \A p \in Party : PaidTo(kind, contract, p) = 0
  <2>1. CASE kind = "conditional_payment"
    <3>1. PICK sources \in SUBSET Source : contract = Cond!NewPayment(sources)
      BY <2>1 DEF Init, Deployed
    <3>3. contract \in Cond!Payment
      BY <3>1 DEF Cond!NewPayment, Cond!Payment, Cond!State
    <3>4. PaymentSound(contract)
      BY <3>1 DEF Cond!NewPayment, PaymentSound
    <3>5. \A p \in Party : Cond!PaidTo(contract, p) = 0
      BY <3>1 DEF Cond!NewPayment, Cond!PaidTo
    <3> QED  BY <2>1, <3>3, <3>4, <3>5, PaymentKind
  <2>2. CASE kind = "escrow"
    <3>1. PICK s \in Surplus : contract = Esc!NewEscrow(Amount + s)
      BY <2>2 DEF Init, Deployed, DeployValue
    <3>2. Amount + s \in Nat /\ Amount + s > 0
      BY <1>a
    <3>3. contract \in Esc!Deposit
      BY <3>1, <3>2 DEF Esc!NewEscrow, Esc!Deposit
    <3>4. EscrowSound(contract)
      BY <3>1, <3>2 DEF Esc!NewEscrow, EscrowSound
    <3>5. \A p \in Party : Esc!PaidTo(contract, p) = 0
      BY <3>1 DEF Esc!NewEscrow, Esc!PaidTo
    <3> QED  BY <2>2, <3>3, <3>4, <3>5, EscrowKind
  <2>3. CASE kind = "subscription"
    <3>1. contract = Sub!NewPlan
      BY <2>3 DEF Init, Deployed
    <3>2. IsFiniteSet({}) /\ Cardinality({}) = 0 /\ 0 = Amount * 0
      BY <1>a, FS_EmptySet
    <3> QED
      BY <2>3, <3>1, <3>2, PlanKind
         DEF Sub!NewPlan, Sub!Plan, Sub!PaidTo, PlanSound
  <2>4. CASE kind = "bounty"
    <3>1. PICK s \in Surplus : contract = Bnt!NewContest(Amount + s)
      BY <2>4 DEF Init, Deployed, DeployValue
    <3>2. Amount + s \in Nat /\ Amount + s > 0
      BY <1>a
    <3>3. contract \in Bnt!Contest
      BY <1>a, <3>1, <3>2 DEF Bnt!NewContest, Bnt!Contest
    <3>4. ContestSound(contract)
      BY <1>a, <3>1, <3>2 DEF Bnt!NewContest, ContestSound
    <3>5. \A p \in Party : Bnt!PaidTo(contract, p) = 0
      BY <3>1 DEF Bnt!NewContest, Bnt!PaidTo
    <3> QED  BY <2>4, <3>3, <3>4, <3>5, ContestKind
  <2> QED  BY <1>1, <2>1, <2>2, <2>3, <2>4 DEF Kind
<1>3. accepted \in Seq(EntryType(kind)) /\ Len(accepted) = 0
  BY <1>1
<1>4. ChainOK
  BY <1>3 DEF ChainOK
<1>5. BooksMatchMoney
  BY <1>1, <1>2 DEF BooksMatchMoney, Finalized
<1> QED  BY <1>a, <1>1, <1>2, <1>3, <1>4, <1>5 DEF IInv

LEMMA CallStep ==
  ASSUME IInv, CallOK, kind' = kind
  PROVE  IInv' /\ Finalized' = Finalized /\ received' = received
<1> DEFINE n == Len(accepted)
<1>1. PICK e \in EntryType(kind) :
        /\ e.before = contract
        /\ accepted' = Append(accepted, e)
        /\ MovesRight(kind, e, contract') /\ Decides(kind, e, contract')
        /\ AppBuilds(kind, e)
  BY DEF CallOK
<1>2. accepted \in Seq(EntryType(kind)) /\ n \in Nat /\ n < MaxOpen
  BY DEF IInv, CallOK
<1>3. /\ accepted' \in Seq(EntryType(kind)) /\ Len(accepted') = n + 1
      /\ \A i \in 1 .. n : accepted'[i] = accepted[i]
      /\ accepted'[n + 1] = e
  BY <1>1, <1>2
<1>4. accepted' # <<>>
  BY <1>2, <1>3
<1>5. ChainOK'
  <2> SUFFICES ASSUME NEW i \in 1 .. n + 1
               PROVE  EntryOK(kind, accepted'[i], After(i)')
    BY <1>2, <1>3 DEF ChainOK
  <2>1. CASE i = n + 1
    <3>1. After(i)' = contract'
      BY <1>3, <2>1 DEF After
    <3>2. Sound(kind, e.before)
      BY <1>1 DEF IInv
    <3> QED  BY <1>1, <1>3, <2>1, <3>1, <3>2 DEF EntryOK
  <2>2. CASE i \in 1 .. n
    <3>1. EntryOK(kind, accepted[i], After(i))
      BY <2>2 DEF IInv, ChainOK
    <3>2. After(i)' = accepted'[i + 1].before
      BY <1>2, <1>3, <2>2 DEF After
    <3>3. After(i)' = After(i)
      BY <1>1, <1>2, <1>3, <2>2, <3>2 DEF After
    <3> QED  BY <1>3, <2>2, <3>1, <3>3
  <2> QED  BY <1>2, <2>1, <2>2
<1>6. Finalized' = Finalized
  <2>1. Finalized' = accepted'[1].before
    BY <1>4 DEF Finalized
  <2>2. CASE accepted = <<>>
    BY <1>1, <1>3, <2>1, <2>2 DEF Finalized
  <2>3. CASE accepted # <<>>
    <3>1. 1 \in 1 .. n
      BY <1>2, <2>3
    <3> QED  BY <1>3, <2>1, <2>3, <3>1 DEF Finalized
  <2> QED  BY <2>2, <2>3
<1>7. BooksMatchMoney'
  BY <1>6 DEF IInv, CallOK, BooksMatchMoney
<1> QED  BY <1>2, <1>3, <1>5, <1>6, <1>7, WorkflowAssumption DEF IInv, CallOK

LEMMA FinalizeStep ==
  ASSUME IInv, Finalize, kind' = kind
  PROVE  /\ IInv'
         /\ \E call \in EntryType(kind) :
              /\ call.before = Finalized
              /\ EntryOK(kind, call, Finalized')
              /\ received' = [p \in Party |->
                               received[p] + IF call.to = p THEN call.paid ELSE 0]
<1> DEFINE n == Len(accepted)
           e == accepted[1]
<1>1. accepted \in Seq(EntryType(kind)) /\ n \in Nat /\ n > 0
  BY DEF IInv, Finalize
<1>2. /\ accepted' \in Seq(EntryType(kind)) /\ Len(accepted') = n - 1
      /\ \A i \in 1 .. n - 1 : accepted'[i] = accepted[i + 1]
  BY <1>1 DEF Finalize
<1>3. \A i \in 1 .. n - 1 : After(i)' = After(i + 1)
  <2> SUFFICES ASSUME NEW i \in 1 .. n - 1 PROVE After(i)' = After(i + 1)
    OBVIOUS
  <2>1. CASE i = n - 1
    BY <1>1, <1>2, <2>1 DEF After, Finalize
  <2>2. CASE i # n - 1
    <3>1. i + 1 \in 1 .. n - 1
      BY <1>1, <2>2
    <3> QED  BY <1>1, <1>2, <2>2, <3>1 DEF After
  <2> QED  BY <2>1, <2>2
<1>4. ChainOK'
  <2> SUFFICES ASSUME NEW i \in 1 .. n - 1
               PROVE  EntryOK(kind, accepted'[i], After(i)')
    BY <1>1, <1>2 DEF ChainOK
  <2>1. i + 1 \in 1 .. n
    BY <1>1
  <2> QED  BY <1>2, <1>3, <2>1 DEF IInv, ChainOK
<1>5. e \in EntryType(kind) /\ EntryOK(kind, e, After(1))
  BY <1>1 DEF IInv, ChainOK
<1>6. Finalized = e.before /\ Finalized' = After(1)
  <2>1. CASE n = 1
    BY <1>1, <1>2, <2>1 DEF Finalized, After, Finalize
  <2>2. CASE n # 1
    <3>1. 1 \in 1 .. n - 1 /\ accepted' # <<>>
      BY <1>1, <1>2, <2>2
    <3> QED  BY <1>1, <1>2, <2>2, <3>1 DEF Finalized, After
  <2> QED  BY <2>1, <2>2
<1>7. received' = [p \in Party |-> received[p] + IF e.to = p THEN e.paid ELSE 0]
  BY <1>1 DEF Finalize
<1>8. BooksMatchMoney'
  <2> SUFFICES ASSUME NEW p \in Party
               PROVE  received'[p] = PaidTo(kind, Finalized', p)
    BY DEF BooksMatchMoney
  <2>1. received[p] = PaidTo(kind, e.before, p)
    BY <1>6 DEF IInv, BooksMatchMoney
  <2>2. PaidTo(kind, After(1), p)
          = PaidTo(kind, e.before, p) + IF e.to = p THEN e.paid ELSE 0
    BY <1>5 DEF EntryOK, MovesRight, Booked
  <2> QED  BY <1>6, <1>7, <2>1, <2>2
<1>9. received' \in [Party -> Nat]
  BY <1>5, <1>7 DEF IInv, EntryType
<1>10. IInv'
  BY <1>1, <1>2, <1>4, <1>8, <1>9, WorkflowAssumption DEF IInv, Finalize
<1> QED  BY <1>5, <1>6, <1>7, <1>10

LEMMA AppealStep ==
  ASSUME IInv, NEW m \in Nat, Appeal(m), kind' = kind
  PROVE  IInv' /\ Finalized' = Finalized /\ received' = received
<1> DEFINE n == Len(accepted)
<1>1. accepted \in Seq(EntryType(kind)) /\ n \in Nat /\ m \in 1 .. n
  BY DEF IInv, Appeal
<1>2. /\ accepted' \in Seq(EntryType(kind)) /\ Len(accepted') = m - 1
      /\ \A i \in 1 .. m - 1 : accepted'[i] = accepted[i]
  BY <1>1 DEF Appeal
<1>3. contract' = accepted[m].before /\ received' = received
  BY DEF Appeal
<1>4. contract' \in ContractType(kind) /\ Sound(kind, contract')
  <2>1. accepted[m] \in EntryType(kind)
    BY <1>1
  <2>2. EntryOK(kind, accepted[m], After(m))
    BY <1>1 DEF IInv, ChainOK
  <2> QED  BY <1>3, <2>1, <2>2 DEF EntryOK, EntryType
<1>5. \A i \in 1 .. m - 1 : After(i)' = After(i)
  <2> SUFFICES ASSUME NEW i \in 1 .. m - 1 PROVE After(i)' = After(i)
    OBVIOUS
  <2>0. i # n
    BY <1>1
  <2>1. CASE i = m - 1
    BY <1>1, <1>2, <1>3, <2>0, <2>1 DEF After
  <2>2. CASE i # m - 1
    <3>1. i + 1 \in 1 .. m - 1
      BY <1>1, <2>2
    <3> QED  BY <1>1, <1>2, <2>0, <2>2, <3>1 DEF After
  <2> QED  BY <2>1, <2>2
<1>6. ChainOK'
  <2> SUFFICES ASSUME NEW i \in 1 .. m - 1
               PROVE  EntryOK(kind, accepted'[i], After(i)')
    BY <1>1, <1>2 DEF ChainOK
  <2>1. i \in 1 .. n
    BY <1>1
  <2> QED  BY <1>2, <1>5, <2>1 DEF IInv, ChainOK
<1>7. Finalized' = Finalized
  <2>0. accepted # <<>>
    BY <1>1
  <2>1. CASE m = 1
    BY <1>1, <1>2, <1>3, <2>0, <2>1 DEF Finalized
  <2>2. CASE m # 1
    <3>1. 1 \in 1 .. m - 1 /\ accepted' # <<>>
      BY <1>1, <1>2, <2>2
    <3> QED  BY <1>2, <2>0, <3>1 DEF Finalized
  <2> QED  BY <2>1, <2>2
<1>8. BooksMatchMoney'
  BY <1>3, <1>7 DEF IInv, BooksMatchMoney
<1> QED
  BY <1>1, <1>2, <1>3, <1>4, <1>6, <1>7, <1>8, WorkflowAssumption DEF IInv

LEMMA CallIsOK ==
  ASSUME IInv, NEW by \in Party, NEW value \in Value, Call(by, value)
  PROVE  CallOK /\ kind' = kind
<1>1. contract \in ContractType(kind) /\ Sound(kind, contract)
  BY DEF IInv
<1> QED
  BY <1>1, PaymentCall, EscrowCall, PlanCall, ContestCall DEF Call

LEMMA Inductive == IInv /\ [Next]_vars => IInv'
<1> SUFFICES ASSUME IInv, [Next]_vars PROVE IInv'
  OBVIOUS
<1>1. CASE \E by \in Party, value \in Value : Call(by, value)
  BY <1>1, CallIsOK, CallStep
<1>2. CASE Finalize /\ kind' = kind
  BY <1>2, FinalizeStep
<1>3. CASE \E m \in 1 .. MaxOpen : Appeal(m) /\ kind' = kind
  <2>1. PICK m \in 1 .. MaxOpen : Appeal(m) /\ kind' = kind
    BY <1>3
  <2>2. m \in Nat
    BY WorkflowAssumption
  <2> QED  BY <2>1, <2>2, AppealStep
<1>4. CASE UNCHANGED vars
  <2> USE <1>4
  <2>1. ChainOK'
    BY DEF vars, IInv, ChainOK, After
  <2>2. BooksMatchMoney'
    BY DEF vars, IInv, BooksMatchMoney, Finalized
  <2> QED  BY <2>1, <2>2 DEF vars, IInv
<1> QED  BY <1>1, <1>2, <1>3, <1>4 DEF Next

\* Spec keeps the inductive invariant.
THEOREM Invariance == Spec => []IInv
<1> QED  BY Initially, Inductive, PTL DEF Spec

-----------------------------------------------------------------------------
\* What follows from it.

\* The variables keep their types: four kinds of contract, sound records of
\* the accepted calls, natural amounts (no balance is ever overdrawn).
THEOREM TypeCorrect == Spec => []TypeOK
<1>1. IInv => TypeOK
  <2> SUFFICES ASSUME IInv PROVE TypeOK
    OBVIOUS
  <2>1. \A i \in 1 .. Len(accepted) : accepted[i] \in EntryType(kind)
    BY DEF IInv
  <2> QED  BY <2>1 DEF IInv, TypeOK, EntryType
<1> QED  BY <1>1, Invariance, PTL

\* What a contract's counters report as paid is what the wallets received.
THEOREM BooksAreTrue == Spec => []BooksMatchMoney
<1>1. IInv => BooksMatchMoney
  BY DEF IInv
<1> QED  BY <1>1, Invariance, PTL

LEMMA FinalizedIsSound ==
  ASSUME IInv
  PROVE  Finalized \in ContractType(kind) /\ Sound(kind, Finalized)
<1>1. CASE accepted = <<>>
  BY <1>1 DEF Finalized, IInv
<1>2. CASE accepted # <<>>
  <2>1. 1 \in 1 .. Len(accepted) /\ accepted[1] \in EntryType(kind)
    BY <1>2 DEF IInv
  <2>2. EntryOK(kind, accepted[1], After(1))
    BY <2>1 DEF IInv, ChainOK
  <2> QED  BY <1>2, <2>1, <2>2 DEF Finalized, EntryOK, EntryType
<1> QED  BY <1>1, <1>2

\* A wallet was paid only by the final decision that earns it the payment:
\* the verdict, the release, the payment references or the chosen winner.
THEOREM PayoutsAreEarned == Spec => []PayoutIsEarned
<1>1. IInv => PayoutIsEarned
  <2> SUFFICES ASSUME IInv PROVE PayoutIsEarned
    OBVIOUS
  <2> DEFINE c == Finalized
  <2>0. /\ c \in ContractType(kind) /\ Sound(kind, c)
        /\ \A p \in Party : received[p] = PaidTo(kind, c, p)
        /\ kind \in Kind /\ Owner # Counterparty
    BY FinalizedIsSound, WorkflowAssumption DEF IInv, BooksMatchMoney
  <2>p. PayoutIsEarned <=> \A p \in Party : received[p] > 0 =>
          CASE kind = "conditional_payment" ->
                 /\ c.outcome = IF p = Counterparty THEN "SATISFIED" ELSE "NOT_SATISFIED"
                 /\ c.evidence_quality = "SUFFICIENT"
                 /\ c.evidence_sources # {}
                 /\ c.evidence_sources_used = c.evidence_sources
            [] kind = "escrow" ->
                 ~c.disputed /\ p = IF c.released THEN Counterparty ELSE Owner
            [] kind = "subscription" ->
                 /\ p = Counterparty
                 /\ received[p] = Amount * Cardinality(c.payment_references)
            [] kind = "bounty" ->
                 p = IF c.winner_selected THEN c.winner ELSE Owner
    BY DEF PayoutIsEarned
  <2> HIDE DEF c
  <2>1. CASE kind = "conditional_payment"
    BY <2>0, <2>1, <2>p, PaymentKind DEF PaymentSound, Cond!PaidTo, Cond!Payment
  <2>2. CASE kind = "escrow"
    BY <2>0, <2>2, <2>p, EscrowKind DEF EscrowSound, Esc!PaidTo, Esc!Deposit
  <2>3. CASE kind = "subscription"
    BY <2>0, <2>3, <2>p, PlanKind DEF PlanSound, Sub!PaidTo, Sub!Plan
  <2>4. CASE kind = "bounty"
    BY <2>0, <2>4, <2>p, ContestKind DEF ContestSound, Bnt!PaidTo, Bnt!Contest
  <2> QED  BY <2>0, <2>1, <2>2, <2>3, <2>4 DEF Kind
<1> QED  BY <1>1, Invariance, PTL

\* Of the calls a contract accepts, the backend refuses those of a disabled
\* kind, those of a contract it has no row of and those sent to a Phase 9
\* route that does not take them; it builds the others for the same wallet
\* and with the same value.
THEOREM AppIsComplete == Spec => []OnlyGatesRefuse
<1>1. IInv => OnlyGatesRefuse
  <2> SUFFICES ASSUME IInv, NEW i \in 1 .. Len(accepted), NEW proof \in BOOLEAN,
                      NEW row \in {kind, NULL}, NEW route \in Route,
                      NEW asked \in {0, accepted[i].value}
               PROVE  LET e == accepted[i]
                          phase9 == route = "phase9/conditional-call-tx"
                          answer ==
                            BuildCall(proof, row,
                              [route |-> route, type |-> kind, by |-> e.by,
                               method |-> e.method, value |-> asked])
                      IN
                      \/ answer = Built(e.value)
                      \/ answer = Refused(503) /\ ~phase9 /\ kind \in WORKFLOW_REBUILD_REQUIRED
                      \/ answer = Refused(404) /\ (row = NULL \/ (phase9 /\ ~proof))
                      \/ answer = Refused(400) /\ phase9 /\ kind # "conditional_payment"
    BY DEF OnlyGatesRefuse
  <2>1. accepted[i] \in EntryType(kind)
    BY DEF IInv
  <2>2. accepted[i].method \in ActionsOf(kind) /\ AppBuilds(kind, accepted[i])
    BY <2>1 DEF IInv, ChainOK, EntryOK, EntryType
  <2>3. kind # NULL
    BY WorkflowAssumption DEF IInv
  <2> QED  BY <2>2, <2>3 DEF BuildCall, AppBuilds
<1> QED  BY <1>1, Invariance, PTL

\* What a sound contract holds.
LEMMA BalanceIsNat ==
  ASSUME NEW k \in Kind, NEW c \in ContractType(k), Sound(k, c)
  PROVE  /\ c.balance \in Nat
         /\ k = "subscription" => c.balance = 0
<1>1. CASE k = "conditional_payment"
  <2>1. c \in Cond!Payment
    BY <1>1 DEF ContractType
  <2> QED  BY <1>1, <2>1 DEF Cond!Payment
<1>2. CASE k = "escrow"
  <2>1. c \in Esc!Deposit
    BY <1>2 DEF ContractType
  <2> QED  BY <1>2, <2>1 DEF Esc!Deposit
<1>3. CASE k = "subscription"
  <2>1. c.balance = 0
    BY <1>3 DEF Sound, PlanSound
  <2> QED  BY <2>1
<1>4. CASE k = "bounty"
  <2>1. c \in Bnt!Contest
    BY <1>4 DEF ContractType
  <2> QED  BY <1>4, <2>1 DEF Bnt!Contest
<1> QED  BY <1>1, <1>2, <1>3, <1>4 DEF Kind

LEMMA FinalizedBalance ==
  IInv => /\ Finalized.balance \in Nat
          /\ kind = "subscription" => Finalized.balance = 0
<1> SUFFICES ASSUME IInv
             PROVE  /\ Finalized.balance \in Nat
                    /\ kind = "subscription" => Finalized.balance = 0
  OBVIOUS
<1>1. kind \in Kind /\ Finalized \in ContractType(kind) /\ Sound(kind, Finalized)
  BY FinalizedIsSound DEF IInv
<1> QED  BY <1>1, BalanceIsNat

HoldsNat == Finalized.balance \in Nat

LEMMA NextFinalizedBalance == IInv' => Finalized'.balance \in Nat
<1>1. IInv => HoldsNat
  BY FinalizedBalance DEF HoldsNat
<1>2. IInv' => HoldsNat'
  BY <1>1, PTL
<1> QED  BY <1>2 DEF HoldsNat

LEMMA FinalizedMoves ==
  ASSUME IInv, IInv', kind' = kind,
         NEW call \in EntryType(kind), call.before = Finalized,
         EntryOK(kind, call, Finalized'),
         received' = [p \in Party |->
                        received[p] + IF call.to = p THEN call.paid ELSE 0]
  PROVE  [Abstract!Next]_(Abstract!vars)
<1> DEFINE held == Finalized.balance
           next == Finalized'.balance
<1>0. /\ received \in [Party -> Nat] /\ received' \in [Party -> Nat]
      /\ held \in Nat /\ next \in Nat /\ NULL \notin Party
      /\ call.paid \in Nat
      /\ \A p \in Party : received[p] = PaidTo(kind, Finalized, p)
  <2>1. next \in Nat
    BY NextFinalizedBalance
  <2>2. held \in Nat /\ next \in Nat
    BY <2>1, FinalizedBalance
  <2>3. /\ received \in [Party -> Nat] /\ received' \in [Party -> Nat]
        /\ NULL \notin Party /\ call.paid \in Nat
    BY WorkflowAssumption DEF IInv, EntryType
  <2>4. \A p \in Party : received[p] = PaidTo(kind, Finalized, p)
    BY DEF IInv, BooksMatchMoney
  <2> QED  BY <2>2, <2>3, <2>4
<1>1. CASE Keeps(call, Finalized')
  <2>1. next = held
    BY <1>1 DEF Keeps
  <2>2. received' = received
    BY <1>0, <1>1 DEF Keeps
  <2> QED  BY <2>1, <2>2 DEF Abstract!vars
<1>2. CASE PaysIn(kind, call, Finalized')
  <2>1. kind # "subscription" /\ held = 0 /\ next > 0
    BY <1>2 DEF PaysIn
  <2>2. received = [p \in Party |-> 0]
    BY <1>0, <1>2 DEF PaysIn
  <2>3. received' = received
    BY <1>0, <1>2 DEF PaysIn
  <2> QED  BY <1>0, <2>1, <2>2, <2>3 DEF Abstract!Next, Abstract!PayIn
<1>3. CASE PaysOut(kind, call, Finalized')
  <2>1. /\ kind # "subscription" /\ call.to \in Party
        /\ held > 0 /\ call.paid = held /\ next = 0
    BY <1>3 DEF PaysOut
  <2>2. received' = [received EXCEPT ![call.to] = @ + held]
    <3> DEFINE paid == [received EXCEPT ![call.to] = @ + held]
    <3>1. \A p \in Party : received'[p] = paid[p]
      <4> TAKE p \in Party
      <4>0. received[p] \in Nat
        BY <1>0
      <4>1. CASE p = call.to
        BY <1>0, <2>1, <4>1
      <4>2. CASE p # call.to
        BY <1>0, <2>1, <4>0, <4>2
      <4> QED  BY <4>1, <4>2
    <3>2. paid \in [Party -> Nat]
      BY <1>0, <2>1
    <3> HIDE DEF paid
    <3>3. received' = paid
      BY <1>0, <3>1, <3>2
    <3> QED  BY <3>3 DEF paid
  <2>3. Abstract!PayOut(call.to)
    BY <2>1, <2>2 DEF Abstract!PayOut
  <2> QED  BY <2>1, <2>3 DEF Abstract!Next
<1>4. CASE PassesOn(kind, call, Finalized')
  <2>1. /\ kind = "subscription" /\ call.to \in Party
        /\ call.paid > 0 /\ next = held
    BY <1>4 DEF PassesOn
  <2>2. /\ received'[call.to] > received[call.to]
        /\ \A q \in Party \ {call.to} : received'[q] = received[q]
    BY <1>0, <2>1
  <2>3. Abstract!Forward(call.to)
    BY <1>0, <2>1, <2>2 DEF Abstract!Forward
  <2> QED  BY <2>1, <2>3 DEF Abstract!Next
<1> QED  BY <1>1, <1>2, <1>3, <1>4 DEF EntryOK, MovesRight

\* A step changes what is final, and what was received, by the oldest call.
LEMMA FinalStep ==
  ASSUME IInv, [Next]_vars
  PROVE  /\ kind' = kind
         /\ \/ Finalized' = Finalized /\ received' = received
            \/ \E call \in EntryType(kind) :
                 /\ call.before = Finalized
                 /\ EntryOK(kind, call, Finalized')
                 /\ received' = [p \in Party |->
                                  received[p] + IF call.to = p THEN call.paid ELSE 0]
<1>1. CASE \E by \in Party, value \in Value : Call(by, value)
  BY <1>1, CallIsOK, CallStep
<1>2. CASE Finalize /\ kind' = kind
  BY <1>2, FinalizeStep
<1>3. CASE \E m \in 1 .. MaxOpen : Appeal(m) /\ kind' = kind
  <2>1. PICK m \in 1 .. MaxOpen : Appeal(m) /\ kind' = kind
    BY <1>3
  <2>2. m \in Nat
    BY WorkflowAssumption
  <2> QED  BY <2>1, <2>2, AppealStep
<1>4. CASE UNCHANGED vars
  BY <1>4 DEF vars, Finalized
<1> QED  BY <1>1, <1>2, <1>3, <1>4 DEF Next

\* At finality the money of every workflow moves as Custody says: one
\* principal, paid in and out once and whole, or nothing held at all.
THEOREM CustodyIsKept == Spec => ImplementsCustody
<1>1. Init => Abstract!Init
  <2> SUFFICES ASSUME Init PROVE Abstract!Init
    OBVIOUS
  <2> QED  BY Initially, FinalizedBalance DEF Init, Abstract!Init
<1>2. IInv /\ IInv' /\ [Next]_vars => [Abstract!Next]_(Abstract!vars)
  <2> SUFFICES ASSUME IInv, IInv', [Next]_vars
               PROVE  [Abstract!Next]_(Abstract!vars)
    OBVIOUS
  <2>0. Finalized' = Finalized /\ received' = received /\ kind' = kind
          => UNCHANGED Abstract!vars
    BY DEF Abstract!vars
  <2> QED  BY <2>0, FinalStep, FinalizedMoves
<1> QED
  BY <1>1, <1>2, Invariance, PTL DEF Spec, ImplementsCustody, Abstract!Spec

\* No sequence of calls, appeals and finalizations revises a final decision;
\* in particular a deposit whose dispute is final stays where it is for good.
THEOREM DecisionsAreFinal == Spec => FinalDecisionsStay
<1> DEFINE Keep ==
      LET c == Finalized IN
      /\ Closed(kind, c) => Finalized' = c /\ received' = received
      /\ kind = "conditional_payment" /\ c.outcome \in {"SATISFIED", "NOT_SATISFIED"} =>
           /\ Finalized'.outcome = c.outcome
           /\ Finalized'.evidence_sources_used = c.evidence_sources_used
<1>1. IInv /\ [Next]_vars => Keep
  BY FinalStep DEF EntryOK, Decides, Verdict
<1>2. IInv /\ [Next]_vars => [Keep]_vars
  BY <1>1
<1> QED  BY <1>2, Invariance, PTL DEF Spec, FinalDecisionsStay

\* What is paid into a conditional payment without sources never leaves it,
\* whatever the language model answers.
THEOREM PaymentsNeedEvidence == Spec => NoEvidenceNoPayout
<1> DEFINE Keep ==
      kind = "conditional_payment" /\ Finalized.evidence_sources = {} =>
        /\ Finalized'.evidence_sources = {}
        /\ Finalized'.balance >= Finalized.balance
        /\ received' = received
<1>1. IInv /\ [Next]_vars => Keep
  <2> SUFFICES ASSUME IInv, [Next]_vars,
                      kind = "conditional_payment", Finalized.evidence_sources = {}
               PROVE  /\ Finalized'.evidence_sources = {}
                      /\ Finalized'.balance >= Finalized.balance
                      /\ received' = received
    OBVIOUS
  <2>1. CASE Finalized' = Finalized /\ received' = received
    <3>1. Finalized.balance \in Nat
      BY FinalizedBalance
    <3> QED  BY <2>1, <3>1
  <2>2. ASSUME NEW call \in EntryType(kind), call.before = Finalized,
               EntryOK(kind, call, Finalized'),
               received' = [p \in Party |->
                             received[p] + IF call.to = p THEN call.paid ELSE 0]
        PROVE  /\ Finalized'.evidence_sources = {}
               /\ Finalized'.balance >= Finalized.balance
               /\ received' = received
    <3>1. /\ Finalized'.evidence_sources = {}
          /\ Finalized'.balance >= Finalized.balance
          /\ call.to = NULL
      BY <2>2 DEF EntryOK, Decides
    <3>2. received \in [Party -> Nat] /\ NULL \notin Party
      BY WorkflowAssumption DEF IInv
    <3>3. received' = received
      BY <2>2, <3>1, <3>2
    <3> QED  BY <3>1, <3>3
  <2> QED  BY <2>1, <2>2, FinalStep
<1>2. IInv /\ [Next]_vars => [Keep]_vars
  BY <1>1
<1> QED  BY <1>2, Invariance, PTL DEF Spec, NoEvidenceNoPayout

=============================================================================
