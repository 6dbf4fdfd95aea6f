------------------------- MODULE WorkflowContracts --------------------------
(***************************************************************************)
(* One deployed workflow contract of any of the four kinds: every wallet   *)
(* calls every method with any value, accepted calls are undone by appeals *)
(* or become final.  The backend's answer to a request to build a call is  *)
(* an operator, BuildCall: a wallet can ask without a workflow type, which *)
(* skips the checks, or not ask at all, so that the contract must stand on *)
(* its own.                                                                *)
(***************************************************************************)
EXTENDS ContractExecution, FiniteSets

CONSTANTS
  Owner,        \* the wallet that deploys: payer, buyer or issuer
  Counterparty, \* recipient or seller
  Amount,       \* the configured principal, amount or reward, in wei
  Surplus,      \* what a deployment may bring beyond what the app sends
  Value,        \* what a call may bring
  Source,       \* evidence URLs
  Reference     \* payment references

Kind == {"conditional_payment", "escrow", "subscription", "bounty"}

ASSUME WorkflowAssumption ==
  /\ Owner \in Party /\ Counterparty \in Party
  /\ Owner # Counterparty
  /\ Amount \in Nat \ {0}
  /\ Surplus \subseteq Nat /\ 0 \in Surplus
  /\ Value \subseteq Nat
  /\ MaxOpen \in Nat
  /\ NULL \notin Party \cup Kind

VARIABLE kind   \* the workflow type

vars == <<kind, contract, accepted, received>>

Cond == INSTANCE ConditionalPayment WITH Payer <- Owner, Recipient <- Counterparty
Esc == INSTANCE Escrow WITH Buyer <- Owner, Seller <- Counterparty
Sub == INSTANCE Subscription WITH Payer <- Owner, Recipient <- Counterparty
Bnt == INSTANCE Bounty WITH Issuer <- Owner, Reward <- Amount

-----------------------------------------------------------------------------
\* The value the app sends with a deployment.
DeployValue(k) == IF k \in {"escrow", "bounty"} THEN Amount ELSE 0

Deployed(k) ==
  CASE k = "conditional_payment" -> {Cond!NewPayment(s) : s \in SUBSET Source}
    [] k = "escrow" -> {Esc!NewEscrow(DeployValue(k) + s) : s \in Surplus}
    [] k = "subscription" -> {Sub!NewPlan}
    [] k = "bounty" -> {Bnt!NewContest(DeployValue(k) + s) : s \in Surplus}

Init ==
  /\ kind \in Kind
  /\ contract \in Deployed(kind)
  /\ accepted = <<>>
  /\ received = [p \in Party |-> 0]

Call(by, value) ==
  /\ \/ kind = "conditional_payment" /\ Cond!Call(by, value)
     \/ kind = "escrow" /\ Esc!Call(by)
     \/ kind = "subscription" /\ Sub!Call(by, value)
     \/ kind = "bounty" /\ Bnt!Call(by)
  /\ UNCHANGED kind

Next ==
  \/ \E by \in Party, value \in Value : Call(by, value)
  \/ (Finalize \/ \E i \in 1 .. MaxOpen : Appeal(i)) /\ UNCHANGED kind

Spec == Init /\ [][Next]_vars

\* Everybody keeps making every call the contract accepts, and accepted
\* calls become final.
Willing ==
  /\ WF_vars(Finalize /\ UNCHANGED kind)
  /\ \A by \in Party, value \in Value : SF_vars(Call(by, value))

WillingSpec == Spec /\ Willing

-----------------------------------------------------------------------------
\* What the backend builds.

ActionsOf(k) ==
  CASE k = "conditional_payment" ->
         {"fund", "request_evaluation", "evaluate", "settle_release", "settle_refund"}
    [] k = "escrow" -> {"approve_release", "raise_dispute", "cancel_escrow"}
    [] k = "subscription" -> {"record_payment", "pause", "resume", "cancel"}
    [] k = "bounty" -> {"review_submission", "select_winner", "close_bounty"}

\* A mutant of AuthorizedFor: only the owner may act on an escrow.
AuthorizedOwner(k, method) ==
  CASE k = "conditional_payment" ->
         IF method = "fund" THEN {Owner} ELSE {Owner, Counterparty}
    [] OTHER -> {Owner}

\* is_workflow_action_authorized: the wallets the role check lets pass.
AuthorizedFor(k, method) ==
  CASE k = "conditional_payment" ->
         IF method = "fund" THEN {Owner} ELSE {Owner, Counterparty}
    [] k = "escrow" /\ method = "raise_dispute" -> {Owner, Counterparty}
    [] OTHER -> {Owner}

\* The value the backend puts into the call, whatever was asked for.
ActionValue(k, method) ==
  IF \/ k = "conditional_payment" /\ method = "fund"
     \/ k = "subscription" /\ method = "record_payment"
  THEN Amount ELSE 0

\* The kinds whose capability is disabled.
WORKFLOW_REBUILD_REQUIRED == {"conditional_payment", "bounty"}

Route == {"contract-call-tx", "phase9/conditional-call-tx"}

\* A request names its route, the workflow type (or none), the wallet, the
\* method and a value.  Its arguments are what the method takes.
Built(value) == [status |-> 200, value |-> value]
Refused(status) == [status |-> status, value |-> 0]

\* The answer to request r when proof says whether the Phase 9 routes are
\* switched on and row is the workflow type of the deployment row that has
\* the contract's address, NULL when there is none.
BuildCall(proof, row, r) ==
  LET phase9 == r.route = "phase9/conditional-call-tx" IN
  IF phase9 /\ ~proof THEN Refused(404)
  ELSE IF phase9 /\ r.type # "conditional_payment" THEN Refused(400)
  ELSE IF r.type = NULL THEN Built(r.value)
  ELSE IF ~phase9 /\ r.type \in WORKFLOW_REBUILD_REQUIRED THEN Refused(503)
  ELSE IF r.method \notin ActionsOf(r.type) THEN Refused(400)
  ELSE IF row = NULL THEN Refused(404)
  ELSE IF row # r.type THEN Refused(400)
  ELSE IF r.by \notin AuthorizedFor(row, r.method) THEN Refused(403)
  ELSE IF r.value \notin {0, ActionValue(row, r.method)} THEN Refused(400)
  ELSE Built(ActionValue(row, r.method))

-----------------------------------------------------------------------------
\* What the contract's own counters say it has paid to p.
PaidTo(k, c, p) ==
  CASE k = "conditional_payment" -> Cond!PaidTo(c, p)
    [] k = "escrow" -> Esc!PaidTo(c, p)
    [] k = "subscription" -> Sub!PaidTo(c, p)
    [] k = "bounty" -> Bnt!PaidTo(c, p)

ContractType(k) ==
  CASE k = "conditional_payment" -> Cond!Payment
    [] k = "escrow" -> Esc!Deposit
    [] k = "subscription" -> Sub!Plan
    [] k = "bounty" -> Bnt!Contest

\* The variables have the values their descriptions give.
TypeOK ==
  /\ kind \in Kind
  /\ contract \in ContractType(kind)
  /\ Len(accepted) <= MaxOpen
  /\ \A i \in 1 .. Len(accepted) :
       LET e == accepted[i] IN
       /\ e.method \in ActionsOf(kind) /\ e.by \in Party /\ e.value \in Nat
       /\ e.before \in ContractType(kind)
       /\ e.to \in Party \cup {NULL} /\ e.paid \in Nat
  /\ received \in [Party -> Nat]

\* The counters of a contract (paid_amount, refunded_amount, ...), which
\* get_state shows as what was paid, are what the wallets have in fact
\* received once everything the counters stand for is final, in spite of
\* the calls that were undone in between.
BooksMatchMoney == \A p \in Party : received[p] = PaidTo(kind, Finalized, p)

\* Nobody is paid without the decision that earns it being final: a
\* conditional payment pays by the verdict, reached on every configured
\* source; a disputed escrow pays nobody; a subscription pays once per
\* reference; a bounty pays a reviewed submitter or goes back.
PayoutIsEarned ==
  \A p \in Party : received[p] > 0 =>
    LET c == Finalized IN
    CASE kind = "conditional_payment" ->
           /\ c.outcome = IF p = Counterparty THEN "SATISFIED" ELSE "NOT_SATISFIED"
           /\ c.evidence_quality = "SUFFICIENT"
           /\ c.evidence_sources # {}
           /\ c.evidence_sources_used = c.evidence_sources
      [] kind = "escrow" ->
           ~c.disputed /\ p = IF c.released THEN Counterparty ELSE Owner
      [] kind = "subscription" ->
           /\ p = Counterparty
           /\ received[p] = Amount * Cardinality(c.payment_references)
      [] kind = "bounty" ->
           p = IF c.winner_selected THEN c.winner ELSE Owner

\* A call the contract accepts is refused by the backend for three reasons
\* only: its kind's capability is disabled (503), there is no deployment row
\* with the contract's address (404), or it was sent to a Phase 9 route that
\* is off or for another kind.  Otherwise the backend builds it, for that
\* wallet and with the value the contract took, also when no value was asked
\* for: the tables of actions, roles and values in workflow_service.py lock
\* nobody out of a call the templates entitle them to.
OnlyGatesRefuse ==
  \A i \in 1 .. Len(accepted), proof \in BOOLEAN, row \in {kind, NULL}, route \in Route :
    LET e == accepted[i]
        phase9 == route = "phase9/conditional-call-tx"
    IN
    \A asked \in {0, e.value} :
      LET answer ==
            BuildCall(proof, row,
              [route |-> route, type |-> kind, by |-> e.by,
               method |-> e.method, value |-> asked])
      IN
      \/ answer = Built(e.value)
      \/ answer = Refused(503) /\ ~phase9 /\ kind \in WORKFLOW_REBUILD_REQUIRED
      \/ answer = Refused(404) /\ (row = NULL \/ (phase9 /\ ~proof))
      \/ answer = Refused(400) /\ phase9 /\ kind # "conditional_payment"

\* No call is accepted any more: what was to be decided is, or is disputed.
Closed(k, c) ==
  CASE k = "conditional_payment" -> c.state \in {"RELEASED", "REFUNDED"}
    [] k = "escrow" -> c.released \/ c.cancelled \/ c.disputed
    [] k = "subscription" -> c.cancelled
    [] k = "bounty" -> ~c.open

\* A final decision is the last one.  A verdict is not reached again with
\* another result before it is settled, nothing is decided or paid after a
\* release, refund, cancellation or choice, and a dispute that is final
\* freezes the deposit, whoever calls what.
FinalDecisionsStay ==
  [][LET c == Finalized IN
     /\ Closed(kind, c) => Finalized' = c /\ received' = received
     /\ kind = "conditional_payment" /\ c.outcome \in {"SATISFIED", "NOT_SATISFIED"} =>
          /\ Finalized'.outcome = c.outcome
          /\ Finalized'.evidence_sources_used = c.evidence_sources_used]_vars

\* A payment that was deployed without sources is never judged on nothing:
\* what is paid in stays in.  (So the principal is lost, which the
\* constructor and the validator let happen.)
NoEvidenceNoPayout ==
  [][kind = "conditional_payment" /\ Finalized.evidence_sources = {} =>
       /\ Finalized'.evidence_sources = {}
       /\ Finalized'.balance >= Finalized.balance
       /\ received' = received]_vars

\* As far as finality goes, the money of every kind of contract moves as
\* Custody says: in once, out once, whole, or straight through.
Abstract == INSTANCE Custody
  WITH forwards <- (kind = "subscription"), held <- Finalized.balance
ImplementsCustody == Abstract!Spec

\* "Secure payment between two parties with dispute resolution": a dispute
\* ends, if everybody makes every call the contract accepts.
DisputesAreResolved ==
  (kind = "escrow" /\ Finalized.disputed) ~> Finalized.balance = 0

=============================================================================
