------------------------- MODULE ConditionalPayment -------------------------
(***************************************************************************)
(* The conditional payment template: the payer locks a principal, the      *)
(* validators judge a condition on evidence, and the verdict alone decides *)
(* who is paid.  EVALUATING is not seen between calls: evaluate leaves     *)
(* with an outcome or undoes itself.  The count of attempts and the reason *)
(* of a verdict are only shown, and are left out.                          *)
(***************************************************************************)
EXTENDS ContractExecution

CONSTANTS Payer, Recipient, Amount, Source

Outcome == {"SATISFIED", "NOT_SATISFIED", "INSUFFICIENT_EVIDENCE"}
State == Outcome \cup
  {"CREATED", "FUNDED", "EVALUATION_AVAILABLE", "RELEASED", "REFUNDED"}
Quality == {"SUFFICIENT", "INSUFFICIENT"}

Payment ==
  [state: State, outcome: Outcome \cup {"PENDING"}, balance: Nat,
   paid_amount: Nat, refunded_amount: Nat,
   evidence_quality: Quality \cup {"NONE"},
   evidence_sources: SUBSET Source, evidence_sources_used: SUBSET Source]

\* The constructor; an empty list of sources is accepted.
NewPayment(sources) ==
  [state |-> "CREATED", outcome |-> "PENDING", balance |-> 0,
   paid_amount |-> 0, refunded_amount |-> 0, evidence_quality |-> "NONE",
   evidence_sources |-> sources, evidence_sources_used |-> {}]

Participant == {Payer, Recipient}

fund(by, value) ==
  /\ by = Payer
  /\ contract.state = "CREATED"
  /\ value = Amount
  /\ contract.balance + value = Amount
  /\ Update("fund", by, value,
       [contract EXCEPT !.state = "FUNDED", !.balance = @ + value])

\* A mutant of request_evaluation: a verdict against the recipient is
\* evaluated again.
request_evaluation_again(by) ==
  /\ by \in Participant
  /\ contract.state \in {"FUNDED", "INSUFFICIENT_EVIDENCE", "NOT_SATISFIED"}
  /\ contract.balance = Amount
  /\ Update("request_evaluation", by, 0,
       [contract EXCEPT !.state = "EVALUATION_AVAILABLE"])

request_evaluation(by) ==
  /\ by \in Participant
  /\ contract.state \in {"FUNDED", "INSUFFICIENT_EVIDENCE"}
  /\ contract.balance = Amount
  /\ Update("request_evaluation", by, 0,
       [contract EXCEPT !.state = "EVALUATION_AVAILABLE"])

\* What the model answers.  valid: the four keys, known enums, and sources
\* that were fetched, each once and in order.
Answer ==
  [valid: BOOLEAN, outcome: Outcome, quality: Quality, sources: SUBSET Source]

\* A mutant of Judgment: sources that could not be fetched are passed over.
JudgmentOnWhatIsThere(required, usable, answer) ==
  LET decisive == answer.outcome # "INSUFFICIENT_EVIDENCE"
      rejected ==
        \/ required = {}
        \/ ~answer.valid
        \/ ~(answer.sources \subseteq usable)
        \/ decisive /\ (answer.quality # "SUFFICIENT" \/ answer.sources # usable)
  IN [outcome |-> IF rejected THEN "INSUFFICIENT_EVIDENCE" ELSE answer.outcome,
      quality |-> IF rejected \/ ~decisive THEN "INSUFFICIENT" ELSE answer.quality,
      sources |-> IF rejected THEN usable ELSE answer.sources]

\* The task of evaluate: what the leader and the validators agree on when
\* usable is the set of sources that could be fetched and were not empty.
Judgment(required, usable, answer) ==
  LET decisive == answer.outcome # "INSUFFICIENT_EVIDENCE"
      rejected ==
        \/ required = {} \/ usable # required
        \/ ~answer.valid
        \/ ~(answer.sources \subseteq usable)
        \/ decisive /\ (answer.quality # "SUFFICIENT" \/ answer.sources # usable)
  IN [outcome |-> IF rejected THEN "INSUFFICIENT_EVIDENCE" ELSE answer.outcome,
      quality |-> IF rejected \/ ~decisive THEN "INSUFFICIENT" ELSE answer.quality,
      sources |-> IF rejected THEN usable ELSE answer.sources]

evaluate(by, usable, answer) ==
  /\ by \in Participant
  /\ contract.state = "EVALUATION_AVAILABLE"
  /\ LET result == Judgment(contract.evidence_sources, usable, answer) IN
       Update("evaluate", by, 0,
         [contract EXCEPT !.state = result.outcome, !.outcome = result.outcome,
            !.evidence_quality = result.quality,
            !.evidence_sources_used = result.sources])

settle_release(by) ==
  /\ by \in Participant
  /\ contract.state = "SATISFIED" /\ contract.outcome = "SATISFIED"
  /\ contract.balance = Amount
  /\ Transfer("settle_release", by, 0,
       [contract EXCEPT !.state = "RELEASED", !.paid_amount = Amount,
          !.balance = @ - Amount],
       Recipient, Amount)

settle_refund(by) ==
  /\ by \in Participant
  /\ contract.state = "NOT_SATISFIED" /\ contract.outcome = "NOT_SATISFIED"
  /\ contract.balance = Amount
  /\ Transfer("settle_refund", by, 0,
       [contract EXCEPT !.state = "REFUNDED", !.refunded_amount = Amount,
          !.balance = @ - Amount],
       Payer, Amount)

Evaluation(by) ==
  \E usable \in SUBSET contract.evidence_sources, answer \in Answer :
    evaluate(by, usable, answer)

Call(by, value) ==
  \/ fund(by, value)
  \/ request_evaluation(by)
  \/ Evaluation(by)
  \/ settle_release(by)
  \/ settle_refund(by)

\* What the contract's own counters say it has paid to p.
PaidTo(c, p) ==
  (IF p = Recipient THEN c.paid_amount ELSE 0)
    + (IF p = Payer THEN c.refunded_amount ELSE 0)

=============================================================================
