---------------------------- MODULE Subscription ----------------------------
(***************************************************************************)
(* The subscription template: every payment carries its own value and      *)
(* passes it on.  Nothing schedules a payment; the payer makes each one.   *)
(* A blank reference is refused and is not among the references.           *)
(***************************************************************************)
EXTENDS ContractExecution

CONSTANTS Payer, Recipient, Amount, Reference

Plan ==
  [active: BOOLEAN, cancelled: BOOLEAN, payment_count: Nat, total_paid: Nat,
   payment_references: SUBSET Reference, balance: Nat]

NewPlan ==
  [active |-> TRUE, cancelled |-> FALSE, payment_count |-> 0,
   total_paid |-> 0, payment_references |-> {}, balance |-> 0]

\* A mutant of record_payment: the value that came with the call is not
\* compared with the amount.
record_paymentAnyValue(by, value, reference) ==
  /\ by = Payer
  /\ contract.active /\ ~contract.cancelled
  /\ reference \notin contract.payment_references
  /\ Transfer("record_payment", by, value,
       [contract EXCEPT !.payment_references = @ \cup {reference},
          !.payment_count = @ + 1, !.total_paid = @ + Amount,
          !.balance = (@ + value) - Amount],
       Recipient, Amount)

record_payment(by, value, reference) ==
  /\ by = Payer
  /\ contract.active /\ ~contract.cancelled
  /\ value = Amount
  /\ reference \notin contract.payment_references
  /\ Transfer("record_payment", by, value,
       [contract EXCEPT !.payment_references = @ \cup {reference},
          !.payment_count = @ + 1, !.total_paid = @ + Amount,
          !.balance = (@ + value) - Amount],
       Recipient, Amount)

pause(by) ==
  /\ by = Payer
  /\ ~contract.cancelled
  /\ contract.active
  /\ Update("pause", by, 0, [contract EXCEPT !.active = FALSE])

resume(by) ==
  /\ by = Payer
  /\ ~contract.cancelled
  /\ ~contract.active
  /\ Update("resume", by, 0, [contract EXCEPT !.active = TRUE])

cancel(by) ==
  /\ by = Payer
  /\ ~contract.cancelled
  /\ Update("cancel", by, 0,
       [contract EXCEPT !.active = FALSE, !.cancelled = TRUE])

Call(by, value) ==
  \/ \E reference \in Reference : record_payment(by, value, reference)
  \/ pause(by) \/ resume(by) \/ cancel(by)

\* What the contract's own counters say it has paid to p.
PaidTo(c, p) == IF p = Recipient THEN c.total_paid ELSE 0

=============================================================================
