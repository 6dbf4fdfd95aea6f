------------------------------- MODULE Escrow -------------------------------
(***************************************************************************)
(* The escrow template.  The deposit arrives with the deployment; there is *)
(* no other way to pay in.                                                 *)
(***************************************************************************)
EXTENDS ContractExecution

CONSTANTS Buyer, Seller, Amount

Deposit ==
  [released: BOOLEAN, disputed: BOOLEAN, cancelled: BOOLEAN,
   released_amount: Nat, refunded_amount: Nat, balance: Nat]

NewEscrow(deposit) ==
  [released |-> FALSE, disputed |-> FALSE, cancelled |-> FALSE,
   released_amount |-> 0, refunded_amount |-> 0, balance |-> deposit]

\* A mutant of approve_release: any balance that covers the amount will do.
approve_releaseIfCovered(by) ==
  /\ by = Buyer
  /\ ~contract.cancelled /\ ~contract.disputed /\ ~contract.released
  /\ contract.balance >= Amount
  /\ Transfer("approve_release", by, 0,
       [contract EXCEPT !.released = TRUE, !.released_amount = Amount,
          !.balance = @ - Amount],
       Seller, Amount)

approve_release(by) ==
  /\ by = Buyer
  /\ ~contract.cancelled /\ ~contract.disputed /\ ~contract.released
  /\ contract.balance = Amount
  /\ Transfer("approve_release", by, 0,
       [contract EXCEPT !.released = TRUE, !.released_amount = Amount,
          !.balance = @ - Amount],
       Seller, Amount)

raise_dispute(by) ==
  /\ by \in {Buyer, Seller}
  /\ ~contract.released /\ ~contract.cancelled
  /\ ~contract.disputed
  /\ Update("raise_dispute", by, 0, [contract EXCEPT !.disputed = TRUE])

\* A mutant of cancel_escrow: the configured amount is entered as refunded.
cancel_escrowForAmount(by) ==
  LET refund == contract.balance IN
  /\ by = Buyer
  /\ ~contract.released /\ ~contract.disputed
  /\ ~contract.cancelled
  /\ Transfer("cancel_escrow", by, 0,
       [contract EXCEPT !.cancelled = TRUE, !.refunded_amount = Amount,
          !.balance = 0],
       IF refund > 0 THEN Buyer ELSE NULL, refund)

cancel_escrow(by) ==
  LET refund == contract.balance IN
  /\ by = Buyer
  /\ ~contract.released /\ ~contract.disputed
  /\ ~contract.cancelled
  /\ Transfer("cancel_escrow", by, 0,
       [contract EXCEPT !.cancelled = TRUE, !.refunded_amount = refund,
          !.balance = 0],
       IF refund > 0 THEN Buyer ELSE NULL, refund)

Call(by) == approve_release(by) \/ raise_dispute(by) \/ cancel_escrow(by)

\* What the contract's own counters say it has paid to p.
PaidTo(c, p) ==
  (IF p = Seller THEN c.released_amount ELSE 0)
    + (IF p = Buyer THEN c.refunded_amount ELSE 0)

=============================================================================
