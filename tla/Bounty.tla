------------------------------- MODULE Bounty -------------------------------
(***************************************************************************)
(* The bounty template.  The reward arrives with the deployment; the       *)
(* issuer records submissions by hand and chooses a winner among them.     *)
(***************************************************************************)
EXTENDS ContractExecution

CONSTANTS Issuer, Reward

Contest ==
  [open: BOOLEAN, submission_count: Nat, winner: Party,
   winner_selected: BOOLEAN, paid_amount: Nat, refunded_amount: Nat,
   reviewed_submissions: SUBSET Party, balance: Nat]

NewContest(deposit) ==
  [open |-> TRUE, submission_count |-> 0, winner |-> Issuer,
   winner_selected |-> FALSE, paid_amount |-> 0, refunded_amount |-> 0,
   reviewed_submissions |-> {}, balance |-> deposit]

review_submission(by, submitter) ==
  /\ by = Issuer
  /\ contract.open
  /\ submitter # Issuer
  /\ submitter \notin contract.reviewed_submissions
  /\ Update("review_submission", by, 0,
       [contract EXCEPT !.reviewed_submissions = @ \cup {submitter},
          !.submission_count = @ + 1])

select_winner(by, winner) ==
  /\ by = Issuer
  /\ contract.open
  /\ winner \in contract.reviewed_submissions
  /\ contract.balance = Reward
  /\ Transfer("select_winner", by, 0,
       [contract EXCEPT !.winner = winner, !.winner_selected = TRUE,
          !.open = FALSE, !.paid_amount = Reward, !.balance = @ - Reward],
       winner, Reward)

close_bounty(by) ==
  LET refund == contract.balance IN
  /\ by = Issuer
  /\ contract.open
  /\ Transfer("close_bounty", by, 0,
       [contract EXCEPT !.open = FALSE, !.refunded_amount = refund,
          !.balance = 0],
       IF refund > 0 THEN Issuer ELSE NULL, refund)

Call(by) ==
  \/ \E p \in Party : review_submission(by, p) \/ select_winner(by, p)
  \/ close_bounty(by)

\* What the contract's own counters say it has paid to p.
PaidTo(c, p) ==
  (IF c.winner_selected /\ p = c.winner THEN c.paid_amount ELSE 0)
    + (IF p = Issuer THEN c.refunded_amount ELSE 0)

=============================================================================
