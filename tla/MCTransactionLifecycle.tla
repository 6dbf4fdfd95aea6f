----------------------- MODULE MCTransactionLifecycle -----------------------
(* Small instances of TransactionLifecycle for TLC. *)
EXTENDS TransactionLifecycle, TLC

CONSTANTS e1, e2, h1, h2

\* Every text is in lower case.
AsWritten == [h \in Hash |-> h]
\* h2 is h1 in upper case.
MixedCase == (h1 :> h1) @@ (h2 :> h1)

\* One envelope and its transaction.
OneToOne == (h1 :> {e1})
\* One broadcast transaction, two identical deployments prepared for it.
SharedHash == (h1 :> {e1, e2})
\* Two wallet encodings of one reviewed deployment (legacy and EIP-1559 fees).
TwoEncodings == (h1 :> {e1}) @@ (h2 :> {e1})

RequestSymmetry == Permutations(Confirm) \cup Permutations(Poll)
=============================================================================
