----------------------------- MODULE MCSiweAuth -----------------------------
(* Small instances of SiweAuth for TLC. *)
EXTENDS SiweAuth, TLC

Symmetry ==
  Permutations(Wallet) \cup Permutations(Nonce) \cup Permutations(RowId)
    \cup Permutations(Ask) \cup Permutations(Verify)
=============================================================================
