------------------------- MODULE OneShotChallenges --------------------------
(***************************************************************************)
(* What the sign-in promises: a wallet has at most one open challenge, a   *)
(* challenge that was replaced or redeemed never opens again, and one that *)
(* was redeemed yields one session or none.                                *)
(***************************************************************************)
EXTENDS Naturals

CONSTANTS Wallet, Nonce, NULL

VARIABLES
  open,         \* per wallet: the challenge that may be redeemed, or NULL
  past,         \* the nonces that were used for a challenge, or thrown away
  redeemed,     \* <<w, n>>: redeemed for w, and not yet decided
  sessions      \* per wallet and nonce: the number of sessions

vars == <<open, past, redeemed, sessions>>

Init ==
  /\ open = [w \in Wallet |-> NULL]
  /\ past = {}
  /\ redeemed = {}
  /\ sessions = [w \in Wallet |-> [n \in Nonce |-> 0]]

\* A new challenge replaces the one that was open.
Offer(w, n) ==
  /\ n \notin past
  /\ past' = past \cup {n}
  /\ open' = [open EXCEPT ![w] = n]
  /\ UNCHANGED <<redeemed, sessions>>

Discard(n) ==
  /\ past' = past \cup {n}
  /\ UNCHANGED <<open, redeemed, sessions>>

Redeem(w) ==
  /\ open[w] # NULL
  /\ redeemed' = redeemed \cup {<<w, open[w]>>}
  /\ open' = [open EXCEPT ![w] = NULL]
  /\ UNCHANGED <<past, sessions>>

Grant(w, n) ==
  /\ <<w, n>> \in redeemed
  /\ redeemed' = redeemed \ {<<w, n>>}
  /\ sessions' = [sessions EXCEPT ![w][n] = @ + 1]
  /\ UNCHANGED <<open, past>>

Refuse(w, n) ==
  /\ redeemed' = redeemed \ {<<w, n>>}
  /\ UNCHANGED <<open, past, sessions>>

Next ==
  \/ \E n \in Nonce : Discard(n)
  \/ \E w \in Wallet : Redeem(w)
  \/ \E w \in Wallet, n \in Nonce : Offer(w, n) \/ Grant(w, n) \/ Refuse(w, n)

Spec == Init /\ [][Next]_vars
=============================================================================
