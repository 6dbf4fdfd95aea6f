---------------------------- MODULE FinalVerdicts ----------------------------
(***************************************************************************)
(* What the notary promises a reader: what is claimed is claimed once and  *)
(* for good, it is judged at most once, and a verdict is shown, or a claim *)
(* reported as judged, only when that is so for good.  Appeals, calls that *)
(* are not final, polls and requests are not its concern.                  *)
(***************************************************************************)
CONSTANTS Claim, Content, Verdict, NULL

VARIABLES
  claimed,      \* per claim: what was submitted, or NULL
  judged,       \* per claim: the verdict, or "PENDING"
  shown,        \* per claim: the verdict a reader is shown, or "PENDING"
  reported      \* the claims that are reported as judged

vars == <<claimed, judged, shown, reported>>

Init ==
  /\ claimed = [c \in Claim |-> NULL]
  /\ judged = [c \in Claim |-> "PENDING"]
  /\ shown = [c \in Claim |-> "PENDING"]
  /\ reported = {}

Submit(c) ==
  /\ claimed[c] = NULL
  /\ claimed'[c] \in Content \ {claimed[d] : d \in Claim}
  /\ claimed' = [claimed EXCEPT ![c] = claimed'[c]]
  /\ UNCHANGED <<judged, shown, reported>>

Judge(c) ==
  /\ claimed[c] # NULL /\ judged[c] = "PENDING"
  /\ \E v \in Verdict \ {"PENDING"} : judged' = [judged EXCEPT ![c] = v]
  /\ UNCHANGED <<claimed, shown, reported>>

\* What is shown of a claim is renewed, or forgotten.
Show(c) ==
  /\ \E v \in {"PENDING", judged[c]} : shown' = [shown EXCEPT ![c] = v]
  /\ \/ reported' = reported \ {c}
     \/ judged[c] # "PENDING" /\ reported' = reported \cup {c}
  /\ UNCHANGED <<claimed, judged>>

Next == \E c \in Claim : Show(c) \/ Submit(c) \/ Judge(c)

Spec == Init /\ [][Next]_vars
=============================================================================
