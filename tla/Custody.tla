------------------------------ MODULE Custody -------------------------------
(***************************************************************************)
(* What a workflow contract promises about money once it is final.  A      *)
(* principal is paid in at most once, stays whole, and leaves at most      *)
(* once, all of it to one wallet; nothing happens to it afterwards.  A     *)
(* forwarding contract never holds anything: what a call brings goes on.   *)
(***************************************************************************)
EXTENDS Naturals

CONSTANT Party

VARIABLES
  forwards,     \* the contract passes payments on and holds none
  held,         \* what the contract holds
  received      \* per wallet: what it was paid

vars == <<forwards, held, received>>

Init ==
  /\ forwards \in BOOLEAN
  /\ held \in Nat /\ (forwards => held = 0)
  /\ received = [p \in Party |-> 0]

PayIn ==
  /\ ~forwards
  /\ held = 0 /\ received = [p \in Party |-> 0]
  /\ held' \in Nat /\ held' > 0
  /\ UNCHANGED <<forwards, received>>

PayOut(p) ==
  /\ ~forwards
  /\ held > 0
  /\ received' = [received EXCEPT ![p] = @ + held]
  /\ held' = 0
  /\ UNCHANGED forwards

Forward(p) ==
  /\ forwards
  /\ received' \in [Party -> Nat]
  /\ received'[p] > received[p]
  /\ \A q \in Party \ {p} : received'[q] = received[q]
  /\ UNCHANGED <<forwards, held>>

Next == PayIn \/ \E p \in Party : PayOut(p) \/ Forward(p)

Spec == Init /\ [][Next]_vars
=============================================================================
