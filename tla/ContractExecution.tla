------------------------- MODULE ContractExecution --------------------------
(***************************************************************************)
(* How GenLayer runs the calls of one deployed contract, as far as the     *)
(* templates of workflow_service.py depend on it.                          *)
(*                                                                         *)
(* A call that validators accept takes effect at once and is provisional   *)
(* until it is finalized, oldest first.  An appeal that succeeds undoes an *)
(* accepted call together with the ones after it; they run again as new    *)
(* calls, possibly with another result or never.  emit_transfer takes the  *)
(* value out of the balance when the call runs and delivers it when the    *)
(* call is finalized.  A call that raises UserError, or that validators do *)
(* not agree on, leaves no trace and returns its value: it is not a step.  *)
(***************************************************************************)
EXTENDS Naturals, Sequences

CONSTANTS
  Party,        \* the wallets
  NULL,
  MaxOpen       \* bound on the calls that are accepted and not finalized

VARIABLES
  contract,     \* the storage and the balance the accepted calls have left
  accepted,     \* the accepted calls, oldest first
  received      \* per wallet: what finalized transfers have delivered

executionVars == <<contract, accepted, received>>

\* before: the contract the call found; to, paid: the transfer it emitted.
Entry(method, by, value, to, paid) ==
  [method |-> method, by |-> by, value |-> value,
   before |-> contract, to |-> to, paid |-> paid]

\* What reads of finalized state return.
Finalized == IF accepted = <<>> THEN contract ELSE accepted[1].before

\* The call is accepted, leaves post behind and transfers paid to to.
Transfer(method, by, value, post, to, paid) ==
  /\ Len(accepted) < MaxOpen
  /\ contract' = post
  /\ accepted' = Append(accepted, Entry(method, by, value, to, paid))
  /\ UNCHANGED received

\* The call is accepted and transfers nothing.
Update(method, by, value, post) == Transfer(method, by, value, post, NULL, 0)

Finalize ==
  /\ accepted # <<>>
  /\ LET call == Head(accepted) IN
       received' = [p \in Party |->
                      received[p] + IF call.to = p THEN call.paid ELSE 0]
  /\ accepted' = Tail(accepted)
  /\ UNCHANGED contract

Appeal(i) ==
  /\ i \in 1 .. Len(accepted)
  /\ contract' = accepted[i].before
  /\ accepted' = SubSeq(accepted, 1, i - 1)
  /\ UNCHANGED received

=============================================================================
