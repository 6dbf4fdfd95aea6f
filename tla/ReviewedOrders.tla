--------------------------- MODULE ReviewedOrders ---------------------------
(***************************************************************************)
(* What the chat promises of its messages: what is confirmed for a message *)
(* does what the message asked for, belongs to no other message, and comes *)
(* a second time only for a message that may be carried out again; and a   *)
(* message is reported as carried out only when it is.  Envelopes, hashes, *)
(* wallets, histories and their copies are not its concern.                *)
(***************************************************************************)
CONSTANTS Message, Order

VARIABLES
  order,        \* per message: what it asks for
  carried,      \* per message: the confirmed transactions that carried it out
  repeatable,   \* the messages that may be carried out again
  reported      \* the messages that are reported as carried out

vars == <<order, carried, repeatable, reported>>

Init ==
  /\ order \in [Message -> Order]
  /\ carried = [m \in Message |-> {}]
  /\ repeatable \subseteq Message
  /\ reported = {}

Does(tx, o) == \A field \in DOMAIN o : tx[field] = o[field]

CarryOut(m, tx) ==
  /\ Does(tx, order[m])
  /\ \A n \in Message : tx \notin carried[n]
  /\ carried[m] = {} \/ m \in repeatable
  /\ carried' = [carried EXCEPT ![m] = @ \cup {tx}]
  /\ UNCHANGED <<order, repeatable, reported>>

\* What is reported changes, and track may be lost of a message.
Report ==
  /\ reported' \subseteq {m \in Message : carried[m] # {}}
  /\ repeatable \subseteq repeatable' /\ repeatable' \subseteq Message
  /\ UNCHANGED <<order, carried>>

Next ==
  \/ \E m \in Message : \E tx \in carried'[m] : CarryOut(m, tx)
  \/ Report

Spec == Init /\ [][Next]_vars
=============================================================================
