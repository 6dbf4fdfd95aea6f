------------------------- MODULE SingleUseEnvelopes -------------------------
(***************************************************************************)
(* What the index of prepared transactions promises: an envelope is used   *)
(* at most once, by a mined transaction with the reviewed fields, and a    *)
(* text of a hash is recorded for at most one envelope.  Another text of   *)
(* the same hash counts as another hash: what follows for transactions     *)
(* holds where hashes are always written alike.  Requests, retries, expiry *)
(* and the moment of each commit are not its concern.                      *)
(***************************************************************************)
CONSTANTS Envelope, Hash, Lower, Matches, NULL

VARIABLES
  recorded,     \* the hash the index holds for an envelope, or NULL
  consumed,     \* the envelopes that were used
  mined         \* the transactions that succeeded on the EVM chain

Transaction == {h \in Hash : Lower[h] = h}

vars == <<recorded, consumed, mined>>

Init ==
  /\ recorded = [e \in Envelope |-> NULL]
  /\ consumed = {}
  /\ mined = {}

Recordable(e, h) ==
  h = recorded[e] \/ (e \in Matches[Lower[h]] /\ \A f \in Envelope : recorded[f] # h)

Mine(t) ==
  /\ mined' = mined \cup {t}
  /\ UNCHANGED <<recorded, consumed>>

Record(e, h) ==
  /\ Recordable(e, h)
  /\ recorded' = [recorded EXCEPT ![e] = h]
  /\ UNCHANGED <<consumed, mined>>

Consume(e, h) ==
  /\ Recordable(e, h)
  /\ \E t \in mined : e \in Matches[t]
  /\ recorded' = [recorded EXCEPT ![e] = h]
  /\ consumed' = consumed \cup {e}
  /\ UNCHANGED mined

Next ==
  \/ \E t \in Transaction : Mine(t)
  \/ \E e \in Envelope, h \in Hash : Record(e, h) \/ Consume(e, h)

Spec == Init /\ [][Next]_vars
=============================================================================
