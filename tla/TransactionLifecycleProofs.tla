--------------------- MODULE TransactionLifecycleProofs ---------------------
(***************************************************************************)
(* Theorems of TransactionLifecycle, for any number of envelopes, hashes,  *)
(* concurrent requests and deployments, with their proofs.                 *)
(*                                                                         *)
(* No property of the index is inductive by itself, because a request acts *)
(* on what it loaded or read earlier.  The inductive invariant IInv says   *)
(* of every copy of a row, the stored one and those in flight, that its    *)
(* columns are justified by the chain (RowOK), and the chain never takes a *)
(* justification back (Grows).  Flush mixes the columns of three such rows *)
(* and so yields a fourth (FlushOK).                                       *)
(* A second invariant, Settled, adds that a justification is the only one. *)
(***************************************************************************)
EXTENDS TransactionLifecycle, SequenceTheorems, TLAPS

\* The columns of a row of envelope e are justified by the chain ch.
RowOK(ch, e, row) ==
  /\ row.tx_hash # NULL => e \in Matches[Lower[row.tx_hash]]
  /\ row.consensus_tx_id # NULL =>
       e \in Matches[row.consensus_tx_id] /\ ch[row.consensus_tx_id].logged
  /\ row.status = "confirmed" =>
       \E t \in Transaction : e \in Matches[t] /\ ch[t].evm = "success"
  /\ row.final => \E t \in Transaction : e \in Matches[t] /\ ch[t].consensus = "FINALIZED"

\* What the chain has settled stays settled.
Grows(ch, next) ==
  \A t \in Transaction :
    /\ ch[t].evm = "success" => next[t].evm = "success"
    /\ ch[t].logged => next[t].logged
    /\ ch[t].consensus = "FINALIZED" =>
         next[t].consensus = "FINALIZED" /\ next[t].execution = ch[t].execution

RowsOK ==
  \A e \in Envelope :
    /\ RowOK(chain, e, prepared[e])
    /\ prepared[e].status = "confirmed" => prepared[e].tx_hash # NULL
    /\ prepared[e].status = "absent" => prepared[e].tx_hash = NULL

\* A confirmation in flight: what it loaded, verified and read.
ConfirmOK(ch, rows, r) ==
  r.pc # "idle" =>
    /\ r.envelope \in Envelope /\ r.hash \in Hash
    /\ RowOK(ch, r.envelope, r.loaded)
    /\ rows[r.envelope].status # "absent"
    /\ r.loaded.tx_hash # NULL => rows[r.envelope].tx_hash # NULL
    /\ r.pc \in {"receipt", "storing"} => r.envelope \in Matches[Lower[r.hash]]
    /\ r.pc = "storing" =>
         /\ ch[Lower[r.hash]].evm = "success"
         /\ r.id # NULL => r.id = Lower[r.hash] /\ ch[r.id].logged

\* A poll in flight: the id it asks for and the answer it has.
PollOK(ch, r) ==
  r.pc # "idle" =>
    /\ r.envelope \in Envelope
    /\ RowOK(ch, r.envelope, r.loaded)
    /\ r.pc = "resolving" => r.loaded.tx_hash # NULL /\ r.loaded.consensus_tx_id = NULL
    /\ r.pc \in {"reading", "storing"} => r.loaded.consensus_tx_id # NULL
    /\ r.pc = "storing" /\ r.read.terminal =>
         r.read.status \in {"FINALIZED", "UNDETERMINED"}
    /\ r.pc = "storing" /\ r.read.status = "FINALIZED" =>
         /\ ch[r.loaded.consensus_tx_id].consensus = "FINALIZED"
         /\ r.read.execution = "RETURN" =>
              ch[r.loaded.consensus_tx_id].execution = "RETURN"

DeploymentOK(ch, row) ==
  /\ row.consensus_tx_id # NULL =>
       row.consensus_tx_id = Lower[row.deploy_tx_hash] /\ ch[row.consensus_tx_id].logged
  /\ row.exposed =>
       /\ ch[Lower[row.deploy_tx_hash]].consensus = "FINALIZED"
       /\ ch[Lower[row.deploy_tx_hash]].execution = "RETURN"

ConfirmsOK == \A c \in Confirm : ConfirmOK(chain, prepared, confirms[c])
PollsOK == \A p \in Poll : PollOK(chain, polls[p])
DeploymentsOK == \A i \in DOMAIN deployments : DeploymentOK(chain, deployments[i])

IInv ==
  /\ TypeOK
  /\ RowsOK
  /\ ConfirmsOK
  /\ PollsOK
  /\ DeploymentsOK
  /\ ConfirmedIsIndexed
  /\ OneEnvelopePerHash

-----------------------------------------------------------------------------
(* Rows.                                                                   *)

\* Every text names a transaction.
LEMMA Names ==
  /\ Transaction \subseteq Hash /\ NULL \notin Transaction /\ NULL \notin Hash
  /\ \A h \in Hash : Lower[h] \in Transaction
  /\ \A t \in Transaction : Lower[t] = t
  /\ \A t \in Transaction : Matches[t] \subseteq Envelope
BY LifecycleAssumption DEF Transaction

\* A flushed row has the columns' types.
LEMMA FlushType ==
  ASSUME NEW stored \in PreparedRow, NEW loaded \in PreparedRow, NEW new \in PreparedRow
  PROVE  Flush(stored, loaded, new) \in PreparedRow
BY DEF PreparedRow, Flush, Column

\* A flush of justified rows is justified: every column comes from one of them.
LEMMA FlushOK ==
  ASSUME NEW ch, NEW e, NEW stored, NEW loaded, NEW new,
         RowOK(ch, e, stored), RowOK(ch, e, new)
  PROVE  RowOK(ch, e, Flush(stored, loaded, new))
BY DEF RowOK, Flush, Column

\* A justified row stays justified as the chain grows.
LEMMA RowOKStable ==
  ASSUME NEW ch, NEW next, Grows(ch, next), NEW e, NEW row \in PreparedRow,
         RowOK(ch, e, row)
  PROVE  RowOK(next, e, row)
BY Names DEF RowOK, Grows, PreparedRow, MaybeHash, MaybeId

\* The row of a verified transaction.
LEMMA MarkBroadcastOK ==
  ASSUME NEW ch, NEW e, NEW row \in PreparedRow, RowOK(ch, e, row),
         NEW h \in Hash, e \in Matches[Lower[h]]
  PROVE  /\ MarkBroadcast(row, h) \in PreparedRow
         /\ RowOK(ch, e, MarkBroadcast(row, h))
         /\ MarkBroadcast(row, h).status = row.status
         /\ MarkBroadcast(row, h).tx_hash = h
BY DEF RowOK, MarkBroadcast, PreparedRow, MaybeHash

\* The row of a mined transaction whose GenLayer id is known or not.
LEMMA MarkConfirmedOK ==
  ASSUME NEW ch, NEW e, NEW row \in PreparedRow,
         NEW h \in Hash, e \in Matches[Lower[h]], ch[Lower[h]].evm = "success",
         NEW id \in MaybeId, id # NULL => id = Lower[h] /\ ch[id].logged
  PROVE  /\ MarkConfirmed(row, h, id) \in PreparedRow
         /\ RowOK(ch, e, MarkConfirmed(row, h, id))
         /\ MarkConfirmed(row, h, id).status = "confirmed"
         /\ MarkConfirmed(row, h, id).tx_hash = h
BY Names DEF RowOK, MarkConfirmed, PreparedRow, MaybeHash, MaybeId

\* The row of a poll's answer.
LEMMA PolledRowOK ==
  ASSUME NEW ch, NEW e, NEW row \in PreparedRow, RowOK(ch, e, row),
         NEW id \in Transaction, e \in Matches[id], ch[id].logged, NEW r \in Reading,
         r.status = "FINALIZED" => ch[id].consensus = "FINALIZED",
         r.terminal => r.status \in {"FINALIZED", "UNDETERMINED"}
  PROVE  /\ PolledRow(row, id, r) \in PreparedRow
         /\ RowOK(ch, e, PolledRow(row, id, r))
         /\ PolledRow(row, id, r).status = row.status
         /\ PolledRow(row, id, r).tx_hash = row.tx_hash
<1> DEFINE shown == PolledRow(row, id, r)
<1>1. shown \in PreparedRow
  <2>1. /\ shown = [row EXCEPT
             !.consensus_tx_id = shown.consensus_tx_id, !.evm_status = "SUCCESS",
             !.consensus_status = r.status, !.execution_status = r.execution,
             !.final = (r.status = "FINALIZED"), !.terminal = r.terminal,
             !.lifecycle_status = shown.lifecycle_status]
        /\ shown.consensus_tx_id \in MaybeId
    BY DEF PolledRow, PreparedRow, MaybeId
  <2>2. shown.lifecycle_status \in {"FINALIZED", "UNDETERMINED", "CONSENSUS_PENDING"}
    BY DEF PolledRow, PreparedRow, Reading
  <2>3. /\ (r.status = "FINALIZED") \in BOOLEAN /\ r.terminal \in BOOLEAN
        /\ r.status \in ConsensusStatus /\ r.execution \in ExecutionStatus
    BY DEF Reading
  <2> HIDE DEF shown
  <2> QED
    BY <2>1, <2>2, <2>3 DEF PreparedRow
<1>2. RowOK(ch, e, PolledRow(row, id, r))
  BY DEF RowOK, PolledRow, PreparedRow, MaybeId, Reading
<1> QED
  BY <1>1, <1>2 DEF PolledRow, PreparedRow

\* The deployment rows are indexed from 1.
LEMMA DeploymentAt ==
  ASSUME TypeOK
  PROVE  /\ DOMAIN deployments = 1..Len(deployments) /\ Len(deployments) \in Nat
         /\ \A i \in DOMAIN deployments : deployments[i] \in DeploymentRow
<1>1. deployments \in Seq(DeploymentRow)
  BY DEF TypeOK
<1> QED
  BY <1>1, LenProperties, ElementOfSeq

-----------------------------------------------------------------------------
(* Initial states.                                                         *)

LEMMA NewRowOK ==
  ASSUME NEW status \in {"absent", "prepared"}, NEW ch, NEW e
  PROVE  NewRow(status) \in PreparedRow /\ RowOK(ch, e, NewRow(status))
BY DEF NewRow, PreparedRow, MaybeHash, MaybeId, ConsensusStatus, ExecutionStatus, RowOK

LEMMA IdleTypes == IdleConfirm \in ConfirmRequest /\ IdlePoll \in PollRequest
<1>1. NewRow("absent") \in PreparedRow
  BY NewRowOK
<1>2. NoReading \in Reading
  BY DEF NoReading, Reading, ConsensusStatus, ExecutionStatus
<1> QED
  BY <1>1, <1>2 DEF IdleConfirm, IdlePoll, ConfirmRequest, PollRequest, MaybeHash, MaybeId

LEMMA InitOK == Init => IInv
<1> SUFFICES ASSUME Init PROVE IInv
  OBVIOUS
<1>1. TypeOK
  <2>1. [evm |-> "unsent", logged |-> FALSE, consensus |-> "PENDING",
         execution |-> "NOT_VOTED"] \in ChainRecord
    BY DEF ChainRecord, ConsensusStatus
  <2>2. prepared \in [Envelope -> PreparedRow]
    BY NewRowOK DEF Init
  <2>3. <<>> \in Seq(DeploymentRow)
    OBVIOUS
  <2> QED
    BY <2>1, <2>2, <2>3, IdleTypes DEF Init, TypeOK
<1>2. RowsOK
  BY NewRowOK DEF Init, RowsOK, NewRow
<1>3. ConfirmsOK /\ PollsOK
  BY DEF Init, ConfirmsOK, PollsOK, ConfirmOK, PollOK, IdleConfirm, IdlePoll
<1>4. DeploymentsOK
  <2>1. deployments = <<>>
    BY DEF Init
  <2>2. DOMAIN deployments = {}
    BY <2>1
  <2> QED
    BY <2>2 DEF DeploymentsOK
<1>5. \A e \in Envelope : prepared[e].status = "absent" /\ prepared[e].tx_hash = NULL
  BY DEF Init, NewRow
<1>6. ConfirmedIsIndexed /\ OneEnvelopePerHash
  BY <1>5, LifecycleAssumption DEF ConfirmedIsIndexed, OneEnvelopePerHash
<1> QED
  BY <1>1, <1>2, <1>3, <1>4, <1>6 DEF IInv

-----------------------------------------------------------------------------
(* The environment.                                                        *)

\* A step of the chain alone keeps the invariant when it only settles things.
LEMMA ChainStep ==
  ASSUME IInv, chain' \in [Transaction -> ChainRecord], Grows(chain, chain'),
         UNCHANGED <<prepared, deployments, overdue, confirms, polls>>
  PROVE  IInv'
<1> USE DEF IInv
<1>1. TypeOK'
  BY DEF TypeOK
<1>2. RowsOK'
  BY RowOKStable DEF RowsOK, TypeOK
<1>3. ConfirmsOK'
  <2> SUFFICES ASSUME NEW c \in Confirm PROVE ConfirmOK(chain', prepared, confirms[c])
    BY DEF ConfirmsOK
  <2>1. ConfirmOK(chain, prepared, confirms[c]) /\ confirms[c].loaded \in PreparedRow
    BY DEF ConfirmsOK, TypeOK, ConfirmRequest
  <2>2. confirms[c].pc # "idle" =>
          RowOK(chain', confirms[c].envelope, confirms[c].loaded)
    BY <2>1, RowOKStable DEF ConfirmOK
  <2> QED
    BY <2>1, <2>2, Names DEF ConfirmOK, Grows
<1>4. PollsOK'
  <2> SUFFICES ASSUME NEW p \in Poll PROVE PollOK(chain', polls[p])
    BY DEF PollsOK
  <2>1. PollOK(chain, polls[p]) /\ polls[p].loaded \in PreparedRow
    BY DEF PollsOK, TypeOK, PollRequest
  <2>2. polls[p].pc # "idle" => RowOK(chain', polls[p].envelope, polls[p].loaded)
    BY <2>1, RowOKStable DEF PollOK
  <2>3. polls[p].loaded.consensus_tx_id \in MaybeId
    BY <2>1 DEF PreparedRow
  <2> QED
    BY <2>1, <2>2, <2>3 DEF PollOK, Grows, MaybeId
<1>5. DeploymentsOK'
  <2> SUFFICES ASSUME NEW i \in DOMAIN deployments
               PROVE  DeploymentOK(chain', deployments[i])
    BY DEF DeploymentsOK
  <2>1. deployments[i].deploy_tx_hash \in Hash
    BY DeploymentAt DEF DeploymentRow
  <2>2. DeploymentOK(chain, deployments[i])
    BY DEF DeploymentsOK
  <2> QED
    BY <2>1, <2>2, Names DEF DeploymentOK, Grows
<1>6. ConfirmedIsIndexed' /\ OneEnvelopePerHash'
  BY DEF ConfirmedIsIndexed, OneEnvelopePerHash
<1> QED
  BY <1>1, <1>2, <1>3, <1>4, <1>5, <1>6

LEMMA BroadcastKeeps ==
  ASSUME IInv, NEW t \in Transaction, Broadcast(t)
  PROVE  IInv'
<1>1. chain' \in [Transaction -> ChainRecord] /\ Grows(chain, chain')
  BY DEF IInv, TypeOK, Broadcast, ChainRecord, Grows
<1> QED
  BY <1>1, ChainStep DEF Broadcast

LEMMA MineKeeps ==
  ASSUME IInv, NEW t \in Transaction, NEW outcome \in {"success", "reverted"}, Mine(t, outcome)
  PROVE  IInv'
<1>1. chain' \in [Transaction -> ChainRecord] /\ Grows(chain, chain')
  BY DEF IInv, TypeOK, Mine, ChainRecord, Grows
<1> QED
  BY <1>1, ChainStep DEF Mine

LEMMA LogAppearsKeeps ==
  ASSUME IInv, NEW t \in Transaction, LogAppears(t)
  PROVE  IInv'
<1>1. chain' \in [Transaction -> ChainRecord] /\ Grows(chain, chain')
  BY DEF IInv, TypeOK, LogAppears, ChainRecord, Grows
<1> QED
  BY <1>1, ChainStep DEF LogAppears

LEMMA ConsensusKeeps ==
  ASSUME IInv, NEW t \in Transaction, NEW status \in ConsensusStatus,
         NEW outcome \in {"NOT_VOTED", "RETURN", "ERROR"}, Consensus(t, status, outcome)
  PROVE  IInv'
<1>1. chain' \in [Transaction -> ChainRecord] /\ Grows(chain, chain')
  BY DEF IInv, TypeOK, Consensus, ChainRecord, Grows
<1> QED
  BY <1>1, ChainStep DEF Consensus

LEMMA LapseKeeps ==
  ASSUME IInv, NEW e \in Envelope, Lapse(e)
  PROVE  IInv'
BY DEF IInv, TypeOK, Lapse, RowsOK, ConfirmsOK, PollsOK, DeploymentsOK,
       ConfirmedIsIndexed, OneEnvelopePerHash

-----------------------------------------------------------------------------
(* The backend: one row, one request, the deployments.                     *)

\* Storing a justified row for e keeps all that is said of rows alone, when it
\* does not forget a hash and does not take another envelope's.
LEMMA RowWritten ==
  ASSUME IInv, NEW e \in Envelope, NEW row \in PreparedRow, RowOK(chain, e, row),
         row.status = "confirmed" => row.tx_hash # NULL,
         row.status = "absent" => row.tx_hash = NULL /\ prepared[e].status = "absent",
         prepared[e].tx_hash # NULL => row.tx_hash # NULL,
         row.tx_hash = prepared[e].tx_hash \/ Unique(e, row),
         prepared' = [prepared EXCEPT ![e] = row], chain' = chain
  PROVE  /\ prepared' \in [Envelope -> PreparedRow]
         /\ RowsOK'
         /\ \A r : ConfirmOK(chain, prepared, r) => ConfirmOK(chain', prepared', r)
         /\ OneEnvelopePerHash'
<1>0. prepared \in [Envelope -> PreparedRow]
  BY DEF IInv, TypeOK
<1>1. prepared' \in [Envelope -> PreparedRow]
  BY <1>0
<1>2. RowsOK'
  BY <1>0 DEF IInv, RowsOK
<1>3. ASSUME NEW r, ConfirmOK(chain, prepared, r) PROVE ConfirmOK(chain', prepared', r)
  BY <1>0, <1>3 DEF ConfirmOK
<1>4. OneEnvelopePerHash'
  <2>1. CASE row.tx_hash = prepared[e].tx_hash
    <3>1. \A f \in Envelope : prepared'[f].tx_hash = prepared[f].tx_hash
      BY <1>0, <2>1
    <3> QED
      BY <3>1 DEF IInv, OneEnvelopePerHash
  <2>2. CASE Unique(e, row)
    BY <1>0, <2>2 DEF IInv, OneEnvelopePerHash, Unique
  <2> QED
    BY <2>1, <2>2
<1> QED
  BY <1>1, <1>2, <1>3, <1>4

\* One request moves.
LEMMA ConfirmMoves ==
  ASSUME IInv, NEW c \in Confirm, NEW r \in ConfirmRequest,
         \A s : ConfirmOK(chain, prepared, s) => ConfirmOK(chain', prepared', s),
         ConfirmOK(chain', prepared', r), confirms' = [confirms EXCEPT ![c] = r]
  PROVE  confirms' \in [Confirm -> ConfirmRequest] /\ ConfirmsOK'
BY DEF IInv, TypeOK, ConfirmsOK

LEMMA PollMoves ==
  ASSUME IInv, NEW p \in Poll, NEW r \in PollRequest, PollOK(chain, r),
         chain' = chain, polls' = [polls EXCEPT ![p] = r]
  PROVE  polls' \in [Poll -> PollRequest] /\ PollsOK'
BY DEF IInv, TypeOK, PollsOK

LEMMA IdleOK ==
  /\ \A ch, rows : ConfirmOK(ch, rows, IdleConfirm)
  /\ \A ch : PollOK(ch, IdlePoll)
BY DEF ConfirmOK, PollOK, IdleConfirm, IdlePoll

\* Without a newly confirmed deployment the index stays complete.
LEMMA IndexKept ==
  ASSUME IInv, deployments' = deployments,
         \A e \in Deploy : prepared'[e].status = "confirmed" => prepared[e].status = "confirmed"
  PROVE  ConfirmedIsIndexed'
BY DEF IInv, ConfirmedIsIndexed

LEMMA PrepareKeeps ==
  ASSUME IInv, NEW e \in Envelope, Prepare(e)
  PROVE  IInv'
<1> DEFINE row == NewRow("prepared")
<1>1. row \in PreparedRow /\ RowOK(chain, e, row) /\ row.status = "prepared"
  BY NewRowOK DEF NewRow
<1>2. prepared \in [Envelope -> PreparedRow] /\ prepared' = [prepared EXCEPT ![e] = row]
  BY DEF Prepare, IInv, TypeOK
<1>3. row.tx_hash = NULL /\ prepared[e].tx_hash = NULL
  BY DEF Prepare, IInv, RowsOK, NewRow
<1> HIDE DEF row
<1>4. /\ prepared' \in [Envelope -> PreparedRow] /\ RowsOK' /\ OneEnvelopePerHash'
      /\ \A r : ConfirmOK(chain, prepared, r) => ConfirmOK(chain', prepared', r)
  BY <1>1, <1>2, <1>3, RowWritten DEF Prepare
<1>5. ConfirmedIsIndexed'
  BY <1>1, <1>2, IndexKept DEF Prepare
<1> QED
  BY <1>4, <1>5 DEF Prepare, IInv, TypeOK, ConfirmsOK, PollsOK, DeploymentsOK

LEMMA ExpireKeeps ==
  ASSUME IInv, NEW e \in Envelope, Expire(e)
  PROVE  IInv'
<1> DEFINE row == [prepared[e] EXCEPT !.status = "expired"]
<1>1. /\ prepared \in [Envelope -> PreparedRow] /\ prepared[e] \in PreparedRow
      /\ prepared' = [prepared EXCEPT ![e] = row]
  BY DEF Expire, IInv, TypeOK
<1>2. /\ row \in PreparedRow /\ RowOK(chain, e, row) /\ row.status = "expired"
      /\ row.tx_hash = prepared[e].tx_hash
  BY <1>1 DEF IInv, RowsOK, RowOK, PreparedRow
<1> HIDE DEF row
<1>4. /\ prepared' \in [Envelope -> PreparedRow] /\ RowsOK' /\ OneEnvelopePerHash'
      /\ \A r : ConfirmOK(chain, prepared, r) => ConfirmOK(chain', prepared', r)
  BY <1>1, <1>2, RowWritten DEF Expire
<1>5. ConfirmedIsIndexed'
  BY <1>1, <1>2, IndexKept DEF Expire
<1> QED
  BY <1>4, <1>5 DEF Expire, IInv, TypeOK, ConfirmsOK, PollsOK, DeploymentsOK

LEMMA ConfirmLoadKeeps ==
  ASSUME IInv, NEW c \in Confirm, NEW e \in Envelope, NEW h \in Hash, ConfirmLoad(c, e, h)
  PROVE  IInv'
<1> DEFINE r == [pc |-> "verifying", envelope |-> e, hash |-> h, id |-> NULL,
                 loaded |-> prepared[e]]
<1>1. r \in ConfirmRequest
  BY DEF IInv, TypeOK, ConfirmRequest, MaybeHash, MaybeId
<1>2. ConfirmOK(chain, prepared, r)
  BY DEF IInv, RowsOK, ConfirmOK, ConfirmLoad, Loadable
<1>3. confirms' = [confirms EXCEPT ![c] = r]
  BY DEF ConfirmLoad
<1> HIDE DEF r
<1>4. confirms' \in [Confirm -> ConfirmRequest] /\ ConfirmsOK'
  BY <1>1, <1>2, <1>3, ConfirmMoves DEF ConfirmLoad
<1> QED
  BY <1>4 DEF ConfirmLoad, IInv, TypeOK, RowsOK, PollsOK, DeploymentsOK,
              ConfirmedIsIndexed, OneEnvelopePerHash

LEMMA ConfirmFailKeeps ==
  ASSUME IInv, NEW c \in Confirm, ConfirmFail(c)
  PROVE  IInv'
<1>1. confirms' \in [Confirm -> ConfirmRequest] /\ ConfirmsOK'
  BY IdleTypes, IdleOK, ConfirmMoves DEF ConfirmFail
<1> QED
  BY <1>1 DEF ConfirmFail, IInv, TypeOK, RowsOK, PollsOK, DeploymentsOK,
              ConfirmedIsIndexed, OneEnvelopePerHash

\* A request in flight, taken apart.
LEMMA BusyConfirm ==
  ASSUME IInv, NEW c \in Confirm, confirms[c].pc # "idle"
  PROVE  /\ confirms[c] \in ConfirmRequest /\ ConfirmOK(chain, prepared, confirms[c])
         /\ confirms[c].envelope \in Envelope /\ confirms[c].hash \in Hash
         /\ confirms[c].loaded \in PreparedRow
         /\ prepared[confirms[c].envelope] \in PreparedRow
         /\ RowOK(chain, confirms[c].envelope, prepared[confirms[c].envelope])
         /\ NULL \notin Hash
<1>1. confirms[c] \in ConfirmRequest /\ ConfirmOK(chain, prepared, confirms[c])
  BY DEF IInv, TypeOK, ConfirmsOK
<1> QED
  BY <1>1, LifecycleAssumption DEF IInv, TypeOK, RowsOK, ConfirmOK, ConfirmRequest

LEMMA ConfirmVerifiedKeeps ==
  ASSUME IInv, NEW c \in Confirm, ConfirmVerified(c)
  PROVE  IInv'
<1> DEFINE e == confirms[c].envelope
           h == confirms[c].hash
           loaded == confirms[c].loaded
           new == MarkBroadcast(loaded, h)
           row == Flush(prepared[e], loaded, new)
           r == [confirms[c] EXCEPT !.pc = "receipt", !.loaded = row]
<1>1. /\ confirms[c].pc = "verifying" /\ e \in Matches[Lower[h]] /\ Unique(e, row)
      /\ prepared' = [prepared EXCEPT ![e] = row]
      /\ confirms' = [confirms EXCEPT ![c].pc = "receipt", ![c].loaded = row]
      /\ UNCHANGED <<deployments, overdue, chain, polls>>
  BY DEF ConfirmVerified, Verified
<1>2. /\ confirms[c] \in ConfirmRequest /\ ConfirmOK(chain, prepared, confirms[c])
      /\ e \in Envelope /\ h \in Hash /\ h # NULL /\ loaded \in PreparedRow
      /\ prepared[e] \in PreparedRow /\ RowOK(chain, e, prepared[e])
  BY <1>1, BusyConfirm
<1>3. RowOK(chain, e, loaded) /\ (loaded.tx_hash # NULL => prepared[e].tx_hash # NULL)
  BY <1>1, <1>2 DEF ConfirmOK
<1>4. /\ new \in PreparedRow /\ RowOK(chain, e, new)
      /\ new.status = loaded.status /\ new.tx_hash = h
  BY <1>1, <1>2, <1>3, MarkBroadcastOK
<1> HIDE DEF new
<1>5. row \in PreparedRow /\ RowOK(chain, e, row)
  BY <1>2, <1>4, FlushType, FlushOK
<1>6. row.status = prepared[e].status /\ row.tx_hash \in {h, prepared[e].tx_hash}
  BY <1>4 DEF Flush, Column
<1>7. row.tx_hash # NULL
  BY <1>2, <1>3, <1>4, <1>6 DEF Flush, Column
<1> HIDE DEF row
<1>8. prepared[e].status # "absent"
  BY <1>1, <1>2 DEF ConfirmOK
<1>9. /\ prepared' \in [Envelope -> PreparedRow] /\ RowsOK' /\ OneEnvelopePerHash'
      /\ \A s : ConfirmOK(chain, prepared, s) => ConfirmOK(chain', prepared', s)
  BY <1>1, <1>2, <1>5, <1>6, <1>7, <1>8, RowWritten
<1>10. prepared'[e] = row
  BY <1>1, <1>2 DEF IInv, TypeOK
<1>11. r \in ConfirmRequest /\ ConfirmOK(chain', prepared', r)
  BY <1>1, <1>2, <1>5, <1>6, <1>7, <1>8, <1>10 DEF ConfirmRequest, ConfirmOK
<1>12. confirms' = [confirms EXCEPT ![c] = r]
  BY <1>1 DEF IInv, TypeOK
<1> HIDE DEF r
<1>13. confirms' \in [Confirm -> ConfirmRequest] /\ ConfirmsOK'
  BY <1>9, <1>11, <1>12, ConfirmMoves
<1>14. ConfirmedIsIndexed'
  BY <1>1, <1>2, <1>6, IndexKept DEF IInv, TypeOK
<1> QED
  BY <1>1, <1>9, <1>13, <1>14 DEF IInv, TypeOK, PollsOK, DeploymentsOK

LEMMA ConfirmTransferKeeps ==
  ASSUME IInv, NEW c \in Confirm, ConfirmTransfer(c)
  PROVE  IInv'
<1> DEFINE e == confirms[c].envelope
           h == confirms[c].hash
           loaded == confirms[c].loaded
           new == MarkConfirmed(loaded, h, NULL)
           row == Flush(prepared[e], loaded, new)
<1>1. /\ confirms[c].pc = "receipt" /\ e \notin Deploy
      /\ chain[Lower[h]].evm = "success" /\ Unique(e, row)
      /\ prepared' = [prepared EXCEPT ![e] = row]
      /\ confirms' = [confirms EXCEPT ![c] = IdleConfirm]
      /\ UNCHANGED <<deployments, overdue, chain, polls>>
  BY DEF ConfirmTransfer, ReceiptSucceeded
<1>2. /\ ConfirmOK(chain, prepared, confirms[c])
      /\ e \in Envelope /\ h \in Hash /\ h # NULL /\ loaded \in PreparedRow
      /\ prepared[e] \in PreparedRow /\ RowOK(chain, e, prepared[e])
  BY <1>1, BusyConfirm
<1>3. /\ e \in Matches[Lower[h]] /\ prepared[e].status # "absent"
      /\ loaded.tx_hash # NULL => prepared[e].tx_hash # NULL
  BY <1>1, <1>2 DEF ConfirmOK
<1>4. /\ new \in PreparedRow /\ RowOK(chain, e, new)
      /\ new.status = "confirmed" /\ new.tx_hash = h
  <2>1. NULL \in MaybeId
    BY DEF MaybeId
  <2> HIDE DEF e, h, loaded
  <2> QED
    BY <2>1, <1>1, <1>2, <1>3, MarkConfirmedOK
<1> HIDE DEF new
<1>5. row \in PreparedRow /\ RowOK(chain, e, row)
  BY <1>2, <1>4, FlushType, FlushOK
<1>6. row.tx_hash # NULL /\ row.status # "absent"
  BY <1>2, <1>3, <1>4 DEF Flush, Column
<1> HIDE DEF row
<1>7. /\ prepared' \in [Envelope -> PreparedRow] /\ RowsOK' /\ OneEnvelopePerHash'
      /\ \A s : ConfirmOK(chain, prepared, s) => ConfirmOK(chain', prepared', s)
  BY <1>1, <1>2, <1>5, <1>6, RowWritten
<1>8. confirms' \in [Confirm -> ConfirmRequest] /\ ConfirmsOK'
  BY <1>1, <1>7, IdleTypes, IdleOK, ConfirmMoves
<1>9. ConfirmedIsIndexed'
  BY <1>1, <1>2, IndexKept, LifecycleAssumption DEF IInv, TypeOK
<1> QED
  BY <1>1, <1>7, <1>8, <1>9 DEF IInv, TypeOK, PollsOK, DeploymentsOK

LEMMA ConfirmReceiptKeeps ==
  ASSUME IInv, NEW c \in Confirm, ConfirmReceipt(c)
  PROVE  IInv'
<1> DEFINE h == confirms[c].hash
           r == [confirms[c] EXCEPT !.pc = "storing", !.id = ResolvedId(h)]
<1>1. /\ confirms[c].pc = "receipt" /\ chain[Lower[h]].evm = "success"
      /\ confirms' = [confirms EXCEPT ![c].pc = "storing", ![c].id = ResolvedId(h)]
      /\ UNCHANGED <<prepared, deployments, overdue, chain, polls>>
  BY DEF ConfirmReceipt, ReceiptSucceeded
<1>2. /\ confirms[c] \in ConfirmRequest /\ ConfirmOK(chain, prepared, confirms[c])
      /\ h \in Hash
  BY <1>1, BusyConfirm
<1>3. r \in ConfirmRequest
  BY <1>2, Names DEF ConfirmRequest, ResolvedId, MaybeId
<1>4. ConfirmOK(chain, prepared, r)
  BY <1>1, <1>2 DEF ConfirmOK, ConfirmRequest, ResolvedId
<1>5. confirms' = [confirms EXCEPT ![c] = r]
  BY <1>1 DEF IInv, TypeOK
<1> HIDE DEF r
<1>6. confirms' \in [Confirm -> ConfirmRequest] /\ ConfirmsOK'
  BY <1>1, <1>3, <1>4, <1>5, ConfirmMoves
<1> QED
  BY <1>1, <1>6 DEF IInv, TypeOK, RowsOK, PollsOK, DeploymentsOK,
                    ConfirmedIsIndexed, OneEnvelopePerHash

\* A deployment row of a mined transaction is added.
LEMMA DeploymentAdded ==
  ASSUME IInv, NEW h \in Hash, NEW id \in MaybeId, id # NULL => id = Lower[h] /\ chain[id].logged,
         deployments' = Append(deployments, NewDeployment(h, id)), chain' = chain
  PROVE  /\ deployments' \in Seq(DeploymentRow) /\ DeploymentsOK'
         /\ \E i \in DOMAIN deployments' : deployments'[i].deploy_tx_hash = h
         /\ \A i \in DOMAIN deployments :
              i \in DOMAIN deployments' /\ deployments'[i] = deployments[i]
<1> DEFINE row == NewDeployment(h, id)
           n == Len(deployments)
<1>1. row \in DeploymentRow /\ DeploymentOK(chain, row) /\ row.deploy_tx_hash = h
  BY DEF NewDeployment, DeploymentRow, DeploymentOK, ConsensusStatus, ExecutionStatus,
         MaybeId
<1>2. deployments \in Seq(DeploymentRow) /\ n \in Nat /\ DOMAIN deployments = 1..n
  BY DeploymentAt DEF IInv, TypeOK
<1>3. deployments' = Append(deployments, row)
  OBVIOUS
<1> HIDE DEF row
<1>4. /\ deployments' \in Seq(DeploymentRow) /\ DOMAIN deployments' = 1..(n + 1)
      /\ \A i \in 1..n : deployments'[i] = deployments[i]
      /\ deployments'[n + 1] = row
  BY <1>1, <1>2, <1>3, AppendProperties, LenProperties
<1>5. DeploymentsOK'
  BY <1>1, <1>2, <1>4 DEF IInv, DeploymentsOK
<1> QED
  BY <1>1, <1>2, <1>4, <1>5

LEMMA ConfirmDeployKeeps ==
  ASSUME IInv, NEW c \in Confirm, ConfirmDeploy(c)
  PROVE  IInv'
<1> DEFINE e == confirms[c].envelope
           h == confirms[c].hash
           id == confirms[c].id
           row == MarkConfirmed(prepared[e], h, id)
<1>1. /\ confirms[c].pc = "storing" /\ Unique(e, row)
      /\ deployments' = Append(deployments, NewDeployment(h, id))
      /\ prepared' = [prepared EXCEPT ![e] = row]
      /\ confirms' = [confirms EXCEPT ![c] = IdleConfirm]
      /\ UNCHANGED <<overdue, chain, polls>>
  BY DEF ConfirmDeploy
<1>2. /\ confirms[c] \in ConfirmRequest /\ ConfirmOK(chain, prepared, confirms[c])
      /\ e \in Envelope /\ h \in Hash /\ h # NULL /\ prepared[e] \in PreparedRow
  BY <1>1, BusyConfirm
<1>3. /\ e \in Matches[Lower[h]] /\ chain[Lower[h]].evm = "success" /\ id \in MaybeId
      /\ id # NULL => id = Lower[h] /\ chain[id].logged
  BY <1>1, <1>2 DEF ConfirmOK, ConfirmRequest
<1> HIDE DEF e, h, id
<1>4. /\ row \in PreparedRow /\ RowOK(chain, e, row)
      /\ row.status = "confirmed" /\ row.tx_hash = h
  BY <1>2, <1>3, MarkConfirmedOK
<1> HIDE DEF row
<1>5. /\ prepared' \in [Envelope -> PreparedRow] /\ RowsOK' /\ OneEnvelopePerHash'
      /\ \A s : ConfirmOK(chain, prepared, s) => ConfirmOK(chain', prepared', s)
  BY <1>1, <1>2, <1>4, RowWritten
<1>6. confirms' \in [Confirm -> ConfirmRequest] /\ ConfirmsOK'
  BY <1>1, <1>5, IdleTypes, IdleOK, ConfirmMoves
<1>7. /\ deployments' \in Seq(DeploymentRow) /\ DeploymentsOK'
      /\ \E i \in DOMAIN deployments' : deployments'[i].deploy_tx_hash = h
      /\ \A i \in DOMAIN deployments :
           i \in DOMAIN deployments' /\ deployments'[i] = deployments[i]
  BY <1>1, <1>2, <1>3, DeploymentAdded
<1>8. ConfirmedIsIndexed'
  <2> SUFFICES ASSUME NEW f \in Deploy, prepared'[f].status = "confirmed"
               PROVE  \E i \in DOMAIN deployments' :
                        f \in Matches[Lower[deployments'[i].deploy_tx_hash]]
    BY DEF ConfirmedIsIndexed
  <2>1. CASE f = e
    BY <1>3, <1>7, <2>1
  <2>2. CASE f # e
    <3>1. prepared[f].status = "confirmed"
      BY <1>1, <2>2, LifecycleAssumption DEF IInv, TypeOK
    <3> QED
      BY <1>7, <3>1 DEF IInv, ConfirmedIsIndexed
  <2> QED
    BY <2>1, <2>2
<1> QED
  BY <1>1, <1>5, <1>6, <1>7, <1>8 DEF IInv, TypeOK, PollsOK

LEMMA ConfirmDeployCutKeeps ==
  ASSUME IInv, NEW c \in Confirm, ConfirmDeployCut(c)
  PROVE  IInv'
<1> DEFINE h == confirms[c].hash
           id == confirms[c].id
<1>1. /\ confirms[c].pc = "storing"
      /\ deployments' = Append(deployments, NewDeployment(h, id))
      /\ confirms' = [confirms EXCEPT ![c] = IdleConfirm]
      /\ UNCHANGED <<prepared, overdue, chain, polls>>
  BY DEF ConfirmDeployCut
<1>2. /\ confirms[c] \in ConfirmRequest /\ ConfirmOK(chain, prepared, confirms[c])
      /\ h \in Hash
  BY <1>1, BusyConfirm
<1>3. id \in MaybeId /\ (id # NULL => id = Lower[h] /\ chain[id].logged)
  BY <1>1, <1>2 DEF ConfirmOK, ConfirmRequest
<1> HIDE DEF h, id
<1>4. /\ deployments' \in Seq(DeploymentRow) /\ DeploymentsOK'
      /\ \A i \in DOMAIN deployments :
           i \in DOMAIN deployments' /\ deployments'[i] = deployments[i]
  BY <1>1, <1>2, <1>3, DeploymentAdded
<1>5. confirms' \in [Confirm -> ConfirmRequest] /\ ConfirmsOK'
  BY <1>1, IdleTypes, IdleOK, ConfirmMoves
<1>6. ConfirmedIsIndexed'
  BY <1>1, <1>4 DEF IInv, ConfirmedIsIndexed
<1> QED
  BY <1>1, <1>4, <1>5, <1>6 DEF IInv, TypeOK, RowsOK, PollsOK, OneEnvelopePerHash

LEMMA PollLoadKeeps ==
  ASSUME IInv, NEW p \in Poll, NEW e \in Envelope, PollLoad(p, e)
  PROVE  IInv'
<1> DEFINE r == [pc |-> IF prepared[e].consensus_tx_id = NULL THEN "resolving" ELSE "reading",
                 envelope |-> e, loaded |-> prepared[e], read |-> NoReading]
<1>1. NoReading \in Reading /\ prepared[e] \in PreparedRow
  BY DEF IInv, TypeOK, NoReading, Reading, ConsensusStatus, ExecutionStatus
<1>2. r \in PollRequest
  BY <1>1 DEF PollRequest
<1>3. PollOK(chain, r)
  BY DEF PollLoad, PollOK, IInv, RowsOK
<1>4. polls' = [polls EXCEPT ![p] = r]
  BY DEF PollLoad
<1> HIDE DEF r
<1>5. polls' \in [Poll -> PollRequest] /\ PollsOK'
  BY <1>2, <1>3, <1>4, PollMoves DEF PollLoad
<1> QED
  BY <1>5 DEF PollLoad, IInv, TypeOK, RowsOK, ConfirmsOK, DeploymentsOK,
              ConfirmedIsIndexed, OneEnvelopePerHash

LEMMA PollFailKeeps ==
  ASSUME IInv, NEW p \in Poll, PollFail(p)
  PROVE  IInv'
<1>1. polls' \in [Poll -> PollRequest] /\ PollsOK'
  BY IdleTypes, IdleOK, PollMoves DEF PollFail
<1> QED
  BY <1>1 DEF PollFail, IInv, TypeOK, RowsOK, ConfirmsOK, DeploymentsOK,
              ConfirmedIsIndexed, OneEnvelopePerHash

\* A poll in flight, taken apart.
LEMMA BusyPoll ==
  ASSUME IInv, NEW p \in Poll, polls[p].pc # "idle"
  PROVE  /\ polls[p] \in PollRequest /\ PollOK(chain, polls[p])
         /\ polls[p].envelope \in Envelope /\ polls[p].loaded \in PreparedRow
         /\ prepared[polls[p].envelope] \in PreparedRow
         /\ RowOK(chain, polls[p].envelope, polls[p].loaded)
         /\ RowOK(chain, polls[p].envelope, prepared[polls[p].envelope])
         /\ NULL \notin Hash
<1>1. polls[p] \in PollRequest /\ PollOK(chain, polls[p])
  BY DEF IInv, TypeOK, PollsOK
<1> QED
  BY <1>1, LifecycleAssumption DEF IInv, TypeOK, RowsOK, PollOK, PollRequest

LEMMA PollResolveKeeps ==
  ASSUME IInv, NEW p \in Poll, PollResolve(p)
  PROVE  IInv'
<1> DEFINE e == polls[p].envelope
           loaded == polls[p].loaded
           id == ResolvedId(loaded.tx_hash)
           new == [loaded EXCEPT !.consensus_tx_id = id]
           row == Flush(prepared[e], loaded, new)
           r == [polls[p] EXCEPT !.pc = "reading", !.loaded = row]
<1>1. /\ polls[p].pc = "resolving" /\ id # NULL
      /\ prepared' = [prepared EXCEPT ![e] = row]
      /\ polls' = [polls EXCEPT ![p].pc = "reading", ![p].loaded = row]
      /\ UNCHANGED <<deployments, overdue, chain, confirms>>
  BY DEF PollResolve
<1>2. /\ polls[p] \in PollRequest /\ PollOK(chain, polls[p])
      /\ e \in Envelope /\ loaded \in PreparedRow /\ prepared[e] \in PreparedRow
      /\ RowOK(chain, e, loaded) /\ RowOK(chain, e, prepared[e])
  BY <1>1, BusyPoll
<1>3. loaded.tx_hash # NULL /\ loaded.consensus_tx_id = NULL
  BY <1>1, <1>2 DEF PollOK
<1>a. id \in Transaction /\ id = Lower[loaded.tx_hash] /\ chain[id].logged
  BY <1>1, <1>2, <1>3, Names DEF ResolvedId, PreparedRow, MaybeHash
<1> HIDE DEF id
<1>4. /\ new \in PreparedRow /\ RowOK(chain, e, new)
      /\ new.consensus_tx_id = id
      /\ new.status = loaded.status /\ new.tx_hash = loaded.tx_hash
  BY <1>1, <1>2, <1>3, <1>a DEF PreparedRow, RowOK, MaybeId
<1> HIDE DEF new
<1>5. row \in PreparedRow /\ RowOK(chain, e, row)
  BY <1>2, <1>4, FlushType, FlushOK
<1>6. /\ row.status = prepared[e].status /\ row.tx_hash = prepared[e].tx_hash
      /\ row.consensus_tx_id # NULL
  BY <1>1, <1>3, <1>4 DEF Flush, Column
<1> HIDE DEF row
<1>7. /\ row.status = "confirmed" => row.tx_hash # NULL
      /\ row.status = "absent" => row.tx_hash = NULL
  BY <1>2, <1>6 DEF IInv, RowsOK
<1>8. /\ prepared' \in [Envelope -> PreparedRow] /\ RowsOK' /\ OneEnvelopePerHash'
      /\ \A s : ConfirmOK(chain, prepared, s) => ConfirmOK(chain', prepared', s)
  BY <1>1, <1>2, <1>5, <1>6, <1>7, RowWritten
<1>9. r \in PollRequest /\ PollOK(chain, r)
  BY <1>2, <1>5, <1>6 DEF PollRequest, PollOK
<1>10. polls' = [polls EXCEPT ![p] = r]
  BY <1>1 DEF IInv, TypeOK
<1> HIDE DEF r
<1>11. polls' \in [Poll -> PollRequest] /\ PollsOK'
  BY <1>1, <1>9, <1>10, PollMoves
<1>12. ConfirmedIsIndexed'
  BY <1>1, <1>2, <1>6, IndexKept DEF IInv, TypeOK
<1> QED
  BY <1>1, <1>8, <1>11, <1>12 DEF IInv, TypeOK, ConfirmsOK, DeploymentsOK

LEMMA PollReadKeeps ==
  ASSUME IInv, NEW p \in Poll, NEW r \in Reading, PollRead(p, r)
  PROVE  IInv'
<1> DEFINE s == [polls[p] EXCEPT !.pc = "storing", !.read = r]
           id == polls[p].loaded.consensus_tx_id
<1>1. /\ polls[p].pc = "reading" /\ r \in Readings(id)
      /\ polls' = [polls EXCEPT ![p].pc = "storing", ![p].read = r]
      /\ UNCHANGED <<prepared, deployments, overdue, chain, confirms>>
  BY DEF PollRead
<1>2. polls[p] \in PollRequest /\ PollOK(chain, polls[p])
  BY <1>1, BusyPoll
<1>3. s \in PollRequest
  BY <1>2 DEF PollRequest
<1>4. /\ r.terminal => r.status \in {"FINALIZED", "UNDETERMINED"}
      /\ r.status = "FINALIZED" => chain[id].consensus = "FINALIZED"
      /\ r.status = "FINALIZED" /\ r.execution = "RETURN" => chain[id].execution = "RETURN"
  BY <1>1 DEF Readings
<1>5. PollOK(chain, s)
  BY <1>1, <1>2, <1>4 DEF PollOK, PollRequest
<1>6. polls' = [polls EXCEPT ![p] = s]
  BY <1>1 DEF IInv, TypeOK
<1> HIDE DEF s
<1>7. polls' \in [Poll -> PollRequest] /\ PollsOK'
  BY <1>1, <1>3, <1>5, <1>6, PollMoves
<1> QED
  BY <1>1, <1>7 DEF IInv, TypeOK, RowsOK, ConfirmsOK, DeploymentsOK,
                    ConfirmedIsIndexed, OneEnvelopePerHash

\* The answer of a poll, stored in the deployment row of its transaction.
LEMMA PolledDeploymentOK ==
  ASSUME NEW row \in DeploymentRow, DeploymentOK(chain, row), NEW r \in Reading,
         NEW found \in BOOLEAN,
         r.status = "FINALIZED" /\ r.execution = "RETURN" =>
           /\ chain[Lower[row.deploy_tx_hash]].consensus = "FINALIZED"
           /\ chain[Lower[row.deploy_tx_hash]].execution = "RETURN"
  PROVE  /\ PolledDeployment(row, r, found) \in DeploymentRow
         /\ DeploymentOK(chain, PolledDeployment(row, r, found))
         /\ PolledDeployment(row, r, found).deploy_tx_hash = row.deploy_tx_hash
<1> DEFINE shown == PolledDeployment(row, r, found)
<1>1. /\ shown = [row EXCEPT
           !.consensus_status = r.status, !.execution_status = r.execution,
           !.final = (r.status = "FINALIZED"),
           !.terminal = (r.status \in {"FINALIZED", "UNDETERMINED"}),
           !.exposed = shown.exposed]
      /\ shown.exposed =
           CASE r.status = "FINALIZED" -> r.execution = "RETURN" /\ (found \/ row.exposed)
             [] r.status = "UNDETERMINED" -> FALSE
             [] OTHER -> row.exposed
  BY DEF PolledDeployment, DeploymentRow
<1> HIDE DEF shown
<1>2. shown.exposed \in BOOLEAN
  BY <1>1 DEF DeploymentRow
<1>3. /\ (r.status = "FINALIZED") \in BOOLEAN
      /\ (r.status \in {"FINALIZED", "UNDETERMINED"}) \in BOOLEAN
  OBVIOUS
<1>4. shown \in DeploymentRow
  BY <1>1, <1>2, <1>3 DEF DeploymentRow, Reading
<1>5. /\ shown.deploy_tx_hash = row.deploy_tx_hash
      /\ shown.consensus_tx_id = row.consensus_tx_id
  BY <1>1 DEF DeploymentRow
<1>6. shown.exposed => row.exposed \/ (r.status = "FINALIZED" /\ r.execution = "RETURN")
  BY <1>1
<1>7. DeploymentOK(chain, shown)
  BY <1>5, <1>6 DEF DeploymentOK
<1> QED
  BY <1>4, <1>5, <1>7 DEF shown

LEMMA PollStoreKeeps ==
  ASSUME IInv, NEW p \in Poll, NEW found \in BOOLEAN, PollStore(p, found)
  PROVE  IInv'
<1> DEFINE e == polls[p].envelope
           loaded == polls[p].loaded
           id == loaded.consensus_tx_id
           r == polls[p].read
           rows == IF e \in Deploy THEN Latest(id) ELSE {}
           new == PolledRow(loaded, id, r)
           row == IF rows = {} THEN Flush(prepared[e], loaded, new)
                               ELSE PolledRow(prepared[e], id, r)
<1>1. /\ polls[p].pc = "storing"
      /\ deployments' = [i \in DOMAIN deployments |->
           IF i \in rows THEN PolledDeployment(deployments[i], r, found)
                         ELSE deployments[i]]
      /\ polls' = [polls EXCEPT ![p] = IdlePoll]
      /\ UNCHANGED <<overdue, chain, confirms>>
  BY DEF PollStore
<1>2. prepared' = [prepared EXCEPT ![e] = row]
  BY DEF PollStore
<1>3. /\ PollOK(chain, polls[p]) /\ r \in Reading
      /\ e \in Envelope /\ loaded \in PreparedRow /\ prepared[e] \in PreparedRow
      /\ RowOK(chain, e, loaded) /\ RowOK(chain, e, prepared[e])
  BY <1>1, BusyPoll DEF PollRequest
<1>4. /\ id \in Transaction /\ e \in Matches[id] /\ chain[id].logged
      /\ r.terminal => r.status \in {"FINALIZED", "UNDETERMINED"}
      /\ r.status = "FINALIZED" => chain[id].consensus = "FINALIZED"
      /\ r.status = "FINALIZED" /\ r.execution = "RETURN" => chain[id].execution = "RETURN"
  BY <1>1, <1>3 DEF PollOK, RowOK, PreparedRow, MaybeId
<1>5. \A i \in DOMAIN deployments :
        i \in rows => deployments[i].consensus_tx_id = id
  BY DEF Latest
<1> HIDE DEF e, loaded, id, r, rows
<1>6. /\ new \in PreparedRow /\ RowOK(chain, e, new)
      /\ new.status = loaded.status /\ new.tx_hash = loaded.tx_hash
  BY <1>3, <1>4, PolledRowOK
<1>7. /\ PolledRow(prepared[e], id, r) \in PreparedRow
      /\ RowOK(chain, e, PolledRow(prepared[e], id, r))
      /\ PolledRow(prepared[e], id, r).status = prepared[e].status
      /\ PolledRow(prepared[e], id, r).tx_hash = prepared[e].tx_hash
  BY <1>3, <1>4, PolledRowOK
<1> HIDE DEF new
<1>8. /\ Flush(prepared[e], loaded, new) \in PreparedRow
      /\ RowOK(chain, e, Flush(prepared[e], loaded, new))
      /\ Flush(prepared[e], loaded, new).status = prepared[e].status
      /\ Flush(prepared[e], loaded, new).tx_hash = prepared[e].tx_hash
  <2>1. /\ Flush(prepared[e], loaded, new).status = prepared[e].status
        /\ Flush(prepared[e], loaded, new).tx_hash = prepared[e].tx_hash
    BY <1>6 DEF Flush, Column
  <2> QED
    BY <1>3, <1>6, <2>1, FlushType, FlushOK
<1>9. /\ row \in PreparedRow /\ RowOK(chain, e, row)
      /\ row.status = prepared[e].status /\ row.tx_hash = prepared[e].tx_hash
  BY <1>7, <1>8
<1> HIDE DEF row
<1>10. /\ row.status = "confirmed" => row.tx_hash # NULL
       /\ row.status = "absent" => row.tx_hash = NULL
  BY <1>3, <1>9 DEF IInv, RowsOK
<1>11. /\ prepared' \in [Envelope -> PreparedRow] /\ RowsOK' /\ OneEnvelopePerHash'
       /\ \A s : ConfirmOK(chain, prepared, s) => ConfirmOK(chain', prepared', s)
  BY <1>1, <1>2, <1>3, <1>9, <1>10, RowWritten
<1>12. polls' \in [Poll -> PollRequest] /\ PollsOK'
  BY <1>1, IdleTypes, IdleOK, PollMoves
<1>13. /\ DOMAIN deployments' = DOMAIN deployments
       /\ \A i \in DOMAIN deployments :
            /\ deployments'[i] \in DeploymentRow /\ DeploymentOK(chain, deployments'[i])
            /\ deployments'[i].deploy_tx_hash = deployments[i].deploy_tx_hash
  <2>1. DOMAIN deployments' = DOMAIN deployments
    BY <1>1
  <2>2. ASSUME NEW i \in DOMAIN deployments
        PROVE  /\ deployments'[i] \in DeploymentRow /\ DeploymentOK(chain, deployments'[i])
               /\ deployments'[i].deploy_tx_hash = deployments[i].deploy_tx_hash
    <3>1. deployments[i] \in DeploymentRow /\ DeploymentOK(chain, deployments[i])
      BY DeploymentAt DEF IInv, DeploymentsOK
    <3>2. CASE i \notin rows
      BY <1>1, <3>1, <3>2
    <3>3. CASE i \in rows
      <4>1. Lower[deployments[i].deploy_tx_hash] = id
        BY <1>4, <1>5, <3>1, <3>3, Names DEF DeploymentOK
      <4>2. deployments'[i] = PolledDeployment(deployments[i], r, found)
        BY <1>1, <3>3
      <4> QED
        BY <1>3, <1>4, <3>1, <4>1, <4>2, PolledDeploymentOK
    <3> QED
      BY <3>2, <3>3
  <2> QED
    BY <2>1, <2>2
<1>14. deployments' \in Seq(DeploymentRow)
  <2>1. DOMAIN deployments' = 1..Len(deployments) /\ Len(deployments) \in Nat
    BY <1>13, DeploymentAt DEF IInv
  <2>2. deployments' = [i \in 1..Len(deployments) |-> deployments'[i]]
    BY <1>1, <2>1
  <2>3. deployments' \in [1..Len(deployments) -> DeploymentRow]
    BY <1>13, <2>1, <2>2
  <2> QED
    BY <2>1, <2>3, SeqDef
<1>15. DeploymentsOK'
  BY <1>1, <1>13 DEF DeploymentsOK
<1>16. ConfirmedIsIndexed'
  <2>1. \A f \in Envelope : prepared'[f].status = prepared[f].status
    BY <1>2, <1>3, <1>9 DEF IInv, TypeOK
  <2> QED
    BY <1>13, <2>1, LifecycleAssumption DEF IInv, ConfirmedIsIndexed
<1>17. ConfirmsOK'
  BY <1>1, <1>11 DEF IInv, ConfirmsOK
<1> QED
  BY <1>1, <1>11, <1>12, <1>14, <1>15, <1>16, <1>17 DEF IInv, TypeOK

-----------------------------------------------------------------------------
(* The invariant, and what follows from it.                                *)

LEMMA NextOK == IInv /\ [Next]_vars => IInv'
<1> SUFFICES ASSUME IInv, [Next]_vars PROVE IInv'
  OBVIOUS
<1>1. CASE Environment
  BY <1>1, BroadcastKeeps, MineKeeps, LogAppearsKeeps, ConsensusKeeps, LapseKeeps
     DEF Environment
<1>2. CASE Handlers
  BY <1>2, PrepareKeeps, ExpireKeeps, ConfirmLoadKeeps, ConfirmVerifiedKeeps,
     ConfirmTransferKeeps, ConfirmReceiptKeeps, ConfirmDeployKeeps,
     ConfirmDeployCutKeeps, ConfirmFailKeeps, PollLoadKeeps, PollResolveKeeps,
     PollReadKeeps, PollStoreKeeps, PollFailKeeps
     DEF Handlers
<1>3. CASE UNCHANGED vars
  BY <1>3 DEF vars, IInv, TypeOK, RowsOK, ConfirmsOK, PollsOK, DeploymentsOK,
              ConfirmedIsIndexed, OneEnvelopePerHash
<1> QED
  BY <1>1, <1>2, <1>3 DEF Next

\* Every reachable state of the index and of the requests satisfies IInv.
THEOREM Inductive == Spec => []IInv
BY InitOK, NextOK, PTL DEF Spec

\* The rows, the requests in flight and the chain have their types.
THEOREM TypeCorrect == Spec => []TypeOK
<1>1. IInv => TypeOK
  BY DEF IInv
<1> QED
  BY <1>1, Inductive, PTL

\* However many confirmations interleave, no two envelopes carry one text of a
\* hash.
THEOREM TextsAreExclusive == Spec => []OneEnvelopePerHash
<1>1. IInv => OneEnvelopePerHash
  BY DEF IInv
<1> QED
  BY <1>1, Inductive, PTL

\* If clients write every hash in lower case, no two envelopes carry one
\* transaction.
THEOREM TransactionsAreExclusive ==
  (\A h \in Hash : Lower[h] = h) => (Spec => []OneEnvelopePerTransaction)
<1> SUFFICES ASSUME \A h \in Hash : Lower[h] = h
             PROVE  Spec => []OneEnvelopePerTransaction
  OBVIOUS
<1>1. IInv => OneEnvelopePerTransaction
  <2> SUFFICES ASSUME IInv, NEW e \in Envelope, NEW f \in Envelope,
                      prepared[e].tx_hash # NULL, prepared[f].tx_hash # NULL,
                      Lower[prepared[e].tx_hash] = Lower[prepared[f].tx_hash]
               PROVE  e = f
    BY DEF OneEnvelopePerTransaction
  <2>1. prepared[e].tx_hash \in Hash /\ prepared[f].tx_hash \in Hash
    BY DEF IInv, TypeOK, PreparedRow, MaybeHash
  <2>2. prepared[e].tx_hash = prepared[f].tx_hash
    BY <2>1
  <2> QED
    BY <2>2 DEF IInv, OneEnvelopePerHash
<1> QED
  BY <1>1, Inductive, PTL

\* A confirmed envelope has a mined transaction with the reviewed fields.
THEOREM ConfirmedWereMined == Spec => []ConfirmedMeansMined
<1>1. IInv => ConfirmedMeansMined
  BY DEF IInv, RowsOK, RowOK, ConfirmedMeansMined
<1> QED
  BY <1>1, Inductive, PTL

\* A final envelope has a transaction that GenLayer finalized.
THEOREM FinalityIsQueried == Spec => []FinalMeansFinalized
<1>1. IInv => FinalMeansFinalized
  BY DEF IInv, RowsOK, RowOK, FinalMeansFinalized
<1> QED
  BY <1>1, Inductive, PTL

\* An exposed contract address is that of a finalized, successful deployment.
THEOREM ExposureIsEarned == Spec => []ExposedMeansReturned
<1>1. IInv => ExposedMeansReturned
  BY DEF IInv, DeploymentsOK, DeploymentOK, ExposedMeansReturned
<1> QED
  BY <1>1, Inductive, PTL

\* A GenLayer id in the index belongs to the row that carries it.
THEOREM IdsAreOwn == Spec => []TrackedIdIsOwn
<1>1. IInv => TrackedIdIsOwn
  BY DEF IInv, RowsOK, RowOK, DeploymentsOK, DeploymentOK, TrackedIdIsOwn
<1> QED
  BY <1>1, Inductive, PTL

\* A consumed deployment envelope has an index row, whatever was cut short.
THEOREM ConfirmedAreIndexed == Spec => []ConfirmedIsIndexed
<1>1. IInv => ConfirmedIsIndexed
  BY DEF IInv
<1> QED
  BY <1>1, Inductive, PTL

-----------------------------------------------------------------------------
(* Steps.                                                                  *)

\* What a step may do to a stored row: nothing to its status and hash, create or
\* expire it, or write a justified row that carries a hash of its own.
Writes(e, row) ==
  /\ prepared' = [prepared EXCEPT ![e] = row]
  /\ RowOK(chain, e, row) /\ row.tx_hash \in Hash
  /\ Unique(e, row)
  /\ row.status \in {prepared[e].status, "confirmed"}

Same(e) ==
  /\ prepared'[e].tx_hash = prepared[e].tx_hash
  /\ prepared'[e].status = "confirmed" <=> prepared[e].status = "confirmed"

\* The three ways in which a step of a request or the environment touches a row.
LEMMA StepShape ==
  ASSUME IInv, Next
  PROVE  \/ \A e \in Envelope : Same(e)
         \/ /\ chain' = chain
            /\ \E e \in Envelope : \E row \in PreparedRow : Writes(e, row)
<1> USE DEF Same
<1> DEFINE Kept == \A e \in Envelope : Same(e)
           Written == /\ chain' = chain
                      /\ \E e \in Envelope : \E row \in PreparedRow : Writes(e, row)
<1>1. ASSUME Environment PROVE Kept
  BY <1>1 DEF Environment, Broadcast, Mine, LogAppears, Consensus, Lapse
<1>2. ASSUME NEW e \in Envelope, Prepare(e) \/ Expire(e)
      PROVE  Kept
  BY <1>2 DEF Prepare, Expire, NewRow, IInv, TypeOK, RowsOK, PreparedRow
<1>3. ASSUME NEW c \in Confirm, NEW e \in Envelope, NEW h \in Hash, ConfirmLoad(c, e, h)
      PROVE  Kept
  BY <1>3 DEF ConfirmLoad
<1>4. ASSUME NEW c \in Confirm,
             ConfirmReceipt(c) \/ ConfirmDeployCut(c) \/ ConfirmFail(c)
      PROVE  Kept
  BY <1>4 DEF ConfirmReceipt, ConfirmDeployCut, ConfirmFail
<1>5. ASSUME NEW c \in Confirm,
             ConfirmVerified(c) \/ ConfirmTransfer(c) \/ ConfirmDeploy(c)
      PROVE  Written
  <2> DEFINE e == confirms[c].envelope
             row == prepared'[e]
  <2>1. /\ e \in Envelope /\ prepared \in [Envelope -> PreparedRow]
        /\ prepared[e] \in PreparedRow
    BY <1>5, BusyConfirm DEF ConfirmVerified, ConfirmTransfer, ConfirmDeploy, IInv, TypeOK
  <2>2. IInv'
    BY <1>5, ConfirmVerifiedKeeps, ConfirmTransferKeeps, ConfirmDeployKeeps
  <2>3. row \in PreparedRow /\ RowOK(chain', e, row)
    BY <2>1, <2>2 DEF IInv, TypeOK, RowsOK
  <2>4. /\ chain' = chain /\ prepared' = [prepared EXCEPT ![e] = row] /\ Unique(e, row)
    BY <1>5, <2>1 DEF ConfirmVerified, ConfirmTransfer, ConfirmDeploy
  <2>5. row.status \in {prepared[e].status, "confirmed"}
    <3>1. CASE ConfirmVerified(c)
      BY <2>1, <3>1 DEF ConfirmVerified, Flush, Column, MarkBroadcast
    <3>2. CASE ConfirmTransfer(c)
      <4>1. MarkConfirmed(confirms[c].loaded, confirms[c].hash, NULL).status = "confirmed"
        BY <3>2, BusyConfirm DEF ConfirmTransfer, MarkConfirmed, PreparedRow
      <4> QED
        BY <2>1, <3>2, <4>1 DEF ConfirmTransfer, Flush, Column
    <3>3. CASE ConfirmDeploy(c)
      BY <2>1, <3>3 DEF ConfirmDeploy, MarkConfirmed, PreparedRow
    <3> QED
      BY <1>5, <3>1, <3>2, <3>3
  <2>6. row.tx_hash # NULL
    <3>1. /\ confirms[c].hash # NULL /\ confirms[c].loaded \in PreparedRow
          /\ confirms[c].loaded.tx_hash # NULL => prepared[e].tx_hash # NULL
      BY <1>5, BusyConfirm DEF ConfirmVerified, ConfirmTransfer, ConfirmDeploy, ConfirmOK
    <3>2. /\ MarkBroadcast(confirms[c].loaded, confirms[c].hash).tx_hash = confirms[c].hash
          /\ \A id : MarkConfirmed(confirms[c].loaded, confirms[c].hash, id).tx_hash
                     = confirms[c].hash
          /\ \A id : MarkConfirmed(prepared[e], confirms[c].hash, id).tx_hash
                     = confirms[c].hash
      BY <2>1, <3>1 DEF MarkBroadcast, MarkConfirmed, PreparedRow
    <3>3. CASE ConfirmVerified(c)
      BY <2>1, <3>1, <3>2, <3>3 DEF ConfirmVerified, Flush, Column
    <3>4. CASE ConfirmTransfer(c)
      BY <2>1, <3>1, <3>2, <3>4 DEF ConfirmTransfer, Flush, Column
    <3>5. CASE ConfirmDeploy(c)
      BY <2>1, <3>1, <3>2, <3>5 DEF ConfirmDeploy
    <3> QED
      BY <1>5, <3>3, <3>4, <3>5
  <2>7. row.tx_hash \in Hash
    BY <2>3, <2>6 DEF PreparedRow, MaybeHash
  <2> HIDE DEF e, row
  <2> QED
    BY <2>1, <2>3, <2>4, <2>5, <2>7 DEF Writes
<1>6. ASSUME NEW p \in Poll, NEW e \in Envelope, PollLoad(p, e)
      PROVE  Kept
  BY <1>6 DEF PollLoad
<1>7. ASSUME NEW p \in Poll, NEW r \in Reading, PollRead(p, r)
      PROVE  Kept
  BY <1>7 DEF PollRead
<1>8. ASSUME NEW p \in Poll, PollResolve(p) \/ PollFail(p)
      PROVE  Kept
  <2>1. CASE PollFail(p)
    BY <2>1 DEF PollFail
  <2>2. CASE PollResolve(p)
    <3> DEFINE e == polls[p].envelope
               loaded == polls[p].loaded
               id == ResolvedId(loaded.tx_hash)
               new == [loaded EXCEPT !.consensus_tx_id = id]
    <3>1. /\ e \in Envelope /\ loaded \in PreparedRow
          /\ prepared \in [Envelope -> PreparedRow]
          /\ prepared' = [prepared EXCEPT ![e] = Flush(prepared[e], loaded, new)]
      BY <2>2, BusyPoll DEF PollResolve, IInv, TypeOK
    <3> HIDE DEF e, loaded, id
    <3>2. new.status = loaded.status /\ new.tx_hash = loaded.tx_hash
      BY <3>1 DEF PreparedRow
    <3> HIDE DEF new
    <3>3. /\ Flush(prepared[e], loaded, new).status = prepared[e].status
          /\ Flush(prepared[e], loaded, new).tx_hash = prepared[e].tx_hash
      BY <3>2 DEF Flush, Column
    <3> QED
      BY <3>1, <3>3
  <2> QED
    BY <1>8, <2>1, <2>2
<1>9. ASSUME NEW p \in Poll, NEW found \in BOOLEAN, PollStore(p, found)
      PROVE  Kept
  <2> DEFINE e == polls[p].envelope
  <2>1. /\ e \in Envelope /\ prepared \in [Envelope -> PreparedRow]
        /\ prepared[e] \in PreparedRow /\ polls[p].loaded \in PreparedRow
    BY <1>9, BusyPoll DEF PollStore, IInv, TypeOK
  <2>2. \A row \in PreparedRow : \A id, r :
          /\ PolledRow(row, id, r).tx_hash = row.tx_hash
          /\ PolledRow(row, id, r).status = row.status
    BY DEF PolledRow, PreparedRow
  <2>3. /\ prepared'[e].tx_hash = prepared[e].tx_hash
        /\ prepared'[e].status = prepared[e].status
    BY <1>9, <2>1, <2>2 DEF PollStore, Flush, Column
  <2>4. \A f \in Envelope \ {e} : prepared'[f] = prepared[f]
    BY <1>9, <2>1 DEF PollStore
  <2> QED
    BY <2>3, <2>4
<1>10. ASSUME Handlers PROVE Kept \/ Written
  <2> HIDE DEF Kept, Written
  <2> QED
    BY <1>2, <1>3, <1>4, <1>5, <1>6, <1>7, <1>8, <1>9, <1>10 DEF Handlers
<1> QED
  BY <1>1, <1>10 DEF Next

\* A consumed envelope stays consumed.
THEOREM ConsumptionIsFinal == Spec => ConsumedForGood
<1>1. ASSUME IInv, [Next]_vars, NEW e \in Envelope, prepared[e].status = "confirmed"
      PROVE  prepared'[e].status = "confirmed"
  <2>1. CASE UNCHANGED vars
    BY <1>1, <2>1 DEF vars
  <2>2. CASE \A f \in Envelope : Same(f)
    BY <1>1, <2>2 DEF Same
  <2>3. CASE \E f \in Envelope : \E row \in PreparedRow : Writes(f, row)
    BY <1>1, <2>3 DEF Writes, IInv, TypeOK
  <2> QED
    BY <1>1, <2>1, <2>2, <2>3, StepShape
<1>2. IInv /\ [Next]_vars =>
        [\A e \in Envelope :
           prepared[e].status = "confirmed" => prepared'[e].status = "confirmed"]_vars
  BY <1>1
<1> QED
  BY <1>2, Inductive, PTL DEF Spec, ConsumedForGood

-----------------------------------------------------------------------------
(* What only a second invariant shows.  IInv knows that a justification is *)
(* never taken back, not that there is only one: Settled adds what one     *)
(* nonce and one log buy, that a mined transaction was signed for an       *)
(* envelope that exists and that two mined transactions share no envelope. *)

ChainOK ==
  /\ \A t \in Transaction :
       /\ chain[t].logged => chain[t].evm = "success"
       /\ chain[t].consensus = "FINALIZED" => chain[t].evm = "success" /\ Tracked(t)
  /\ \A t, u \in Transaction :
       Matches[t] \cap Matches[u] # {} /\ chain[t].evm = "success" /\ chain[u].evm = "success"
         => t = u

Signed ==
  \A t \in Transaction : chain[t].evm # "unsent" =>
    \E e \in Matches[t] : prepared[e].status # "absent"

BlankRows ==
  \A e \in Envelope : prepared[e].status = "absent" => ~prepared[e].final

\* A poll that had loaded a final row has read a final transaction.
PollsAgree ==
  \A p \in Poll : polls[p].pc # "idle" =>
    /\ prepared[polls[p].envelope].status # "absent"
    /\ polls[p].pc = "storing" /\ polls[p].loaded.final =>
         polls[p].read.status = "FINALIZED"

Settled ==
  /\ IInv
  /\ ChainOK
  /\ Signed
  /\ BlankRows
  /\ PollsAgree

LEMMA InitSettled == Init => Settled
<1> SUFFICES ASSUME Init PROVE Settled
  OBVIOUS
<1>1. ChainOK /\ Signed
  <2>1. \A t \in Transaction : /\ chain[t].evm = "unsent" /\ ~chain[t].logged
                               /\ chain[t].consensus = "PENDING"
    BY DEF Init
  <2> QED
    BY <2>1 DEF ChainOK, Signed
<1>2. BlankRows /\ PollsAgree
  BY DEF Init, BlankRows, PollsAgree, NewRow, IdlePoll
<1> QED
  BY <1>1, <1>2, InitOK DEF Settled

LEMMA ChainOKNext ==
  ASSUME Settled, Environment
  PROVE  ChainOK'
<1>1. chain \in [Transaction -> ChainRecord]
  BY DEF Settled, IInv, TypeOK
<1>2. ASSUME NEW t \in Transaction, Broadcast(t) PROVE ChainOK'
  BY <1>1, <1>2 DEF Settled, ChainOK, Broadcast, ChainRecord, Tracked
<1>3. ASSUME NEW t \in Transaction, LogAppears(t) PROVE ChainOK'
  BY <1>1, <1>3 DEF Settled, ChainOK, LogAppears, ChainRecord, Tracked
<1>4. ASSUME NEW t \in Transaction, NEW outcome \in {"success", "reverted"}, Mine(t, outcome)
      PROVE  ChainOK'
  BY <1>1, <1>4 DEF Settled, ChainOK, Mine, ChainRecord, Tracked
<1>5. ASSUME NEW t \in Transaction, NEW status \in ConsensusStatus,
             NEW outcome \in {"NOT_VOTED", "RETURN", "ERROR"}, Consensus(t, status, outcome)
      PROVE  ChainOK'
  BY <1>1, <1>5 DEF Settled, ChainOK, Consensus, ChainRecord, Tracked
<1>6. ASSUME NEW e \in Envelope, Lapse(e) PROVE ChainOK'
  BY <1>6 DEF Settled, ChainOK, Lapse, Tracked
<1> QED
  BY <1>2, <1>3, <1>4, <1>5, <1>6 DEF Environment

LEMMA EnvironmentSettles ==
  ASSUME Settled, Environment
  PROVE  ChainOK' /\ Signed' /\ BlankRows' /\ PollsAgree'
<1>1. UNCHANGED <<prepared, confirms, polls>>
  BY DEF Environment, Broadcast, LogAppears, Mine, Consensus, Lapse
<1>2. \A t \in Transaction : chain'[t].evm # "unsent" =>
        chain[t].evm # "unsent" \/ \E e \in Matches[t] : prepared[e].status # "absent"
  <2>1. chain \in [Transaction -> ChainRecord]
    BY DEF Settled, IInv, TypeOK
  <2> QED
    BY <2>1 DEF Environment, Broadcast, LogAppears, Mine, Consensus, Lapse, ChainRecord
<1>3. Signed'
  BY <1>1, <1>2 DEF Settled, Signed
<1>4. BlankRows' /\ PollsAgree'
  BY <1>1 DEF Settled, BlankRows, PollsAgree
<1> QED
  BY <1>3, <1>4, ChainOKNext

\* No handler forgets an envelope, and none marks one that does not exist.
Remembers(e) ==
  /\ prepared[e].status # "absent" => prepared'[e].status # "absent"
  /\ prepared'[e].status = "absent" => ~prepared'[e].final

LEMMA RowsRemembered ==
  ASSUME Settled, Handlers
  PROVE  \A e \in Envelope : Remembers(e)
<1> DEFINE All == \A e \in Envelope : Remembers(e)
<1>1. prepared \in [Envelope -> PreparedRow] /\ BlankRows /\ IInv
  BY DEF Settled, IInv, TypeOK
<1>2. prepared' = prepared => All
  BY <1>1 DEF Remembers, BlankRows
<1>3. ASSUME NEW e \in Envelope, NEW row,
             prepared' = [prepared EXCEPT ![e] = row], row.status # "absent"
      PROVE  All
  BY <1>1, <1>3 DEF Remembers, BlankRows
<1> HIDE DEF All
<1>4. ASSUME NEW e \in Envelope, Prepare(e) \/ Expire(e) PROVE All
  <2>1. CASE Prepare(e)
    <3>1. NewRow("prepared").status # "absent"
      BY DEF NewRow
    <3> QED
      BY <1>3, <2>1, <3>1 DEF Prepare
  <2>2. CASE Expire(e)
    <3>1. /\ prepared' = [prepared EXCEPT ![e] = [prepared[e] EXCEPT !.status = "expired"]]
          /\ [prepared[e] EXCEPT !.status = "expired"].status = "expired"
      BY <1>1, <2>2 DEF Expire, PreparedRow
    <3> QED
      BY <1>3, <3>1
  <2> QED
    BY <1>4, <2>1, <2>2
<1>5. ASSUME NEW c \in Confirm,
             ConfirmVerified(c) \/ ConfirmTransfer(c) \/ ConfirmDeploy(c)
      PROVE  All
  <2> DEFINE e == confirms[c].envelope
             loaded == confirms[c].loaded
             h == confirms[c].hash
  <2>1. /\ e \in Envelope /\ loaded \in PreparedRow /\ prepared[e] \in PreparedRow
        /\ prepared[e].status # "absent"
    BY <1>1, <1>5, BusyConfirm DEF ConfirmVerified, ConfirmTransfer, ConfirmDeploy, ConfirmOK
  <2>2. /\ MarkBroadcast(loaded, h).status = loaded.status
        /\ \A id : /\ MarkConfirmed(loaded, h, id).status = "confirmed"
                   /\ MarkConfirmed(prepared[e], h, id).status = "confirmed"
    BY <2>1 DEF MarkBroadcast, MarkConfirmed, PreparedRow
  <2>3. /\ Flush(prepared[e], loaded, MarkBroadcast(loaded, h)).status # "absent"
        /\ Flush(prepared[e], loaded, MarkConfirmed(loaded, h, NULL)).status # "absent"
        /\ MarkConfirmed(prepared[e], h, confirms[c].id).status # "absent"
    BY <2>1, <2>2 DEF Flush, Column
  <2>4. CASE ConfirmVerified(c)
    BY <1>3, <2>1, <2>3, <2>4 DEF ConfirmVerified
  <2>5. CASE ConfirmTransfer(c)
    BY <1>3, <2>1, <2>3, <2>5 DEF ConfirmTransfer
  <2>6. CASE ConfirmDeploy(c)
    BY <1>3, <2>1, <2>3, <2>6 DEF ConfirmDeploy
  <2> QED
    BY <1>5, <2>4, <2>5, <2>6
<1>6. ASSUME NEW p \in Poll, NEW found \in BOOLEAN, PollResolve(p) \/ PollStore(p, found)
      PROVE  All
  <2> DEFINE e == polls[p].envelope
             loaded == polls[p].loaded
             id == loaded.consensus_tx_id
             r == polls[p].read
  <2>1. /\ e \in Envelope /\ loaded \in PreparedRow /\ prepared[e] \in PreparedRow
        /\ prepared[e].status # "absent"
    BY <1>1, <1>6, BusyPoll DEF PollResolve, PollStore, Settled, PollsAgree
  <2>2. /\ [loaded EXCEPT !.consensus_tx_id = ResolvedId(loaded.tx_hash)].status = loaded.status
        /\ PolledRow(loaded, id, r).status = loaded.status
        /\ PolledRow(prepared[e], id, r).status = prepared[e].status
    BY <2>1 DEF PolledRow, PreparedRow
  <2>3. /\ Flush(prepared[e], loaded,
                 [loaded EXCEPT !.consensus_tx_id = ResolvedId(loaded.tx_hash)]).status
             # "absent"
        /\ Flush(prepared[e], loaded, PolledRow(loaded, id, r)).status # "absent"
        /\ PolledRow(prepared[e], id, r).status # "absent"
    BY <2>1, <2>2 DEF Flush, Column
  <2>4. CASE PollResolve(p)
    BY <1>3, <2>1, <2>3, <2>4 DEF PollResolve
  <2>5. CASE PollStore(p, found)
    <3>1. \/ prepared' = [prepared EXCEPT ![e] =
                            Flush(prepared[e], loaded, PolledRow(loaded, id, r))]
          \/ prepared' = [prepared EXCEPT ![e] = PolledRow(prepared[e], id, r)]
      BY <2>1, <2>5 DEF PollStore
    <3> QED
      BY <1>3, <2>1, <2>3, <3>1
  <2> QED
    BY <1>6, <2>4, <2>5
<1>7. ASSUME NEW c \in Confirm,
             \/ ConfirmReceipt(c) \/ ConfirmDeployCut(c) \/ ConfirmFail(c)
             \/ \E e \in Envelope, h \in Hash : ConfirmLoad(c, e, h)
      PROVE  All
  BY <1>2, <1>7 DEF ConfirmReceipt, ConfirmDeployCut, ConfirmFail, ConfirmLoad
<1>8. ASSUME NEW p \in Poll,
             \/ PollFail(p)
             \/ \E e \in Envelope : PollLoad(p, e)
             \/ \E r \in Reading : PollRead(p, r)
      PROVE  All
  BY <1>2, <1>8 DEF PollFail, PollLoad, PollRead
<1>9. All
  BY <1>4, <1>5, <1>6, <1>7, <1>8 DEF Handlers
<1> QED
  BY <1>9 DEF All

\* The answer about a final row's transaction is final: an id in the index was
\* logged, so it is the one mined transaction of the envelope.
LEMMA ReadingAgrees ==
  ASSUME Settled, NEW p \in Poll, NEW r \in Reading, PollRead(p, r), polls[p].loaded.final
  PROVE  r.status = "FINALIZED"
<1> DEFINE e == polls[p].envelope
           id == polls[p].loaded.consensus_tx_id
<1>1. /\ PollOK(chain, polls[p]) /\ e \in Envelope
      /\ polls[p].loaded \in PreparedRow /\ RowOK(chain, e, polls[p].loaded)
  BY BusyPoll DEF PollRead, Settled
<1>2. id \in Transaction /\ e \in Matches[id] /\ chain[id].logged
  BY <1>1 DEF PollRead, PollOK, RowOK, PreparedRow, MaybeId
<1>3. PICK t \in Transaction : e \in Matches[t] /\ chain[t].consensus = "FINALIZED"
  BY <1>1 DEF RowOK
<1>4. t = id
  BY <1>2, <1>3 DEF Settled, ChainOK
<1> QED
  BY <1>3, <1>4 DEF PollRead, Readings

LEMMA HandlersSettle ==
  ASSUME Settled, Handlers
  PROVE  ChainOK' /\ Signed' /\ BlankRows' /\ PollsAgree'
<1>1. chain' = chain
  BY DEF Handlers, Prepare, Expire, ConfirmLoad, ConfirmVerified, ConfirmTransfer,
     ConfirmReceipt, ConfirmDeploy, ConfirmDeployCut, ConfirmFail, PollLoad, PollResolve,
     PollRead, PollStore, PollFail
<1>2. \A e \in Envelope : Remembers(e)
  BY RowsRemembered
<1>3. ChainOK'
  BY <1>1 DEF Settled, ChainOK, Tracked
<1>4. Signed' /\ BlankRows'
  BY <1>1, <1>2, LifecycleAssumption DEF Settled, Signed, BlankRows, Remembers
<1>5. PollsAgree'
  <2>1. polls \in [Poll -> PollRequest]
    BY DEF Settled, IInv, TypeOK
  <2>2. \A q \in Poll : polls[q].pc # "idle" => polls[q].envelope \in Envelope
    BY BusyPoll DEF Settled
  <2>3. ASSUME NEW p \in Poll, NEW s, polls' = [polls EXCEPT ![p] = s],
               s.pc # "idle" => /\ s.envelope \in Envelope
                                /\ prepared'[s.envelope].status # "absent"
                                /\ s.pc = "storing" /\ s.loaded.final =>
                                     s.read.status = "FINALIZED"
        PROVE  PollsAgree'
    BY <1>2, <2>1, <2>2, <2>3 DEF Settled, PollsAgree, Remembers
  <2>4. CASE polls' = polls
    BY <1>2, <2>2, <2>4 DEF Settled, PollsAgree, Remembers
  <2>5. ASSUME NEW p \in Poll, NEW e \in Envelope, PollLoad(p, e) PROVE PollsAgree'
    BY <2>3, <2>5 DEF PollLoad
  <2>6. ASSUME NEW p \in Poll, PollResolve(p) PROVE PollsAgree'
    <3> DEFINE s == polls'[p]
    <3>1. /\ polls' = [polls EXCEPT ![p] = s] /\ s.pc = "reading"
          /\ s.envelope = polls[p].envelope /\ polls[p].pc # "idle"
      BY <2>1, <2>6 DEF PollResolve, PollRequest
    <3>2. s.envelope \in Envelope /\ prepared'[s.envelope].status # "absent"
      BY <1>2, <2>2, <3>1 DEF Settled, PollsAgree, Remembers
    <3> HIDE DEF s
    <3> QED
      BY <2>3, <3>1, <3>2
  <2>7. ASSUME NEW p \in Poll, NEW r \in Reading, PollRead(p, r) PROVE PollsAgree'
    <3> DEFINE s == polls'[p]
    <3>1. /\ polls' = [polls EXCEPT ![p] = s] /\ s.pc = "storing"
          /\ s.envelope = polls[p].envelope /\ polls[p].pc # "idle"
          /\ s.loaded = polls[p].loaded /\ s.read = r
      BY <2>1, <2>7 DEF PollRead, PollRequest
    <3>2. s.envelope \in Envelope /\ prepared'[s.envelope].status # "absent"
      BY <1>2, <2>2, <3>1 DEF Settled, PollsAgree, Remembers
    <3>3. s.loaded.final => s.read.status = "FINALIZED"
      BY <2>7, <3>1, ReadingAgrees
    <3> HIDE DEF s
    <3> QED
      BY <2>3, <3>1, <3>2, <3>3
  <2>8. ASSUME NEW p \in Poll, NEW found \in BOOLEAN, PollStore(p, found) \/ PollFail(p)
        PROVE  PollsAgree'
    BY <2>3, <2>8 DEF PollStore, PollFail, IdlePoll
  <2>9. ASSUME NEW c \in Confirm,
               \/ ConfirmVerified(c) \/ ConfirmTransfer(c) \/ ConfirmReceipt(c)
               \/ ConfirmDeploy(c) \/ ConfirmDeployCut(c) \/ ConfirmFail(c)
               \/ \E e \in Envelope, h \in Hash : ConfirmLoad(c, e, h)
        PROVE  polls' = polls
    BY <2>9 DEF ConfirmVerified, ConfirmTransfer, ConfirmReceipt, ConfirmDeploy,
                ConfirmDeployCut, ConfirmFail, ConfirmLoad
  <2>10. ASSUME NEW e \in Envelope, Prepare(e) \/ Expire(e) PROVE polls' = polls
    BY <2>10 DEF Prepare, Expire
  <2> QED
    BY <2>4, <2>5, <2>6, <2>7, <2>8, <2>9, <2>10 DEF Handlers
<1> QED
  BY <1>3, <1>4, <1>5

LEMMA SettledNext == Settled /\ [Next]_vars => Settled'
<1> SUFFICES ASSUME Settled, [Next]_vars PROVE Settled'
  OBVIOUS
<1>1. IInv'
  BY NextOK DEF Settled
<1>2. CASE Environment
  BY <1>1, <1>2, EnvironmentSettles DEF Settled
<1>3. CASE Handlers
  BY <1>1, <1>3, HandlersSettle DEF Settled
<1>4. CASE UNCHANGED vars
  BY <1>1, <1>4 DEF vars, Settled, ChainOK, Tracked, Signed, BlankRows, PollsAgree
<1> QED
  BY <1>2, <1>3, <1>4 DEF Next

LEMMA AlwaysSettled == Spec => []Settled
BY InitSettled, SettledNext, PTL DEF Spec

\* A mined transaction is never stranded: in every reachable state it is
\* accounted for, or one of the envelopes it verifies against can be confirmed
\* with it.
THEOREM MinedIsNeverStranded == Spec => []MinedCanBeConfirmed
<1>1. ASSUME Settled, NEW h \in Hash, ReceiptSucceeded(h)
      PROVE  \E e \in Matches[Lower[h]] :
               \/ prepared[e].status = "confirmed"
               \/ Loadable(e) /\ ~Reused(e, h) /\ Unique(e, MarkBroadcast(prepared[e], h))
  <2>1. /\ prepared \in [Envelope -> PreparedRow] /\ Matches[Lower[h]] \subseteq Envelope
        /\ OneEnvelopePerHash /\ RowsOK /\ h # NULL
    BY <1>1, Names DEF Settled, IInv, TypeOK
  <2>2. \A e \in Envelope : MarkBroadcast(prepared[e], h).tx_hash = h
    BY <2>1 DEF MarkBroadcast, PreparedRow
  <2>3. \A e \in Envelope : prepared[e].status \in {"absent", "confirmed"} \/ Loadable(e)
    BY <2>1 DEF Loadable, PreparedRow
  <2>4. CASE \E e \in Envelope : prepared[e].tx_hash = h
    <3>1. PICK e \in Envelope : prepared[e].tx_hash = h
      BY <2>4
    <3>2. e \in Matches[Lower[h]] /\ prepared[e].status # "absent"
      BY <2>1, <3>1 DEF RowsOK, RowOK
    <3>3. \A other \in Envelope \ {e} : prepared[other].tx_hash # h
      BY <2>1, <3>1 DEF OneEnvelopePerHash
    <3>4. ~Reused(e, h) /\ Unique(e, MarkBroadcast(prepared[e], h))
      BY <2>2, <3>3 DEF Reused, Unique
    <3> QED
      BY <2>1, <2>3, <3>2, <3>4
  <2>5. CASE \A e \in Envelope : prepared[e].tx_hash # h
    <3>1. PICK e \in Matches[Lower[h]] : prepared[e].status # "absent"
      BY <1>1, Names DEF Settled, Signed, ReceiptSucceeded
    <3>2. ~Reused(e, h) /\ Unique(e, MarkBroadcast(prepared[e], h))
      BY <2>1, <2>2, <2>5 DEF Reused, Unique
    <3> QED
      BY <2>1, <2>3, <3>1, <3>2
  <2> QED
    BY <2>4, <2>5
<1>2. Settled => MinedCanBeConfirmed
  BY <1>1 DEF MinedCanBeConfirmed
<1> QED
  BY <1>2, AlwaysSettled, PTL

\* What a step may do to a row that shows finality.
Overtaken(e) ==
  \/ \E p \in Poll : /\ polls[p].envelope = e /\ polls[p].pc = "storing"
                     /\ polls'[p].pc = "idle" /\ ~polls[p].loaded.final
  \/ \E c \in Confirm : /\ confirms[c].envelope = e /\ confirms[c].pc = "storing"
                        /\ confirms'[c].pc = "idle"

LEMMA FinalityStep ==
  ASSUME Settled, Next, NEW e \in Envelope,
         ShowsFinal(prepared[e]), ~ShowsFinal(prepared'[e])
  PROVE  Overtaken(e)
<1>1. /\ prepared \in [Envelope -> PreparedRow] /\ prepared[e] \in PreparedRow
      /\ polls \in [Poll -> PollRequest] /\ confirms \in [Confirm -> ConfirmRequest]
      /\ prepared[e].final /\ prepared[e].consensus_status = "FINALIZED"
      /\ prepared[e].status # "absent"
  BY DEF Settled, BlankRows, IInv, TypeOK, ShowsFinal
<1>2. e \in Deploy
  BY <1>1, LifecycleAssumption DEF Settled, ChainOK, Tracked, IInv, RowsOK, RowOK
<1>3. prepared'[e] # prepared[e]
  OBVIOUS
<1>4. ASSUME NEW f \in Envelope, Prepare(f) \/ Expire(f) PROVE FALSE
  <2>1. CASE Prepare(f)
    BY <1>1, <1>3, <2>1 DEF Prepare
  <2>2. CASE Expire(f)
    BY <1>1, <1>3, <2>2 DEF Expire, ShowsFinal, PreparedRow
  <2> QED
    BY <1>4, <2>1, <2>2
<1>5. ASSUME NEW c \in Confirm, ConfirmVerified(c) PROVE FALSE
  <2> DEFINE f == confirms[c].envelope
             loaded == confirms[c].loaded
             new == MarkBroadcast(loaded, confirms[c].hash)
  <2>1. loaded \in PreparedRow /\ f \in Envelope
    BY <1>5, BusyConfirm DEF ConfirmVerified, Settled
  <2>2. new.final = loaded.final /\ new.consensus_status = loaded.consensus_status
    BY <2>1 DEF MarkBroadcast, PreparedRow
  <2>3. prepared' = [prepared EXCEPT ![f] = Flush(prepared[f], loaded, new)]
    BY <1>5 DEF ConfirmVerified
  <2> HIDE DEF new, loaded, f
  <2> QED
    BY <1>1, <1>3, <2>1, <2>2, <2>3 DEF ShowsFinal, Flush, Column
<1>6. ASSUME NEW c \in Confirm, ConfirmTransfer(c) PROVE FALSE
  BY <1>1, <1>2, <1>3, <1>6, BusyConfirm DEF ConfirmTransfer, Settled
<1>7. ASSUME NEW c \in Confirm, ConfirmDeploy(c) PROVE Overtaken(e)
  <2>1. confirms[c].envelope = e
    BY <1>1, <1>3, <1>7, BusyConfirm DEF ConfirmDeploy, Settled
  <2>2. confirms[c].pc = "storing" /\ confirms'[c].pc = "idle"
    BY <1>1, <1>7 DEF ConfirmDeploy, IdleConfirm
  <2> QED
    BY <2>1, <2>2 DEF Overtaken
<1>8. ASSUME NEW p \in Poll, PollResolve(p) PROVE FALSE
  <2> DEFINE f == polls[p].envelope
             loaded == polls[p].loaded
             new == [loaded EXCEPT !.consensus_tx_id = ResolvedId(loaded.tx_hash)]
  <2>1. loaded \in PreparedRow /\ f \in Envelope
    BY <1>8, BusyPoll DEF PollResolve, Settled
  <2>2. new.final = loaded.final /\ new.consensus_status = loaded.consensus_status
    BY <2>1 DEF PreparedRow
  <2>3. prepared' = [prepared EXCEPT ![f] = Flush(prepared[f], loaded, new)]
    BY <1>8 DEF PollResolve
  <2> HIDE DEF new, loaded, f
  <2> QED
    BY <1>1, <1>3, <2>1, <2>2, <2>3 DEF ShowsFinal, Flush, Column
<1>9. ASSUME NEW p \in Poll, NEW found \in BOOLEAN, PollStore(p, found)
      PROVE  Overtaken(e)
  <2> DEFINE f == polls[p].envelope
             loaded == polls[p].loaded
             id == loaded.consensus_tx_id
             r == polls[p].read
  <2>1. loaded \in PreparedRow /\ f \in Envelope /\ polls[p].pc = "storing"
    BY <1>9, BusyPoll DEF PollStore, Settled
  <2>2. polls'[p].pc = "idle"
    BY <1>1, <1>9 DEF PollStore, IdlePoll
  <2>3. \/ prepared' = [prepared EXCEPT ![f] =
                          Flush(prepared[f], loaded, PolledRow(loaded, id, r))]
        \/ prepared' = [prepared EXCEPT ![f] = PolledRow(prepared[f], id, r)]
    BY <1>1, <1>9, <2>1 DEF PollStore
  <2>4. f = e
    BY <1>1, <1>3, <2>1, <2>3
  <2>5. CASE ~loaded.final
    BY <2>1, <2>2, <2>4, <2>5 DEF Overtaken
  <2>6. CASE loaded.final
    <3>1. r.status = "FINALIZED"
      BY <2>1, <2>6 DEF Settled, PollsAgree
    <3>2. ASSUME NEW row \in PreparedRow
          PROVE  /\ PolledRow(row, id, r).final = TRUE
                 /\ PolledRow(row, id, r).consensus_status = "FINALIZED"
      BY <3>1 DEF PolledRow, PreparedRow
    <3>3. ShowsFinal(PolledRow(prepared[f], id, r))
      BY <1>1, <2>4, <3>2 DEF ShowsFinal
    <3>4. loaded.final = TRUE
      BY <2>1, <2>6 DEF PreparedRow
    <3>5. ShowsFinal(Flush(prepared[f], loaded, PolledRow(loaded, id, r)))
      <4>1. /\ PolledRow(loaded, id, r).final = TRUE
            /\ PolledRow(loaded, id, r).consensus_status = "FINALIZED"
        BY <2>1, <3>2
      <4> HIDE DEF f, loaded, id, r
      <4> QED
        BY <1>1, <2>4, <3>4, <4>1 DEF ShowsFinal, Flush, Column
    <3>6. prepared'[e] \in {Flush(prepared[f], loaded, PolledRow(loaded, id, r)),
                            PolledRow(prepared[f], id, r)}
      <4> HIDE DEF f, loaded, id, r
      <4> QED
        BY <1>1, <2>3, <2>4
    <3>7. ShowsFinal(prepared'[e])
      BY <3>3, <3>5, <3>6
    <3> QED
      BY <3>7
  <2> QED
    BY <2>5, <2>6
<1>10. CASE Environment
  BY <1>3, <1>10 DEF Environment, Broadcast, LogAppears, Mine, Consensus, Lapse
<1>11. ASSUME NEW c \in Confirm,
              \/ ConfirmReceipt(c) \/ ConfirmDeployCut(c) \/ ConfirmFail(c)
              \/ \E f \in Envelope, h \in Hash : ConfirmLoad(c, f, h)
       PROVE  FALSE
  BY <1>3, <1>11 DEF ConfirmReceipt, ConfirmDeployCut, ConfirmFail, ConfirmLoad
<1>12. ASSUME NEW p \in Poll,
              \/ PollFail(p)
              \/ \E f \in Envelope : PollLoad(p, f)
              \/ \E r \in Reading : PollRead(p, r)
       PROVE  FALSE
  BY <1>3, <1>12 DEF PollFail, PollLoad, PollRead
<1>13. CASE Handlers
  BY <1>4, <1>5, <1>6, <1>7, <1>8, <1>9, <1>11, <1>12, <1>13 DEF Handlers
<1> QED
  BY <1>10, <1>13 DEF Next

\* A record that shows finality is taken back by no request that began after
\* it: neither by a new poll nor by a confirmation of a transfer.
THEOREM FinalityOutlivesNewPolls == Spec => OnlyOlderTakesBack
<1>1. ASSUME Settled, [Next]_vars, NEW e \in Envelope,
             ShowsFinal(prepared[e]) /\ ~ShowsFinal(prepared'[e])
      PROVE  Overtaken(e)
  <2>1. CASE UNCHANGED vars
    BY <1>1, <2>1 DEF vars
  <2> QED
    BY <1>1, <2>1, FinalityStep
<1>2. Settled /\ [Next]_vars =>
        [\A e \in Envelope : ShowsFinal(prepared[e]) /\ ~ShowsFinal(prepared'[e]) =>
           \/ \E p \in Poll : /\ polls[p].envelope = e /\ polls[p].pc = "storing"
                              /\ polls'[p].pc = "idle" /\ ~polls[p].loaded.final
           \/ \E c \in Confirm : /\ confirms[c].envelope = e /\ confirms[c].pc = "storing"
                                 /\ confirms'[c].pc = "idle"]_vars
  BY <1>1 DEF Overtaken
<1> QED
  BY <1>2, AlwaysSettled, PTL DEF Spec, OnlyOlderTakesBack

-----------------------------------------------------------------------------
(* The index implements SingleUseEnvelopes.                                *)

recordedBar == [e \in Envelope |-> prepared[e].tx_hash]
consumedBar == {e \in Envelope : prepared[e].status = "confirmed"}
minedBar == {t \in Transaction : chain[t].evm = "success"}

\* Only the EVM chain mines, one transaction at a time, and it takes none back.
LEMMA MinedShape ==
  ASSUME IInv, Next
  PROVE  \/ minedBar' = minedBar
         \/ \E t \in Transaction : minedBar' = minedBar \cup {t}
<1>1. chain \in [Transaction -> ChainRecord]
  BY DEF IInv, TypeOK
<1>2. ASSUME NEW t \in Transaction, Broadcast(t) \/ LogAppears(t)
      PROVE  minedBar' = minedBar
  <2>1. \A u \in Transaction : chain'[u].evm = "success" <=> chain[u].evm = "success"
    <3>1. CASE Broadcast(t)
      BY <1>1, <3>1 DEF Broadcast, ChainRecord
    <3>2. CASE LogAppears(t)
      BY <1>1, <3>2 DEF LogAppears, ChainRecord
    <3> QED
      BY <1>2, <3>1, <3>2
  <2> QED
    BY <2>1 DEF minedBar
<1>3. ASSUME NEW t \in Transaction, NEW outcome \in {"success", "reverted"}, Mine(t, outcome)
      PROVE  minedBar' = minedBar \/ minedBar' = minedBar \cup {t}
  BY <1>1, <1>3 DEF Mine, minedBar
<1>4. ASSUME NEW t \in Transaction, NEW status \in ConsensusStatus,
             NEW outcome \in {"NOT_VOTED", "RETURN", "ERROR"}, Consensus(t, status, outcome)
      PROVE  minedBar' = minedBar
  <2>1. \A u \in Transaction : chain'[u].evm = chain[u].evm
    BY <1>1, <1>4 DEF Consensus, ChainRecord
  <2> QED
    BY <2>1 DEF minedBar
<1>5. ASSUME NEW e \in Envelope, Lapse(e) PROVE minedBar' = minedBar
  BY <1>5 DEF Lapse, minedBar
<1>6. ASSUME Handlers PROVE chain' = chain
  BY <1>6 DEF Handlers, Prepare, Expire, ConfirmLoad, ConfirmVerified, ConfirmTransfer,
       ConfirmReceipt, ConfirmDeploy, ConfirmDeployCut, ConfirmFail, PollLoad, PollResolve,
       PollRead, PollStore, PollFail
<1>7. chain' = chain => minedBar' = minedBar
  BY DEF minedBar
<1> HIDE DEF minedBar
<1> QED
  BY <1>2, <1>3, <1>4, <1>5, <1>6, <1>7 DEF Next, Environment

\* A step that leaves hashes and statuses alone mines or stutters.
LEMMA KeptMaps ==
  ASSUME IInv, Next, \A e \in Envelope : Same(e)
  PROVE  [SingleUse!Next]_<<recordedBar, consumedBar, minedBar>>
<1>1. recordedBar' = recordedBar /\ consumedBar' = consumedBar
  BY DEF Same, recordedBar, consumedBar
<1>2. CASE minedBar' = minedBar
  BY <1>1, <1>2
<1>3. ASSUME NEW t \in Transaction, minedBar' = minedBar \cup {t}
      PROVE  SingleUse!Next
  BY <1>1, <1>3 DEF SingleUse!Next, SingleUse!Mine, SingleUse!Transaction, Transaction,
                    recordedBar, consumedBar, minedBar
<1> QED
  BY <1>2, <1>3, MinedShape

\* A written row records its hash, and consumes its envelope when it confirms it.
LEMMA WriteMaps ==
  ASSUME IInv, chain' = chain, NEW e \in Envelope, NEW row \in PreparedRow, Writes(e, row)
  PROVE  SingleUse!Next
<1> DEFINE h == row.tx_hash
<1>1. prepared \in [Envelope -> PreparedRow] /\ h \in Hash /\ e \in Matches[Lower[h]]
  BY LifecycleAssumption DEF IInv, TypeOK, Writes, RowOK
<1>2. prepared' = [prepared EXCEPT ![e] = row] /\ minedBar' = minedBar
  BY DEF Writes, minedBar
<1>3. recordedBar' = [recordedBar EXCEPT ![e] = h]
  BY <1>1, <1>2 DEF recordedBar
<1>4. SingleUse!Recordable(e, h)
  BY <1>1 DEF SingleUse!Recordable, Writes, Unique
<1>5. CASE row.status = prepared[e].status
  <2>1. consumedBar' = consumedBar
    BY <1>1, <1>2, <1>5 DEF consumedBar
  <2>2. SingleUse!Record(e, h)
    BY <1>2, <1>3, <1>4, <2>1 DEF SingleUse!Record, recordedBar, consumedBar, minedBar
  <2> QED
    BY <1>1, <2>2 DEF SingleUse!Next
<1>6. CASE row.status = "confirmed"
  <2>1. consumedBar' = consumedBar \cup {e}
    BY <1>1, <1>2, <1>6 DEF consumedBar
  <2>2. \E t \in minedBar : e \in Matches[t]
    BY <1>6 DEF Writes, RowOK, minedBar
  <2>3. SingleUse!Consume(e, h)
    BY <1>2, <1>3, <1>4, <2>1, <2>2
       DEF SingleUse!Consume, recordedBar, consumedBar, minedBar
  <2> QED
    BY <1>1, <2>3 DEF SingleUse!Next
<1> QED
  BY <1>5, <1>6 DEF Writes

LEMMA StepMaps ==
  IInv /\ [Next]_vars => [SingleUse!Next]_<<recordedBar, consumedBar, minedBar>>
<1> SUFFICES ASSUME IInv, [Next]_vars
             PROVE  [SingleUse!Next]_<<recordedBar, consumedBar, minedBar>>
  OBVIOUS
<1>1. CASE UNCHANGED vars
  BY <1>1 DEF vars, recordedBar, consumedBar, minedBar
<1>2. CASE Next
  BY <1>2, StepShape, KeptMaps, WriteMaps
<1> QED
  BY <1>1, <1>2

\* Every behaviour of the index is one of single-use envelopes: a consumed one
\* was mined, and a hash is recorded for one envelope at a time.
THEOREM IndexIsSingleUse == Spec => ImplementsSingleUse
<1>1. Init => SingleUse!Init
  BY DEF Init, SingleUse!Init, NewRow
<1>2. IInv /\ [Next]_vars => [SingleUse!Next]_SingleUse!vars
  BY StepMaps DEF SingleUse!vars, recordedBar, consumedBar, minedBar
<1> QED
  BY <1>1, <1>2, Inductive, PTL DEF Spec, ImplementsSingleUse, SingleUse!Spec

=============================================================================
