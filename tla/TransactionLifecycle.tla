------------------------ MODULE TransactionLifecycle ------------------------
(***************************************************************************)
(* The life of a wallet transaction in the backend: the rows of            *)
(* prepared_transactions and workflow_deployments, the requests that write *)
(* them (POST /chat/confirm and POST /chat/consensus-status) and the two   *)
(* chains they read, the EVM chain that carries the wallet's transaction   *)
(* and GenLayer's consensus on it.                                         *)
(*                                                                         *)
(* Both handlers are coroutines of one event loop.  What a handler does    *)
(* between two awaits is one action; every await is a point where the      *)
(* other requests run, and where the request can end: an RPC error, a      *)
(* timeout and a restart of the process all leave the committed rows as    *)
(* they are.  Each request has a database session of its own: it decides   *)
(* on the row it LOADED, and its commit writes only the columns it changed *)
(* with respect to that copy (Flush), unless an earlier commit of the same *)
(* request has expired the copy.                                           *)
(*                                                                         *)
(* A hash is a text.  The nodes read any case of it, the verification      *)
(* compares in lower case, and everything the backend stores or looks up   *)
(* by hash is the text as the client wrote it.                             *)
(*                                                                         *)
(* Contract calls and notary registries take the same path with other      *)
(* index rows, which this module leaves out.                               *)
(***************************************************************************)
EXTENDS Naturals, Sequences

CONSTANTS
  Envelope,         \* prepared_transactions ids of one user
  Deploy,           \* the envelopes whose action is deploy_contract with a
                    \* workflow_config; the others are transfers
  Hash,             \* hashes of the wallet's transactions, as texts
  Lower,            \* Lower[h]: the text h in lower case
  Matches,          \* Matches[t]: the envelopes t's fields verify against
  Confirm,          \* slots for concurrent /confirm requests
  Poll,             \* slots for concurrent /consensus-status requests
  MaxDeployments,   \* bound on the rows of workflow_deployments
  NULL

\* A transaction is named by its hash in lower case, as chains write it.
Transaction == {h \in Hash : Lower[h] = h}

ASSUME LifecycleAssumption ==
  /\ Deploy \subseteq Envelope
  /\ Lower \in [Hash -> Hash]
  /\ \A h \in Hash : Lower[Lower[h]] = Lower[h]
  /\ Matches \in [Transaction -> SUBSET Envelope]
  /\ \A t \in Transaction : Matches[t] \subseteq Deploy \/ Matches[t] \cap Deploy = {}
  /\ MaxDeployments \in Nat
  /\ NULL \notin Hash /\ NULL \notin Envelope

VARIABLES
  prepared,         \* prepared_transactions
  deployments,      \* workflow_deployments, in the order of insertion
  overdue,          \* envelopes whose expires_at has passed
  chain,            \* per transaction: its state and GenLayer's view of it
  confirms,         \* the /confirm requests in flight
  polls             \* the /consensus-status requests in flight

vars == <<prepared, deployments, overdue, chain, confirms, polls>>

-----------------------------------------------------------------------------
(* Values.  PENDING stands for the statuses in which validators work and   *)
(* UNDETERMINED for the terminal ones that are not final (UNDETERMINED,    *)
(* CANCELED, VALIDATORS_TIMEOUT, LEADER_TIMEOUT): the code treats the      *)
(* members of each group alike.  A GenLayer id is named by the hash of the *)
(* EVM transaction that created it.                                        *)

ConsensusStatus == {"PENDING", "ACCEPTED", "UNDETERMINED", "FINALIZED"}
ExecutionStatus == {"UNKNOWN", "NOT_VOTED", "RETURN", "ERROR"}
MaybeHash == Hash \cup {NULL}
MaybeId == Transaction \cup {NULL}

PreparedRow ==
  [status: {"absent", "prepared", "expired", "confirmed"},
   tx_hash: MaybeHash,
   consensus_tx_id: MaybeId,
   evm_status: {"NOT_BROADCAST", "BROADCAST", "SUCCESS"},
   lifecycle_status: {"PREPARED", "BROADCAST", "CHAIN_ACCEPTED",
                      "CONSENSUS_PENDING", "UNDETERMINED", "FINALIZED"},
   consensus_status: ConsensusStatus \cup {"UNINITIALIZED", "CONSENSUS_PENDING"},
   execution_status: ExecutionStatus,
   final: BOOLEAN,
   terminal: BOOLEAN]

\* workflow_deployments.status is a function of the other columns, and
\* contract_address is one value or NULL: "exposed" says which.
DeploymentRow ==
  [deploy_tx_hash: Hash,
   consensus_tx_id: MaybeId,
   consensus_status: ConsensusStatus \cup {"UNINITIALIZED", "CONSENSUS_PENDING"},
   execution_status: ExecutionStatus,
   final: BOOLEAN,
   terminal: BOOLEAN,
   exposed: BOOLEAN]

\* logged: the receipt carries the event that names the GenLayer id.
ChainRecord ==
  [evm: {"unsent", "visible", "success", "reverted"},
   logged: BOOLEAN,
   consensus: ConsensusStatus,
   execution: {"NOT_VOTED", "RETURN", "ERROR"}]

\* What a poll has read of the chain, before it stores it.
Reading ==
  [status: ConsensusStatus, execution: ExecutionStatus, terminal: BOOLEAN]

ConfirmRequest ==
  [pc: {"idle", "verifying", "receipt", "storing"},
   envelope: Envelope \cup {NULL}, hash: MaybeHash, id: MaybeId,
   loaded: PreparedRow]

PollRequest ==
  [pc: {"idle", "resolving", "reading", "storing"},
   envelope: Envelope \cup {NULL}, loaded: PreparedRow, read: Reading]

TypeOK ==
  /\ prepared \in [Envelope -> PreparedRow]
  /\ deployments \in Seq(DeploymentRow)
  /\ overdue \subseteq Envelope
  /\ chain \in [Transaction -> ChainRecord]
  /\ confirms \in [Confirm -> ConfirmRequest]
  /\ polls \in [Poll -> PollRequest]

NewRow(status) ==
  [status |-> status, tx_hash |-> NULL, consensus_tx_id |-> NULL,
   evm_status |-> "NOT_BROADCAST", lifecycle_status |-> "PREPARED",
   consensus_status |-> "UNINITIALIZED", execution_status |-> "UNKNOWN",
   final |-> FALSE, terminal |-> FALSE]

IdleConfirm ==
  [pc |-> "idle", envelope |-> NULL, hash |-> NULL, id |-> NULL,
   loaded |-> NewRow("absent")]

NoReading == [status |-> "PENDING", execution |-> "UNKNOWN", terminal |-> FALSE]

IdlePoll ==
  [pc |-> "idle", envelope |-> NULL, loaded |-> NewRow("absent"), read |-> NoReading]

Init ==
  /\ prepared = [e \in Envelope |-> NewRow("absent")]
  /\ deployments = <<>>
  /\ overdue = {}
  /\ chain = [t \in Transaction |-> [evm |-> "unsent", logged |-> FALSE,
                                     consensus |-> "PENDING", execution |-> "NOT_VOTED"]]
  /\ confirms = [c \in Confirm |-> IdleConfirm]
  /\ polls = [p \in Poll |-> IdlePoll]

-----------------------------------------------------------------------------
(* What the session writes.                                                *)

\* A column is in the UPDATE only when its new value differs from the loaded one.
Column(stored, loaded, new) == IF new = loaded THEN stored ELSE new

\* The stored row after a session that loaded `loaded` commits it as `new`.
Flush(stored, loaded, new) ==
  [status |-> Column(stored.status, loaded.status, new.status),
   tx_hash |-> Column(stored.tx_hash, loaded.tx_hash, new.tx_hash),
   consensus_tx_id |->
     Column(stored.consensus_tx_id, loaded.consensus_tx_id, new.consensus_tx_id),
   evm_status |-> Column(stored.evm_status, loaded.evm_status, new.evm_status),
   lifecycle_status |->
     Column(stored.lifecycle_status, loaded.lifecycle_status, new.lifecycle_status),
   consensus_status |->
     Column(stored.consensus_status, loaded.consensus_status, new.consensus_status),
   execution_status |->
     Column(stored.execution_status, loaded.execution_status, new.execution_status),
   final |-> Column(stored.final, loaded.final, new.final),
   terminal |-> Column(stored.terminal, loaded.terminal, new.terminal)]

\* The UNIQUE constraint on prepared_transactions.tx_hash, for a row of e: it
\* compares texts.
Unique(e, row) == \A other \in Envelope \ {e} : prepared[other].tx_hash # row.tx_hash

\* Mutant: the broadcast consumes the envelope.
MarkBroadcastConsumed(row, h) ==
  [row EXCEPT !.tx_hash = h, !.status = "confirmed", !.evm_status = "BROADCAST",
              !.lifecycle_status = "BROADCAST"]

MarkBroadcast(row, h) ==
  [row EXCEPT !.tx_hash = h, !.evm_status = "BROADCAST",
              !.lifecycle_status = "BROADCAST"]

MarkConfirmed(row, h, id) ==
  [row EXCEPT
     !.tx_hash = h,
     !.consensus_tx_id = id,
     !.status = "confirmed",
     !.evm_status = "SUCCESS",
     !.consensus_status = IF id = NULL THEN "UNINITIALIZED" ELSE "CONSENSUS_PENDING",
     !.lifecycle_status = IF id = NULL THEN "CHAIN_ACCEPTED" ELSE "CONSENSUS_PENDING",
     !.final = FALSE,
     !.terminal = (id = NULL)]

NewDeployment(h, id) ==
  [deploy_tx_hash |-> h, consensus_tx_id |-> id,
   consensus_status |-> IF id = NULL THEN "UNINITIALIZED" ELSE "CONSENSUS_PENDING",
   execution_status |-> "UNKNOWN", final |-> FALSE, terminal |-> FALSE,
   exposed |-> FALSE]

\* Mutant: the protocol's status is taken for the lifecycle.
PolledRowRawStatus(row, id, r) ==
  [row EXCEPT !.consensus_status = r.status, !.lifecycle_status = r.status,
              !.execution_status = r.execution, !.final = (r.status = "FINALIZED")]

\* Mutant: a record is final when polling may stop.
PolledRowFinalIfTerminal(row, id, r) ==
  [row EXCEPT !.consensus_status = r.status, !.execution_status = r.execution,
              !.final = r.terminal, !.terminal = r.terminal]

\* What the two update functions make of a reading.  The envelope keeps the
\* reading's terminal flag; the deployment row takes its own from the status.
PolledRow(row, id, r) ==
  [row EXCEPT
     !.consensus_tx_id = IF @ = NULL THEN id ELSE @,
     !.evm_status = "SUCCESS",
     !.consensus_status = r.status,
     !.execution_status = r.execution,
     !.final = (r.status = "FINALIZED"),
     !.terminal = r.terminal,
     !.lifecycle_status =
       CASE r.status = "FINALIZED" -> "FINALIZED"
         [] r.status # "FINALIZED" /\ r.terminal -> r.status
         [] OTHER -> "CONSENSUS_PENDING"]

\* Mutant: a finalized deployment is exposed whatever its execution returned.
PolledDeploymentAnyOutcome(row, r, found) ==
  [row EXCEPT !.consensus_status = r.status, !.final = (r.status = "FINALIZED"),
              !.exposed = (r.status = "FINALIZED" /\ found)]

PolledDeployment(row, r, found) ==
  [row EXCEPT
     !.consensus_status = r.status,
     !.execution_status = r.execution,
     !.final = (r.status = "FINALIZED"),
     !.terminal = (r.status \in {"FINALIZED", "UNDETERMINED"}),
     !.exposed = CASE r.status = "FINALIZED" -> r.execution = "RETURN" /\ (found \/ @)
                   [] r.status = "UNDETERMINED" -> FALSE
                   [] OTHER -> @]

\* The newest deployment row that carries the GenLayer id, if there is one.
Latest(id) ==
  {i \in DOMAIN deployments :
     /\ deployments[i].consensus_tx_id = id
     /\ \A j \in DOMAIN deployments : deployments[j].consensus_tx_id = id => j <= i}

-----------------------------------------------------------------------------
(* The environment: the wallet, the EVM chain, GenLayer and the clock.     *)

Tracked(t) == Matches[t] \cap Deploy # {}

\* The wallet signs what a reviewed envelope says and sends it.
Broadcast(t) ==
  /\ chain[t].evm = "unsent"
  /\ \E e \in Matches[t] : prepared[e].status # "absent"
  /\ chain' = [chain EXCEPT ![t].evm = "visible"]
  /\ UNCHANGED <<prepared, deployments, overdue, confirms, polls>>

\* Transactions that verify against one envelope have its nonce: one is mined.
Mine(t, outcome) ==
  /\ chain[t].evm = "visible"
  /\ \A u \in Transaction : Matches[u] \cap Matches[t] # {} =>
                       chain[u].evm \notin {"success", "reverted"}
  /\ outcome \in {"success", "reverted"}
  /\ chain' = [chain EXCEPT ![t].evm = outcome]
  /\ UNCHANGED <<prepared, deployments, overdue, confirms, polls>>

\* The receipt shows the event that names the GenLayer transaction.
LogAppears(t) ==
  /\ chain[t].evm = "success" /\ Tracked(t) /\ ~chain[t].logged
  /\ chain' = [chain EXCEPT ![t].logged = TRUE]
  /\ UNCHANGED <<prepared, deployments, overdue, confirms, polls>>

\* Validators decide, an appeal reopens a decision, and finality ends it.
Consensus(t, status, outcome) ==
  /\ chain[t].evm = "success" /\ Tracked(t)
  /\ chain[t].consensus \notin {"FINALIZED", status}
  /\ status = "FINALIZED" => chain[t].consensus # "PENDING"
  /\ outcome # "NOT_VOTED" => status = "FINALIZED"
  /\ chain' = [chain EXCEPT ![t].consensus = status, ![t].execution = outcome]
  /\ UNCHANGED <<prepared, deployments, overdue, confirms, polls>>

\* Ten minutes after an envelope was prepared.
Lapse(e) ==
  /\ prepared[e].status # "absent" /\ e \notin overdue
  /\ overdue' = overdue \cup {e}
  /\ UNCHANGED <<prepared, deployments, chain, confirms, polls>>

-----------------------------------------------------------------------------
(* The backend.                                                            *)

\* create_prepared_transaction
Prepare(e) ==
  /\ prepared[e].status = "absent"
  /\ prepared' = [prepared EXCEPT ![e] = NewRow("prepared")]
  /\ UNCHANGED <<deployments, overdue, chain, confirms, polls>>

\* Mutant: the age of the envelope is tested before its status.
ExpireAnyStatus(e) ==
  /\ prepared[e].status # "absent" /\ e \in overdue
  /\ prepared' = [prepared EXCEPT ![e].status = "expired"]
  /\ UNCHANGED <<deployments, overdue, chain, confirms, polls>>

\* A confirmation without a hash finds the envelope overdue: 410.  Every
\* other confirmation without a hash is refused and changes nothing.
Expire(e) ==
  /\ prepared[e].status = "prepared" /\ e \in overdue
  /\ prepared' = [prepared EXCEPT ![e].status = "expired"]
  /\ UNCHANGED <<deployments, overdue, chain, confirms, polls>>

\* Mutant: no reconciliation of expired envelopes.
LoadableUnexpired(e) == prepared[e].status = "prepared"

\* load_prepared_transaction lets a hash through for an expired envelope; a
\* confirmed one is answered from the record.
Loadable(e) == prepared[e].status \in {"prepared", "expired"}

\* Another envelope was confirmed with the very text h.
Reused(e, h) ==
  \E other \in Envelope \ {e} :
    prepared[other].tx_hash = h /\ prepared[other].status = "confirmed"

ConfirmLoad(c, e, h) ==
  /\ confirms[c].pc = "idle"
  /\ Loadable(e) /\ ~Reused(e, h)
  /\ confirms' = [confirms EXCEPT ![c] =
       [pc |-> "verifying", envelope |-> e, hash |-> h, id |-> NULL,
        loaded |-> prepared[e]]]
  /\ UNCHANGED <<prepared, deployments, overdue, chain, polls>>

\* verify_submitted_transaction: the node shows the transaction, whose hash is
\* h in lower case, and its fields are the reviewed ones.
Verified(e, h) == chain[Lower[h]].evm # "unsent" /\ e \in Matches[Lower[h]]

\* The verification answers: mark_prepared_transaction_broadcast, and the log
\* line that follows the commit loads the row again.
ConfirmVerified(c) ==
  LET e == confirms[c].envelope
      h == confirms[c].hash
      row == Flush(prepared[e], confirms[c].loaded, MarkBroadcast(confirms[c].loaded, h))
  IN  /\ confirms[c].pc = "verifying"
      /\ Verified(e, h)
      /\ Unique(e, row)
      /\ prepared' = [prepared EXCEPT ![e] = row]
      /\ confirms' = [confirms EXCEPT ![c].pc = "receipt", ![c].loaded = row]
      /\ UNCHANGED <<deployments, overdue, chain, polls>>

ReceiptSucceeded(h) == chain[Lower[h]].evm = "success"

\* The receipt of a transfer: mark_prepared_transaction_confirmed on the row
\* as loaded.
ConfirmTransfer(c) ==
  LET e == confirms[c].envelope
      h == confirms[c].hash
      loaded == confirms[c].loaded
      row == Flush(prepared[e], loaded, MarkConfirmed(loaded, h, NULL))
  IN  /\ confirms[c].pc = "receipt" /\ e \notin Deploy
      /\ ReceiptSucceeded(h)
      /\ Unique(e, row)
      /\ prepared' = [prepared EXCEPT ![e] = row]
      /\ confirms' = [confirms EXCEPT ![c] = IdleConfirm]
      /\ UNCHANGED <<deployments, overdue, chain, polls>>

\* Mutant: the EVM hash serves as GenLayer id while the receipt shows none.
ResolvedIdOrHash(h) == Lower[h]

\* get_consensus_transaction_id: the receipt may not show the event yet.
ResolvedId(h) == IF chain[Lower[h]].logged THEN Lower[h] ELSE NULL

\* The receipt of a deployment, and the GenLayer id read from it.
ConfirmReceipt(c) ==
  LET h == confirms[c].hash
  IN  /\ confirms[c].pc = "receipt" /\ confirms[c].envelope \in Deploy
      /\ ReceiptSucceeded(h)
      /\ confirms' = [confirms EXCEPT ![c].pc = "storing", ![c].id = ResolvedId(h)]
      /\ UNCHANGED <<prepared, deployments, overdue, chain, polls>>

\* persist_workflow_deployment commits, which expires the loaded row, so that
\* mark_prepared_transaction_confirmed writes every column it assigns.
ConfirmDeploy(c) ==
  LET e == confirms[c].envelope
      h == confirms[c].hash
      row == MarkConfirmed(prepared[e], h, confirms[c].id)
  IN  /\ confirms[c].pc = "storing"
      /\ Len(deployments) < MaxDeployments
      /\ Unique(e, row)
      /\ deployments' = Append(deployments, NewDeployment(h, confirms[c].id))
      /\ prepared' = [prepared EXCEPT ![e] = row]
      /\ confirms' = [confirms EXCEPT ![c] = IdleConfirm]
      /\ UNCHANGED <<overdue, chain, polls>>

\* Mutant: the envelope is consumed before its deployment is stored.
ConfirmDeployCutAfterEnvelope(c) ==
  LET e == confirms[c].envelope
      row == MarkConfirmed(prepared[e], confirms[c].hash, confirms[c].id)
  IN  /\ confirms[c].pc = "storing"
      /\ Unique(e, row)
      /\ prepared' = [prepared EXCEPT ![e] = row]
      /\ confirms' = [confirms EXCEPT ![c] = IdleConfirm]
      /\ UNCHANGED <<deployments, overdue, chain, polls>>

\* The request ends between the two commits: the database refuses the second
\* one, or the process stops.
ConfirmDeployCut(c) ==
  /\ confirms[c].pc = "storing"
  /\ Len(deployments) < MaxDeployments
  /\ deployments' = Append(deployments, NewDeployment(confirms[c].hash, confirms[c].id))
  /\ confirms' = [confirms EXCEPT ![c] = IdleConfirm]
  /\ UNCHANGED <<prepared, overdue, chain, polls>>

\* A refusal, an RPC error, a reverted or late receipt, a violated UNIQUE
\* constraint, a restart: the request ends, the committed rows stay.
ConfirmFail(c) ==
  /\ confirms[c].pc # "idle"
  /\ confirms' = [confirms EXCEPT ![c] = IdleConfirm]
  /\ UNCHANGED <<prepared, deployments, overdue, chain, polls>>

\* A poll of a confirmed envelope, by its GenLayer id or by the EVM hash.
PollLoad(p, e) ==
  /\ polls[p].pc = "idle"
  /\ prepared[e].status = "confirmed"
  /\ polls' = [polls EXCEPT ![p] =
       [pc |-> IF prepared[e].consensus_tx_id = NULL THEN "resolving" ELSE "reading",
        envelope |-> e, loaded |-> prepared[e], read |-> NoReading]]
  /\ UNCHANGED <<prepared, deployments, overdue, chain, confirms>>

\* The missing id is found: it is committed to the envelope, which is loaded again.
PollResolve(p) ==
  LET e == polls[p].envelope
      loaded == polls[p].loaded
      row == Flush(prepared[e], loaded,
                   [loaded EXCEPT !.consensus_tx_id = ResolvedId(loaded.tx_hash)])
  IN  /\ polls[p].pc = "resolving"
      /\ ResolvedId(loaded.tx_hash) # NULL
      /\ prepared' = [prepared EXCEPT ![e] = row]
      /\ polls' = [polls EXCEPT ![p].pc = "reading", ![p].loaded = row]
      /\ UNCHANGED <<deployments, overdue, chain, confirms>>

\* What the node may answer on a GenLayer transaction.  The execution result of
\* a final one may not be readable yet: the reading then is not terminal, unless
\* the diagnostics say that no validator was ever assigned.
Readings(id) ==
  {r \in Reading :
     /\ r.status = chain[id].consensus
     /\ r.execution \in IF r.status = "FINALIZED"
                        THEN {"UNKNOWN", chain[id].execution} ELSE {"NOT_VOTED"}
     /\ CASE r.status = "FINALIZED" ->
               /\ r.execution \in {"RETURN", "ERROR"} => r.terminal
               /\ r.terminal /\ r.execution \notin {"RETURN", "ERROR"} =>
                    chain[id].execution = "NOT_VOTED"
          [] OTHER -> r.terminal = (r.status = "UNDETERMINED")}

PollRead(p, r) ==
  /\ polls[p].pc = "reading"
  /\ r \in Readings(polls[p].loaded.consensus_tx_id)
  /\ polls' = [polls EXCEPT ![p].pc = "storing", ![p].read = r]
  /\ UNCHANGED <<prepared, deployments, overdue, chain, confirms>>

\* update_workflow_consensus_state, then update_prepared_consensus_state.  The
\* first commits when it finds a deployment row and so expires the envelope.
PollStore(p, found) ==
  LET e == polls[p].envelope
      loaded == polls[p].loaded
      id == loaded.consensus_tx_id
      r == polls[p].read
      rows == IF e \in Deploy THEN Latest(id) ELSE {}
  IN  /\ polls[p].pc = "storing"
      /\ deployments' = [i \in DOMAIN deployments |->
           IF i \in rows THEN PolledDeployment(deployments[i], r, found)
                         ELSE deployments[i]]
      /\ prepared' = [prepared EXCEPT
           ![e] = IF rows = {} THEN Flush(@, loaded, PolledRow(loaded, id, r))
                               ELSE PolledRow(@, id, r)]
      /\ polls' = [polls EXCEPT ![p] = IdlePoll]
      /\ UNCHANGED <<overdue, chain, confirms>>

\* The request ends at any of its awaits.
PollFail(p) ==
  /\ polls[p].pc # "idle"
  /\ polls' = [polls EXCEPT ![p] = IdlePoll]
  /\ UNCHANGED <<prepared, deployments, overdue, chain, confirms>>

-----------------------------------------------------------------------------
Environment ==
  \/ \E t \in Transaction : Broadcast(t) \/ LogAppears(t)
  \/ \E t \in Transaction, outcome \in {"success", "reverted"} : Mine(t, outcome)
  \/ \E t \in Transaction, status \in ConsensusStatus,
        outcome \in {"NOT_VOTED", "RETURN", "ERROR"} : Consensus(t, status, outcome)
  \/ \E e \in Envelope : Lapse(e)

Handlers ==
  \/ \E e \in Envelope : Prepare(e) \/ Expire(e)
  \/ \E c \in Confirm, e \in Envelope, h \in Hash : ConfirmLoad(c, e, h)
  \/ \E c \in Confirm : ConfirmVerified(c) \/ ConfirmTransfer(c) \/ ConfirmReceipt(c)
  \/ \E c \in Confirm : ConfirmDeploy(c) \/ ConfirmDeployCut(c) \/ ConfirmFail(c)
  \/ \E p \in Poll, e \in Envelope : PollLoad(p, e)
  \/ \E p \in Poll : PollResolve(p) \/ PollFail(p)
  \/ \E p \in Poll, r \in Reading : PollRead(p, r)
  \/ \E p \in Poll, found \in BOOLEAN : PollStore(p, found)

Next == Environment \/ Handlers

Spec == Init /\ [][Next]_vars

\* The message keeps its hash, in lower case as the wallet returned it, and the
\* user confirms it again until it is answered, a request always ends (it has
\* timeouts and bounded retries), and RPC errors do not last for ever.
Retry(e, h) == \E c \in Confirm : ConfirmLoad(c, e, h)
Answer(h) == \E c \in Confirm : confirms[c].hash = h /\ ConfirmVerified(c)
Receive(c) == ConfirmTransfer(c) \/ ConfirmReceipt(c) \/ ConfirmDeploy(c)
ReceiptOf(h) == \E c \in Confirm : confirms[c].hash = h /\ Receive(c)
Progress(c) == ConfirmVerified(c) \/ Receive(c) \/ ConfirmFail(c)

Fairness ==
  /\ \A e \in Envelope, t \in Transaction : SF_vars(Retry(e, t))
  /\ \A t \in Transaction : SF_vars(Answer(t)) /\ SF_vars(ReceiptOf(t))
  /\ \A c \in Confirm : WF_vars(Progress(c))

FairSpec == Spec /\ Fairness

-----------------------------------------------------------------------------
(* Properties.                                                             *)

\* No two envelopes of the index carry the same text of a hash, whatever
\* confirmations interleave.
OneEnvelopePerHash ==
  \A e, f \in Envelope :
    prepared[e].tx_hash # NULL /\ prepared[e].tx_hash = prepared[f].tx_hash => e = f

\* "A hash belonging to a different prepared intent remains rejected": no two
\* envelopes of the index carry one transaction, however its hash is written.
OneEnvelopePerTransaction ==
  \A e, f \in Envelope :
    /\ prepared[e].tx_hash # NULL /\ prepared[f].tx_hash # NULL
    /\ Lower[prepared[e].tx_hash] = Lower[prepared[f].tx_hash]
    => e = f

\* A confirmed envelope was executed: a transaction with exactly the reviewed
\* fields was mined and did not revert.
ConfirmedMeansMined ==
  \A e \in Envelope : prepared[e].status = "confirmed" =>
    \E t \in Transaction : e \in Matches[t] /\ chain[t].evm = "success"

\* Finality is never inferred from a receipt: a final envelope has a
\* transaction that GenLayer finalized.
FinalMeansFinalized ==
  \A e \in Envelope : prepared[e].final =>
    \E t \in Transaction : e \in Matches[t] /\ chain[t].consensus = "FINALIZED"

\* The index names a contract address only when the deployment of that very row
\* is finalized and its execution returned, stale answers included.
ExposedMeansReturned ==
  \A i \in DOMAIN deployments : deployments[i].exposed =>
    LET t == Lower[deployments[i].deploy_tx_hash]
    IN  chain[t].consensus = "FINALIZED" /\ chain[t].execution = "RETURN"

\* A GenLayer id in the index is one that a mined transaction with the reviewed
\* fields announced, and a deployment row carries the id of its own transaction.
TrackedIdIsOwn ==
  /\ \A e \in Envelope : LET id == prepared[e].consensus_tx_id
                         IN  id # NULL => e \in Matches[id] /\ chain[id].logged
  /\ \A i \in DOMAIN deployments :
       LET id == deployments[i].consensus_tx_id
       IN  id # NULL => id = Lower[deployments[i].deploy_tx_hash] /\ chain[id].logged

\* Two commits, the deployment row first: a request cut between them leaves a
\* row without a consumed envelope, never a consumed envelope without a row.
ConfirmedIsIndexed ==
  \A e \in Deploy : prepared[e].status = "confirmed" =>
    \E i \in DOMAIN deployments : e \in Matches[Lower[deployments[i].deploy_tx_hash]]

\* A consumed envelope stays consumed: no late expiry, confirmation or poll
\* makes it confirmable again.
ConsumedForGood ==
  [][\A e \in Envelope :
       prepared[e].status = "confirmed" => prepared'[e].status = "confirmed"]_vars

\* The index implements the promise of single use, which is a promise about
\* texts of hashes.
SingleUse == INSTANCE SingleUseEnvelopes WITH
  recorded <- [e \in Envelope |-> prepared[e].tx_hash],
  consumed <- {e \in Envelope : prepared[e].status = "confirmed"},
  mined <- {t \in Transaction : chain[t].evm = "success"}

ImplementsSingleUse == SingleUse!Spec

\* A mined transaction is accounted for in the end, though its first
\* confirmation failed, timed out or came after the envelope expired.
Reconciled ==
  \A t \in Transaction : chain[t].evm = "success" ~>
    \E e \in Matches[t] : prepared[e].status = "confirmed"

\* A mined transaction is never stranded: whatever was confirmed, expired or
\* failed before, in whatever case its hash is or was written, it is accounted
\* for, or an envelope it verifies against still loads and neither the
\* reused-hash query nor the UNIQUE column refuses it.
MinedCanBeConfirmed ==
  \A h \in Hash : ReceiptSucceeded(h) =>
    \E e \in Matches[Lower[h]] :
      \/ prepared[e].status = "confirmed"
      \/ Loadable(e) /\ ~Reused(e, h) /\ Unique(e, MarkBroadcast(prepared[e], h))

\* A record that shows finality is taken back only by a request that is older
\* than it: a poll that had loaded the row before it was final, or a second
\* confirmation that was under way when the envelope was consumed.  A poll of
\* a final record leaves it final, unreadable execution results included.
ShowsFinal(row) == row.final /\ row.consensus_status = "FINALIZED"

OnlyOlderTakesBack ==
  [][\A e \in Envelope : ShowsFinal(prepared[e]) /\ ~ShowsFinal(prepared'[e]) =>
       \/ \E p \in Poll : /\ polls[p].envelope = e /\ polls[p].pc = "storing"
                          /\ polls'[p].pc = "idle" /\ ~polls[p].loaded.final
       \/ \E c \in Confirm : /\ confirms[c].envelope = e /\ confirms[c].pc = "storing"
                             /\ confirms'[c].pc = "idle"]_vars

\* Resubmitting a hash is idempotent: a deployment has one index row.
OneDeploymentPerHash ==
  \A i, j \in DOMAIN deployments :
    deployments[i].deploy_tx_hash = deployments[j].deploy_tx_hash => i = j

\* workflow_deployments stores the lifecycle of its envelope: a deployment whose
\* envelope is final is final in the index.
DeploymentFollowsEnvelope ==
  \A e \in Envelope, i \in DOMAIN deployments :
    prepared[e].final /\ deployments[i].deploy_tx_hash = prepared[e].tx_hash =>
      deployments[i].final

=============================================================================
