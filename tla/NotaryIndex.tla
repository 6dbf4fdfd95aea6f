---------------------------- MODULE NotaryIndex -----------------------------
(***************************************************************************)
(* The backend's index of notary registries and claims (notary_registries  *)
(* and notary_claims) beside the contract it describes.                    *)
(*                                                                         *)
(* A transaction is built for a deployment or for a call of the owner's    *)
(* registry, broadcast, confirmed (which stores the index row), decided by *)
(* validators, and polled (which updates the row); a reader of a claim     *)
(* also writes its row.  As in TransactionLifecycle the handlers are       *)
(* coroutines: what they do between two awaits is one step, and a request  *)
(* may end at any await.  One hash is one envelope here, and what the      *)
(* envelope records beside its status and GenLayer id is left out: that is *)
(* TransactionLifecycle's subject.  Some calls are made without the app.    *)
(***************************************************************************)
EXTENDS NotaryRegistry, Functions, FiniteSets

CONSTANTS
  Hash,         \* the transactions
  Bypass,       \* those that are sent without the app
  Direct,       \* Direct[h]: what h may say if it is sent without the app
  Wanted,       \* the operations they may be for, as functions of the hash
  Answer,       \* Answer[h]: what the model may answer, besides malformed text, in h
  Draft,        \* what claimants write in the app
  ClaimId,      \* ClaimId[d]: the digest the backend names a reviewed draft by
  Poll,         \* slots for the /consensus-status requests in flight
  MaxRequests   \* bound on the requests in flight

VARIABLES
  txs,          \* per hash: envelope, chain and consensus
  confirms,     \* per hash: the /confirm requests that passed the status check
  registries,   \* notary_registries, besides the active row of the registry
  claims,       \* notary_claims of the owner's registry
  polls,        \* the /consensus-status requests in flight
  read          \* a request for a claim's record in flight

indexVars == <<registries, claims>>
vars == <<executionVars, txs, confirms, indexVars, polls, read>>

-----------------------------------------------------------------------------
\* validate_notary_spec: a draft as review returns it.
Canonical(content) ==
  [content EXCEPT !.source_urls = [i \in DOMAIN @ |-> Normalized(@[i])]]

\* Its source URLs must differ in the spelling review gives them.
Reviewed(content) ==
  LET urls == content.source_urls IN
  /\ Len(urls) \in 1 .. MaxSources
  /\ \A i \in DOMAIN urls : validate_public_https_url(urls[i])
  /\ \A i, j \in DOMAIN urls : i # j => Normalized(urls[i]) # Normalized(urls[j])

Operation == {"deploy_registry", "submit_claim", "evaluate_claim"}

\* Of an evaluation the content is not looked at.
DirectCall == [sender: Party, claim_id: Claim, content: Content]

ASSUME IndexAssumption ==
  /\ NULL \notin Hash /\ NULL \notin Content /\ NULL \notin Operation
  /\ Bypass \subseteq Hash
  /\ Direct \in [Hash -> SUBSET DirectCall]
  /\ Answer \in [Hash -> SUBSET ModelAnswer]
  /\ Wanted \subseteq [Hash -> Operation \cup {NULL}]
  /\ MaxRequests \in Nat
  /\ Draft \subseteq Content
  /\ ClaimId \in [{Canonical(d) : d \in Draft} -> HexId]

\* ONGOING stands for every status that is neither PENDING nor FINALIZED: the
\* index treats them alike, and an appeal may reopen any of them.
ConsensusStatus == {"PENDING", "ONGOING", "FINALIZED"}

\* Mutant: the protocol's name is stored as it is.
LowerNot(status) == status

\* status.lower()
Lower(status) ==
  CASE status = "PENDING" -> "pending"
    [] status = "ONGOING" -> "ongoing"
    [] status = "FINALIZED" -> "finalized"

RowStatus ==
  {"submitted", "evaluating", "pending", "evaluated", "active", "ongoing",
   "finalized", "execution_failed"}

\* UNKNOWN until the transaction is final, and when validators did not vote.
ExecutionStatus == {"UNKNOWN", "RETURN", "ERROR"}

TxRecord ==
  [operation: Operation \cup {NULL}, sender: Party, claim_id: Claim \cup {NULL},
   content: Content \cup {NULL},
   stage: {"unused", "prepared", "mined", "confirmed"},
   consensus_tx_id: Hash \cup {NULL},
   consensus: ConsensusStatus, execution: ExecutionStatus]

RegistryRow ==
  [deploy_tx_hash: Hash, consensus_tx_id: Hash \cup {NULL},
   status: RowStatus, contract_address: Hash \cup {NULL}]

ClaimRow ==
  [stored: BOOLEAN, status: RowStatus, verdict: Verdict]

NoRow == [stored |-> FALSE, status |-> "submitted", verdict |-> "PENDING"]

PollRequest ==
  [busy: BOOLEAN, hash: Hash \cup {NULL},
   status: ConsensusStatus, execution: ExecutionStatus, found: BOOLEAN]

NoPoll ==
  [busy |-> FALSE, hash |-> NULL, status |-> "PENDING", execution |-> "UNKNOWN",
   found |-> FALSE]

ReadRequest ==
  [pc: {"idle", "reading", "storing"}, claim_id: Claim \cup {NULL},
   loaded: ClaimRow, record: ClaimRecord]

NoRead == [pc |-> "idle", claim_id |-> NULL, loaded |-> NoRow, record |-> NoClaim]

\* The variables have the values their descriptions give.
TypeOK ==
  /\ contract \in [claims: [Claim -> ClaimRecord], claim_fingerprints: SUBSET Content]
  /\ Len(accepted) <= MaxOpen
  /\ \A i \in 1 .. Len(accepted) :
       /\ accepted[i].method \in Hash \cup {NULL}
       /\ accepted[i].before \in
            [claims: [Claim -> ClaimRecord], claim_fingerprints: SUBSET Content]
  /\ txs \in [Hash -> TxRecord]
  /\ confirms \in [Hash -> Nat]
  /\ registries \subseteq RegistryRow
  /\ claims \in [Claim -> ClaimRow]
  /\ polls \in [Poll -> PollRequest]
  /\ read \in ReadRequest

NewTx(operation) ==
  [operation |-> operation, sender |-> Owner, claim_id |-> NULL, content |-> NULL,
   stage |-> "unused", consensus_tx_id |-> NULL, consensus |-> "PENDING",
   execution |-> "UNKNOWN"]

Init ==
  /\ contract = NewRegistry
  /\ accepted = <<>>
  /\ received = [p \in Party |-> 0]
  /\ \E wanted \in Wanted : txs = [h \in Hash |-> NewTx(wanted[h])]
  /\ confirms = [h \in Hash |-> 0]
  /\ registries = {}
  /\ claims = [c \in Claim |-> NoRow]
  /\ polls = [p \in Poll |-> NoPoll]
  /\ read = NoRead

-----------------------------------------------------------------------------
(* The chains.                                                             *)

Requests == <<confirms, indexVars, polls, read>>

InFlight ==
  FoldFunction(+, 0, confirms) + Cardinality({p \in Poll : polls[p].busy})
    + (IF read.pc = "idle" THEN 0 ELSE 1)

\* The wallet sends the transaction and it is mined.
Mine(h) ==
  /\ txs[h].stage = "prepared"
  /\ txs' = [txs EXCEPT ![h].stage = "mined"]
  /\ UNCHANGED <<executionVars, Requests>>

\* A call that is sent without the app, by anybody and with anything.
Send(h) ==
  /\ h \in Bypass /\ txs[h].stage = "unused"
  /\ txs[h].operation \in {"submit_claim", "evaluate_claim"}
  /\ \E call \in Direct[h] :
       txs' = [txs EXCEPT ![h] =
         [@ EXCEPT !.stage = "mined", !.sender = call.sender, !.claim_id = call.claim_id,
                   !.content = IF txs[h].operation = "submit_claim" THEN call.content
                               ELSE NULL]]
  /\ UNCHANGED <<executionVars, Requests>>

Submitted(h) == txs[h].stage \in {"mined", "confirmed"}

\* A call of the registry that returned waits among the accepted ones.
Waits(h) == \E i \in 1 .. Len(accepted) : accepted[i].method = h

Decided(h, status, execution) ==
  txs' = [txs EXCEPT ![h].consensus = status, ![h].execution = execution]

\* Validators accept a call of the registry that returns.
Accept(h) ==
  /\ Submitted(h) /\ ~Waits(h) /\ txs[h].consensus # "FINALIZED"
  /\ \/ /\ txs[h].operation = "submit_claim"
        /\ submit_claim(h, txs[h].sender, txs[h].claim_id, txs[h].content)
     \/ /\ txs[h].operation = "evaluate_claim"
        /\ \E fetched \in SUBSET (1 .. MaxSources), a \in Answer[h] \cup {Malformed} :
             evaluate_claim(h, txs[h].sender, txs[h].claim_id, fetched, a)
  /\ Decided(h, "ONGOING", "UNKNOWN")
  /\ UNCHANGED Requests

\* Every other decision, which leaves the registry as it is: on a deployment,
\* on a call that raises or that validators do not agree on, and appeals.
\* (No request looks at what becomes of such a call that the app did not send.)
Decide(h, status, execution) ==
  /\ h \notin Bypass /\ Submitted(h) /\ ~Waits(h)
  /\ \/ txs[h].consensus # "FINALIZED" /\ status = "ONGOING" /\ execution = "UNKNOWN"
     \/ txs[h].consensus = "ONGOING" /\ status = "PENDING" /\ execution = "UNKNOWN"
     \/ /\ txs[h].consensus = "ONGOING" /\ status = "FINALIZED"
        /\ execution = "RETURN" => txs[h].operation = "deploy_registry"
  /\ Decided(h, status, execution)
  /\ UNCHANGED <<executionVars, Requests>>

\* The oldest accepted call is final.
FinalizeCall ==
  /\ Finalize
  /\ txs' = [h \in Hash |-> IF h = Head(accepted).method
                            THEN [txs[h] EXCEPT !.consensus = "FINALIZED",
                                                !.execution = "RETURN"]
                            ELSE txs[h]]
  /\ UNCHANGED Requests

\* An appeal undoes an accepted call and the ones after it.
AppealCall(i) ==
  /\ Appeal(i)
  /\ txs' = [h \in Hash |-> IF \E j \in i .. Len(accepted) : accepted[j].method = h
                            THEN [txs[h] EXCEPT !.consensus = "PENDING"]
                            ELSE txs[h]]
  /\ UNCHANGED Requests

-----------------------------------------------------------------------------
(* Building a transaction.                                                 *)

Prepare(h, operation, claim_id, content) ==
  /\ h \notin Bypass /\ txs[h].stage = "unused" /\ txs[h].operation = operation
  /\ txs' = [txs EXCEPT ![h] =
       [@ EXCEPT !.stage = "prepared", !.claim_id = claim_id, !.content = content]]
  /\ UNCHANGED <<executionVars, Requests>>

\* Every deployment comes with a reviewed claim, of which nothing is stored.
build_notary_deploy_tx(h) == Prepare(h, "deploy_registry", NULL, NULL)

build_notary_submit_tx(h, d) ==
  LET spec == Canonical(d) IN
  /\ Reviewed(d)
  /\ ~claims[ClaimId[spec]].stored
  /\ Prepare(h, "submit_claim", ClaimId[spec], spec)

build_notary_evaluate_tx(h, c) ==
  /\ claims[c].stored
  /\ claims[c].status = "pending" /\ claims[c].verdict = "PENDING"
  /\ Prepare(h, "evaluate_claim", c, NULL)

-----------------------------------------------------------------------------
(* POST /chat/confirm, after its verification.                             *)

\* The envelope is not confirmed yet, and the request awaits the chain.
ConfirmLoad(h) ==
  /\ h \notin Bypass /\ txs[h].stage = "mined" /\ InFlight < MaxRequests
  /\ confirms' = [confirms EXCEPT ![h] = @ + 1]
  /\ UNCHANGED <<executionVars, txs, indexVars, polls, read>>

\* A registry with that id is taken for the same one, also when the id is NULL.
persist_notary_registry(h, id) ==
  registries' =
    IF \E r \in registries : r.consensus_tx_id = id THEN registries
    ELSE registries \cup
           {[deploy_tx_hash |-> h, consensus_tx_id |-> id, status |-> "submitted",
             contract_address |-> NULL]}

persist_notary_call(h) ==
  LET t == txs[h] IN
  claims' = [claims EXCEPT ![t.claim_id] =
    CASE t.operation = "submit_claim" ->
           [stored |-> TRUE, status |-> "submitted", verdict |-> "PENDING"]
      [] t.operation = "evaluate_claim" /\ @.stored -> [@ EXCEPT !.status = "evaluating"]
      [] OTHER -> @]

Persist(h, id) ==
  IF txs[h].operation = "deploy_registry"
  THEN persist_notary_registry(h, id) /\ UNCHANGED claims
  ELSE persist_notary_call(h) /\ UNCHANGED registries

\* The index row and then the envelope, by two commits, with the GenLayer id
\* or, while the receipt does not show the event that names it, without.
ConfirmStore(h) ==
  /\ confirms[h] > 0
  /\ \E id \in {h, NULL} :
       /\ Persist(h, id)
       /\ txs' = [txs EXCEPT ![h].stage = "confirmed", ![h].consensus_tx_id = id]
  /\ confirms' = [confirms EXCEPT ![h] = @ - 1]
  /\ UNCHANGED <<executionVars, polls, read>>

\* Mutant: the envelope is committed first.
ConfirmCutAfterEnvelope(h) ==
  /\ confirms[h] > 0
  /\ txs' = [txs EXCEPT ![h].stage = "confirmed", ![h].consensus_tx_id = h]
  /\ confirms' = [confirms EXCEPT ![h] = @ - 1]
  /\ UNCHANGED <<executionVars, indexVars, polls, read>>

\* The request ends between the two commits.
ConfirmCut(h) ==
  /\ confirms[h] > 0
  /\ \E id \in {h, NULL} : Persist(h, id)
  /\ confirms' = [confirms EXCEPT ![h] = @ - 1]
  /\ UNCHANGED <<executionVars, txs, polls, read>>

ConfirmFail(h) ==
  /\ confirms[h] > 0
  /\ confirms' = [confirms EXCEPT ![h] = @ - 1]
  /\ UNCHANGED <<executionVars, txs, indexVars, polls, read>>

-----------------------------------------------------------------------------
(* POST /chat/consensus-status.                                            *)

\* The id is found if need be, and the status and, of a final transaction,
\* the execution and the deployed contract are read; either may be missing.
PollRead(p, h) ==
  /\ ~polls[p].busy /\ InFlight < MaxRequests
  /\ txs[h].stage = "confirmed"
  /\ txs' = [txs EXCEPT ![h].consensus_tx_id = h]
  /\ LET status == txs[h].consensus IN
     \E execution \in {txs[h].execution, "UNKNOWN"}, found \in BOOLEAN :
       /\ found => execution = "RETURN" /\ txs[h].operation = "deploy_registry"
       /\ polls' = [polls EXCEPT ![p] =
            [busy |-> TRUE, hash |-> h, status |-> status,
             execution |-> execution, found |-> found]]
  /\ UNCHANGED <<executionVars, confirms, indexVars, read>>

\* Mutant: a finalized registry is active whatever its constructor returned.
PolledRegistryAnyOutcome(poll, r) ==
  IF poll.status = "FINALIZED"
  THEN [r EXCEPT !.contract_address = poll.hash, !.status = "active"]
  ELSE [r EXCEPT !.status = Lower(poll.status)]

\* A contract is named by the hash that deployed it.
PolledRegistry(poll, r) ==
  LET address == IF poll.found THEN poll.hash ELSE r.contract_address IN
  CASE poll.status = "FINALIZED" /\ poll.execution = "RETURN" ->
         [r EXCEPT !.contract_address = address,
                   !.status = IF address # NULL THEN "active" ELSE "finalized"]
    [] poll.status = "FINALIZED" /\ poll.execution # "RETURN" ->
         [r EXCEPT !.contract_address = NULL,
                   !.status = IF poll.execution = "ERROR" THEN "execution_failed"
                              ELSE "finalized"]
    [] OTHER -> [r EXCEPT !.status = Lower(poll.status)]

PolledClaimStatus(poll, operation) ==
  CASE poll.status = "FINALIZED" /\ poll.execution = "RETURN" ->
         IF operation = "submit_claim" THEN "pending" ELSE "evaluated"
    [] poll.status = "FINALIZED" /\ poll.execution = "ERROR" -> "execution_failed"
    [] OTHER -> Lower(poll.status)

update_notary_consensus_state(poll) ==
  LET t == txs[poll.hash] IN
  IF t.operation = "deploy_registry"
  THEN /\ registries' = {IF r.consensus_tx_id = poll.hash THEN PolledRegistry(poll, r)
                         ELSE r : r \in registries}
       /\ UNCHANGED claims
  ELSE /\ claims' = IF claims[t.claim_id].stored
                    THEN [claims EXCEPT ![t.claim_id].status =
                            PolledClaimStatus(poll, t.operation)]
                    ELSE claims
       /\ UNCHANGED registries

\* Polls are stored in any order, whenever they were read.
PollStore(p) ==
  /\ polls[p].busy
  /\ update_notary_consensus_state(polls[p])
  /\ polls' = [polls EXCEPT ![p] = NoPoll]
  /\ UNCHANGED <<executionVars, txs, confirms, read>>

PollFail(p) ==
  /\ polls[p].busy
  /\ polls' = [polls EXCEPT ![p] = NoPoll]
  /\ UNCHANGED <<executionVars, txs, confirms, indexVars, read>>

-----------------------------------------------------------------------------
(* GET /chat/notary-registries/{contract_address}/claims/{claim_id}.       *)

ReadLoad(c) ==
  /\ read.pc = "idle" /\ InFlight < MaxRequests
  /\ claims[c].stored
  /\ read' = [read EXCEPT !.pc = "reading", !.claim_id = c, !.loaded = claims[c]]
  /\ UNCHANGED <<executionVars, txs, confirms, indexVars, polls>>

\* get_claim of finalized state; a claim that does not exist is an error, and
\* so is a record the serialization refuses.
ReadContract ==
  LET record == get_claim(read.claim_id) IN
  /\ read.pc = "reading"
  /\ record.exists /\ Serializable(read.claim_id, record)
  /\ read' = [read EXCEPT !.pc = "storing", !.record = record]
  /\ UNCHANGED <<executionVars, txs, confirms, indexVars, polls>>

Column(stored, loaded, new) == IF new = loaded THEN stored ELSE new

\* The session writes the columns that differ from the row it loaded.
ReadStore ==
  LET row == claims[read.claim_id] IN
  /\ read.pc = "storing"
  /\ claims' = [claims EXCEPT ![read.claim_id] =
       [row EXCEPT
          !.verdict = Column(row.verdict, read.loaded.verdict, read.record.verdict),
          !.status = Column(row.status, read.loaded.status,
                            IF read.record.evaluated THEN "evaluated" ELSE "pending")]]
  /\ read' = NoRead
  /\ UNCHANGED <<executionVars, txs, confirms, registries, polls>>

ReadFail ==
  /\ read.pc # "idle"
  /\ read' = NoRead
  /\ UNCHANGED <<executionVars, txs, confirms, indexVars, polls>>

-----------------------------------------------------------------------------
Chains ==
  \/ \E h \in Hash :
       \/ Mine(h) \/ Send(h) \/ Accept(h)
       \/ \E status \in ConsensusStatus, execution \in ExecutionStatus :
            Decide(h, status, execution)
  \/ FinalizeCall
  \/ \E i \in 1 .. MaxOpen : AppealCall(i)

Backend ==
  \/ \E h \in Hash :
       \/ build_notary_deploy_tx(h)
       \/ \E d \in Draft : build_notary_submit_tx(h, d)
       \/ \E c \in Claim : build_notary_evaluate_tx(h, c)
       \/ ConfirmLoad(h) \/ ConfirmStore(h) \/ ConfirmCut(h) \/ ConfirmFail(h)
  \/ \E p \in Poll :
       \/ \E h \in Hash : PollRead(p, h)
       \/ PollStore(p) \/ PollFail(p)
  \/ \E c \in Claim : ReadLoad(c)
  \/ ReadContract \/ ReadStore \/ ReadFail

Next == Chains \/ Backend

Spec == Init /\ [][Next]_vars

-----------------------------------------------------------------------------
\* A verdict that decides was reached on evidence: every source could be
\* fetched and was found usable, a material fact cites one of the claim's own
\* sources, and a reason is given, whatever the model answered.
VerdictRestsOnEvidence ==
  \A c \in Claim : LET r == contract.claims[c] IN
    r.verdict \in Decisive =>
      /\ r.exists /\ r.evaluated
      /\ r.reached = DOMAIN r.content.source_urls
      /\ \E i \in r.material_facts : i \in DOMAIN r.content.source_urls
      /\ r.rationale

\* A final record never changes: what was submitted once it is final, and the
\* result too once it was evaluated, in spite of appeals and of calls that
\* bypass the app.
FinalRecordsStay ==
  [][\A c \in Claim : LET r == Finalized.claims[c] IN
       /\ r.exists => /\ Finalized'.claims[c].exists
                      /\ Finalized'.claims[c].content = r.content
       /\ r.evaluated => Finalized'.claims[c] = r]_vars

\* The contract never holds a record the backend refuses to show, under an id
\* of the backend's form: the rules of serialize_notary_record follow from the
\* template's.  (Under another id, sent without the app, it shows none.)
RecordsAreReadable ==
  \A c \in HexId : Finalized.claims[c].exists => Serializable(c, Finalized.claims[c])

\* The URL rules, written twice, agree: each source of what the contract stored
\* would have passed the backend's review, and so would the whole claim when
\* its URLs are spelled as review spells them.
StoredClaimsAreReviewable ==
  \A c \in Claim : LET content == contract.claims[c].content IN
    contract.claims[c].exists =>
      /\ Len(content.source_urls) \in 1 .. MaxSources
      /\ \A i \in DOMAIN content.source_urls :
           validate_public_https_url(content.source_urls[i])
      /\ Canonical(content) = content => Reviewed(content)

\* One claim per content: no statement is claimed twice with the same sources,
\* written alike and in the same order, by calls made without the app or again
\* after appeals.
ContentIsClaimedOnce ==
  \A c, d \in Claim :
    contract.claims[c].exists /\ contract.claims[d].exists
      /\ contract.claims[c].content = contract.claims[d].content => c = d

\* The index never gets ahead of finality: a verdict it shows is the final
\* one, and a claim it calls evaluated has a final evaluation, however polls,
\* reads, repeated confirmations and appeals interleave.
IndexFollowsContract ==
  \A c \in Claim :
    /\ claims[c].verdict # "PENDING" =>
         /\ Finalized.claims[c].evaluated
         /\ claims[c].verdict = Finalized.claims[c].verdict
    /\ claims[c].status = "evaluated" => Finalized.claims[c].evaluated

\* A registry has an address only when its own deployment is final and its
\* constructor returned, in whatever order overlapping polls are stored.
ActiveRegistryIsDeployed ==
  \A r \in registries : r.contract_address # NULL =>
    LET h == r.deploy_tx_hash IN
    /\ r.contract_address = h
    /\ txs[h].consensus = "FINALIZED" /\ txs[h].execution = "RETURN"

\* A confirmed deployment has its row, across requests that were cut and
\* retried; it can only be lost to a row whose id was not known either.
ConfirmedRegistryIsIndexed ==
  \A h \in Hash :
    txs[h].operation = "deploy_registry" /\ txs[h].stage = "confirmed" =>
      \E r \in registries : r.deploy_tx_hash = h \/ r.consensus_tx_id = NULL

\* A reader of the index is shown final verdicts on final claims, as
\* FinalVerdicts promises: every step of validators, appeals, confirmations,
\* polls and reads is one of its steps, or none.
Promise == INSTANCE FinalVerdicts
  WITH claimed <- [c \in Claim |-> Finalized.claims[c].content],
       judged <- [c \in Claim |-> Finalized.claims[c].verdict],
       shown <- [c \in Claim |-> claims[c].verdict],
       reported <- {c \in Claim : claims[c].status = "evaluated"}
ImplementsFinalVerdicts == Promise!Spec

\* "Claim submission is not finalized." is the answer to an evaluation that
\* comes too early: one is built only for a claim whose submission is final.
EvaluationAwaitsSubmission ==
  \A h \in Hash :
    txs[h].operation = "evaluate_claim" /\ txs[h].stage = "prepared" =>
      Finalized.claims[txs[h].claim_id].exists

=============================================================================
