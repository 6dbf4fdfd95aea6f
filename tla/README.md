# Formal model of GenLayer Bot

GenLayer Bot is a chat front end for a blockchain. A message is parsed into a reviewed
intent, the backend builds an unsigned EVM transaction for it, the user's wallet signs and
broadcasts that transaction, and the backend then follows it: first on the EVM chain (the
receipt), then in GenLayer's consensus (validators, appeals, finality). It never holds a key;
what it owns is an *index*: rows that say which reviewed intent was carried out by which
transaction, how far consensus has come and which contract address may be shown.

This directory holds TLA+ modules of that system, TLC configurations that model-check them on
small instances, and proofs checked by TLAPS. `PROJECT.json` maps each definition to its
source lines, lists the runs, the mutants that show each property can fail, the hazards and
the theorems.

    tlc -config lifecycle.cfg MCTransactionLifecycle      # one run
    tlapm TransactionLifecycleProofs.tla                  # the proofs

## 1. Inventory

The backend is a FastAPI application (`src/backend`), one uvicorn worker. `async` endpoints
are coroutines of a single event loop and interleave at their awaits; plain `def` endpoints
(sign-in, chat history) run in a pool of threads and interleave anywhere. Each request has
its own SQLAlchemy session. The frontend (`src/frontend`) is a Next.js application whose chat
component holds the message list, polls the backend and drives the wallet.

| Part | State | Operations | What is hard | What makes it correct |
|---|---|---|---|---|
| Prepared transactions and confirmation (`routers/chat.py`, `transaction_intent.py`, `models.py`) | `prepared_transactions`, `workflow_deployments` | build (prepare), `POST /chat/confirm`, expiry | status read before two awaits and used after them; two commits per deployment; retries after timeout or expiry; row copies as old as the request | one envelope per text of a hash, and per transaction if hashes are written alike; confirmed only if mined; consumed once and for good; every mined transaction accounted for |
| Consensus tracking (`chat.py`, `genlayer_client.py`) | lifecycle columns of the same rows | `POST /chat/consensus-status`, late resolution of the GenLayer id | polls are unordered; appeals reopen a decision; two rows for one transaction | finality never inferred; a contract exposed only if its execution returned; ids belong to their transaction |
| Consensus readiness gate (`chat.py:1901`) | none of its own (may store a late id) | `GET /chat/consensus-readiness` | answer is stale when the wallet signs | a late id is the right one |
| Sign-in with Ethereum (`auth.py`) | `siwe_nonces`, `users` | nonce, verify | threads; two tabs; consume-before-verify | a challenge is good for one session |
| Wallet flow of a message (`ChatInterface.tsx`, `api.ts`) | message list in the browser | build, send, confirm, reconcile | reload between broadcast and confirmation | one broadcast per reviewed message |
| Consensus polling and presentation (`consensusLifecycle.mjs`, `ChatInterface.tsx`) | phase per message | poll timer, result | dropped answers; stops at a terminal status | every transaction reaches its real outcome on screen |
| Workflow contracts (`workflow_service.py`) | the storage and balance of four contract templates | constructor and write methods | order of calls, emitted transfers, repeated evaluation | money is conserved and leaves once |
| AI Notary (`notary_service.py`, `chat.py`) | registry contract; `notary_registries`, `notary_claims` | submit, evaluate, poll | NULL lookups; status column shared by two transactions | a claim, as it is written, is judged once and on evidence; index agrees with the contract |
| Workflow index and authorization (`workflow_service.py`, `chat.py`) | `workflow_actions` | persist action, participant checks | several deployments of one contract | only participants act |
| Activity log (`logs_store.py`, `routers/logs.py`, `LiveLogsPanel.tsx`) | bounded history per wallet, in memory or Redis; stream queues; the panel | append, subscribe, stream, connect | overflow; backlog and stream overlap; wallets change under an open stream | in order, nothing recent lost, one wallet's panel shows no other's |
| Chat history (`chat.py:1125`, `ChatInterface.tsx:399`) | one row per wallet | load, debounced save | last writer wins | what a tab saved is not lost silently |
| Transaction verification rules (`transaction_intent.py:410`) | none | field comparison | wallets rewrite fees and gas | accepts what wallets do, nothing else |
| Contract generation, validation, review | none | text to text | - | - |
| Intent parsing, safety rules, simulation | none | text classification | - | - |
| GenLayer RPC client, configuration, migrations, UI panels | none modelled | - | - | - |

How they interact. The frontend calls the backend over HTTP, the wallet through an injected
provider, and nothing else. Sign-in gives the session that every other request carries. Builds
write an envelope (`create_prepared_transaction`); the wallet puts its transaction on the EVM
chain; `/confirm` reads that chain and writes envelope and index rows; `/consensus-status`
reads GenLayer and writes the same rows; the frontend polls it until the status is terminal.
The database and the two chains are the only shared state between requests.

The `hazards` in `PROJECT.json` list, at its line, what in this code is hard to test; they are
what the properties are for, and those without one say why.

Which module speaks about which step of a message: `TransactionReview` says what is built, what a
wallet makes of it and what passes the comparison; `WalletFlow` follows one page, its wallet and its
history up to the confirmation; `TransactionLifecycle` follows the envelope and its index row through
concurrent confirmations and polls; `NotaryIndex` and `WorkflowContracts` follow what the transaction
does in its contract, the former with the index rows beside it. `SiweAuth` stands before all of them.

## 2. What is modelled

### TransactionLifecycle (core)

The two tables, the requests in flight and the two chains.

| Variable | Code |
|---|---|
| `prepared` | rows of `prepared_transactions` (`models.py`), per envelope id |
| `deployments` | rows of `workflow_deployments` in insertion order; the contract address is reduced to whether one is shown (`exposed`) |
| `overdue` | envelopes older than their ten minutes |
| `chain` | per transaction: EVM visibility and receipt, whether the receipt's log names the GenLayer id, and GenLayer's status and execution result |
| `confirms`, `polls` | `/chat/confirm` and `/chat/consensus-status` requests: where each is suspended, and the row it has *loaded* |

An action is what a handler does between two awaits.

| Action | Code between awaits |
|---|---|
| `Prepare` | `create_prepared_transaction`, called by every build endpoint |
| `Expire` | a confirmation without a hash finds the envelope overdue, commits `expired` and answers 410 |
| `ConfirmLoad` | `load_prepared_transaction`, the reused-hash query; suspended in the verification |
| `ConfirmVerified` | verification succeeded, `mark_prepared_transaction_broadcast`; suspended in the receipt |
| `ConfirmTransfer` | receipt of a transfer, `mark_prepared_transaction_confirmed` |
| `ConfirmReceipt` | receipt of a deployment and the GenLayer id read from it |
| `ConfirmDeploy`, `ConfirmDeployCut` | `persist_workflow_deployment` and the envelope, two commits, or the first one only |
| `ConfirmFail` | every way a confirmation ends without writing |
| `PollLoad`, `PollResolve`, `PollRead`, `PollStore`, `PollFail` | the poll, its late id, its reading and its two updates |
| `Broadcast`, `Mine`, `LogAppears`, `Consensus`, `Lapse` | the environment: wallet, EVM chain, GenLayer, clock |

Four things in it are easy to get wrong and decide the results.

* *Row copies.* SQLAlchemy writes only the columns whose new value differs from the value the
  session loaded. A request that loaded a row long ago therefore writes a *mix* of its own
  view and what others stored meanwhile. `Flush(stored, loaded, new)` is that rule, column by
  column. A commit expires the session's copies, so what comes after it in the same request
  works on the stored row (`ConfirmDeploy`, the deployment branch of `PollStore`).
* *UNIQUE is the only mutual exclusion.* The reused-hash query runs before two awaits. What
  keeps two envelopes from sharing a hash is the UNIQUE column, whose refusal ends the request.
* *A hash is a text.* The nodes and the verification ignore its case (`Verified`, `ReceiptSucceeded`,
  `ResolvedId` look at the transaction `Lower[h]`); the query, the column and the rows keep the text as it
  was sent (`Reused`, `Unique`, `MarkBroadcast`). `Hash` is the set of texts, `Transaction` the texts in
  lower case, which name the transactions.
* *Retry without a lock.* An expired envelope is still loadable with a hash, on purpose: the
  wallet may have broadcast in time.

The verification of a transaction's fields is the constant `Matches`: the envelopes a transaction
verifies against (`Confirmable` of `TransactionReview` is what it stands for). It allows what the code
allows: identical envelopes (one transaction, two envelopes) and rewritten fees (two transactions, one
envelope). The readiness gate's only write,
storing a late id, is `PollLoad`, `PollResolve`, `PollFail`.

Left out: contract calls and notary registries, whose confirmation takes the same path with
other index rows (`NotaryIndex`); a deployment without a workflow configuration, whose confirmation stores no
index row; diagnostics, appeal windows and wording of answers; ownership (all envelopes are of
one user, other users get a 404 before anything happens).

### SingleUseEnvelopes (abstract)

What the index promises without requests, retries, expiry or commits: an envelope is consumed
at most once, when a transaction with the reviewed fields is mined, and a text of a hash is
recorded for at most one envelope. It does not promise that of a transaction: the code does not
(`mixed_case`). `TransactionLifecycle` implements it under
`recorded <- tx_hash`, `consumed <- {confirmed}`, `mined <- {receipt succeeded}`:
`ImplementsSingleUse` is checked by TLC and proved by TLAPS (`IndexIsSingleUse`).

### SiweAuth

`GET /auth/nonce` and `POST /auth/verify`, which run in threads. An action is one SQL statement with
its commit.

| Variable | Code |
|---|---|
| `challenges` | `siwe_nonces`: the row of a wallet (key and nonce) |
| `users` | how many rows `users` has for an address |
| `drawn`, `lapsed` | the nonces that were generated; those past `expires_at` |
| `signed` | the acceptable messages (domain, URI, chain, address, issue time, signature) a wallet has signed |
| `asks`, `verifies` | the requests in flight, with the row they selected |
| `tokens` | the session tokens returned |

`AskRead`, `AskUpdate`, `AskInsert`, `AskConflict`, `AskReread` are `get_nonce` with its
IntegrityError path; `VerifyRead`, `VerifyConsume`, `VerifyCheck`, `VerifyEnter`, `VerifyAnswer` are
`verify_signature`; `AskFail` and `VerifyFail` are every other end of a request. The model takes the
weaker of the two supported databases at each point: no row lock (SQLite has no FOR UPDATE), and a
key may be given again after its row was deleted (SQLite), so that a late UPDATE can land on another
wallet's row. `/auth/nonce` asks for no proof of the address, so nothing ties a nonce to the wallet that
signs it: `Sign` takes any nonce that was answered. A wallet whose row got another one's nonce can sign in
with that nonce, if it signs it itself; the sign-in that expected its own nonce there fails with 401.

### OneShotChallenges (abstract)

A wallet has one open challenge at most; opening another closes it; a redeemed challenge is decided
once, into one session or none; nothing opens twice. `SiweAuth` implements it (`ImplementsOneShot`
checked, `SignInIsOneShot` proved): open is the stored row, past is every nonce no request is still
asking for, redeemed is every verification past its DELETE.

### The workflow contracts

`WorkflowContracts` is one deployed contract of any of the four kinds (`kind`), called by anybody. It
is composed of the templates of `workflow_service.py`, one module each, whose actions carry the
method names (`fund`, `request_evaluation`, `evaluate`, `settle_release`, `settle_refund` in
`ConditionalPayment`; `Escrow`, `Subscription` and `Bounty` likewise), and of `ContractExecution`, the
little of GenLayer they rely on.

| Variable | Meaning |
|---|---|
| `contract` | the template's storage and its balance, as the accepted calls have left them |
| `accepted` | the calls that are accepted and not final: method, sender, value, the contract they found, the transfer they emitted |
| `received` | what finalized transfers have delivered to each wallet |

`ContractExecution` is external, taken from how the templates and their tests use GenLayer: an
accepted call takes effect at once; calls are finalized oldest first (`Finalize`); a successful
appeal undoes a call and the later ones (`Appeal`), which may run again with another result or
never; `emit_transfer` debits the balance when the call runs, as the runtime of
`backend/tests/test_workflow*.py` does, and delivers at finality; a call that raises leaves no trace.
`Finalized` is the contract as reads of finalized state see it.

`evaluate` is one action with two choices: which configured sources could be fetched, and what the
language model answers. `Judgment` is the rest of its task: the rules that turn an answer into an
outcome, which no answer may get around. `EVALUATING` is never seen between calls. Left out: the
count of attempts, reasons, titles and descriptions, which are only shown.

`BuildCall` is the backend's answer to a request to build a call, early return by early return: the
Phase 9 routes are off or for conditional payments only (404, 400), the kind's capability is disabled
(503; Phase 9 skips this gate), the method is unknown (400), no deployment row has the contract's
address (404) or it is of another kind (400), the wallet has no such role (403), the value is neither
zero nor the configured one (400). A request without a workflow type skips all that, and a wallet can
call a contract without the backend. `Call` is therefore any wallet with any value, and the templates
must be right by themselves. `OnlyGatesRefuse` then compares the two: of the calls a template accepts
the backend refuses those that a gate or a missing row stops, and no other. A deployment may bring more than the app sends (`Surplus`), as the
tests of the templates do.

### Custody (abstract)

A principal is paid in at most once, leaves at most once, whole and to one wallet; or nothing is ever
held and what a call brings passes on. `WorkflowContracts` implements it under
`held <- Finalized.balance`, `forwards <- (kind = "subscription")`: checked (`ImplementsCustody`) and
proved (`CustodyIsKept`).

Two action properties say of the same finalized contract what Custody does not. `FinalDecisionsStay`: a
verdict that is final is not reached again with another result, and nothing is decided or paid once
the contract is `Closed` (released, refunded, cancelled, chosen; a dispute closes an escrow too).
`NoEvidenceNoPayout`: a conditional payment that was deployed without sources pays nobody.

### NotaryRegistry

The AI Notary contract (`notary_service.py`), on the same `ContractExecution` as the workflow
templates. Its owner submits claims, a statement with the URLs of its evidence, and has each
evaluated once.

| Definition | Code |
|---|---|
| `contract.claims[c]` (`ClaimRecord`) | the storage maps of a claim; `reached` is a history variable, the sources its evaluation could fetch |
| `contract.claim_fingerprints` | contents already claimed |
| `submit_claim`, `evaluate_claim`, `get_claim` | the methods of those names |
| `NormalizedStatuses`, `Cited`, `NormalizedVerdict`, `Judged` | `leader_fn`: what is made of the language model's answer |
| `_source_url_allowed`, `validate_public_https_url` | the URL rules, written once in the contract and once in the backend |
| `Normalized` | the spelling `validate_public_https_url` returns: scheme and host in lower case, `/` for an empty path, nothing that is empty |
| `HexId` | the claim ids of the backend's form (`NOTARY_CLAIM_ID_PATTERN`); the contract asks for length and prefix only |
| `WellFormed`, `Serializable` | `serialize_notary_record`, which refuses a record it does not understand and an id it would not give |

A text is a value that is compared, as it is written; a URL is the parts the two checks look at, the capitals
and the path by which two spellings of one page differ among them; an answer of the model
is any verdict, any statuses, any cited sources, or something that is not an object at all. The
equivalence validators judge by is external (`ContractExecution`: an accepted call may run again with
another result after an appeal). The backend is taken to allow the domains the contract was deployed with.
`verify_notary_record`, which nothing calls, is left out.

### NotaryIndex

The backend's two notary tables beside that contract: the composition of contract, consensus and index.

| Variable | Code |
|---|---|
| `txs` | per hash: the envelope's stage and GenLayer id, and the operation, consensus status and execution result on the chain |
| `confirms` | how many `/chat/confirm` requests for it passed the status check and await the chain |
| `registries` | `notary_registries`: rows whose status, address and id polls change |
| `claims` | `notary_claims` of the active registry: stored or not, status, verdict |
| `polls`, `read` | `/chat/consensus-status` requests, in slots, and a request for a claim's record, with what they have read |

| Action | Code |
|---|---|
| `build_notary_deploy_tx`, `build_notary_submit_tx`, `build_notary_evaluate_tx` | the two build endpoints, with the checks on the index row |
| `ConfirmLoad`, `ConfirmStore`, `ConfirmCut`, `ConfirmFail` | `confirm_action` with `persist_notary_registry` or `persist_notary_call`: two commits, or the first only |
| `Reviewed`, `Canonical` | `validate_notary_spec`: whether it lets a draft pass, and the specification it returns |
| `PollRead`, `PollStore`, `PollFail` | the poll with `update_notary_consensus_state`; several may be in flight and are stored in any order |
| `ReadLoad`, `ReadContract`, `ReadStore`, `ReadFail` | `get_notary_record`: row, contract, row again, written column by column where it differs from the *loaded* row |
| `Mine`, `Send`, `Accept`, `Decide`, `FinalizeCall`, `AppealCall` | wallets (with the app and without), validators, finality, appeals |

`ONGOING` stands for every status but PENDING and FINALIZED, which the index treats alike. Here one
hash is one envelope; who may share a hash is `TransactionLifecycle`'s subject. A call the app did not
send is seen only where the contract accepts it: what becomes of it when it is refused no request
looks at.

### FinalVerdicts (abstract)

What is claimed is claimed once and for good and is judged at most once; a verdict is shown, and a claim
reported as judged, only when that is so for good. The composition of contract, consensus and index
implements it under `claimed` and `judged <- ` the claims of `Finalized`, `shown <- ` the verdict column of
`notary_claims`, `reported <- ` the rows whose status is `evaluated`: checked
(`ImplementsFinalVerdicts`) and proved (`NotaryImplementsFinalVerdicts`). Accepted calls, appeals and
most steps of requests are stutters; `FinalizeCall` is `Submit` or `Judge`; a stored poll or read is
`Show`, which may also forget: resubmitting a claim resets its row (`chat.py:756`).

### TransactionReview

Pure definitions, no variables: what the build endpoints make of a request and of what the node answers
(`PreparedTx`, `PreparedIntent`, with `SelectedFees` and `SelectedGas` of
`genlayer_client.py`), the safety rules applied again at confirmation (`validate_intent`), the
comparison of a mined transaction with the prepared one (`verify_submitted_transaction`, with the gas and
fee rewritings it allows), and, as a separate external definition, the ways wallets and Studio
were seen to encode what they are asked to sign (`Rewritings`, `Encodings`). Amounts are in the smallest
unit, and the *form* of an amount (text, integer, float) is kept because `_normalize_decimal_amount`
drops the value of a float. Calldata is a value: what a call or deployment encodes is compared, not
computed.

### WalletFlow

One page, its wallet and what the server keeps for it. A flow is a press of a button that
has not come to its end; a second press before that is another one.

| Variable | Code |
|---|---|
| `world` | what users ask and the node answers, chosen once |
| `envelopes` | `prepared_transactions`; `release` is a history variable, the backend release that built a deployment |
| `sent` | what the wallet has broadcast, in order; `for` and `honest` are history variables, the message it was for and whether the user left it as asked |
| `flows` | the locals of `handleConfirm` and `handleNotaryAction` across their awaits |
| `proposed` | the messages the chat has answered with so far, each with an intent to confirm |
| `shown`, `remote` | the page's messages and the server's copy of them; a message that is not there is *absent* |
| `loading`, `unsaved` | the server's copy has been asked for; a save is scheduled |
| `dropped` | history variable: the messages whose hash the page lost, by a reload or a load of the history when the server's copy did not have it |

| Action | Code |
|---|---|
| `ConfirmPressed`, `NotaryPressed` | `handleConfirm`, which reconciles when the message has a hash; `handleNotaryAction`, which does not |
| `Build`, `Sign`, `confirm_action` | build endpoint; wallet, with edits by the user; `/chat/confirm` for a mined transaction |
| `Answered`, `Refused` | the end of a flow, with a hash or without one |
| `TransferAsked`, `TransferEnds` | a client of the transfer endpoint (the page itself refuses the amounts the chat returns) |
| `Propose` | the chat's answer is appended to the messages, to be reviewed |
| `SaveHistory`, `SaveFails`, `Reload`, `LoadHistory`, `LoadNothing`, `LoadFails` | the effects of `syncWalletChats` and the debounced save, `get_chat_history` and `save_chat_history` |

There is a copy of the history in the browser too, and the model has none of it: a page that loads begins
with its welcome (`ChatInterface.tsx:372`), an effect writes that over the copy (481-490), and only then
`syncWalletChats` reads it (434). So a `Reload` leaves the page with the welcome until the server
answers, `LoadNothing` uploads the welcome, and what the server's copy lacks is gone. The page is one
wallet's: what a change of the account does to its messages is not modelled.

### ReviewedOrders (abstract)

What a message asks is its order. A confirmed transaction that carries an order out does all that the
order says and belongs to no other message; an order is carried out again only when it may be; and what
is reported as done was carried out. `WalletFlow` implements it under `order <- OrderOf` (sender,
recipient, calldata, value, network), `carried <- CarriedOut` (the transactions of envelopes confirmed for
the message), `repeatable <- ` calls, and deployments whose hash the page lost (`dropped`),
`reported <- ` the messages that ended: checked (`ImplementsReviewedOrders`) and proved
(`FlowKeepsOrders`). It joins what the three invariants say of single parts: that
the hash a flow ends with is one that was confirmed, for *its* message, with *its* content, through
reloads and replaced histories.

### ActivityLog

What each request reports of itself, and the panel of one page that shows it. Both stores are there;
`store` says which one is configured.

| Variable | Code |
|---|---|
| `items` | a wallet's history: `_items` in memory, the list in Redis, oldest first |
| `appends` | Redis: the calls of `append` between their commands |
| `stream` | `logs_stream` and its socket: the backlog it is about to send, its queue, and whether the queue is subscribed |
| `account`, `tokens`, `logs` | the connected wallet, the wallets with a session token in the browser, what the panel shows |
| `pushed`, `lost` | history variables: how many items a history got, and how many of them a restart forgot |

| Action | Code |
|---|---|
| `AppendMemory`; `Push`, `Trim`, `Publish`, `AppendFails` | `append`: one step in memory, where the lock is free and nothing else is awaited; three commands in Redis |
| `Connect` | `connect` of the panel up to `onopen`, and `logs_stream` up to `accept`: the panel is *live* from here on, with what it showed before |
| `SubscribeAndRead`; `Subscribe`, `ReadBacklog` | `subscribe` and `recent`: one step in memory; in Redis SUBSCRIBE and LRANGE go over two connections and may change places |
| `SendBacklog`, `Deliver` | the backlog, which replaces what the panel shows, and the loop of `logs_stream` |
| `Disconnect`, `Restart` | a lost connection; a backend process that starts again (in Redis the list survives, so its restart is a disconnection and appends that fail) |
| `AccountChanges`, `setStoredAuthToken`, `clearStoredAuthToken` | the effect on `account` and its cleanup; sign-in, its failure and expiry |

An item is its wallet and its place in that wallet's log: what it says, and its redaction
(`sanitize_log_meta`), is left out, and so are the items of no wallet, which no stream gets. A connection
keeps the order and loses nothing until it is lost, so what is on its way is not told from what is
shown. In Redis a stream may show an item twice, out of order or not at all; the model has
all of this, and `StreamIsInOrder` is about the store in memory only, while `ReconnectKeepsNewest`, about
both, says what a new connection makes good.

## 3. Runs

| Run | Instance | Shows |
|---|---|---|
| `lifecycle` | one workflow deployment, two encodings of it broadcast, two confirmations and one poll at a time; 586,301 states with symmetry | `FinalMeansFinalized`, `ExposedMeansReturned`, `TrackedIdIsOwn`, `ConfirmedIsIndexed`, `ConsumedForGood`, `OnlyOlderTakesBack` |
| `single_use` | two identical transfers, one broadcast transaction whose hash is written in two cases, two confirmations, with fairness; 60,363 states | `MinedCanBeConfirmed`, `ImplementsSingleUse`, `Reconciled` |
| `duplicate_deployment` | one deployment, one hash, two confirmations | a *violation* of `OneDeploymentPerHash` |
| `late_consensus_id` | one deployment, one confirmation, one poll | a *violation* of `DeploymentFollowsEnvelope` |
| `mixed_case` | two identical transfers, one transaction with two texts of its hash, one confirmation at a time | a *violation* of `OneEnvelopePerTransaction` |
| `siwe` | two wallets, three nonces, two row keys, two requests of each kind in flight; 477,543 states with symmetry | `OneTokenPerChallenge`, `TokenWasSigned`, `TokenHasOneUser`, `ImplementsOneShot` |
| `contracts` | each kind with three wallets (one a stranger), right and wrong values and deposits, two sources, two references, four open calls; 8,320 states | `BooksMatchMoney`, `PayoutIsEarned`, `OnlyGatesRefuse`, `FinalDecisionsStay`, `ImplementsCustody` |
| `dispute_resolution` | the same with two open calls, everybody calling all they can | a *violation* of `DisputesAreResolved` |
| `notary` | with the app: two drafts (one review spells anew, one it refuses), an owner and a stranger; two registries, or two submissions by the app, or one of them without it, or a submission and its evaluation by the app, or its evaluation twice without; two requests in flight, polls among them; and the contract without the app: two submissions and an evaluation, seven contents of one to three sources, two ids (one of which the backend would not give), five answers besides a malformed one; every set of sources that can be fetched, two open calls; 301,832 states with symmetry | `ActiveRegistryIsDeployed`, `ConfirmedRegistryIsIndexed`, `VerdictRestsOnEvidence`, `RecordsAreReadable`, `StoredClaimsAreReviewable`, `ContentIsClaimedOnce`, `FinalRecordsStay`, `ImplementsFinalVerdicts` |
| `early_evaluation` | the same instance | a *violation* of `EvaluationAwaitsSubmission` |
| `wallet_flow` | one message (deployment or call), with a transfer client in some settings, or two messages; two flows, two envelopes, two broadcasts; nodes with and without EIP-1559, tip, fees and estimate; 831,564 states with symmetry | `ConfirmedIsReviewed`, `AskedIsConfirmable`, `DeploymentsAreSentOnce`, `ImplementsReviewedOrders` |
| `activity_log` | two wallets, four items, histories and queues of two, backlogs of one, panels of two, two appends in flight, either store, with fairness; 327,948 states | `StreamIsOwn`, `StreamIsInOrder`, `ReconnectKeepsNewest`, `PanelCatchesUp` |

Bounds. The rows interact pairwise (a hash and two envelopes, an envelope and two hashes) and
requests interact through the rows, so two envelopes or two hashes and two confirmations reach
every conflict a row can see: a write on a copy another request has outdated, a lost UNIQUE
race, a duplicated row. `MaxDeployments = 2` allows one duplicate. A request slot is reused
without bound, so a run contains any number of requests of which at most two (one poll) overlap.
The proofs remove all these bounds. In `siwe` two wallets are needed for a key to be reused by
another one, and three nonces for a challenge to be replaced twice, or replaced and consumed, while
an older verification is suspended.

In `contracts`
four open calls are enough for a verdict, its settlement and the request before them to be open
together, so that an appeal can undo a settlement alone or with the verdict it rests on; two
sources and two references tell *all* from *some*.

In `notary` two transactions and two requests reach the conflicts of the index: two rows for one id, a
submission and an evaluation that write one status column, a read that stores what a poll has
outdated, two polls of one registry of which the older is stored last. Two open calls let an appeal undo a
submission with the evaluation that rests on it, or the evaluation alone. What is asked (`Wanted`) is
chosen in the initial state, one combination that interacts at a time, and what may be sent without the app
(`Direct`) and answered (`Answer`) is given per transaction: beside the app's calls a few, in the
initial state that has no other calls (`DirectWanted`) all that the index would leave no room for.
There three sources are the most a claim may have, and among two or three are the page
named twice in two spellings, the order reversed, and one page missing of two; each answer breaks one of the
rules of `leader_fn` or none, depending on how many sources there are and which could be fetched.

In `wallet_flow` two broadcasts are what a message must not have, and two flows are a press and
its repetition. Each setting of `Worlds` is there for a rule: a node without fees, without a tip, with one,
before EIP-1559, silent; an estimate that is missing, zero, odd; networks with and without rewriting; a
source that does not pass review; a transfer in each form of amount, over the limit, and to nobody.
`OtherPrice` is one price a user may set instead. Two settings have two messages, for what
belongs to whom: two deployments of one source, whose transactions differ by their nonces alone, and a
deployment beside a call, which may be repeated. A transfer, which belongs to no message, is beside one.

In `activity_log` four items overflow each bound of two twice, or fill one wallet's and leave the other's
open; a backlog of one is less than a history and a panel, as 30 is less than 300 and 80. Two appends
in flight are enough for them to change places and for a backlog to be read between any two commands.

`SYMMETRY` is used where no liveness is checked: it permutes request slots (`lifecycle`, `notary`), the app's
two hashes (`notary`, whose `Operations` are closed under the exchange), flows and envelopes
(`wallet_flow`), and also wallets, nonces and keys, which no definition tells apart (`siwe`).
Deadlock is checked in `wallet_flow`, whose page can always be reloaded, and in `activity_log`, whose user
may always change wallets. In the other runs a system in which everything is confirmed and final, all
challenges are used, a contract is settled, or every transaction of `notary` is final, rests.

Fairness (`FairSpec` of `TransactionLifecycle`, used for `Reconciled` only). `WF` on `Progress(c)`: a request always ends,
since its RPC calls have timeouts and bounded retries. `SF` on `Retry`, `Answer` and
`ReceiptOf`: the message keeps the hash it was broadcast with, confirming it again submits that hash
instead of broadcasting (`ChatInterface.tsx:1294`), in lower case as wallets return it, the user does so until it is answered, and RPC
errors do not last for ever. The first is a fact of the code; that the user tries again is an
assumption, and `Reconciled` says what the backend makes of it. Strong fairness is needed because
each retry may find a slot taken or the previous error repeated. There is no fairness
on the wallet, on mining or on validators: `Reconciled` starts from a mined transaction.

`FairSpec` of `ActivityLog`, used for `PanelCatchesUp`: `WF` on `SubscribeAndRead`, `SendBacklog` and `Deliver`. The
handler goes from one to the next without waiting for anybody but the socket, and the loop of
`logs_stream` goes on as long as the connection lasts (the timeout of two seconds only lets it end with the
server), and the panel's handler takes every message. That a stream connects, or stays connected, is
not assumed; the property ends with the connection.

No fairness is stated for the notary and the wallet flow: a user need not press, sign or come back, and
validators need not decide, so that what these modules promise is safety.

`WillingSpec`, used for `DisputesAreResolved` only, assumes more than the code justifies: accepted
calls become final (`WF`) and everybody keeps making every call the contract accepts (`SF`). The
violation is stronger for it: it shows that not even then is a dispute resolved.

Three invariants are not in the runs because a refinement TLC checks contains them, and are proved on
their own: `OneEnvelopePerHash` and `ConfirmedMeansMined` (in `ImplementsSingleUse`) and
`IndexFollowsContract` (in `ImplementsFinalVerdicts`). `NoEvidenceNoPayout` is proved only; the run checks
of it what `PayoutIsEarned` says, that nobody is paid without evidence.

Each property has a mutant in `PROJECT.json`: a definition changed the way a plausible bug would
change it, under which TLC finds the property violated.

## 4. What the code does against its own documentation

* `duplicate_deployment`. `docs/phase10-consensus-lifecycle.md:21` calls resubmission of a hash
  idempotent. Two confirmations past the status check before either commits both insert a
  `workflow_deployments` row, as does the retry of one that was cut between its two commits.
* `late_consensus_id`. Line 15 says the deployment row stores the lifecycle of its envelope, line
  25 that a reload can resolve a missing GenLayer id. The late id is written to the envelope
  only, and the deployment is looked up by its own id, which stays NULL: it is never finalized
  in the index and its contract never shown.
* `mixed_case`. Line 21 also says that a hash belonging to a different intent remains rejected. The
  query and the UNIQUE column that reject it compare texts, the verification compares in lower case and
  hands the text on: of two envelopes prepared alike, one is confirmed with `0xab..` and the other with
  `0xAB..`, and one transaction stands for both. `TransactionsAreExclusive` says that the case of the text
  is all that is missing.
* `dispute_resolution`. `ChatInterface.tsx:98` offers an escrow "with dispute resolution".
  `raise_dispute` sets a flag that closes the other two methods and that nothing clears: the deposit
  of a disputed escrow stays where it is. That nothing at all moves after a final dispute, for any
  wallets and amounts, is part of `FinalDecisionsStay`.
* `early_evaluation`. `build_notary_call_tx` answers an evaluation that comes too early with "Claim
  submission is not finalized." (`chat.py:2484`). It asks whether the claim's status is `pending`, the
  word `update_notary_consensus_state` writes for a finalized submission. The same function writes
  the protocol's status in lower case while consensus runs (`chat.py:824`), and the protocol has a
  status PENDING: polled then, a claim can be evaluated before its submission is final.

Four more were met that no run checks for themselves; they show in the actions:

* `docs/phase10-consensus-lifecycle.md:19` says polling updates the record to the protocol's status. Of two
  overlapping polls the older answer may be stored last (`PollStore`): a final envelope becomes unfinal again.
  `OnlyOlderTakesBack`, which holds, says that this is the whole extent of it: the request that takes
  finality back is a poll that had loaded the row before it was final, or a second confirmation that was
  under way when the envelope was consumed. A poll of a final row leaves it final.
* `docs/production-infrastructure-provisioning.md:338` has a tester "verify only the
  connected wallet's events appear". When the wallet changes, `LiveLogsPanel` closes the stream and keeps
  what it shows (`LiveLogsPanel.tsx:78`, `AccountChanges`). The new wallet's backlog replaces it, but only
  once that wallet has signed in, and after the panel says LIVE again (line 46, `Connect`). What does hold is
  `StreamIsOwn`: nothing of the first wallet arrives any more, two wallets are never mixed, and from the
  backlog on the panel is the new wallet's.
* `submit_claim` refuses a second submission because "This claimant already submitted the
  same claim and evidence" (`notary_service.py:436`). It compares the URLs as they were sent, the backend's
  review spells them alike before it names the claim. Without the app `https://GitHub.com` is other evidence
  than `https://github.com`, and the statement is judged twice on one page. `ContentIsClaimedOnce` says
  what is kept: contents that are written alike are claimed once.
* `docs/intelligent-contract-feature-research.md:88` says that transaction hashes and
  intent identifiers are preserved across confirmation errors, and `ChatInterface.tsx:1294`
  reconciles "instead of broadcasting again". Retry on a notary message (`Message.tsx:93`)
  runs `handleNotaryAction`, which clears them (line 1646): a call whose confirmation failed is built
  and broadcast a second time, with no reload in between (`NotaryPressed`). `DeploymentsAreSentOnce` is
  therefore about deployments. The contract refuses the second submission of a claim
  (`ContentIsClaimedOnce`) and the second evaluation (`FinalRecordsStay`), so it costs fees and
  not correctness.

Met while modelling, and visible in the exceptions the properties make; no statement of the
repository contradicts them, so they are not findings:

* An envelope prepared while the node told no fee can never be confirmed: the wallet adds fees, and
  the comparison refuses another fee mode (`AskedIsConfirmable` excepts it).
* `build_transfer_tx` does not apply the limits `/confirm` applies: an amount above the maximum, given as
  a float or missing, and the zero address, are built, broadcast and then refused
  (`ValidTransfer` in `AskedIsConfirmable`). The page accepts numbers only
  (`ChatInterface.tsx:1465`) while the chat returns text, so its own transfers do not come that far.
* A conditional payment may be deployed and funded without evidence sources: the validator and the
  constructor accept none, every evaluation ends INCONCLUSIVE, and what was paid in never leaves
  (`NoEvidenceNoPayout`).
* The contract stores a claim under any id of the right length and prefix; the backend shows only those that
  end in 24 hexadecimal digits (`RecordsAreReadable` is about these).
* A registry row without a GenLayer id stands in the way of the next registry without one
  (`ConfirmedRegistryIsIndexed` excepts it).
* A page that loads overwrites the browser's copy of its history before it reads it (`Reload`), so what was not
  saved to the server 700 ms after it changed is lost, hashes included; and the server's history
  replaces a newer hash the page has (`LoadHistory`). Both are counted in `dropped`.
* A user who speeds a transaction up in the wallet replaces its hash; the message keeps the old one
  and waits. (The replacement is not in the model: `Sign` gives a nonce once.)

## 5. Proofs

`TransactionLifecycleProofs` proves, from `LifecycleAssumption` alone (the types of the
constants; writing a hash in lower case twice changes nothing more; a transaction does not match both a
deployment and a transfer; NULL is neither an envelope nor a hash), for any number of envelopes, hashes and concurrent requests:

| Theorem | States |
|---|---|
| `TypeCorrect` | `Spec => []TypeOK` |
| `Inductive` | `Spec => []IInv` |
| `TextsAreExclusive` | `Spec => []OneEnvelopePerHash` |
| `TransactionsAreExclusive` | `(\A h \in Hash : Lower[h] = h) => (Spec => []OneEnvelopePerTransaction)` |
| `ConfirmedWereMined` | `Spec => []ConfirmedMeansMined` |
| `FinalityIsQueried` | `Spec => []FinalMeansFinalized` |
| `ExposureIsEarned` | `Spec => []ExposedMeansReturned` |
| `IdsAreOwn` | `Spec => []TrackedIdIsOwn` |
| `ConfirmedAreIndexed` | `Spec => []ConfirmedIsIndexed` |
| `ConsumptionIsFinal` | `Spec => ConsumedForGood` |
| `IndexIsSingleUse` | `Spec => ImplementsSingleUse` |
| `MinedIsNeverStranded` | `Spec => []MinedCanBeConfirmed` |
| `FinalityOutlivesNewPolls` | `Spec => OnlyOlderTakesBack` |

The argument. None of the invariants is inductive as it stands, since requests act on copies.
`IInv` says that every row, *stored or loaded*, is justified by the chain (`RowOK`), that every
request carries only what it has verified (`ConfirmOK`, `PollOK`), and that deployment rows are
about their own transaction (`DeploymentOK`). It is preserved for three reasons, one lemma
each: the chain only grows (`Grows`: mined stays mined, finalized stays finalized), so a
justified copy stays justified however old it is; `Flush` of three justified rows is
justified, because `RowOK` constrains each column by the chain and not by the other columns of
the row (where two columns are related, the relation survives mixing, and that is what the lemma on
`Flush` shows); and the UNIQUE guard is re-evaluated on the row that is stored. Then one lemma per
action, one step per part of the invariant.

The last two theorems need that a justification is not only lasting but the only one. The second
invariant, `Settled`, adds to `IInv` that two mined transactions share no envelope (they have its
nonce), that only mined deployments are logged and finalized (`ChainOK`), that what was broadcast was signed
for an envelope that exists (`Signed`), and that a poll which had loaded a final row has read a final
transaction (`PollsAgree`). The last is where the argument turns: the row names an id that was logged,
the row is final because *some* matching transaction was finalized, and the two are one, so the
answer is final too (`ReadingAgrees`). For `MinedIsNeverStranded` the envelope to confirm is the one
that carries the hash, if there is one (then no other does), else any that exists: an envelope of a mined
transaction is prepared or expired, both of which load, or it is accounted for. Liveness from there, that
the retry succeeds in the end, is `Reconciled`, which TLC checks.

`SiweAuthProofs` proves, from `SiweAssumption` (NULL is none of the values), for any number of wallets,
nonces, threads and processes: `TypeCorrect`, `Inductive`, `ChallengesAreOneShot`
(`OneTokenPerChallenge`), `SessionsAreSigned` (`TokenWasSigned`), `SessionsHaveUsers`
(`TokenHasOneUser`) and `SignInIsOneShot` (`ImplementsOneShot`). Its invariant follows a nonce: it is
with one request that asks for it, in one row, with one verification that has redeemed it, or in one
token, and these exclude each other. A verification that has only *selected* a challenge excludes
nothing, which is why the conditional DELETE must name both the key and the nonce (the mutant of
`ImplementsOneShot` drops the nonce).

`WorkflowContractsProofs` proves, from `WorkflowAssumption` (two different parties, a positive amount,
natural values), for any amounts, deposits, wallets, sources, references and number of open calls:
`TypeCorrect`, `Invariance`, `BooksAreTrue` (`BooksMatchMoney`), `PayoutsAreEarned`
(`PayoutIsEarned`), `AppIsComplete` (`OnlyGatesRefuse`), `CustodyIsKept`
(`ImplementsCustody`), `DecisionsAreFinal` (`FinalDecisionsStay`) and `PaymentsNeedEvidence`
(`NoEvidenceNoPayout`). Most of them speak of the final state only, yet what a call found decides what an appeal
restores; so the invariant is about the whole chain of open calls. Every contract in it satisfies its
template's invariant (`Sound`: when the balance is empty, whole or given away, and which verdict a
settled state rests on), every call moved money in one of four ways (`MovesRight`), and the first
contract's counters are what was received. An appeal ends the chain at one of its contracts; a
finalization moves its beginning by one call, whose counters changed by what is now delivered; a call
adds one link, by one lemma per template. For the last two theorems it matters that a finalization
moves the beginning of the chain by exactly one call: a call that a closed contract would accept
does not exist, a decisive verdict fixes the state that a further evaluation would need, and
without sources there is no decisive verdict, in any link of the chain.

`NotaryProofs` proves, from `NotaryAssumption` and `IndexAssumption` (the owner is a party, NULL is none
of the values, URLs are closed under the spelling review gives them, a reviewed draft has a digest, which is an id of the backend's form; two may share one), for any parties, claims, URLs,
answers, drafts, transactions and bounds: `TypeCorrect`, `Inductive`, `VerdictsRestOnEvidence`,
`RecordsStayReadable`, `ContractIsAsStrictAsReview`, `OneClaimPerContent`, `IndexNeverLeads`,
`ActiveMeansDeployed`, `ConfirmedIsIndexed`, `FinalRecordsAreKept` and `NotaryImplementsFinalVerdicts`
(`ImplementsFinalVerdicts`). Every property of the run `notary` is thereby proved. As with the workflow
contracts the argument is about the chain of open calls: each registry in it is sound, and each extends the one before (what exists keeps its content,
what is evaluated does not change). Finality takes the first of them, which all later ones extend,
and that is why what the index took from finalized state stays true; an appeal cuts the chain where
the extension still holds. A poll and a read carry what was final when they looked. For a registry,
what a poll says of finality is about the row it is stored in, since the GenLayer id of a row is its own.
For the refinement an extension is not enough: it must be a single submission or a single judgment
(`OneCall`), which the links of the chain carry.

`WalletFlowProofs` proves, from `ReviewAssumption` and `FlowAssumption` (NULL is none of the values; the
wallet is an address; the settings are of their types), for any messages, flows, envelopes, settings,
prices and number of broadcasts: `TypeCorrect`, `Inductive`, `ConfirmedIsWhatWasReviewed`,
`WhatWasAskedIsConfirmable`, `DeploymentsAreBroadcastOnce` and `FlowKeepsOrders`
(`ImplementsReviewedOrders`). The first two properties are arithmetic
over the comparison, for every gas and every fee (`ConfirmableIsReviewed`, `EncodingsMatch`), and need of
the state only that an envelope's fees are of one kind (`OneFeeMode`): with a gas price *and* a
maximum fee the comparison would accept a transaction at another price. The third rests on where the
hash of a deployment is (`KnownBy`): at most one flow is about a message, nothing was broadcast
for it before that flow has the hash, and when the flow ends the message has it; after a reload the
server's copy has it, or no copy has the message (`Remembered`), and a message not yet proposed
is nowhere (`NotYet`). The refinement follows
the pairs of a hash and an envelope wherever a flow, the page or a history has them (`FlowOK`,
`HashOK`): they belong to one message, and if the message ended, to a confirmed envelope. A
transaction is in no other message's set because the wallet gives a nonce once; it comes first for a
deployment because of `KnownBy`.

`ActivityLogProofs` proves, from `LogAssumption` (NULL is no wallet; a backlog is not empty and not longer
than a history or the panel; queues have a place), for any wallets, bounds and number of appends:
`TypeCorrect`, `Inductive`, `PanelShowsOneWallet` (`StreamIsOwn`), `StreamStaysInOrder`
(`StreamIsInOrder`) and `NewestAreKept` (`ReconnectKeepsNewest`). A history is an unbroken piece of the
wallet's log that ends with its newest item (`Newest`), whatever commands of whichever appends have
run, because LPUSH and LTRIM keep it so each by itself. A backlog is the end of one, hence newer than
anything it leaves out. `BacklogOK` carries this from the moment the backlog is read to the moment it is
sent, while the history moves on. In memory the queue is such a piece too (`Orderly`), and what
was shown ends where it begins, or earlier if it is full.

Model-checked only: `Reconciled`, `PanelCatchesUp` and every other liveness property (liveness under fairness and
ENABLED are beyond the prover), and the violations. The proofs use no RECURSIVE operator.

## 6. What is left

Done: the lifecycle, sign-in, the workflow contracts, the notary and its index, the review of a
transaction, the flow of a message and the activity log, each with its proofs. In order of importance, what could follow:

1. A refinement of `TransactionLifecycle` by `WalletFlow`, so that its retries are the page's and `Matches`
   is `Confirmable` by definition instead of by correspondence.
2. `handleWorkflowAction`, the third caller of the wallet, and a second tab of one wallet: they are flows
   like `NotaryPressed`, with the role checks of `WorkflowContracts` and another `shown`.
3. Sign-in in the browser: attempts that are cancelled or overlap, the token in local storage.

### Not modelled, and why

* **Consensus polling and presentation** (`consensusLifecycle.mjs`). A table of words per phase and
  a timer. Whether every message reaches its outcome on screen depends on timers of a tab that browsers
  suspend, so no fairness is justified; that polling stops at a terminal status is a line of the
  table. The polls themselves are in `TransactionLifecycle` and `NotaryIndex`.
* **Workflow index** (`persist_workflow_action`). A row per requested action, for display. The
  authorization before it is in `WorkflowContracts` (`BuildCall`).
* **Readiness gate's answer.** `WalletFlow` has its refusal, not its reason: it depends on the wallet's
  other transactions, and nothing in the repository says what a stale answer may cost.
* **Generation, parsing, simulation.** Functions from text to text, or from text to a classification.
  A model would restate their strings. What other parts rely on is there: `verify_reviewed_source`,
  `normalize_intent`, `validate_intent`.
* **RPC transport, encodings, capabilities and readiness report, network configuration, schema
  migrations, panels.** No state of their own that another part depends on, or pure input and output.
* **Replaced transactions.** The repository does not handle a wallet's replacement of a broadcast
  transaction; `Sign` gives a nonce once.
