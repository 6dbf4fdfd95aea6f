----------------------------- MODULE WalletFlow -----------------------------
(***************************************************************************)
(* From a reviewed message of the chat to a confirmed transaction.  A flow *)
(* is one run of handleConfirm, of handleNotaryAction, or of a client that *)
(* uses the transfer endpoint: it has a transaction built, asks the wallet *)
(* to sign and broadcast it, and has it confirmed.  What a flow knows is   *)
(* in local variables until it ends; what the page knows of a message is   *)
(* kept in the server's copy of the history, which follows the page when   *)
(* it is left alone for a while, and replaces the page's when it loads.    *)
(* (The browser has a copy too, which a page that loads writes over, with  *)
(* its welcome, before it reads it.)                                       *)
(*                                                                         *)
(* POST /chat/confirm is one step here: how two of them interleave is      *)
(* TransactionLifecycle's subject.                                         *)
(***************************************************************************)
EXTENDS TransactionReview, Sequences

CONSTANTS
  Message,      \* messages with an intent to confirm, each proposed once
  World,        \* what is asked and what the node answers: settings to choose from
  Wallet,       \* the signed-in wallet
  Flow,         \* slots for concurrent flows
  Envelope,     \* prepared_transactions ids
  OtherPrice,   \* gas prices the user may set instead
  MaxSent       \* bound on the broadcast transactions

\* messages are those the user brings about, asked[m] is what message m has
\* built, transfer what a client asks of the transfer endpoint, and view what
\* the node answers but for the nonce.
Setting ==
  [messages: SUBSET Message,
   asked: [Message -> {r \in Request : r.action # "transfer"}],
   transfer: Maybe({r \in Request : r.action = "transfer"}),
   network: Network, view: NodeView]

VARIABLES
  world,        \* the setting, which stays as it is
  envelopes,    \* prepared_transactions
  sent,         \* the broadcast transactions; the index is the hash
  flows,        \* the flows under way
  proposed,     \* the messages there were so far
  shown,        \* per message: what the page holds
  remote,       \* per message: what the server's history holds
  loading,      \* the server's history is being asked for
  unsaved,      \* a save of the history is scheduled
  dropped       \* history variable: messages whose hash the page lost

pageVars == <<proposed, shown, remote, loading, unsaved, dropped>>
vars == <<world, envelopes, sent, flows, pageVars>>

Hash == 1 .. MaxSent

\* status is "ended" for submitted, success and finalized alike, and "absent"
\* for a message that is not in the history.
MessageState ==
  [status: {"absent", "awaiting_confirmation", "executing", "error", "ended"},
   txHash: Maybe(Hash), prepared: Maybe(Envelope)]

\* for and honest are history variables: the message it was signed for, and
\* whether the wallet signed what it was asked.
SentRecord ==
  [tx: Transaction, envelope: Envelope, for: Maybe(Message), honest: BOOLEAN]

EnvelopeRecord ==
  [status: {"prepared", "confirmed"}, intent: Intent, tx: Transaction,
   release: Maybe(Release), tx_hash: Maybe(Hash)]

ASSUME FlowAssumption ==
  /\ Wallet \in Address
  /\ World \subseteq Setting
  /\ OtherPrice \subseteq Nat /\ MaxSent \in Nat
  /\ NULL \notin Message /\ NULL \notin Envelope /\ NULL \notin EnvelopeRecord

FlowRecord ==
  [pc: {"idle", "building", "signing", "confirming"}, message: Maybe(Message),
   request: Maybe(Request), prepared: Maybe(Envelope), txHash: Maybe(Hash)]

Idle ==
  [pc |-> "idle", message |-> NULL, request |-> NULL, prepared |-> NULL,
   txHash |-> NULL]

History == [Message -> MessageState]

\* The variables have the values their descriptions give.
TypeOK ==
  /\ world \in World
  /\ envelopes \in [Envelope -> Maybe(EnvelopeRecord)]
  /\ sent \in Seq(SentRecord) /\ Len(sent) <= MaxSent
  /\ flows \in [Flow -> FlowRecord]
  /\ proposed \subseteq Message
  /\ shown \in History
  /\ remote \in Maybe(History)
  /\ loading \in BOOLEAN
  /\ unsaved \in BOOLEAN
  /\ dropped \subseteq Message

Reviewed == [status |-> "awaiting_confirmation", txHash |-> NULL, prepared |-> NULL]

\* The welcome alone.
Welcome == [m \in Message |-> [Reviewed EXCEPT !.status = "absent"]]

\* The page has been opened, for the first time.
Init ==
  /\ world \in World
  /\ envelopes = [e \in Envelope |-> NULL]
  /\ sent = <<>>
  /\ flows = [f \in Flow |-> Idle]
  /\ proposed = {}
  /\ shown = Welcome
  /\ remote = NULL
  /\ loading = TRUE
  /\ unsaved = FALSE
  /\ dropped = {}

-----------------------------------------------------------------------------
(* The history.                                                            *)

\* A message that is there is replaced.  Every change of the page's messages
\* schedules a save, unless the history is being loaded.
Show(m, state) ==
  /\ shown' = [shown EXCEPT ![m] = IF @.status = "absent" THEN @ ELSE state]
  /\ unsaved' = (unsaved \/ ~loading)
  /\ UNCHANGED <<proposed, remote, loading, dropped>>

\* The chat answers with an intent that was reviewed.
Propose(m) ==
  /\ m \in world.messages \ proposed
  /\ proposed' = proposed \cup {m}
  /\ shown' = [shown EXCEPT ![m] = Reviewed]
  /\ unsaved' = (unsaved \/ ~loading)
  /\ UNCHANGED <<world, envelopes, sent, flows, remote, loading, dropped>>

\* sanitizeMessages: what was under way was interrupted.
Sanitized(history) ==
  [m \in Message |-> IF history[m].status = "executing"
                     THEN [history[m] EXCEPT !.status = "error"] ELSE history[m]]

\* 700 ms without another change.
SaveHistory ==
  /\ unsaved /\ ~loading
  /\ remote' = shown
  /\ unsaved' = FALSE
  /\ UNCHANGED <<world, envelopes, sent, flows, proposed, shown, loading, dropped>>

SaveFails ==
  /\ unsaved
  /\ unsaved' = FALSE
  /\ UNCHANGED <<world, envelopes, sent, flows, proposed, shown, remote, loading, dropped>>

\* The hash of m is not in the server's copy.
Unknown(m, hash) == hash # NULL /\ (remote = NULL \/ remote[m].txHash # hash)

\* The page is reloaded: its messages, its flows and the scheduled save are
\* gone, and the server's history is asked for.
Reload ==
  /\ flows' = [f \in Flow |-> IF flows[f].message = NULL THEN flows[f] ELSE Idle]
  /\ shown' = Welcome
  /\ loading' = TRUE
  /\ unsaved' = FALSE
  /\ dropped' = dropped \cup
       {m \in Message : \/ Unknown(m, shown[m].txHash)
                       \/ \E f \in Flow : flows[f].message = m /\ Unknown(m, flows[f].txHash)}
  /\ UNCHANGED <<world, envelopes, sent, proposed, remote>>

\* The server's history replaces the page's, flows or no flows.  The change
\* is seen when loading is over, and schedules a save.
LoadHistory ==
  /\ loading /\ remote # NULL
  /\ shown' = Sanitized(remote)
  /\ loading' = FALSE
  /\ unsaved' = TRUE
  /\ dropped' = dropped \cup
       {m \in Message : \/ Unknown(m, shown[m].txHash)
                       \/ \E f \in Flow : flows[f].message = m}
  /\ UNCHANGED <<world, envelopes, sent, flows, proposed, remote>>

\* The server has none: it gets what the page held when the load began.
LoadNothing ==
  /\ loading /\ remote = NULL
  /\ remote' = Welcome
  /\ loading' = FALSE
  /\ UNCHANGED <<world, envelopes, sent, flows, proposed, shown, unsaved, dropped>>

LoadFails ==
  /\ loading
  /\ loading' = FALSE
  /\ UNCHANGED <<world, envelopes, sent, flows, proposed, shown, remote, unsaved, dropped>>

-----------------------------------------------------------------------------
(* The flows.                                                              *)

serverVars == <<world, envelopes, sent>>

Step(f, state) == flows' = [flows EXCEPT ![f] = state]

\* handleConfirm: a message whose hash is known is only confirmed again.
ConfirmPressed(f, m) ==
  /\ flows[f].pc = "idle" /\ world.asked[m].action = "deploy_contract"
  /\ shown[m].status \in {"awaiting_confirmation", "error"}
  /\ Step(f, IF shown[m].txHash # NULL
             THEN [Idle EXCEPT !.pc = "confirming", !.message = m,
                               !.prepared = shown[m].prepared, !.txHash = shown[m].txHash]
             ELSE [Idle EXCEPT !.pc = "building", !.message = m, !.request = world.asked[m]])
  /\ Show(m, [shown[m] EXCEPT !.status = "executing"])
  /\ UNCHANGED serverVars

\* handleNotaryAction, also when it is pressed again after an error.
NotaryPressed(f, m) ==
  /\ flows[f].pc = "idle" /\ world.asked[m].action = "contract_call"
  /\ shown[m].status \in {"awaiting_confirmation", "error"}
  /\ Step(f, [Idle EXCEPT !.pc = "building", !.message = m, !.request = world.asked[m]])
  /\ Show(m, [Reviewed EXCEPT !.status = "executing"])
  /\ UNCHANGED serverVars

\* A client of the transfer endpoint.
TransferAsked(f) ==
  /\ flows[f].pc = "idle" /\ world.transfer # NULL
  /\ Step(f, [Idle EXCEPT !.pc = "building", !.request = world.transfer])
  /\ UNCHANGED <<serverVars, pageVars>>

\* The nonce counts what the wallet has broadcast.  release is a history
\* variable: the backend that built a deployment.
Prepared(r, release) ==
  [status |-> "prepared", intent |-> PreparedIntent(r),
   tx |-> PreparedTx(r, [world.view EXCEPT !.nonce = Len(sent)], world.network, Wallet),
   release |-> IF r.action = "deploy_contract" THEN release ELSE NULL, tx_hash |-> NULL]

\* The build endpoints: the envelope is stored and its transaction answered.
Build(f, e, release) ==
  /\ flows[f].pc = "building" /\ envelopes[e] = NULL
  /\ Buildable(flows[f].request, release)
  /\ envelopes' = [envelopes EXCEPT ![e] = Prepared(flows[f].request, release)]
  /\ Step(f, [flows[f] EXCEPT !.pc = "signing", !.prepared = e])
  /\ UNCHANGED <<world, sent, pageVars>>

\* What the user may make of a transaction in the wallet.
Edited(tx) ==
  {[tx EXCEPT ![field] = @ + 1] : field \in {"gas", "nonce", "value"}}
    \cup {[tx EXCEPT !.fees = LegacyFees(price)] : price \in OtherPrice}

\* The wallet signs what it was asked, in its own encoding, or what the user
\* made of it, and broadcasts it unless its nonce was used.
Sign(f, tx) ==
  LET e == flows[f].prepared IN
  /\ flows[f].pc = "signing" /\ Len(sent) < MaxSent
  /\ tx \in Encodings(envelopes[e].intent, envelopes[e].tx) \cup Edited(envelopes[e].tx)
  /\ tx.nonce \notin {sent[h].tx.nonce : h \in 1 .. Len(sent)}
  /\ sent' = Append(sent,
       [tx |-> tx, envelope |-> e, for |-> flows[f].message,
        honest |-> tx \in Encodings(envelopes[e].intent, envelopes[e].tx)])
  /\ Step(f, [flows[f] EXCEPT !.pc = "confirming", !.txHash = Len(sent) + 1])
  /\ UNCHANGED <<world, envelopes, pageVars>>

\* POST /chat/confirm for a transaction that was mined.
confirm_action(f) ==
  LET e == flows[f].prepared
      h == flows[f].txHash
  IN
  /\ flows[f].pc = "confirming" /\ envelopes[e].status = "prepared"
  /\ \A other \in Envelope \ {e} : envelopes[other] # NULL => envelopes[other].tx_hash # h
  /\ Confirmable(envelopes[e].intent, envelopes[e].tx, sent[h].tx)
  /\ envelopes' = [envelopes EXCEPT ![e].status = "confirmed", ![e].tx_hash = h]
  /\ UNCHANGED <<world, sent, flows, pageVars>>

\* Mutant: an answer that is an error does not bring the hash back.
AnsweredWithoutHash(f) ==
  /\ flows[f].pc = "confirming" /\ flows[f].message # NULL
  /\ \/ /\ envelopes[flows[f].prepared].tx_hash = flows[f].txHash
        /\ Show(flows[f].message, [status |-> "ended", txHash |-> flows[f].txHash,
                                   prepared |-> flows[f].prepared])
     \/ Show(flows[f].message, [Reviewed EXCEPT !.status = "error"])
  /\ Step(f, Idle)
  /\ UNCHANGED serverVars

\* Mutant: a message has ended when its transaction was broadcast.
AnsweredWhenBroadcast(f) ==
  /\ flows[f].pc = "confirming" /\ flows[f].message # NULL
  /\ \E status \in {"error", "ended"} :
       Show(flows[f].message, [status |-> status, txHash |-> flows[f].txHash,
                               prepared |-> flows[f].prepared])
  /\ Step(f, Idle)
  /\ UNCHANGED serverVars

\* The answer to /confirm, or an error in its place: confirmAction returns
\* the hash and the envelope in either case.
Answered(f) ==
  /\ flows[f].pc = "confirming" /\ flows[f].message # NULL
  /\ \E status \in {"error"} \cup
          (IF envelopes[flows[f].prepared].tx_hash = flows[f].txHash THEN {"ended"} ELSE {}) :
       Show(flows[f].message, [status |-> status, txHash |-> flows[f].txHash,
                               prepared |-> flows[f].prepared])
  /\ Step(f, Idle)
  /\ UNCHANGED serverVars

\* The gate, the build or the user refuses.  A flow that began with a hash
\* keeps it then too, which is an answer with an error.
Refused(f) ==
  /\ flows[f].pc \in {"building", "signing"} /\ flows[f].message # NULL
  /\ Show(flows[f].message, [shown[flows[f].message] EXCEPT !.status = "error"])
  /\ Step(f, Idle)
  /\ UNCHANGED serverVars

\* A client asks until its transfer is confirmed, or gives up.
TransferEnds(f) ==
  /\ flows[f].pc # "idle" /\ flows[f].message = NULL
  /\ Step(f, Idle)
  /\ UNCHANGED <<serverVars, pageVars>>

-----------------------------------------------------------------------------
Page ==
  \/ \E m \in Message : Propose(m)
  \/ SaveHistory \/ SaveFails \/ Reload \/ LoadHistory \/ LoadNothing \/ LoadFails

Flows ==
  \E f \in Flow :
    \/ \E m \in Message : ConfirmPressed(f, m) \/ NotaryPressed(f, m)
    \/ TransferAsked(f)
    \/ \E e \in Envelope, release \in Release : Build(f, e, release)
    \/ flows[f].pc = "signing" /\
         \E tx \in Encodings(envelopes[flows[f].prepared].intent, envelopes[flows[f].prepared].tx)
                   \cup Edited(envelopes[flows[f].prepared].tx) : Sign(f, tx)
    \/ confirm_action(f) \/ Answered(f) \/ Refused(f) \/ TransferEnds(f)

Next == Page \/ Flows

Spec == Init /\ [][Next]_vars

-----------------------------------------------------------------------------
\* A confirmed transaction is the one that was reviewed: same wallet,
\* destination, calldata, value, nonce and network, at the reviewed price and
\* for at most half as much gas again, whatever the wallet or the user made
\* of it; and a deployed source was reviewed under the release that built it.
ConfirmedIsReviewed ==
  \A e \in Envelope :
    envelopes[e] # NULL /\ envelopes[e].status = "confirmed" =>
      LET row == envelopes[e]
          tx == sent[row.tx_hash].tx
      IN  /\ row.tx_hash \in 1 .. Len(sent)
          /\ \A field \in {"from", "to", "data", "value", "nonce", "network"} :
               tx[field] = row.tx[field]
          /\ Price(tx.fees) = Price(row.tx.fees)
          /\ 2 * tx.gas <= 3 * row.tx.gas + 1
          /\ row.intent.action = "deploy_contract" => row.intent.release = row.release

\* What the wallet broadcast as asked can be confirmed: the rules of the
\* build endpoints, of the safety check and of the comparison agree.  Two
\* kinds of envelopes are excepted, because the code cannot confirm them:
\* those prepared while the node told no fee, which the wallet then adds, and
\* transfers whose intent fails the safety rules the build does not apply.
AskedIsConfirmable ==
  \A h \in 1 .. Len(sent) :
    LET row == envelopes[sent[h].envelope] IN
    /\ sent[h].honest
    /\ FeeMode(row.tx.fees) # "none"
    /\ row.intent.action = "transfer" => ValidTransfer(row.intent)
    => Confirmable(row.intent, row.tx, sent[h].tx)

\* The messages whose transaction is only broadcast again after the page
\* lost its hash: in a reload or to a load of the history, when the server's
\* copy did not have it yet.
SentOnce(messages) ==
  \A m \in messages \ dropped :
    \A g, h \in 1 .. Len(sent) : sent[g].for = m /\ sent[h].for = m => g = h

\* "Reconcile the reviewed transaction hash instead of broadcasting again":
\* a deployment is broadcast again only after the page lost its hash.
DeploymentsAreSentOnce ==
  SentOnce({m \in Message : world.asked[m].action = "deploy_contract"})

\* What message m asks a transaction to do.
OrderOf(m) ==
  [from |-> Wallet, to |-> ConsensusContract, data |-> world.asked[m].data,
   value |-> world.asked[m].value, network |-> world.network]

\* The transactions confirmed for message m.
CarriedOut(m) ==
  {sent[h].tx : h \in {k \in 1 .. Len(sent) :
     sent[k].for = m /\ envelopes[sent[k].envelope].tx_hash = k}}

\* The page, the wallet and the server keep the promise of ReviewedOrders: a
\* call may be repeated, a deployment only after the page lost its hash.
Orders == INSTANCE ReviewedOrders WITH
  Order <- [from: Address, to: Address, data: Calldata, value: Nat, network: Network],
  order <- [m \in Message |-> OrderOf(m)],
  carried <- [m \in Message |-> CarriedOut(m)],
  repeatable <- dropped \cup {m \in Message : world.asked[m].action # "deploy_contract"},
  reported <- {m \in Message : shown[m].status = "ended"}

ImplementsReviewedOrders == Orders!Spec

=============================================================================
