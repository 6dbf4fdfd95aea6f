-------------------------- MODULE WalletFlowProofs --------------------------
(***************************************************************************)
(* Proofs about WalletFlow and TransactionReview, for any messages, flows, *)
(* envelopes, requests, answers of the node and gas prices.                *)
(*                                                                         *)
(* That what was confirmed is what was reviewed, and that what a wallet    *)
(* was seen to make of a request is confirmed, needs one fact of the       *)
(* envelopes: that their fees are of one kind (OneFeeMode).  That a        *)
(* deployment is broadcast once rests on where its hash is (KnownBy): while *)
(* a flow is signing nothing is broadcast, then the flow knows the hash,   *)
(* when it ends the page does, and after a reload the server's copy, or    *)
(* the message is gone.                                                    *)
(***************************************************************************)
EXTENDS WalletFlow, TLAPS

-----------------------------------------------------------------------------
\* Prepared transactions.

\* What the build endpoints put into an envelope: a gas price or none, or
\* both EIP-1559 fees.
OneFeeMode(fees) ==
  \/ fees.maxFeePerGas = NULL /\ fees.maxPriorityFeePerGas = NULL
  \/ /\ fees.gasPrice = NULL
     /\ fees.maxFeePerGas # NULL /\ fees.maxPriorityFeePerGas # NULL

\* A confirmed transaction costs at most what was reviewed, with half as much
\* gas again, and does the same.
LEMMA ConfirmableIsReviewed ==
  ASSUME NEW intent \in Intent, NEW reviewed \in Transaction, NEW tx \in Transaction,
         OneFeeMode(reviewed.fees), Confirmable(intent, reviewed, tx)
  PROVE  /\ \A field \in {"from", "to", "data", "value", "nonce", "network"} :
              tx[field] = reviewed[field]
         /\ Price(tx.fees) = Price(reviewed.fees)
         /\ 2 * tx.gas <= 3 * reviewed.gas + 1
<1>1. /\ FieldsMatch(reviewed, tx) /\ GasMatches(intent, reviewed, tx)
      /\ FeesMatch(intent, reviewed, tx)
  BY DEF Confirmable, verify_submitted_transaction
<1>2. \A field \in {"from", "to", "data", "value", "nonce", "network"} :
        tx[field] = reviewed[field]
  BY <1>1 DEF FieldsMatch
<1>3. 2 * tx.gas <= 3 * reviewed.gas + 1
  <2>1. tx.gas \in Nat /\ reviewed.gas \in Nat
    BY DEF Transaction
  <2>2. tx.gas = reviewed.gas \/ tx.gas = (reviewed.gas * 3 + 1) \div 2
    BY <1>1 DEF GasMatches, Raised
  <2>3. \A g \in Nat : 2 * ((g * 3 + 1) \div 2) <= 3 * g + 1
    OBVIOUS
  <2> QED BY <2>1, <2>2, <2>3
<1>4. Price(tx.fees) = Price(reviewed.fees)
  <2>0. tx.fees \in Fees /\ reviewed.fees \in Fees
    BY DEF Transaction
  <2>1. CASE studio_zero_fee_normalization(reviewed, tx)
    <3>1. Price(tx.fees) = 0
      BY <2>1 DEF studio_zero_fee_normalization, Price
    <3>2. Price(reviewed.fees) = 0
      BY <2>1 DEF studio_zero_fee_normalization, Price, FeeMode, OneFeeMode
    <3> QED BY <3>1, <3>2
  <2>2. CASE wallet_legacy_fee_normalization(intent, reviewed, tx)
    BY <2>2 DEF wallet_legacy_fee_normalization, Price
  <2>3. CASE /\ FeeMode(tx.fees) = FeeMode(reviewed.fees)
             /\ \A field \in {"gasPrice", "maxFeePerGas", "maxPriorityFeePerGas"} :
                  reviewed.fees[field] # NULL => tx.fees[field] = reviewed.fees[field]
    <3>1. CASE FeeMode(reviewed.fees) = "eip1559"
      <4>1. reviewed.fees.maxFeePerGas # NULL
        BY <3>1 DEF FeeMode, OneFeeMode
      <4> QED BY <2>3, <3>1, <4>1 DEF Price
    <3>2. CASE FeeMode(reviewed.fees) = "legacy"
      <4>1. reviewed.fees.gasPrice # NULL
        BY <3>2 DEF FeeMode
      <4> QED BY <2>3, <3>2, <4>1 DEF Price
    <3>3. CASE FeeMode(reviewed.fees) = "none"
      BY <2>3, <3>3 DEF Price
    <3>4. FeeMode(reviewed.fees) \in {"eip1559", "legacy", "none"}
      BY DEF FeeMode
    <3> QED BY <3>1, <3>2, <3>3, <3>4
  <2> QED BY <1>1, <2>1, <2>2, <2>3 DEF FeesMatch
<1> QED BY <1>2, <1>3, <1>4

\* What a wallet was seen to make of a reviewed transaction passes the
\* comparison with it.
LEMMA EncodingsMatch ==
  ASSUME NEW intent \in Intent, NEW reviewed \in Transaction,
         OneFeeMode(reviewed.fees), NEW tx \in Encodings(intent, reviewed)
  PROVE  tx \in Transaction /\ verify_submitted_transaction(intent, reviewed, tx)
<1> DEFINE legacy == LegacyFees(Price(reviewed.fees))
<1>0. PICK w \in Rewritings(intent, reviewed) :
        tx = [reviewed EXCEPT !.gas = w.gas, !.fees = w.fees, !.studio = w.studio]
  BY DEF Encodings
<1>1. PICK g, f, s :
        /\ g = w.gas /\ f = w.fees /\ s = w.studio
        /\ g \in {reviewed.gas, Raised(reviewed.gas)} /\ f \in {reviewed.fees, legacy}
        /\ s \in BOOLEAN
        /\ g # reviewed.gas => s \/ Rewritten(intent, reviewed)
        /\ f # reviewed.fees =>
             /\ reviewed.fees.maxPriorityFeePerGas = 0
             /\ Rewritten(intent, reviewed) \/ (s /\ Price(reviewed.fees) = 0)
        /\ s => FeeMode(f) = "legacy"
  BY DEF Rewritings
<1>2. /\ tx = [reviewed EXCEPT !.gas = g, !.fees = f, !.studio = s]
      /\ tx.gas = g /\ tx.fees = f /\ tx.studio = s
      /\ tx.from = reviewed.from /\ tx.to = reviewed.to /\ tx.data = reviewed.data
      /\ tx.value = reviewed.value /\ tx.nonce = reviewed.nonce
      /\ tx.network = reviewed.network
  BY <1>0, <1>1 DEF Transaction
<1>3. GasMatches(intent, reviewed, tx)
  BY <1>1, <1>2 DEF GasMatches
<1>4. FeesMatch(intent, reviewed, tx)
  <2>1. CASE f = reviewed.fees
    BY <1>2, <2>1 DEF FeesMatch
  <2>2. CASE f # reviewed.fees
    <3>0. 0 # NULL /\ reviewed.fees \in Fees
      BY ReviewAssumption DEF Transaction
    <3>1. /\ f = legacy /\ reviewed.fees.maxPriorityFeePerGas = 0
          /\ reviewed.fees.maxFeePerGas # NULL /\ reviewed.fees.gasPrice = NULL
      BY <1>1, <2>2, <3>0 DEF OneFeeMode
    <3>2. FeeMode(reviewed.fees) = "eip1559" /\ Price(reviewed.fees) = reviewed.fees.maxFeePerGas
      BY <3>1 DEF FeeMode, Price
    <3>3. /\ f.gasPrice = reviewed.fees.maxFeePerGas
          /\ f.maxFeePerGas = NULL /\ f.maxPriorityFeePerGas = NULL
      BY <3>1, <3>2 DEF LegacyFees
    <3>4. FeeMode(f) = "legacy"
      BY <3>1, <3>3 DEF FeeMode
    <3>5. CASE Rewritten(intent, reviewed)
      BY <1>2, <3>1, <3>2, <3>3, <3>4, <3>5 DEF FeesMatch, wallet_legacy_fee_normalization
    <3>6. CASE s /\ Price(reviewed.fees) = 0
      BY <1>2, <3>1, <3>2, <3>3, <3>4, <3>6 DEF FeesMatch, studio_zero_fee_normalization
    <3> QED BY <1>1, <2>2, <3>5, <3>6
  <2> QED BY <2>1, <2>2
<1>5. tx \in Transaction
  <2>1. g \in Nat
    <3>1. reviewed.gas \in Nat
      BY DEF Transaction
    <3>2. (reviewed.gas * 3 + 1) \div 2 \in Nat
      BY <3>1
    <3> QED BY <1>1, <3>1, <3>2 DEF Raised
  <2>2. Price(reviewed.fees) \in Maybe(Nat)
    <3>1. reviewed.fees \in Fees
      BY DEF Transaction
    <3> QED BY <3>1 DEF Price, FeeMode, Fees, Maybe
  <2>3. f \in Fees
    <3>1. reviewed.fees \in Fees
      BY DEF Transaction
    <3>2. legacy \in Fees
      BY <2>2 DEF LegacyFees, Fees, Maybe
    <3> QED BY <1>1, <3>1, <3>2
  <2> QED BY <1>1, <1>2, <2>1, <2>3 DEF Transaction
<1> QED BY <1>2, <1>3, <1>4, <1>5 DEF verify_submitted_transaction, FieldsMatch

-----------------------------------------------------------------------------
\* The inductive invariant.

RowOK(e) ==
  envelopes[e] # NULL =>
    LET row == envelopes[e] IN
    /\ OneFeeMode(row.tx.fees)
    /\ row.intent.action = "deploy_contract" =>
         /\ row.intent.release = row.release
         /\ row.intent.gas_limit # NULL => row.intent.gas_limit >= MinGas
    /\ row.status = "prepared" => row.tx_hash = NULL
    /\ row.status = "confirmed" =>
         /\ row.tx_hash \in 1 .. Len(sent) /\ sent[row.tx_hash].envelope = e
         /\ Confirmable(row.intent, row.tx, sent[row.tx_hash].tx)

\* The transaction does what message m asks for.
Asks(m, tx) ==
  /\ tx.from = Wallet /\ tx.to = ConsensusContract
  /\ tx.data = world.asked[m].data /\ tx.value = world.asked[m].value
  /\ tx.network = world.network

SentOK(h) ==
  LET row == envelopes[sent[h].envelope] IN
  /\ row # NULL
  /\ sent[h].honest => sent[h].tx \in Encodings(row.intent, row.tx)
  /\ sent[h].for # NULL => Asks(sent[h].for, row.tx)

\* The wallet uses a nonce once.
Nonces ==
  \A g, h \in 1 .. Len(sent) : sent[g].tx.nonce = sent[h].tx.nonce => g = h

FlowOK(f) ==
  /\ flows[f].pc = "idle" => flows[f].message = NULL
  /\ flows[f].pc = "building" =>
       /\ flows[f].request \in Request
       /\ flows[f].message # NULL => flows[f].request = world.asked[flows[f].message]
  /\ flows[f].pc \in {"signing", "confirming"} =>
       flows[f].prepared \in Envelope /\ envelopes[flows[f].prepared] # NULL
  /\ flows[f].pc = "signing" /\ flows[f].message # NULL =>
       Asks(flows[f].message, envelopes[flows[f].prepared].tx)
  /\ flows[f].pc = "confirming" =>
       /\ flows[f].txHash \in 1 .. Len(sent)
       /\ sent[flows[f].txHash].envelope = flows[f].prepared
       /\ sent[flows[f].txHash].for = flows[f].message

\* The hash a message shows was broadcast for it, from the envelope it names;
\* and when it has ended, that envelope was confirmed with that hash.
HashOK(m, state) ==
  /\ state.txHash # NULL =>
       /\ state.txHash \in 1 .. Len(sent)
       /\ state.prepared \in Envelope /\ envelopes[state.prepared] # NULL
       /\ sent[state.txHash].envelope = state.prepared /\ sent[state.txHash].for = m
  /\ state.status = "ended" =>
       state.txHash # NULL /\ envelopes[state.prepared].tx_hash = state.txHash

Histories ==
  \A m \in Message :
    /\ HashOK(m, shown[m])
    /\ remote # NULL => HashOK(m, remote[m])

\* A message that was not proposed yet is nowhere.
NotYet(m) ==
  /\ shown[m].status = "absent"
  /\ remote # NULL => remote[m].status = "absent"
  /\ \A f \in Flow : flows[f].message # m
  /\ \A h \in 1 .. Len(sent) : sent[h].for # m

Deployments == {m \in Message : world.asked[m].action = "deploy_contract"}

\* The page shows the hash h of m, or has no message m, nor gets one without it.
Remembered(m, h) ==
  \/ h = shown[m].txHash
  \/ /\ shown[m].status = "absent"
     /\ remote # NULL /\ remote[m].status # "absent" => h = remote[m].txHash

\* Who knows the hash of a deployment: nobody while there is none, then the
\* one flow that broadcast it, and then the page.
KnownBy(m) ==
  /\ \A f, g \in Flow : flows[f].message = m /\ flows[g].message = m => f = g
  /\ \A f \in Flow : flows[f].message = m =>
       /\ shown[m].status = "executing"
       /\ \A h \in 1 .. Len(sent) : sent[h].for = m =>
            flows[f].pc = "confirming" /\ h = flows[f].txHash
  /\ \A g, h \in 1 .. Len(sent) : sent[g].for = m /\ sent[h].for = m => g = h
  /\ (\A f \in Flow : flows[f].message # m) =>
       \A h \in 1 .. Len(sent) : sent[h].for = m => Remembered(m, h)

IInv ==
  /\ TypeOK
  /\ \A e \in Envelope : RowOK(e)
  /\ \A h \in 1 .. Len(sent) : SentOK(h)
  /\ Nonces
  /\ \A f \in Flow : FlowOK(f)
  /\ Histories
  /\ \A m \in Message \ proposed : NotYet(m)
  /\ \A m \in Deployments \ dropped : KnownBy(m)

-----------------------------------------------------------------------------
\* What the build endpoints prepare.

LEMMA FeesOfOneKind ==
  ASSUME NEW node \in NodeView
  PROVE  SelectedFees(node) \in Fees /\ OneFeeMode(SelectedFees(node))
<1> DEFINE tip == IF node.priority = NULL THEN DefaultTip ELSE node.priority
<1>1. tip \in Nat /\ tip # NULL
  BY ReviewAssumption DEF NodeView, Maybe, DefaultTip
<1>2. CASE node.base_fee # NULL
  <2>1. node.base_fee + tip \in Nat
    BY <1>1, <1>2 DEF NodeView, Maybe
  <2>2. SelectedFees(node) = [gasPrice |-> NULL, maxFeePerGas |-> node.base_fee + tip,
                              maxPriorityFeePerGas |-> tip]
    BY <1>2 DEF SelectedFees
  <2> HIDE DEF tip
  <2> QED BY <1>1, <2>1, <2>2, ReviewAssumption DEF Fees, Maybe, OneFeeMode
<1>3. CASE node.base_fee = NULL
  BY <1>3 DEF SelectedFees, NodeView, Fees, Maybe, OneFeeMode
<1> QED BY <1>2, <1>3

LEMMA PreparedSound ==
  ASSUME NEW r \in Request, NEW release \in Release, Buildable(r, release),
         world \in Setting, Len(sent) \in Nat
  PROVE  LET row == Prepared(r, release) IN
         /\ row \in EnvelopeRecord /\ row.status = "prepared" /\ row.tx_hash = NULL
         /\ OneFeeMode(row.tx.fees)
         /\ r.action # "transfer" =>
              /\ row.tx.from = Wallet /\ row.tx.to = ConsensusContract
              /\ row.tx.data = r.data /\ row.tx.value = r.value
              /\ row.tx.network = world.network
         /\ row.intent.action = "deploy_contract" =>
              /\ row.intent.release = row.release
              /\ row.intent.gas_limit # NULL => row.intent.gas_limit >= MinGas
<1> DEFINE node == [world.view EXCEPT !.nonce = Len(sent)]
           intent == PreparedIntent(r)
           tx == PreparedTx(r, node, world.network, Wallet)
           built == IF r.action = "deploy_contract" THEN release ELSE NULL
           row == Prepared(r, release)
<1>a. Wallet \in Address /\ ConsensusContract \in Address /\ Empty \in Calldata
  BY FlowAssumption, ReviewAssumption
<1>1. node \in NodeView /\ world.network \in Network
  BY DEF Setting, NodeView
<1> HIDE DEF node
<1>2. tx \in Transaction /\ tx.fees = SelectedFees(node)
  <2>1. \A g \in Maybe(Nat) : SelectedGas(node, g) \in Nat
    BY <1>1 DEF SelectedGas, NodeView, Maybe, DefaultGas
  <2>2. r.gas_limit \in Maybe(Nat) /\ TransferGas(r) \in Maybe(Nat)
    BY DEF Request, TransferGas, MinGas, Maybe
  <2>3. ASSUME NEW to \in Address, NEW data \in Calldata, NEW g \in Maybe(Nat)
        PROVE  /\ _build_wallet_transaction(node, world.network, Wallet, to, data, r.value, g)
                    \in Transaction
               /\ _build_wallet_transaction(node, world.network, Wallet, to, data, r.value, g).fees
                    = SelectedFees(node)
    <3>1. r.value \in Nat /\ SelectedGas(node, g) \in Nat /\ node.nonce \in Nat
          /\ SelectedFees(node) \in Fees
      BY <1>1, <2>1, FeesOfOneKind DEF Request, NodeView
    <3> QED BY <1>a, <1>1, <3>1 DEF _build_wallet_transaction, Transaction
  <2>4. r.recipient \in Address /\ r.data \in Calldata
    BY DEF Request
  <2> QED BY <1>a, <2>2, <2>3, <2>4 DEF PreparedTx
<1>3. intent \in Intent
  <2>1. /\ r.recipient \in Address /\ r.token \in {"GEN", "other"} /\ r.gas_limit \in Maybe(Nat)
        /\ r.reviewed \in Maybe(Release) /\ r.given \in Maybe(AmountField)
        /\ r.action \in {"transfer", "deploy_contract", "contract_call"}
    BY DEF Request
  <2>2. TransferGas(r) \in Maybe(Nat)
    BY <2>1 DEF TransferGas, MinGas, Maybe
  <2>3. r.given # NULL => _normalize_decimal_amount(r.given) \in Maybe(Nat)
    BY <2>1 DEF _normalize_decimal_amount, AmountField, Maybe
  <2>4. build_transfer_intent(r) \in Intent
    <3>1. (IF r.given = NULL THEN NULL ELSE _normalize_decimal_amount(r.given)) \in Maybe(Nat)
      BY <2>3 DEF Maybe
    <3>2. (IF r.given = NULL THEN "GEN" ELSE r.token) \in {"GEN", "other"}
      BY <2>1
    <3> QED BY <2>1, <2>2, <3>1, <3>2 DEF build_transfer_intent, Intent, Maybe
  <2>5. build_deploy_intent(r) \in Intent /\ build_contract_call_intent(r) \in Intent
    BY <2>1 DEF build_deploy_intent, build_contract_call_intent, Intent, Maybe
  <2> QED BY <2>1, <2>4, <2>5 DEF PreparedIntent
<1>4. /\ intent.action = r.action
      /\ r.action = "deploy_contract" => intent.release = release /\ intent.gas_limit = r.gas_limit
  <2>1. r.action \in {"transfer", "deploy_contract", "contract_call"}
    BY DEF Request
  <2>2. r.action = "deploy_contract" => r.reviewed = release
    BY DEF Buildable, verify_reviewed_source
  <2> QED BY <2>1, <2>2
          DEF PreparedIntent, build_transfer_intent, build_deploy_intent, build_contract_call_intent
<1>5. r.action = "deploy_contract" /\ r.gas_limit # NULL => r.gas_limit >= MinGas
  BY DEF Buildable
<1>6. built \in Maybe(Release)
  BY DEF Maybe
<1>7. row = [status |-> "prepared", intent |-> intent, tx |-> tx, release |-> built,
             tx_hash |-> NULL]
  BY DEF Prepared, node
<1>8. OneFeeMode(tx.fees)
  BY <1>1, <1>2, FeesOfOneKind
<1>9. r.action = "deploy_contract" => built = release
  OBVIOUS
<1>b. r.action # "transfer" =>
        /\ tx.from = Wallet /\ tx.to = ConsensusContract
        /\ tx.data = r.data /\ tx.value = r.value /\ tx.network = world.network
  BY DEF PreparedTx, _build_wallet_transaction
<1> HIDE DEF intent, tx, built, row
<1>10. row \in EnvelopeRecord
  BY <1>2, <1>3, <1>6, <1>7 DEF EnvelopeRecord, Maybe
<1> QED BY <1>4, <1>5, <1>7, <1>8, <1>9, <1>b, <1>10 DEF row

-----------------------------------------------------------------------------
\* Broadcast transactions and envelopes.

LEMMA InitIsSound == Init => IInv
<1> SUFFICES ASSUME Init PROVE IInv
  OBVIOUS
<1>1. /\ sent = <<>> /\ sent \in Seq(SentRecord) /\ Len(sent) = 0 /\ MaxSent \in Nat
      /\ NULL \notin Message
  BY FlowAssumption DEF Init
<1>2. /\ shown \in History
      /\ \A m \in Message : shown[m].txHash = NULL /\ shown[m].status # "ended"
  BY DEF Init, Welcome, Reviewed, History, MessageState, Maybe
<1>3. Idle \in FlowRecord
  BY DEF Idle, FlowRecord, Maybe
<1>4. TypeOK
  <2>1. envelopes \in [Envelope -> Maybe(EnvelopeRecord)] /\ flows \in [Flow -> FlowRecord]
    BY <1>3 DEF Init, Maybe
  <2>2. /\ proposed \subseteq Message /\ remote \in Maybe(History) /\ loading \in BOOLEAN
        /\ unsaved \in BOOLEAN /\ dropped \subseteq Message
    BY DEF Init, Maybe
  <2>3. world \in World /\ Len(sent) <= MaxSent
    BY <1>1 DEF Init
  <2> QED BY <1>1, <1>2, <2>1, <2>2, <2>3 DEF TypeOK
<1>5. \A e \in Envelope : RowOK(e)
  BY DEF Init, RowOK
<1>6. \A f \in Flow : FlowOK(f)
  BY DEF Init, FlowOK, Idle
<1>7. Histories
  BY <1>2 DEF Init, Histories, HashOK
<1>8. \A m \in Deployments : KnownBy(m)
  BY <1>1 DEF Init, Idle, KnownBy, Deployments
<1>9. Nonces
  BY <1>1 DEF Nonces
<1>10. \A m \in Message : NotYet(m)
  BY <1>1 DEF Init, Welcome, Reviewed, Idle, NotYet
<1> QED BY <1>1, <1>4, <1>5, <1>6, <1>7, <1>8, <1>9, <1>10 DEF IInv

\* What the user makes of a transaction is a transaction.
LEMMA EditedIsTransaction ==
  ASSUME NEW tx \in Transaction
  PROVE  Edited(tx) \subseteq Transaction
<1>1. tx.gas + 1 \in Nat /\ tx.nonce + 1 \in Nat /\ tx.value + 1 \in Nat
  BY DEF Transaction
<1>2. ASSUME NEW field \in {"gas", "nonce", "value"}
      PROVE  [tx EXCEPT ![field] = @ + 1] \in Transaction
  <2>1. CASE field = "gas"
    BY <1>1, <2>1 DEF Transaction
  <2>2. CASE field = "nonce"
    BY <1>1, <2>2 DEF Transaction
  <2>3. CASE field = "value"
    BY <1>1, <2>3 DEF Transaction
  <2> QED BY <2>1, <2>2, <2>3
<1>3. ASSUME NEW price \in OtherPrice
      PROVE  [tx EXCEPT !.fees = LegacyFees(price)] \in Transaction
  <2>1. LegacyFees(price) \in Fees
    BY FlowAssumption DEF LegacyFees, Fees, Maybe
  <2> QED BY <2>1 DEF Transaction
<1> QED BY <1>2, <1>3 DEF Edited

\* A broadcast adds one transaction, of an envelope that was built.
LEMMA SignFacts ==
  ASSUME IInv, NEW f \in Flow, NEW tx, Sign(f, tx)
  PROVE  LET e == flows[f].prepared IN
         /\ flows[f].pc = "signing" /\ Len(sent) < MaxSent
         /\ e \in Envelope /\ envelopes[e] # NULL /\ envelopes[e] \in EnvelopeRecord
         /\ \E r \in SentRecord :
              /\ sent' = Append(sent, r)
              /\ r.envelope = e /\ r.for = flows[f].message
              /\ \A h \in 1 .. Len(sent) : sent[h].tx.nonce # r.tx.nonce
              /\ r.honest => r.tx \in Encodings(envelopes[e].intent, envelopes[e].tx)
         /\ flows' = [flows EXCEPT ![f] = [flows[f] EXCEPT !.pc = "confirming",
                                                         !.txHash = Len(sent) + 1]]
         /\ UNCHANGED <<world, envelopes, pageVars>>
<1> DEFINE e == flows[f].prepared
<1>1. /\ flows[f].pc = "signing" /\ Len(sent) < MaxSent
      /\ flows' = [flows EXCEPT ![f] = [flows[f] EXCEPT !.pc = "confirming",
                                                      !.txHash = Len(sent) + 1]]
      /\ UNCHANGED <<world, envelopes, pageVars>>
      /\ tx \in Encodings(envelopes[e].intent, envelopes[e].tx) \cup Edited(envelopes[e].tx)
      /\ \A h \in 1 .. Len(sent) : sent[h].tx.nonce # tx.nonce
  BY DEF Sign, Step
<1>2. /\ e \in Envelope /\ envelopes[e] # NULL /\ envelopes[e] \in EnvelopeRecord
      /\ flows[f] \in FlowRecord
  BY <1>1 DEF IInv, TypeOK, FlowOK, Maybe
<1>3. tx \in Transaction
  <2>1. envelopes[e].intent \in Intent /\ envelopes[e].tx \in Transaction
        /\ OneFeeMode(envelopes[e].tx.fees)
    BY <1>2 DEF EnvelopeRecord, IInv, RowOK
  <2> HIDE DEF e
  <2> QED BY <1>1, <2>1, EncodingsMatch, EditedIsTransaction
<1> DEFINE honest == tx \in Encodings(envelopes[e].intent, envelopes[e].tx)
           r == [tx |-> tx, envelope |-> e, for |-> flows[f].message, honest |-> honest]
<1>4. sent' = Append(sent, r)
  BY DEF Sign
<1>5. honest \in BOOLEAN /\ flows[f].message \in Maybe(Message)
  BY <1>2 DEF FlowRecord
<1>6. /\ r \in SentRecord /\ r.envelope = e /\ r.for = flows[f].message
      /\ r.tx = tx
      /\ r.honest => r.tx \in Encodings(envelopes[e].intent, envelopes[e].tx)
  <2> HIDE DEF honest
  <2>1. r \in SentRecord /\ r.envelope = e /\ r.for = flows[f].message
        /\ r.honest = honest /\ r.tx = tx
    BY <1>2, <1>3, <1>5 DEF SentRecord
  <2> QED BY <2>1 DEF honest
<1> HIDE DEF r
<1> QED BY <1>1, <1>2, <1>4, <1>6

\* Broadcast transactions stay.
LEMMA SentStays ==
  ASSUME IInv, [Next]_vars
  PROVE  /\ world' = world
         /\ sent' \in Seq(SentRecord) /\ Len(sent') <= MaxSent
         /\ Len(sent) \in Nat /\ Len(sent') \in Nat /\ Len(sent) <= Len(sent')
         /\ \A h \in 1 .. Len(sent) : sent'[h] = sent[h]
<1>a. sent \in Seq(SentRecord) /\ Len(sent) <= MaxSent /\ Len(sent) \in Nat /\ MaxSent \in Nat
  BY FlowAssumption DEF IInv, TypeOK
<1>1. ASSUME NEW f \in Flow, NEW tx, Sign(f, tx)
      PROVE  /\ world' = world
             /\ sent' \in Seq(SentRecord) /\ Len(sent') <= MaxSent
             /\ Len(sent') \in Nat /\ Len(sent) <= Len(sent')
             /\ \A h \in 1 .. Len(sent) : sent'[h] = sent[h]
  <2>1. PICK r \in SentRecord : sent' = Append(sent, r)
    BY <1>1, SignFacts
  <2>2. Len(sent) < MaxSent /\ world' = world
    BY <1>1 DEF Sign
  <2> QED BY <1>a, <2>1, <2>2
<1>2. (\E f \in Flow : \E tx : Sign(f, tx)) \/ UNCHANGED <<world, sent>>
  BY DEF Next, Page, Flows, vars, serverVars, pageVars, Propose, SaveHistory, SaveFails, Reload, LoadHistory,
         LoadNothing, LoadFails, ConfirmPressed, NotaryPressed, TransferAsked, Build,
         confirm_action, Answered, Refused, TransferEnds
<1> QED BY <1>a, <1>1, <1>2

\* An envelope stays for what it was built for, and is confirmed with what
\* passes the comparison.
LEMMA EnvelopesStep ==
  ASSUME IInv, [Next]_vars
  PROVE  /\ envelopes' \in [Envelope -> Maybe(EnvelopeRecord)]
         /\ \A e \in Envelope : RowOK(e)'
         /\ \A e \in Envelope : envelopes[e] # NULL =>
              /\ envelopes'[e] # NULL
              /\ envelopes'[e].intent = envelopes[e].intent
              /\ envelopes'[e].tx = envelopes[e].tx
              /\ envelopes[e].tx_hash # NULL => envelopes'[e].tx_hash = envelopes[e].tx_hash
<1>a. /\ envelopes \in [Envelope -> Maybe(EnvelopeRecord)]
      /\ \A e \in Envelope : RowOK(e)
      /\ world \in Setting
  BY FlowAssumption DEF IInv, TypeOK
\* A row that stays is as sound as it was.
<1>1. ASSUME NEW e \in Envelope, envelopes'[e] = envelopes[e] PROVE RowOK(e)'
  BY <1>1, <1>a, SentStays DEF RowOK
<1>2. CASE UNCHANGED envelopes
  BY <1>1, <1>2, <1>a
<1>3. ASSUME NEW f \in Flow, NEW k \in Envelope, NEW release \in Release, Build(f, k, release)
      PROVE  /\ envelopes' \in [Envelope -> Maybe(EnvelopeRecord)]
             /\ \A e \in Envelope : RowOK(e)'
             /\ \A e \in Envelope : envelopes[e] # NULL => envelopes'[e] = envelopes[e]
  <2> DEFINE r == flows[f].request
             row == Prepared(r, release)
  <2>1. /\ envelopes' = [envelopes EXCEPT ![k] = row] /\ envelopes[k] = NULL
        /\ Buildable(r, release) /\ r \in Request
    BY <1>3 DEF Build, IInv, FlowOK
  <2>2. /\ row \in EnvelopeRecord /\ row.status = "prepared" /\ row.tx_hash = NULL
        /\ OneFeeMode(row.tx.fees)
        /\ row.intent.action = "deploy_contract" =>
             /\ row.intent.release = row.release
             /\ row.intent.gas_limit # NULL => row.intent.gas_limit >= MinGas
    BY <1>a, <2>1, PreparedSound, SentStays
  <2> HIDE DEF row, r
  <2>3. envelopes' \in [Envelope -> Maybe(EnvelopeRecord)] /\ envelopes'[k] = row
    BY <1>a, <2>1, <2>2 DEF Maybe
  <2>4. RowOK(k)'
    BY <2>2, <2>3 DEF RowOK
  <2> QED BY <1>1, <1>a, <2>1, <2>3, <2>4
<1>4. ASSUME NEW f \in Flow, confirm_action(f)
      PROVE  /\ envelopes' \in [Envelope -> Maybe(EnvelopeRecord)]
             /\ \A e \in Envelope : RowOK(e)'
             /\ \A e \in Envelope : envelopes[e] # NULL =>
                  /\ envelopes'[e] # NULL
                  /\ envelopes'[e].intent = envelopes[e].intent
                  /\ envelopes'[e].tx = envelopes[e].tx
                  /\ envelopes[e].tx_hash # NULL => envelopes'[e].tx_hash = envelopes[e].tx_hash
  <2>0. PICK k, h : k = flows[f].prepared /\ h = flows[f].txHash
    OBVIOUS
  <2> DEFINE row == [envelopes[k] EXCEPT !.status = "confirmed", !.tx_hash = h]
  <2>1. /\ k \in Envelope /\ envelopes[k] # NULL /\ envelopes[k] \in EnvelopeRecord
        /\ h \in 1 .. Len(sent) /\ sent[h].envelope = k
        /\ envelopes[k].status = "prepared" /\ envelopes[k].tx_hash = NULL
    BY <1>4, <2>0 DEF confirm_action, IInv, TypeOK, FlowOK, RowOK, Maybe
  <2>2. /\ envelopes' = [envelopes EXCEPT ![k] = row]
        /\ Confirmable(envelopes[k].intent, envelopes[k].tx, sent[h].tx)
        /\ UNCHANGED sent
    BY <1>4, <1>a, <2>0, <2>1 DEF confirm_action
  <2>3. h \in Maybe(Hash)
    BY <2>1, FlowAssumption DEF IInv, TypeOK, Hash, Maybe
  <2>4. /\ row \in EnvelopeRecord /\ row.intent = envelopes[k].intent /\ row.tx = envelopes[k].tx
        /\ row.release = envelopes[k].release /\ row.tx_hash = h /\ row.status = "confirmed"
    BY <2>1, <2>3 DEF EnvelopeRecord
  <2> HIDE DEF row
  <2>5. envelopes' \in [Envelope -> Maybe(EnvelopeRecord)] /\ envelopes'[k] = row
    BY <1>a, <2>1, <2>2, <2>4 DEF Maybe
  <2>6. row # NULL => RowOK(k)'
    <3>1. /\ OneFeeMode(row.tx.fees)
          /\ row.intent.action = "deploy_contract" =>
               /\ row.intent.release = row.release
               /\ row.intent.gas_limit # NULL => row.intent.gas_limit >= MinGas
      BY <1>a, <2>1, <2>4 DEF RowOK
    <3>2. /\ row.tx_hash \in 1 .. Len(sent') /\ sent'[row.tx_hash].envelope = k
          /\ Confirmable(row.intent, row.tx, sent'[row.tx_hash].tx)
      BY <2>1, <2>2, <2>4
    <3> QED BY <2>4, <2>5, <3>1, <3>2 DEF RowOK
  <2>7. row # NULL
    BY <2>4, FlowAssumption
  <2> QED BY <1>1, <1>a, <2>1, <2>2, <2>4, <2>5, <2>6, <2>7
<1>5. \/ UNCHANGED envelopes
      \/ \E f \in Flow, k \in Envelope, release \in Release : Build(f, k, release)
      \/ \E f \in Flow : confirm_action(f)
  BY DEF Next, Page, Flows, vars, serverVars, pageVars, Propose, SaveHistory, SaveFails, Reload, LoadHistory,
         LoadNothing, LoadFails, ConfirmPressed, NotaryPressed, TransferAsked, Sign,
         Answered, Refused, TransferEnds
<1> QED BY <1>2, <1>3, <1>4, <1>5

\* What is broadcast is of an envelope, and what is broadcast as asked is what
\* the wallet makes of it.
LEMMA SentStep ==
  ASSUME IInv, [Next]_vars
  PROVE  (\A h \in 1 .. Len(sent') : SentOK(h)') /\ Nonces'
<1>a. /\ sent \in Seq(SentRecord) /\ \A h \in 1 .. Len(sent) : SentOK(h) /\ sent[h] \in SentRecord
      /\ Nonces
  BY DEF IInv, TypeOK
\* An old one is as sound as it was.
<1>1. ASSUME NEW h \in 1 .. Len(sent) PROVE SentOK(h)'
  <2>1. sent'[h] = sent[h] /\ SentOK(h)
    BY <1>a, SentStays
  <2>2. sent[h].envelope \in Envelope
    BY <1>a DEF SentRecord
  <2> QED BY <2>1, <2>2, SentStays, EnvelopesStep DEF SentOK, Asks
<1>2. ASSUME NEW f \in Flow, NEW tx, Sign(f, tx)
      PROVE  (\A h \in 1 .. Len(sent') : SentOK(h)') /\ Nonces'
  <2>1. PICK r \in SentRecord :
          /\ sent' = Append(sent, r) /\ r.envelope = flows[f].prepared
          /\ r.for = flows[f].message
          /\ \A h \in 1 .. Len(sent) : sent[h].tx.nonce # r.tx.nonce
          /\ r.honest => r.tx \in Encodings(envelopes[flows[f].prepared].intent,
                                            envelopes[flows[f].prepared].tx)
    BY <1>2, SignFacts
  <2>2. /\ envelopes[r.envelope] # NULL /\ UNCHANGED <<world, envelopes>>
        /\ r.for # NULL => Asks(r.for, envelopes[r.envelope].tx)
    BY <1>2, <2>1, SignFacts DEF IInv, FlowOK
  <2>3. ASSUME NEW h, h = Len(sent) + 1 PROVE SentOK(h)'
    <3>1. sent'[h] = r
      BY <1>a, <2>1, <2>3
    <3> QED BY <2>1, <2>2, <3>1 DEF SentOK, Asks
  <2>4. Nonces'
    <3>1. /\ Len(sent') = Len(sent) + 1 /\ sent'[Len(sent) + 1] = r
          /\ \A h \in 1 .. Len(sent) : sent'[h] = sent[h]
      BY <1>a, <2>1
    <3> QED BY <1>a, <2>1, <3>1 DEF Nonces
  <2> QED BY <1>1, <1>a, <2>1, <2>3, <2>4
<1>3. CASE UNCHANGED sent
  BY <1>1, <1>3, <1>a DEF Nonces
<1>4. (\E f \in Flow : \E tx : Sign(f, tx)) \/ UNCHANGED sent
  BY DEF Next, Page, Flows, vars, serverVars, pageVars, Propose, SaveHistory, SaveFails, Reload, LoadHistory,
         LoadNothing, LoadFails, ConfirmPressed, NotaryPressed, TransferAsked, Build,
         confirm_action, Answered, Refused, TransferEnds
<1> QED BY <1>2, <1>3, <1>4

-----------------------------------------------------------------------------
\* Flows and what the page shows.

\* What was known of a broadcast transaction still holds.
LEMMA HashKept ==
  ASSUME IInv, [Next]_vars, NEW m, NEW state, HashOK(m, state)
  PROVE  /\ state.txHash # NULL =>
              /\ state.txHash \in 1 .. Len(sent')
              /\ state.prepared \in Envelope /\ envelopes'[state.prepared] # NULL
              /\ sent'[state.txHash].envelope = state.prepared
              /\ sent'[state.txHash].for = m
         /\ state.status = "ended" =>
              state.txHash # NULL /\ envelopes'[state.prepared].tx_hash = state.txHash
BY SentStays, EnvelopesStep DEF HashOK

LEMMA FlowsStep ==
  ASSUME IInv, [Next]_vars
  PROVE  flows' \in [Flow -> FlowRecord] /\ \A f \in Flow : FlowOK(f)'
<1> DEFINE Good(s) ==
             /\ s \in FlowRecord
             /\ s.pc = "idle" => s.message = NULL
             /\ s.pc = "building" =>
                  /\ s.request \in Request
                  /\ s.message # NULL => s.request = world.asked[s.message]
             /\ s.pc \in {"signing", "confirming"} =>
                  s.prepared \in Envelope /\ envelopes'[s.prepared] # NULL
             /\ s.pc = "signing" /\ s.message # NULL =>
                  Asks(s.message, envelopes'[s.prepared].tx)
             /\ s.pc = "confirming" =>
                  /\ s.txHash \in 1 .. Len(sent')
                  /\ sent'[s.txHash].envelope = s.prepared
                  /\ sent'[s.txHash].for = s.message
<1>a. /\ flows \in [Flow -> FlowRecord] /\ shown \in [Message -> MessageState]
      /\ \A f \in Flow : FlowOK(f) /\ \A m \in Message : HashOK(m, shown[m])
      /\ world \in Setting /\ world' = world /\ NULL \notin Message
  BY FlowAssumption, SentStays DEF IInv, TypeOK, History, Histories
<1>b. \A f \in Flow : Good(flows[f])
  BY <1>a, SentStays, EnvelopesStep DEF FlowOK, Asks
<1>c. Good(Idle) /\ Idle \in FlowRecord
  BY DEF Idle, FlowRecord, Maybe
<1>1. ASSUME NEW f \in Flow, NEW s, Good(s), Step(f, s)
      PROVE  flows' \in [Flow -> FlowRecord] /\ \A g \in Flow : Good(flows'[g])
  BY <1>1, <1>a, <1>b DEF Step
<1>2. ASSUME UNCHANGED flows
      PROVE  flows' \in [Flow -> FlowRecord] /\ \A g \in Flow : Good(flows'[g])
  BY <1>2, <1>a, <1>b
<1>3. ASSUME NEW f \in Flow, NEW m \in Message, ConfirmPressed(f, m)
      PROVE  \E s : Good(s) /\ Step(f, s)
  <2>1. CASE shown[m].txHash # NULL
    <3> DEFINE s == [Idle EXCEPT !.pc = "confirming", !.message = m,
                                 !.prepared = shown[m].prepared, !.txHash = shown[m].txHash]
    <3>1. Step(f, s)
      BY <1>3, <2>1 DEF ConfirmPressed
    <3>2. shown[m].txHash \in Maybe(Hash) /\ shown[m].prepared \in Maybe(Envelope)
      BY <1>a DEF MessageState
    <3>3. /\ shown[m].txHash \in 1 .. Len(sent') /\ shown[m].prepared \in Envelope
          /\ envelopes'[shown[m].prepared] # NULL
          /\ sent'[shown[m].txHash].envelope = shown[m].prepared
          /\ sent'[shown[m].txHash].for = m
      BY <1>a, <2>1, HashKept
    <3>4. /\ s \in FlowRecord /\ s.pc = "confirming" /\ s.message = m
          /\ s.prepared = shown[m].prepared /\ s.txHash = shown[m].txHash
      BY <1>c, <3>2 DEF Idle, FlowRecord, Maybe
    <3> HIDE DEF s
    <3>5. Good(s)
      BY <3>3, <3>4
    <3> QED BY <3>1, <3>5
  <2>2. CASE shown[m].txHash = NULL
    <3> DEFINE r == world.asked[m]
               s == [Idle EXCEPT !.pc = "building", !.message = m, !.request = r]
    <3>1. Step(f, s)
      BY <1>3, <2>2 DEF ConfirmPressed
    <3>2. r \in Request
      BY <1>a DEF Setting
    <3> HIDE DEF r
    <3>3. s \in FlowRecord /\ s.pc = "building" /\ s.message = m /\ s.request = r
      BY <1>c, <3>2 DEF Idle, FlowRecord, Maybe
    <3>4. r = world.asked[m]
      BY DEF r
    <3> HIDE DEF s
    <3> QED BY <3>1, <3>2, <3>3, <3>4
  <2> QED BY <2>1, <2>2
<1>4. ASSUME NEW f \in Flow, NEW m \in Message, NEW r \in Request, r = world.asked[m],
             Step(f, [Idle EXCEPT !.pc = "building", !.message = m, !.request = r])
      PROVE  \E s : Good(s) /\ Step(f, s)
  <2> DEFINE s == [Idle EXCEPT !.pc = "building", !.message = m, !.request = r]
  <2>1. s \in FlowRecord /\ s.pc = "building" /\ s.message = m /\ s.request = r
    BY <1>c DEF Idle, FlowRecord, Maybe
  <2>2. Step(f, s)
    BY <1>4
  <2> HIDE DEF s
  <2> QED BY <1>4, <2>1, <2>2
<1>5. ASSUME NEW f \in Flow, NEW m \in Message, NotaryPressed(f, m)
      PROVE  \E s : Good(s) /\ Step(f, s)
  <2>1. world.asked[m] \in Request
    BY <1>a DEF Setting
  <2> QED BY <1>4, <1>5, <2>1 DEF NotaryPressed
<1>6. ASSUME NEW f \in Flow, TransferAsked(f) PROVE \E s : Good(s) /\ Step(f, s)
  <2>1. Step(f, [Idle EXCEPT !.pc = "building", !.request = world.transfer])
    BY <1>6 DEF TransferAsked
  <2>2. world.transfer \in Request
    BY <1>6, <1>a DEF TransferAsked, Setting, Maybe
  <2> DEFINE s == [Idle EXCEPT !.pc = "building", !.request = world.transfer]
  <2>3. /\ s \in FlowRecord /\ s.pc = "building" /\ s.request = world.transfer
        /\ s.message = NULL
    BY <1>c, <2>2 DEF Idle, FlowRecord, Maybe
  <2> HIDE DEF s
  <2>4. Good(s)
    BY <2>2, <2>3
  <2> QED BY <2>1, <2>4 DEF s
<1>7. ASSUME NEW f \in Flow, NEW e \in Envelope, NEW release \in Release, Build(f, e, release)
      PROVE  \E s : Good(s) /\ Step(f, s)
  <2> DEFINE s == [flows[f] EXCEPT !.pc = "signing", !.prepared = e]
             r == flows[f].request
             row == Prepared(r, release)
  <2>1. Step(f, s) /\ envelopes' = [envelopes EXCEPT ![e] = row]
        /\ r \in Request /\ Buildable(r, release) /\ envelopes \in [Envelope -> Maybe(EnvelopeRecord)]
    BY <1>7, <1>a DEF Build, FlowOK, IInv, TypeOK
  <2>2. row # NULL
    BY <1>a, <2>1, PreparedSound, SentStays, FlowAssumption
  <2>3. envelopes'[e] # NULL /\ envelopes'[e] = row
    BY <2>1, <2>2
  <2>4. /\ s \in FlowRecord /\ s.pc = "signing" /\ s.prepared = e
        /\ s.message = flows[f].message
    BY <1>a DEF FlowRecord, Maybe
  <2>5. ASSUME s.message # NULL PROVE Asks(s.message, envelopes'[s.prepared].tx)
    <3>1. s.message \in Message /\ r = world.asked[s.message]
      BY <1>7, <1>a, <2>4, <2>5 DEF Build, FlowOK, FlowRecord, Maybe
    <3>2. r.action # "transfer"
      BY <1>a, <3>1 DEF Setting
    <3>3. /\ row.tx.from = Wallet /\ row.tx.to = ConsensusContract
          /\ row.tx.data = r.data /\ row.tx.value = r.value
          /\ row.tx.network = world.network
      BY <1>a, <2>1, <3>2, PreparedSound, SentStays
    <3> HIDE DEF s, r, row
    <3> QED BY <1>a, <2>3, <2>4, <3>1, <3>3 DEF Asks
  <2> HIDE DEF s, r, row
  <2> QED BY <2>1, <2>3, <2>4, <2>5
<1>8. ASSUME NEW f \in Flow, NEW tx, Sign(f, tx) PROVE \E s : Good(s) /\ Step(f, s)
  <2> DEFINE n == Len(sent) + 1
             s == [flows[f] EXCEPT !.pc = "confirming", !.txHash = n]
  <2>1. Step(f, s) /\ flows[f].pc = "signing"
    BY <1>8 DEF Sign
  <2>2. PICK r \in SentRecord : /\ sent' = Append(sent, r) /\ r.for = flows[f].message
                                /\ r.envelope = flows[f].prepared
    BY <1>8, SignFacts
  <2>3. n \in 1 .. Len(sent') /\ n \in Maybe(Hash) /\ sent'[n] = r
    BY <2>2, SentStays, FlowAssumption DEF Maybe, Hash, IInv, TypeOK
  <2> HIDE DEF n
  <2>4. /\ s \in FlowRecord /\ s.pc = "confirming" /\ s.prepared = flows[f].prepared
        /\ s.txHash = n /\ s.message = flows[f].message
    BY <1>a, <2>3 DEF FlowRecord, Maybe
  <2>5. flows[f].prepared \in Envelope /\ envelopes'[flows[f].prepared] # NULL
    BY <1>b, <2>1
  <2> HIDE DEF s
  <2> QED BY <2>1, <2>2, <2>3, <2>4, <2>5
<1>9. ASSUME NEW f \in Flow, Answered(f) \/ Refused(f) \/ TransferEnds(f)
      PROVE  \E s : Good(s) /\ Step(f, s)
  BY <1>9, <1>c DEF Answered, Refused, TransferEnds
<1>10. ASSUME Reload
       PROVE  flows' \in [Flow -> FlowRecord] /\ \A g \in Flow : Good(flows'[g])
  <2>1. flows' = [f \in Flow |-> IF flows[f].message = NULL THEN flows[f] ELSE Idle]
    BY <1>10 DEF Reload
  <2> HIDE DEF Good
  <2> QED BY <1>a, <1>b, <1>c, <2>1
<1> HIDE DEF Good
<1>11. CASE Page
  BY <1>2, <1>10, <1>11, <1>a DEF Page, Propose, SaveHistory, SaveFails, LoadHistory, LoadNothing, LoadFails, Good, FlowOK, Asks
<1>12. CASE Flows
  <2>1. UNCHANGED flows \/ \E f \in Flow : \E s : Good(s) /\ Step(f, s)
    BY <1>3, <1>5, <1>6, <1>7, <1>8, <1>9, <1>12 DEF Flows, confirm_action
  <2> QED BY <1>1, <1>2, <1>a, <2>1 DEF Good, FlowOK, Asks
<1>13. CASE UNCHANGED vars
  BY <1>2, <1>13, <1>a DEF vars, Good, FlowOK, Asks
<1> QED BY <1>11, <1>12, <1>13 DEF Next

LEMMA HistoriesStep ==
  ASSUME IInv, [Next]_vars
  PROVE  /\ Histories'
         /\ shown' \in History /\ remote' \in Maybe(History) /\ loading' \in BOOLEAN
         /\ unsaved' \in BOOLEAN /\ dropped' \subseteq Message /\ proposed' \subseteq Message
<1> DEFINE Known(m, s) ==
             /\ s \in MessageState
             /\ s.txHash # NULL =>
                  /\ s.txHash \in 1 .. Len(sent')
                  /\ s.prepared \in Envelope /\ envelopes'[s.prepared] # NULL
                  /\ sent'[s.txHash].envelope = s.prepared /\ sent'[s.txHash].for = m
             /\ s.status = "ended" =>
                  s.txHash # NULL /\ envelopes'[s.prepared].tx_hash = s.txHash
           Good(history) == history \in History /\ \A m \in Message : Known(m, history[m])
           Kept == /\ Good(shown')
                   /\ remote' \in Maybe(History) /\ (remote' # NULL => Good(remote'))
                   /\ loading' \in BOOLEAN /\ unsaved' \in BOOLEAN
                   /\ dropped' \subseteq Message /\ proposed' \subseteq Message
<1>a. /\ shown \in History /\ remote \in Maybe(History) /\ loading \in BOOLEAN
      /\ unsaved \in BOOLEAN /\ dropped \subseteq Message /\ proposed \subseteq Message
      /\ \A f \in Flow : flows[f] \in FlowRecord /\ FlowOK(f)
      /\ envelopes \in [Envelope -> Maybe(EnvelopeRecord)]
  BY DEF IInv, TypeOK
<1>b. Good(shown) /\ (remote # NULL => Good(remote))
  <2>1. ASSUME NEW history \in History, \A m \in Message : HashOK(m, history[m])
        PROVE  Good(history)
    BY <2>1, HashKept DEF History
  <2>2. /\ \A m \in Message : HashOK(m, shown[m])
        /\ remote # NULL => \A m \in Message : HashOK(m, remote[m])
    BY DEF IInv, Histories
  <2> HIDE DEF Good
  <2> QED BY <1>a, <2>1, <2>2 DEF Maybe
<1>c. Good(Welcome) /\ \A m \in Message : Known(m, Reviewed)
  BY DEF Welcome, Reviewed, History, MessageState, Maybe
<1>1. ASSUME UNCHANGED pageVars PROVE Kept
  BY <1>1, <1>a, <1>b DEF pageVars
<1>2. ASSUME NEW m \in Message, NEW s, Known(m, s), Show(m, s) PROVE Kept
  <2>1. Good(shown')
    BY <1>2, <1>a, <1>b DEF Show, History
  <2> HIDE DEF Good, Known
  <2> QED BY <1>2, <1>a, <1>b, <2>1 DEF Show
<1>3. ASSUME NEW history, Good(history) PROVE Good(Sanitized(history))
  <2>1. ASSUME NEW m \in Message
        PROVE  Known(m, IF history[m].status = "executing"
                        THEN [history[m] EXCEPT !.status = "error"] ELSE history[m])
    <3> DEFINE old == history[m]
               new == [old EXCEPT !.status = "error"]
    <3>1. Known(m, old)
      BY <1>3
    <3>2. /\ new \in MessageState /\ new.txHash = old.txHash /\ new.prepared = old.prepared
          /\ new.status = "error"
      BY <3>1 DEF MessageState
    <3> HIDE DEF old, new
    <3>3. Known(m, new)
      BY <3>1, <3>2
    <3> HIDE DEF Known
    <3> QED BY <3>1, <3>3 DEF old, new
  <2> QED BY <2>1 DEF Sanitized, History
<1>4. ASSUME NEW f \in Flow, flows[f].message # NULL
      PROVE  flows[f].message \in Message
  BY <1>4, <1>a DEF FlowRecord, Maybe
<1>5. ASSUME NEW m \in Message, NEW status \in {"awaiting_confirmation", "executing", "error"}
      PROVE  /\ Known(m, [shown[m] EXCEPT !.status = status])
             /\ Known(m, [Reviewed EXCEPT !.status = status])
  <2> DEFINE old == shown[m]
             new == [old EXCEPT !.status = status]
             fresh == [Reviewed EXCEPT !.status = status]
  <2>1. Known(m, old)
    BY <1>b
  <2>2. /\ new \in MessageState /\ new.txHash = old.txHash /\ new.prepared = old.prepared
        /\ new.status # "ended"
    BY <2>1 DEF MessageState
  <2>3. fresh \in MessageState /\ fresh.txHash = NULL /\ fresh.status # "ended"
    BY DEF Reviewed, MessageState, Maybe
  <2> HIDE DEF old, new, fresh
  <2>4. Known(m, new) /\ Known(m, fresh)
    BY <2>1, <2>2, <2>3
  <2> HIDE DEF Known
  <2> QED BY <2>4 DEF new, fresh, old
<1>6. ASSUME NEW f \in Flow, NEW m \in Message, ConfirmPressed(f, m) \/ NotaryPressed(f, m) PROVE Kept
  <2> HIDE DEF Known, Kept
  <2> QED BY <1>2, <1>5, <1>6 DEF ConfirmPressed, NotaryPressed
<1>7. ASSUME NEW f \in Flow, Refused(f) PROVE Kept
  <2> HIDE DEF Known, Kept
  <2> QED BY <1>2, <1>4, <1>5, <1>7 DEF Refused
<1>8. ASSUME NEW f \in Flow, Answered(f) PROVE Kept
  <2> DEFINE m == flows[f].message
             e == flows[f].prepared
             h == flows[f].txHash
  <2>1. /\ m \in Message /\ e \in Envelope /\ envelopes[e] # NULL
        /\ h \in 1 .. Len(sent) /\ sent[h].envelope = e /\ sent[h].for = m
    BY <1>4, <1>8, <1>a DEF Answered, FlowOK
  <2>2. PICK status \in {"error", "ended"} :
          /\ Show(m, [status |-> status, txHash |-> h, prepared |-> e])
          /\ status = "ended" => envelopes[e].tx_hash = h
    BY <1>8 DEF Answered
  <2> DEFINE s == [status |-> status, txHash |-> h, prepared |-> e]
  <2>3. /\ h \in 1 .. Len(sent') /\ h \in Maybe(Hash) /\ envelopes'[e] # NULL
        /\ sent'[h] = sent[h] /\ h # NULL
        /\ status = "ended" => envelopes'[e].tx_hash = h
    BY <2>1, <2>2, SentStays, EnvelopesStep, FlowAssumption, ReviewAssumption
       DEF Maybe, Hash, IInv, TypeOK
  <2> HIDE DEF m, e, h
  <2>4. s \in MessageState /\ s.txHash = h /\ s.prepared = e /\ s.status = status
    BY <2>1, <2>3 DEF MessageState, Maybe
  <2>5. Show(m, s)
    BY <2>2
  <2> HIDE DEF s
  <2>6. Known(m, s)
    BY <2>1, <2>3, <2>4
  <2> HIDE DEF Known, Kept
  <2> QED BY <1>2, <2>1, <2>5, <2>6
<1> HIDE DEF Known, Good
<1>9. ASSUME Page PROVE Kept
  <2>1. CASE Reload
    BY <1>a, <1>b, <1>c, <2>1 DEF Reload
  <2>4. CASE LoadNothing
    BY <1>a, <1>b, <1>c, <2>4 DEF LoadNothing, Maybe, Good
  <2>5. ASSUME NEW m \in Message, Propose(m) PROVE Kept
    <3>1. shown' = [shown EXCEPT ![m] = Reviewed]
      BY <2>5 DEF Propose
    <3>2. /\ shown \in History /\ Reviewed \in MessageState
          /\ \A k \in Message : Known(k, shown[k]) /\ Known(k, Reviewed)
      BY <1>b, <1>c DEF Good, Reviewed, MessageState, Maybe
    <3>3. shown' \in History
      BY <3>1, <3>2 DEF History
    <3>4. \A k \in Message : shown'[k] = IF k = m THEN Reviewed ELSE shown[k]
      BY <3>1, <3>2 DEF History
    <3>5. Good(shown')
      BY <3>2, <3>3, <3>4 DEF Good
    <3> QED BY <1>a, <1>b, <2>5, <3>5 DEF Propose
  <2>2. CASE LoadHistory
    <3>1. Good(Sanitized(remote))
      BY <1>3, <1>b, <2>2 DEF LoadHistory
    <3> QED BY <1>a, <1>b, <2>2, <3>1 DEF LoadHistory, Maybe
  <2>3. CASE SaveHistory \/ SaveFails \/ LoadFails
    BY <1>a, <1>b, <2>3 DEF SaveHistory, SaveFails, LoadFails, Maybe
  <2> QED BY <1>9, <2>1, <2>2, <2>3, <2>4, <2>5 DEF Page
<1> HIDE DEF Kept
<1>10. ASSUME Flows PROVE Kept
  BY <1>1, <1>6, <1>7, <1>8, <1>10 DEF Flows, TransferAsked, Build, Sign, confirm_action, TransferEnds
<1>11. ASSUME UNCHANGED vars PROVE Kept
  BY <1>1, <1>11 DEF vars, pageVars
<1>12. Kept
  BY <1>9, <1>10, <1>11 DEF Next
<1> QED BY <1>12 DEF Kept, Good, Known, Histories, HashOK

-----------------------------------------------------------------------------
\* Who knows the hash of a deployment.

\* The flows of a deployment, its hash and what was broadcast of it are left
\* alone.
Untouched(m) ==
  /\ \A f \in Flow : flows'[f].message = m \/ flows[f].message = m => flows'[f] = flows[f]
  /\ shown'[m] = shown[m] /\ remote' = remote
  /\ \A h \in 1 .. Len(sent') : sent'[h].for = m => h \in 1 .. Len(sent) /\ sent[h].for = m

LEMMA UntouchedKnown ==
  ASSUME IInv, [Next]_vars, NEW m \in Message, KnownBy(m), Untouched(m)
  PROVE  KnownBy(m)'
BY SentStays DEF KnownBy, Untouched, Remembered

LEMMA KnownStep ==
  ASSUME IInv, [Next]_vars
  PROVE  \A m \in (Deployments \ dropped)' : KnownBy(m)'
<1>1. SUFFICES ASSUME NEW m \in Message, world.asked[m].action = "deploy_contract",
                      m \notin dropped'
               PROVE  KnownBy(m)'
  BY SentStays DEF Deployments
<1>a. /\ flows \in [Flow -> FlowRecord] /\ shown \in [Message -> MessageState]
      /\ \A f \in Flow : FlowOK(f)
      /\ sent \in Seq(SentRecord) /\ Len(sent) \in Nat
      /\ NULL \notin Message /\ NULL \notin Nat
      /\ \A h \in 1 .. Len(sent) : h # NULL
  BY FlowAssumption, ReviewAssumption DEF IInv, TypeOK, History
<1>b. /\ dropped \subseteq dropped'
      /\ KnownBy(m)
  <2>1. dropped \subseteq dropped'
    BY DEF Next, Page, Flows, vars, serverVars, pageVars, Show, Propose, SaveHistory, SaveFails, Reload,
           LoadHistory, LoadNothing, LoadFails, ConfirmPressed, NotaryPressed, TransferAsked,
           Build, Sign, confirm_action, Answered, Refused, TransferEnds
  <2> QED BY <1>1, <2>1 DEF IInv, Deployments
<1>c. ASSUME NEW f \in Flow, flows[f].message = m
      PROVE  flows[f].pc # "idle" /\ shown[m].status = "executing"
  BY <1>a, <1>b, <1>c DEF FlowOK, KnownBy
\* A step of another message's flow.
<1>2. ASSUME NEW f \in Flow, NEW s, Step(f, s), flows[f].message # m, s.message # m,
             shown'[m] = shown[m], UNCHANGED <<sent, remote>>
      PROVE  KnownBy(m)'
  <2>1. Untouched(m)
    BY <1>2, <1>a DEF Step, Untouched
  <2> QED BY <1>b, <2>1, UntouchedKnown
<1>3. ASSUME UNCHANGED <<flows, shown, remote, sent>> PROVE KnownBy(m)'
  BY <1>3, <1>b, UntouchedKnown DEF Untouched
\* A flow of this message begins: none was under way.
<1>4. ASSUME NEW f \in Flow, ConfirmPressed(f, m) PROVE KnownBy(m)'
  <2>1. \A g \in Flow : flows[g].message # m
    BY <1>4, <1>c DEF ConfirmPressed
  <2>2. \A h \in 1 .. Len(sent) : sent[h].for = m => h = shown[m].txHash
    BY <1>4, <1>b, <2>1 DEF KnownBy, Remembered, ConfirmPressed
  <2> DEFINE again == [Idle EXCEPT !.pc = "confirming", !.message = m,
                                   !.prepared = shown[m].prepared, !.txHash = shown[m].txHash]
             new == [Idle EXCEPT !.pc = "building", !.message = m, !.request = world.asked[m]]
  <2>3. /\ again.message = m /\ again.pc = "confirming" /\ again.txHash = shown[m].txHash
        /\ new.message = m
    BY DEF Idle
  <2>4. Step(f, IF shown[m].txHash # NULL THEN again ELSE new)
    BY <1>4 DEF ConfirmPressed
  <2> HIDE DEF again, new
  <2>5. /\ flows'[f].message = m
        /\ shown[m].txHash # NULL =>
             flows'[f].pc = "confirming" /\ flows'[f].txHash = shown[m].txHash
        /\ \A g \in Flow : g # f => flows'[g] = flows[g]
    BY <1>a, <2>3, <2>4 DEF Step
  <2>6. shown'[m].status = "executing" /\ UNCHANGED sent
    <3>1. shown' = [shown EXCEPT ![m] = [shown[m] EXCEPT !.status = "executing"]] /\ UNCHANGED sent
      BY <1>4, <1>a DEF ConfirmPressed, Show, serverVars
    <3>2. shown'[m] = [shown[m] EXCEPT !.status = "executing"] /\ shown[m] \in MessageState
      BY <1>a, <3>1
    <3> QED BY <3>1, <3>2 DEF MessageState
  <2> QED BY <1>a, <1>b, <2>1, <2>2, <2>5, <2>6 DEF KnownBy
<1>5. ASSUME NEW f \in Flow, NEW k \in Message, k # m, ConfirmPressed(f, k) \/ NotaryPressed(f, k)
      PROVE  KnownBy(m)'
  <2>1. flows[f].message # m /\ shown'[m] = shown[m] /\ UNCHANGED <<sent, remote>>
    BY <1>5, <1>a, <1>c DEF ConfirmPressed, NotaryPressed, Show, serverVars
  <2> DEFINE again == [Idle EXCEPT !.pc = "confirming", !.message = k,
                                   !.prepared = shown[k].prepared, !.txHash = shown[k].txHash]
             new == [Idle EXCEPT !.pc = "building", !.message = k, !.request = world.asked[k]]
  <2>2. again.message = k /\ new.message = k
    BY DEF Idle
  <2>3. Step(f, again) \/ Step(f, new)
    BY <1>5 DEF ConfirmPressed, NotaryPressed
  <2> HIDE DEF again, new
  <2> QED BY <1>2, <1>5, <2>1, <2>2, <2>3
<1>6. ASSUME NEW f \in Flow, NotaryPressed(f, m) PROVE KnownBy(m)'
  BY <1>1, <1>6 DEF NotaryPressed
<1>7. ASSUME NEW f \in Flow, TransferAsked(f) \/ TransferEnds(f) PROVE KnownBy(m)'
  <2>1. flows[f].message = NULL /\ UNCHANGED <<shown, remote, sent>>
    BY <1>7, <1>a DEF TransferAsked, TransferEnds, FlowOK, serverVars, pageVars
  <2> DEFINE s == [Idle EXCEPT !.pc = "building", !.request = world.transfer]
  <2>2. s.message = NULL /\ Idle.message = NULL
    BY DEF Idle
  <2>3. Step(f, s) \/ Step(f, Idle)
    BY <1>7 DEF TransferAsked, TransferEnds
  <2> HIDE DEF s
  <2> QED BY <1>2, <1>a, <2>1, <2>2, <2>3
\* The flow goes on with what it knows.
<1>8. ASSUME NEW f \in Flow, NEW e \in Envelope, NEW release \in Release, Build(f, e, release)
      PROVE  KnownBy(m)'
  <2> DEFINE s == [flows[f] EXCEPT !.pc = "signing", !.prepared = e]
  <2>1. Step(f, s) /\ flows[f].pc = "building" /\ UNCHANGED <<shown, remote, sent>>
    BY <1>8 DEF Build, pageVars
  <2>2. s.message = flows[f].message
    BY <1>a DEF FlowRecord
  <2> HIDE DEF s
  <2>3. CASE flows[f].message # m
    BY <1>2, <2>1, <2>2, <2>3
  <2>4. CASE flows[f].message = m
    <3>1. \A h \in 1 .. Len(sent) : sent[h].for # m
      BY <1>b, <2>1, <2>4 DEF KnownBy
    <3>2. \A g \in Flow : flows'[g].message = flows[g].message
      BY <1>a, <2>1, <2>2 DEF Step
    <3> QED BY <1>b, <2>1, <3>1, <3>2 DEF KnownBy
  <2> QED BY <2>3, <2>4
<1>9. ASSUME NEW f \in Flow, NEW tx, Sign(f, tx) PROVE KnownBy(m)'
  <2> DEFINE n == Len(sent) + 1
             s == [flows[f] EXCEPT !.pc = "confirming", !.txHash = n]
  <2>1. /\ Step(f, s) /\ flows[f].pc = "signing" /\ UNCHANGED <<shown, remote>>
    BY <1>9 DEF Sign, pageVars
  <2>2. PICK r \in SentRecord : sent' = Append(sent, r) /\ r.for = flows[f].message
    BY <1>9, SignFacts
  <2>3. s.message = flows[f].message /\ s.pc = "confirming" /\ s.txHash = n
    BY <1>a DEF FlowRecord
  <2>4. /\ Len(sent') = n
        /\ \A h \in 1 .. Len(sent) : sent'[h] = sent[h]
        /\ sent'[n].for = flows[f].message
    BY <1>a, <2>2
  <2> HIDE DEF s
  <2>5. /\ flows'[f] = s /\ \A g \in Flow : g # f => flows'[g] = flows[g]
    BY <1>a, <2>1 DEF Step
  <2>6. CASE flows[f].message # m
    <3>1. \A h \in 1 .. Len(sent') : sent'[h].for = m => h \in 1 .. Len(sent) /\ sent[h].for = m
      BY <1>a, <2>4, <2>6
    <3>2. \A g \in Flow : flows'[g].message = m \/ flows[g].message = m => flows'[g] = flows[g]
      BY <2>3, <2>5, <2>6
    <3>3. Untouched(m)
      BY <2>1, <3>1, <3>2 DEF Untouched
    <3> QED BY <1>b, <3>3, UntouchedKnown
  <2>7. CASE flows[f].message = m
    <3>1. \A h \in 1 .. Len(sent) : sent[h].for # m
      BY <1>b, <2>1, <2>7 DEF KnownBy
    <3>2. \A h \in 1 .. Len(sent') : sent'[h].for = m => h = n
      BY <1>a, <2>4, <3>1
    <3>3. \A g \in Flow : flows'[g].message = flows[g].message
      BY <2>3, <2>5
    <3>4. \A g \in Flow : flows'[g].message = m => g = f
      BY <1>b, <2>7, <3>3 DEF KnownBy
    <3>5. shown'[m].status = "executing"
      BY <1>c, <2>1, <2>7
    <3>6. flows'[f].message = m /\ flows'[f].pc = "confirming" /\ flows'[f].txHash = n
      BY <2>3, <2>5, <2>7
    <3> HIDE DEF n
    <3> QED BY <3>2, <3>4, <3>5, <3>6 DEF KnownBy
  <2> QED BY <2>6, <2>7
\* The flow ends: the page gets the hash, if there is one.
<1>10. ASSUME NEW f \in Flow, Answered(f) \/ Refused(f) PROVE KnownBy(m)'
  <2>1. Step(f, Idle) /\ flows[f].message # NULL /\ UNCHANGED <<sent, remote>>
    BY <1>10 DEF Answered, Refused, Show, serverVars
  <2>2. /\ flows'[f] = Idle /\ Idle.message = NULL
        /\ \A g \in Flow : g # f => flows'[g] = flows[g]
    BY <1>a, <2>1 DEF Step, Idle
  <2>3. CASE flows[f].message # m
    <3>1. shown'[m] = shown[m]
      BY <1>10, <1>a, <2>3 DEF Answered, Refused, Show
    <3> QED BY <1>2, <1>a, <2>1, <2>2, <2>3, <3>1
  <2>4. CASE flows[f].message = m
    <3>1. \A g \in Flow : flows'[g].message # m
      BY <1>a, <1>b, <2>2, <2>4 DEF KnownBy
    <3>2. CASE Answered(f)
      <4>1. \A h \in 1 .. Len(sent) : sent[h].for = m => h = flows[f].txHash
        BY <1>b, <2>4 DEF KnownBy
      <4>2. shown'[m].txHash = flows[f].txHash
        BY <1>a, <1>c, <2>4, <3>2 DEF Answered, Show
      <4> QED BY <1>b, <2>1, <3>1, <4>1, <4>2 DEF KnownBy, Remembered
    <3>3. CASE Refused(f)
      <4>1. \A h \in 1 .. Len(sent) : sent[h].for # m
        BY <1>b, <2>4, <3>3 DEF KnownBy, Refused
      <4> QED BY <2>1, <3>1, <4>1 DEF KnownBy
    <3> QED BY <1>10, <3>2, <3>3
  <2> QED BY <2>3, <2>4
\* The page is loaded again.
<1>11. ASSUME NEW history, \A k \in Message : history[k] \in MessageState
       PROVE  Sanitized(history)[m].txHash = history[m].txHash
  <2>1. [history[m] EXCEPT !.status = "error"].txHash = history[m].txHash
    BY <1>11 DEF MessageState
  <2> QED BY <2>1 DEF Sanitized
<1>12. ASSUME Reload PROVE KnownBy(m)'
  <2>1. /\ flows' = [f \in Flow |-> IF flows[f].message = NULL THEN flows[f] ELSE Idle]
        /\ shown' = Welcome /\ UNCHANGED <<remote, sent>>
        /\ ~ Unknown(m, shown[m].txHash)
        /\ \A f \in Flow : flows[f].message = m => ~ Unknown(m, flows[f].txHash)
    BY <1>1, <1>12 DEF Reload
  <2>2. \A f \in Flow : flows'[f].message # m
    BY <1>a, <2>1 DEF Idle
  <2>3. shown'[m].status = "absent"
    BY <2>1 DEF Welcome, Reviewed
  <2>4. ASSUME NEW h \in 1 .. Len(sent), sent[h].for = m,
               remote # NULL, remote[m].status # "absent"
        PROVE  h = remote[m].txHash
    <3>1. CASE \E f \in Flow : flows[f].message = m
      BY <1>a, <1>b, <2>1, <2>4, <3>1 DEF KnownBy, Unknown
    <3>2. CASE \A f \in Flow : flows[f].message # m
      BY <1>a, <1>b, <2>1, <2>4, <3>2 DEF KnownBy, Remembered, Unknown
    <3> QED BY <3>1, <3>2
  <2> QED BY <1>b, <2>1, <2>2, <2>3, <2>4 DEF KnownBy, Remembered
<1>13. ASSUME LoadHistory PROVE KnownBy(m)'
  <2>1. /\ UNCHANGED <<flows, remote, sent>> /\ shown' = Sanitized(remote) /\ remote # NULL
        /\ ~ Unknown(m, shown[m].txHash)
        /\ \A f \in Flow : flows[f].message # m
    BY <1>1, <1>13 DEF LoadHistory
  <2>2. remote \in History
    BY <2>1 DEF IInv, TypeOK, Maybe
  <2>3. shown'[m].txHash = remote[m].txHash
    BY <1>11, <2>1, <2>2 DEF History
  <2>4. remote[m].status = "absent" => shown'[m].status = "absent"
    BY <2>1 DEF Sanitized
  <2>5. ASSUME NEW h \in 1 .. Len(sent), sent[h].for = m PROVE Remembered(m, h)'
    BY <1>a, <1>b, <2>1, <2>3, <2>4, <2>5 DEF KnownBy, Remembered, Unknown
  <2> QED BY <1>b, <2>1, <2>5 DEF KnownBy
\* What the server gets is what the page shows, or nothing.
<1>17. ASSUME SaveHistory \/ LoadNothing PROVE KnownBy(m)'
  <2>1. UNCHANGED <<flows, shown, sent>> /\ remote' \in {shown, Welcome}
    BY <1>17 DEF SaveHistory, LoadNothing
  <2>2. Welcome[m].status = "absent"
    BY DEF Welcome, Reviewed
  <2>3. \A h : Remembered(m, h) => Remembered(m, h)'
    BY <2>1, <2>2 DEF Remembered
  <2> QED BY <1>b, <2>1, <2>3 DEF KnownBy
\* Nothing was broadcast for a message before it was proposed.
<1>18. ASSUME NEW k \in Message, Propose(k) PROVE KnownBy(m)'
  <2>1. CASE k = m
    <3>1. NotYet(m) /\ UNCHANGED <<flows, sent>>
      BY <1>18, <2>1 DEF Propose, IInv
    <3> QED BY <3>1 DEF NotYet, KnownBy
  <2>2. CASE k # m
    <3>1. UNCHANGED <<flows, sent, remote>> /\ shown'[m] = shown[m]
      BY <1>18, <2>2, <1>a DEF Propose
    <3>2. Untouched(m)
      BY <3>1 DEF Untouched
    <3> QED BY <1>b, <3>2, UntouchedKnown
  <2> QED BY <2>1, <2>2
<1>14. ASSUME Page PROVE KnownBy(m)'
  BY <1>3, <1>12, <1>13, <1>14, <1>17, <1>18 DEF Page, SaveFails, LoadFails
<1>15. ASSUME Flows PROVE KnownBy(m)'
  <2>1. ASSUME NEW f \in Flow, confirm_action(f) PROVE KnownBy(m)'
    BY <1>3, <2>1 DEF confirm_action, pageVars
  <2>2. ASSUME NEW f \in Flow, NEW k \in Message, ConfirmPressed(f, k) \/ NotaryPressed(f, k)
        PROVE  KnownBy(m)'
    BY <1>4, <1>5, <1>6, <2>2
  <2> QED BY <1>7, <1>8, <1>9, <1>10, <1>15, <2>1, <2>2 DEF Flows
<1>16. ASSUME UNCHANGED vars PROVE KnownBy(m)'
  BY <1>3, <1>16 DEF vars, pageVars
<1> QED BY <1>14, <1>15, <1>16 DEF Next

\* What was not proposed is not shown, saved, asked for or broadcast.
LEMMA NotYetStep ==
  ASSUME IInv, [Next]_vars
  PROVE  \A m \in (Message \ proposed)' : NotYet(m)'
<1>1. SUFFICES ASSUME NEW m \in Message, m \notin proposed' PROVE NotYet(m)'
  OBVIOUS
<1>2. proposed \subseteq proposed'
  BY DEF Next, Page, Flows, vars, serverVars, pageVars, Show, Propose, SaveHistory, SaveFails,
         Reload, LoadHistory, LoadNothing, LoadFails, ConfirmPressed, NotaryPressed,
         TransferAsked, Build, Sign, confirm_action, Answered, Refused, TransferEnds
<1>3. NotYet(m)
  BY <1>1, <1>2 DEF IInv
<1>a. /\ flows \in [Flow -> FlowRecord] /\ shown \in [Message -> MessageState]
      /\ sent \in Seq(SentRecord) /\ Len(sent) \in Nat /\ NULL \notin Message
      /\ Welcome[m].status = "absent"
  BY FlowAssumption DEF IInv, TypeOK, History, Welcome, Reviewed
<1>4. shown'[m].status = "absent" /\ (remote' # NULL => remote'[m].status = "absent")
  <2>1. ASSUME NEW k, NEW s, Show(k, s)
        PROVE  shown'[m].status = "absent" /\ remote' = remote
    BY <1>3, <1>a, <2>1 DEF Show, NotYet
  <2>2. ASSUME NEW k \in Message, Propose(k)
        PROVE  shown'[m].status = "absent" /\ remote' = remote
    BY <1>1, <1>3, <1>a, <2>2 DEF Propose, NotYet
  <2>3. CASE Page
    BY <1>3, <1>a, <2>2, <2>3
       DEF Page, SaveHistory, SaveFails, Reload, LoadHistory, LoadNothing, LoadFails, Sanitized,
           NotYet
  <2>4. CASE Flows
    <3>1. UNCHANGED <<shown, remote>> \/ \E k, s : Show(k, s)
      BY <2>4 DEF Flows, pageVars, ConfirmPressed, NotaryPressed, TransferAsked, Build, Sign,
                  confirm_action, Answered, Refused, TransferEnds
    <3> QED BY <1>3, <2>1, <3>1 DEF NotYet
  <2>5. CASE UNCHANGED vars
    BY <1>3, <2>5 DEF vars, pageVars, NotYet
  <2> QED BY <2>3, <2>4, <2>5 DEF Next
<1>5. \A f \in Flow : flows'[f].message # m
  <2>1. ASSUME NEW f \in Flow, NEW s, Step(f, s), s.message # m
        PROVE  \A g \in Flow : flows'[g].message # m
    BY <1>3, <1>a, <2>1 DEF Step, NotYet
  <2>2. Idle.message # m
    BY <1>a DEF Idle
  <2>3. ASSUME NEW f \in Flow, NEW k \in Message, ConfirmPressed(f, k) \/ NotaryPressed(f, k)
        PROVE  \A g \in Flow : flows'[g].message # m
    <3> DEFINE again == [Idle EXCEPT !.pc = "confirming", !.message = k,
                                     !.prepared = shown[k].prepared, !.txHash = shown[k].txHash]
               new == [Idle EXCEPT !.pc = "building", !.message = k, !.request = world.asked[k]]
    <3>1. again.message = k /\ new.message = k
      BY DEF Idle
    <3>2. Step(f, again) \/ Step(f, new)
      BY <2>3 DEF ConfirmPressed, NotaryPressed
    <3>3. k # m
      BY <1>3, <2>3 DEF NotYet, ConfirmPressed, NotaryPressed
    <3> HIDE DEF again, new
    <3> QED BY <2>1, <3>1, <3>2, <3>3
  <2>4. ASSUME NEW f \in Flow, TransferAsked(f) \/ Answered(f) \/ Refused(f) \/ TransferEnds(f)
        PROVE  \A g \in Flow : flows'[g].message # m
    <3> DEFINE s == [Idle EXCEPT !.pc = "building", !.request = world.transfer]
    <3>1. s.message # m
      BY <1>a DEF Idle
    <3>2. Step(f, s) \/ Step(f, Idle)
      BY <2>4 DEF TransferAsked, Answered, Refused, TransferEnds
    <3> HIDE DEF s
    <3> QED BY <2>1, <2>2, <3>1, <3>2
  <2>5. ASSUME NEW f \in Flow, NEW e \in Envelope, NEW release \in Release, Build(f, e, release)
        PROVE  \A g \in Flow : flows'[g].message # m
    <3> DEFINE s == [flows[f] EXCEPT !.pc = "signing", !.prepared = e]
    <3>1. Step(f, s) /\ s.message = flows[f].message
      BY <1>a, <2>5 DEF Build, FlowRecord
    <3>2. flows[f].message # m
      BY <1>3 DEF NotYet
    <3> HIDE DEF s
    <3> QED BY <2>1, <3>1, <3>2
  <2>6. ASSUME NEW f \in Flow, NEW tx, Sign(f, tx)
        PROVE  \A g \in Flow : flows'[g].message # m
    <3> DEFINE s == [flows[f] EXCEPT !.pc = "confirming", !.txHash = Len(sent) + 1]
    <3>1. Step(f, s) /\ s.message = flows[f].message
      BY <1>a, <2>6 DEF Sign, FlowRecord
    <3>2. flows[f].message # m
      BY <1>3 DEF NotYet
    <3> HIDE DEF s
    <3> QED BY <2>1, <3>1, <3>2
  <2>7. CASE UNCHANGED flows
    BY <1>3, <2>7 DEF NotYet
  <2>8. CASE Reload
    BY <1>3, <2>2, <2>8 DEF Reload, NotYet
  <2>9. CASE Page
    BY <2>7, <2>8, <2>9
       DEF Page, Propose, SaveHistory, SaveFails, LoadHistory, LoadNothing, LoadFails
  <2>10. CASE Flows
    BY <2>3, <2>4, <2>5, <2>6, <2>7, <2>10 DEF Flows, confirm_action
  <2> QED BY <2>7, <2>9, <2>10 DEF Next, vars
<1>6. \A h \in 1 .. Len(sent') : sent'[h].for # m
  <2>1. ASSUME NEW f \in Flow, NEW tx, Sign(f, tx)
        PROVE  \A h \in 1 .. Len(sent') : sent'[h].for # m
    <3>1. PICK r \in SentRecord : sent' = Append(sent, r) /\ r.for = flows[f].message
      BY <2>1, SignFacts
    <3>2. r.for # m
      BY <1>3, <3>1 DEF NotYet
    <3> QED BY <1>3, <1>a, <3>1, <3>2 DEF NotYet
  <2>2. (\E f \in Flow : \E tx : Sign(f, tx)) \/ UNCHANGED sent
    BY DEF Next, Page, Flows, vars, serverVars, pageVars, Propose, SaveHistory, SaveFails, Reload,
           LoadHistory, LoadNothing, LoadFails, ConfirmPressed, NotaryPressed, TransferAsked,
           Build, confirm_action, Answered, Refused, TransferEnds
  <2> QED BY <1>3, <2>1, <2>2 DEF NotYet
<1> QED BY <1>4, <1>5, <1>6 DEF NotYet

-----------------------------------------------------------------------------
\* The theorems.

LEMMA StepIsSound == IInv /\ [Next]_vars => IInv'
<1> SUFFICES ASSUME IInv, [Next]_vars PROVE IInv'
  OBVIOUS
<1>1. TypeOK'
  BY SentStays, EnvelopesStep, FlowsStep, HistoriesStep DEF IInv, TypeOK
<1>2. (\A e \in Envelope : RowOK(e))'
  BY EnvelopesStep
<1>3. (\A h \in 1 .. Len(sent) : SentOK(h))' /\ Nonces'
  BY SentStep
<1>4. (\A f \in Flow : FlowOK(f))'
  BY FlowsStep
<1>5. Histories'
  BY HistoriesStep
<1>6. (\A m \in Deployments \ dropped : KnownBy(m))'
  BY KnownStep
<1>7. (\A m \in Message \ proposed : NotYet(m))'
  BY NotYetStep
<1> QED BY <1>1, <1>2, <1>3, <1>4, <1>5, <1>6, <1>7 DEF IInv

\* In every reachable state, whatever was prepared has fees of one kind and
\* was built by the release that reviewed it, what is confirmed passed the
\* comparison, and a deployment's hash is with its flow or its message.
THEOREM Inductive == Spec => []IInv
<1> QED BY InitIsSound, StepIsSound, PTL DEF Spec

\* The page, the envelopes and what was broadcast have the shapes their
\* descriptions give, in every reachable state.
THEOREM TypeCorrect == Spec => []TypeOK
<1>1. IInv => TypeOK
  BY DEF IInv
<1> QED BY <1>1, Inductive, PTL

\* Whatever the wallet or the user makes of a prepared transaction, the
\* confirmation accepts the reviewed one only: the same fields, the same
\* price, at most half as much gas again, and a source reviewed under the
\* release that built it.
THEOREM ConfirmedIsWhatWasReviewed == Spec => []ConfirmedIsReviewed
<1>1. IInv => ConfirmedIsReviewed
  <2> SUFFICES ASSUME IInv, NEW e \in Envelope,
                      envelopes[e] # NULL, envelopes[e].status = "confirmed"
               PROVE  LET row == envelopes[e]
                          tx == sent[row.tx_hash].tx
                      IN  /\ row.tx_hash \in 1 .. Len(sent)
                          /\ \A field \in {"from", "to", "data", "value", "nonce", "network"} :
                               tx[field] = row.tx[field]
                          /\ Price(tx.fees) = Price(row.tx.fees)
                          /\ 2 * tx.gas <= 3 * row.tx.gas + 1
                          /\ row.intent.action = "deploy_contract" =>
                               row.intent.release = row.release
    BY DEF ConfirmedIsReviewed
  <2>1. PICK row, tx : row = envelopes[e] /\ tx = sent[row.tx_hash].tx
    OBVIOUS
  <2>2. /\ row.tx_hash \in 1 .. Len(sent) /\ Confirmable(row.intent, row.tx, tx)
        /\ OneFeeMode(row.tx.fees)
        /\ row.intent.action = "deploy_contract" => row.intent.release = row.release
    BY <2>1 DEF IInv, RowOK
  <2>3. row.intent \in Intent /\ row.tx \in Transaction
    BY <2>1 DEF IInv, TypeOK, Maybe, EnvelopeRecord
  <2>4. tx \in Transaction
    <3>1. sent[row.tx_hash] \in SentRecord
      BY <2>2 DEF IInv, TypeOK
    <3> QED BY <2>1, <3>1 DEF SentRecord
  <2> QED BY <2>1, <2>2, <2>3, <2>4, ConfirmableIsReviewed
<1> QED BY <1>1, Inductive, PTL

\* What a wallet broadcasts of a request as it was asked is never refused by
\* the confirmation, except where no fee was told or the safety rules do not
\* allow the transfer.
THEOREM WhatWasAskedIsConfirmable == Spec => []AskedIsConfirmable
<1>1. IInv => AskedIsConfirmable
  <2> SUFFICES ASSUME IInv, NEW h \in 1 .. Len(sent), NEW row,
                      row = envelopes[sent[h].envelope],
                      sent[h].honest, FeeMode(row.tx.fees) # "none",
                      row.intent.action = "transfer" => ValidTransfer(row.intent)
               PROVE  Confirmable(row.intent, row.tx, sent[h].tx)
    BY DEF AskedIsConfirmable
  <2>1. sent[h] \in SentRecord /\ row # NULL
        /\ sent[h].tx \in Encodings(row.intent, row.tx)
    BY DEF IInv, TypeOK, SentOK
  <2>2. sent[h].envelope \in Envelope
    BY <2>1 DEF SentRecord
  <2>3. row \in EnvelopeRecord
    BY <2>1, <2>2 DEF IInv, TypeOK, Maybe
  <2>4. /\ OneFeeMode(row.tx.fees)
        /\ row.intent.action = "deploy_contract" =>
             (row.intent.gas_limit # NULL => row.intent.gas_limit >= MinGas)
    BY <2>1, <2>2 DEF IInv, RowOK
  <2>5. row.intent \in Intent /\ row.tx \in Transaction
    BY <2>3 DEF EnvelopeRecord
  <2>6. verify_submitted_transaction(row.intent, row.tx, sent[h].tx)
    BY <2>1, <2>4, <2>5, EncodingsMatch
  <2>7. validate_intent(row.intent)
    BY <2>4, <2>5 DEF validate_intent, Intent
  <2> QED BY <2>6, <2>7 DEF Confirmable
<1> QED BY <1>1, Inductive, PTL

\* However often a deployment is confirmed, reloaded or retried, it is
\* broadcast once unless the page lost its hash.
THEOREM DeploymentsAreBroadcastOnce == Spec => []DeploymentsAreSentOnce
<1>1. IInv => DeploymentsAreSentOnce
  <2> SUFFICES ASSUME IInv, NEW m \in Deployments \ dropped,
                      NEW g \in 1 .. Len(sent), NEW h \in 1 .. Len(sent),
                      sent[g].for = m, sent[h].for = m
               PROVE  g = h
    BY DEF DeploymentsAreSentOnce, SentOnce, Deployments
  <2> QED BY DEF IInv, KnownBy
<1> QED BY <1>1, Inductive, PTL

-----------------------------------------------------------------------------
\* The promise of ReviewedOrders.

orderBar == [m \in Message |-> OrderOf(m)]
carriedBar == [m \in Message |-> CarriedOut(m)]
repeatableBar == dropped \cup {m \in Message : world.asked[m].action # "deploy_contract"}
reportedBar == {m \in Message : shown[m].status = "ended"}

\* A broadcast transaction with which its envelope was confirmed.
Counted(h) == envelopes[sent[h].envelope].tx_hash = h

LEMMA CarriedBy ==
  \A m \in Message : \A tx :
    tx \in CarriedOut(m) <=>
      \E h \in 1 .. Len(sent) : sent[h].for = m /\ Counted(h) /\ tx = sent[h].tx
BY DEF CarriedOut, Counted

\* What was broadcast is of an envelope that was built.
LEMMA SentFacts ==
  ASSUME IInv
  PROVE  /\ sent \in Seq(SentRecord) /\ Len(sent) \in Nat
         /\ \A h \in 1 .. Len(sent) :
              /\ sent[h] \in SentRecord /\ sent[h].envelope \in Envelope
              /\ envelopes[sent[h].envelope] # NULL
<1>1. sent \in Seq(SentRecord)
  BY DEF IInv, TypeOK
<1>2. Len(sent) \in Nat /\ \A h \in 1 .. Len(sent) : sent[h] \in SentRecord
  BY <1>1
<1>3. \A h \in 1 .. Len(sent) : sent[h].envelope \in Envelope
  BY <1>2 DEF SentRecord
<1>4. \A h \in 1 .. Len(sent) : envelopes[sent[h].envelope] # NULL
  BY DEF IInv, SentOK
<1> QED BY <1>1, <1>2, <1>3, <1>4

\* What the page reports as ended was confirmed for that message.
LEMMA ReportedIsCarried ==
  IInv => \A m \in Message : shown[m].status = "ended" => CarriedOut(m) # {}
<1> SUFFICES ASSUME IInv, NEW m \in Message, shown[m].status = "ended"
             PROVE  CarriedOut(m) # {}
  OBVIOUS
<1> DEFINE h == shown[m].txHash
<1>1. h \in 1 .. Len(sent) /\ sent[h].for = m /\ Counted(h)
  BY DEF IInv, Histories, HashOK, Counted
<1> QED BY <1>1, CarriedBy

\* The hash of an envelope, if it has one, was broadcast.
LEMMA ConfirmedHash ==
  ASSUME IInv, NEW e \in Envelope, envelopes[e] # NULL
  PROVE  envelopes[e].tx_hash = NULL \/ envelopes[e].tx_hash \in 1 .. Len(sent)
<1>1. envelopes[e].status \in {"prepared", "confirmed"}
  BY DEF IInv, TypeOK, Maybe, EnvelopeRecord
<1> QED BY <1>1 DEF IInv, RowOK

\* As long as no envelope changes, nothing more is confirmed.
LEMMA NothingCarried ==
  ASSUME IInv, [Next]_vars,
         \A e \in Envelope : envelopes[e] # NULL => envelopes'[e] = envelopes[e]
  PROVE  \A m \in Message : CarriedOut(m)' = CarriedOut(m)
<1>a. /\ sent \in Seq(SentRecord) /\ Len(sent) \in Nat /\ NULL \notin Nat
      /\ \A h \in 1 .. Len(sent) :
           /\ sent[h].envelope \in Envelope /\ envelopes[sent[h].envelope] # NULL
  BY SentFacts, ReviewAssumption
<1>1. \A h \in 1 .. Len(sent) :
        h \in 1 .. Len(sent') /\ sent'[h] = sent[h] /\ (Counted(h)' <=> Counted(h))
  BY <1>a, SentStays DEF Counted
<1>2. ASSUME NEW h \in 1 .. Len(sent'), h \notin 1 .. Len(sent) PROVE ~ Counted(h)'
  <2>1. PICK f \in Flow : \E tx : Sign(f, tx)
    <3>1. (\E f \in Flow : \E tx : Sign(f, tx)) \/ UNCHANGED sent
      BY DEF Next, Page, Flows, vars, serverVars, pageVars, Propose, SaveHistory, SaveFails, Reload, LoadHistory,
             LoadNothing, LoadFails, ConfirmPressed, NotaryPressed, TransferAsked, Build,
             confirm_action, Answered, Refused, TransferEnds
    <3> QED BY <1>2, <3>1
  <2>2. PICK r \in SentRecord : sent' = Append(sent, r) /\ r.envelope = flows[f].prepared
    BY <2>1, SignFacts
  <2>3. /\ flows[f].prepared \in Envelope /\ envelopes[flows[f].prepared] # NULL
        /\ UNCHANGED envelopes
    BY <2>1, SignFacts
  <2>4. h = Len(sent) + 1 /\ sent'[h] = r
    BY <1>a, <1>2, <2>2
  <2>5. envelopes[flows[f].prepared].tx_hash # h
    BY <1>a, <1>2, <2>3, <2>4, ConfirmedHash
  <2> QED BY <2>2, <2>3, <2>4, <2>5 DEF Counted
<1>3. ASSUME NEW m \in Message PROVE CarriedOut(m)' = CarriedOut(m)
  <2>1. CarriedOut(m)' =
          {sent'[h].tx : h \in {k \in 1 .. Len(sent') : sent'[k].for = m /\ Counted(k)'}}
    BY DEF CarriedOut, Counted
  <2>2. CarriedOut(m) =
          {sent[h].tx : h \in {k \in 1 .. Len(sent) : sent[k].for = m /\ Counted(k)}}
    BY DEF CarriedOut, Counted
  <2>3. {k \in 1 .. Len(sent') : sent'[k].for = m /\ Counted(k)'} =
          {k \in 1 .. Len(sent) : sent[k].for = m /\ Counted(k)}
    BY <1>1, <1>2
  <2> QED BY <1>1, <2>1, <2>2, <2>3
<1> QED BY <1>3

\* A confirmation carries out the order of the flow's message, which nothing
\* carried out before unless the page lost track of it.
LEMMA ConfirmationCarries ==
  ASSUME IInv, NEW f \in Flow, confirm_action(f)
  PROVE  [Orders!Next]_<<orderBar, carriedBar, repeatableBar, reportedBar>>
<1>0. PICK m, k, h : m = flows[f].message /\ k = flows[f].prepared /\ h = flows[f].txHash
  OBVIOUS
<1>1. /\ flows[f].pc = "confirming" /\ flows[f] \in FlowRecord
      /\ k \in Envelope /\ envelopes[k] # NULL /\ envelopes[k] \in EnvelopeRecord
      /\ h \in 1 .. Len(sent) /\ sent[h].envelope = k /\ sent[h].for = m
      /\ envelopes[k].status = "prepared" /\ envelopes[k].tx_hash = NULL
      /\ Confirmable(envelopes[k].intent, envelopes[k].tx, sent[h].tx)
  BY <1>0 DEF confirm_action, IInv, TypeOK, FlowOK, RowOK, Maybe
<1>2. /\ envelopes \in [Envelope -> Maybe(EnvelopeRecord)] /\ sent \in Seq(SentRecord)
      /\ NULL \notin Nat /\ NULL \notin Message /\ Len(sent) \in Nat
      /\ \A g \in 1 .. Len(sent) :
           sent[g] \in SentRecord /\ sent[g].envelope \in Envelope
             /\ envelopes[sent[g].envelope] # NULL
  BY SentFacts, FlowAssumption, ReviewAssumption DEF IInv, TypeOK
<1>3. /\ UNCHANGED <<world, sent, flows, shown, dropped>>
      /\ envelopes' = [envelopes EXCEPT ![k].status = "confirmed", ![k].tx_hash = h]
  BY <1>0 DEF confirm_action, pageVars
<1>4. \A e \in Envelope : e # k => envelopes'[e] = envelopes[e]
  BY <1>2, <1>3
<1>5. envelopes'[k].tx_hash = h
  <2>1. envelopes'[k] = [envelopes[k] EXCEPT !.status = "confirmed", !.tx_hash = h]
    BY <1>1, <1>2, <1>3
  <2> QED BY <1>1, <2>1 DEF EnvelopeRecord
<1>6. /\ ~ Counted(h)
      /\ \A g \in 1 .. Len(sent) : Counted(g)' <=> Counted(g) \/ g = h
  <2>1. \A g \in 1 .. Len(sent) : sent[g].envelope = k => ~ Counted(g) /\ (Counted(g)' <=> g = h)
    BY <1>1, <1>2, <1>3, <1>5 DEF Counted
  <2>2. \A g \in 1 .. Len(sent) : sent[g].envelope # k => (Counted(g)' <=> Counted(g)) /\ g # h
    BY <1>1, <1>2, <1>3, <1>4 DEF Counted
  <2> QED BY <1>1, <2>1, <2>2
<1>7. /\ \A n \in Message : n # m => CarriedOut(n)' = CarriedOut(n)
      /\ m \in Message => CarriedOut(m)' = CarriedOut(m) \cup {sent[h].tx}
  <2>1. ASSUME NEW n \in Message
        PROVE  CarriedOut(n)' =
                 {sent[g].tx : g \in {j \in 1 .. Len(sent) :
                    sent[j].for = n /\ (Counted(j) \/ j = h)}}
    <3>1. CarriedOut(n)' =
            {sent'[g].tx : g \in {j \in 1 .. Len(sent') : sent'[j].for = n /\ Counted(j)'}}
      BY DEF CarriedOut, Counted
    <3>2. {j \in 1 .. Len(sent') : sent'[j].for = n /\ Counted(j)'} =
            {j \in 1 .. Len(sent) : sent[j].for = n /\ (Counted(j) \/ j = h)}
      BY <1>3, <1>6
    <3> QED BY <1>3, <3>1, <3>2
  <2>2. ASSUME NEW n \in Message
        PROVE  CarriedOut(n) =
                 {sent[g].tx : g \in {j \in 1 .. Len(sent) : sent[j].for = n /\ Counted(j)}}
    BY DEF CarriedOut, Counted
  <2>3. ASSUME NEW n \in Message, n # m PROVE CarriedOut(n)' = CarriedOut(n)
    <3>1. {j \in 1 .. Len(sent) : sent[j].for = n /\ (Counted(j) \/ j = h)} =
            {j \in 1 .. Len(sent) : sent[j].for = n /\ Counted(j)}
      BY <1>1, <2>3
    <3> QED BY <2>1, <2>2, <3>1
  <2>4. ASSUME m \in Message PROVE CarriedOut(m)' = CarriedOut(m) \cup {sent[h].tx}
    <3>1. {j \in 1 .. Len(sent) : sent[j].for = m /\ (Counted(j) \/ j = h)} =
            {j \in 1 .. Len(sent) : sent[j].for = m /\ Counted(j)} \cup {h}
      BY <1>1
    <3> QED BY <2>1, <2>2, <2>4, <3>1
  <2> QED BY <2>3, <2>4
<1>8. /\ repeatableBar' = repeatableBar /\ reportedBar' = reportedBar /\ orderBar' = orderBar
  BY <1>3 DEF repeatableBar, reportedBar, orderBar, OrderOf
<1>9. CASE m \notin Message
  <2>1. carriedBar' = carriedBar
    BY <1>7, <1>9 DEF carriedBar
  <2> QED BY <1>8, <2>1
<1>10. CASE m \in Message
  <2> DEFINE tx == sent[h].tx
  <2>1. \A field \in DOMAIN OrderOf(m) : tx[field] = OrderOf(m)[field]
    <3>1. Asks(m, envelopes[k].tx)
      BY <1>1, <1>2, <1>10 DEF IInv, SentOK
    <3>2. \A field \in {"from", "to", "data", "value", "network"} : tx[field] = envelopes[k].tx[field]
      BY <1>1 DEF Confirmable, verify_submitted_transaction, FieldsMatch
    <3>3. DOMAIN OrderOf(m) = {"from", "to", "data", "value", "network"}
      BY DEF OrderOf
    <3> HIDE DEF tx
    <3> QED BY <3>1, <3>2, <3>3 DEF Asks, OrderOf
  <2>2. \A n \in Message : tx \notin CarriedOut(n)
    <3> SUFFICES ASSUME NEW n \in Message, NEW g \in 1 .. Len(sent),
                        Counted(g), tx = sent[g].tx
                 PROVE  FALSE
      BY CarriedBy
    <3>1. g = h
      BY <1>1 DEF IInv, Nonces
    <3> QED BY <1>6, <3>1
  <2>3. CarriedOut(m) = {} \/ m \in repeatableBar
    <3> SUFFICES ASSUME m \in Deployments \ dropped, NEW g \in 1 .. Len(sent),
                        sent[g].for = m, Counted(g)
                 PROVE  FALSE
      BY <1>10, CarriedBy DEF repeatableBar, Deployments
    <3>1. KnownBy(m)
      BY DEF IInv
    <3>2. g = h
      BY <1>1, <3>1 DEF KnownBy
    <3> QED BY <1>6, <3>2
  <2>4. carriedBar' = [carriedBar EXCEPT ![m] = @ \cup {tx}]
    BY <1>7, <1>10 DEF carriedBar
  <2>5. tx \in carriedBar'[m]
    BY <1>10, <2>4 DEF carriedBar
  <2> HIDE DEF tx
  <2>6. Orders!CarryOut(m, tx)
    BY <1>8, <1>10, <2>1, <2>2, <2>3, <2>4
       DEF Orders!CarryOut, Orders!Does, orderBar, carriedBar, repeatableBar, reportedBar
  <2> QED BY <1>10, <2>5, <2>6 DEF Orders!Next, carriedBar
<1> QED BY <1>9, <1>10

LEMMA OrdersStep ==
  IInv /\ [Next]_vars =>
    [Orders!Next]_<<orderBar, carriedBar, repeatableBar, reportedBar>>
<1> SUFFICES ASSUME IInv, [Next]_vars
             PROVE  [Orders!Next]_<<orderBar, carriedBar, repeatableBar, reportedBar>>
  OBVIOUS
<1>1. \/ \A e \in Envelope : envelopes[e] # NULL => envelopes'[e] = envelopes[e]
      \/ \E f \in Flow : confirm_action(f)
  <2>1. ASSUME NEW f \in Flow, NEW k \in Envelope, NEW release \in Release, Build(f, k, release)
        PROVE  \A e \in Envelope : envelopes[e] # NULL => envelopes'[e] = envelopes[e]
    BY <2>1 DEF Build, IInv, TypeOK
  <2>2. \/ UNCHANGED envelopes
        \/ \E f \in Flow, k \in Envelope, release \in Release : Build(f, k, release)
        \/ \E f \in Flow : confirm_action(f)
    BY DEF Next, Page, Flows, vars, serverVars, pageVars, Propose, SaveHistory, SaveFails, Reload, LoadHistory,
           LoadNothing, LoadFails, ConfirmPressed, NotaryPressed, TransferAsked, Sign,
           Answered, Refused, TransferEnds
  <2> QED BY <2>1, <2>2
<1>2. CASE \A e \in Envelope : envelopes[e] # NULL => envelopes'[e] = envelopes[e]
  <2>1. world' = world /\ carriedBar' = carriedBar
    BY <1>2, NothingCarried, SentStays DEF carriedBar
  <2>2. orderBar' = orderBar
    BY <2>1 DEF orderBar, OrderOf
  <2>3. dropped \subseteq dropped' /\ dropped' \subseteq Message
    <3>1. dropped \subseteq dropped'
      BY DEF Next, Page, Flows, vars, serverVars, pageVars, Show, Propose, SaveHistory, SaveFails, Reload,
             LoadHistory, LoadNothing, LoadFails, ConfirmPressed, NotaryPressed, TransferAsked,
             Build, Sign, confirm_action, Answered, Refused, TransferEnds
    <3> QED BY <3>1, HistoriesStep
  <2>4. repeatableBar \subseteq repeatableBar' /\ repeatableBar' \subseteq Message
    BY <2>1, <2>3 DEF repeatableBar
  <2>5. reportedBar' \subseteq {m \in Message : carriedBar[m] # {}}
    <3>1. \A m \in Message : shown'[m].status = "ended" => CarriedOut(m)' # {}
      <4>1. IInv'
        BY StepIsSound
      <4>2. IInv' => (\A m \in Message : shown[m].status = "ended" => CarriedOut(m) # {})'
        BY ReportedIsCarried, PTL
      <4> QED BY <4>1, <4>2
    <3> QED BY <1>2, <3>1, NothingCarried DEF reportedBar, carriedBar
  <2>6. Orders!Report
    BY <2>1, <2>2, <2>4, <2>5
       DEF Orders!Report, orderBar, carriedBar, repeatableBar, reportedBar
  <2> QED BY <2>6 DEF Orders!Next
<1> QED BY <1>1, <1>2, ConfirmationCarries

\* Whatever is pressed, edited, lost, reloaded or asked again: what is
\* confirmed for a message does what the message asked, once as long as the
\* page keeps its hash, and the page reports only that.
THEOREM FlowKeepsOrders == Spec => ImplementsReviewedOrders
<1>1. Init => Orders!Init
  <2> SUFFICES ASSUME Init PROVE Orders!Init
    OBVIOUS
  <2>1. world \in Setting /\ Wallet \in Address /\ ConsensusContract \in Address /\ Len(sent) = 0
    BY FlowAssumption, ReviewAssumption DEF Init
  <2>2. \A m \in Message :
          OrderOf(m) \in [from: Address, to: Address, data: Calldata, value: Nat, network: Network]
    BY <2>1 DEF OrderOf, Setting, Request
  <2>3. \A m \in Message : CarriedOut(m) = {}
    BY <2>1 DEF CarriedOut
  <2>4. \A m \in Message : shown[m].status # "ended"
    BY DEF Init, Welcome, Reviewed
  <2>5. dropped = {}
    BY DEF Init
  <2> QED BY <2>2, <2>3, <2>4, <2>5 DEF Orders!Init
<1>2. IInv /\ [Next]_vars => [Orders!Next]_Orders!vars
  BY OrdersStep DEF Orders!vars, orderBar, carriedBar, repeatableBar, reportedBar
<1> QED BY <1>1, <1>2, Inductive, PTL DEF Spec, ImplementsReviewedOrders, Orders!Spec

=============================================================================
