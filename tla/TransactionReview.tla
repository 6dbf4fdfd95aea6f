-------------------------- MODULE TransactionReview --------------------------
(***************************************************************************)
(* What the backend lets a wallet sign and what it accepts back: the       *)
(* transactions that POST /chat/transfer-tx, /chat/deploy-tx and           *)
(* /chat/contract-call-tx build, the safety rules a prepared intent is     *)
(* checked against on confirmation, and the comparison of a broadcast      *)
(* transaction with the reviewed one.  Wallets may rewrite gas and fees;   *)
(* the comparison knows the rewritings that were met on each network.      *)
(*                                                                         *)
(* Addresses, calldata and releases are only compared.  Fees are counted   *)
(* in gwei.  Fields that are malformed or missing in the node's answer are *)
(* refused like fields that differ, and are not told apart from them.      *)
(***************************************************************************)
EXTENDS Integers

CONSTANTS
  Address,            \* wallets, contracts and recipients
  ZeroAddress,        \* the address nobody has
  ConsensusContract,  \* where GenLayer transactions are sent
  Calldata,           \* calldata, with the empty one of transfers
  Empty,
  Release,            \* the generator and validator versions of a backend
  Network,            \* the networks, each with its own chain id
  MaxTransferAmount,  \* MAX_TRANSFER_AMOUNT
  NULL

MinGas == 21000
DefaultGas == 1500000
DefaultTip == 2

\* Networks whose wallets rewrite the gas and the fees of GenLayer transactions.
Rewriting == {"studionet", "bradbury"}

ASSUME ReviewAssumption ==
  /\ {ZeroAddress, ConsensusContract} \subseteq Address
  /\ Empty \in Calldata
  /\ MaxTransferAmount \in Nat
  /\ NULL \notin Nat /\ NULL \notin Release

Maybe(S) == S \cup {NULL}

-----------------------------------------------------------------------------
(* Requests and what is prepared for them.                                 *)

\* An amount in JSON: a text or number; NULL is the value of a text that is
\* not a plain decimal.
AmountField == [form: {"text", "integer", "float"}, value: Maybe(Nat)]

\* given is the amount in the intent that came with the request, if one did;
\* valid, what the contract validator says of the source; reviewed, the
\* release that showed the source to the user.
Request ==
  [action: {"transfer", "deploy_contract", "contract_call"},
   recipient: Address, data: Calldata, value: Nat, given: Maybe(AmountField),
   token: {"GEN", "other"}, gas_limit: Maybe(Nat), valid: BOOLEAN,
   reviewed: Maybe(Release)]

Intent ==
  [action: {"transfer", "deploy_contract", "contract_call"},
   amount: Maybe(Nat), recipient: Address, token: {"GEN", "other"},
   gas_limit: Maybe(Nat), release: Maybe(Release)]

Fees ==
  [gasPrice: Maybe(Nat), maxFeePerGas: Maybe(Nat), maxPriorityFeePerGas: Maybe(Nat)]

\* studio: the Studio node returned it as the raw transaction it carries.
Transaction ==
  [from: Address, to: Address, data: Calldata, value: Nat, nonce: Nat,
   gas: Nat, network: Network, fees: Fees, studio: BOOLEAN]

\* What the node answers while a transaction is built; NULL where it fails.
\* base_fee is NULL also on a chain whose blocks have none.
NodeView ==
  [nonce: Nat, base_fee: Maybe(Nat), priority: Maybe(Nat),
   gas_price: Maybe(Nat), estimate: Maybe(Nat)]

\* Floats are refused: they cannot hold eighteen decimals.
_normalize_decimal_amount(a) ==
  IF a.form = "float" \/ a.value = 0 THEN NULL ELSE a.value

SelectedFees(node) ==
  LET tip == IF node.priority = NULL THEN DefaultTip ELSE node.priority IN
  IF node.base_fee # NULL
  THEN [gasPrice |-> NULL, maxFeePerGas |-> node.base_fee + tip,
        maxPriorityFeePerGas |-> tip]
  ELSE [gasPrice |-> node.gas_price, maxFeePerGas |-> NULL,
        maxPriorityFeePerGas |-> NULL]

\* Mutant: no default for an estimate that fails.
SelectedGasNoDefault(node, gas_limit) ==
  IF gas_limit # NULL THEN gas_limit ELSE node.estimate

SelectedGas(node, gas_limit) ==
  CASE gas_limit # NULL -> gas_limit
    [] gas_limit = NULL /\ node.estimate \notin {NULL, 0} -> node.estimate
    [] OTHER -> DefaultGas

_build_wallet_transaction(node, network, sender, to, data, value, gas_limit) ==
  [from |-> sender, to |-> to, data |-> data, value |-> value,
   nonce |-> node.nonce, gas |-> SelectedGas(node, gas_limit),
   network |-> network, fees |-> SelectedFees(node), studio |-> FALSE]

TransferGas(r) == IF r.gas_limit = NULL THEN MinGas ELSE r.gas_limit

\* Without an intent in the request the amount is converted to a float.
build_transfer_intent(r) ==
  [action |-> "transfer",
   amount |-> IF r.given = NULL THEN NULL ELSE _normalize_decimal_amount(r.given),
   recipient |-> r.recipient, token |-> IF r.given = NULL THEN "GEN" ELSE r.token,
   gas_limit |-> TransferGas(r), release |-> NULL]

\* What verify_reviewed_source adds names the release that builds.
build_deploy_intent(r) ==
  [action |-> "deploy_contract", amount |-> NULL, recipient |-> r.recipient,
   token |-> "GEN", gas_limit |-> r.gas_limit, release |-> r.reviewed]

build_contract_call_intent(r) ==
  [action |-> "contract_call", amount |-> NULL, recipient |-> r.recipient,
   token |-> "GEN", gas_limit |-> r.gas_limit, release |-> NULL]

verify_reviewed_source(r, release) == r.reviewed = release

\* Whether a backend of that release prepares the request.
Buildable(r, release) ==
  \/ /\ r.action = "transfer"
     /\ r.value > 0 /\ TransferGas(r) >= MinGas
  \/ /\ r.action = "deploy_contract"
     /\ r.gas_limit # NULL => r.gas_limit >= MinGas
     /\ r.valid /\ verify_reviewed_source(r, release)
  \/ r.action = "contract_call"

PreparedIntent(r) ==
  CASE r.action = "transfer" -> build_transfer_intent(r)
    [] r.action = "deploy_contract" -> build_deploy_intent(r)
    [] r.action = "contract_call" -> build_contract_call_intent(r)

PreparedTx(r, node, network, sender) ==
  IF r.action = "transfer"
  THEN _build_wallet_transaction(node, network, sender, r.recipient, Empty,
                                 r.value, TransferGas(r))
  ELSE _build_wallet_transaction(node, network, sender, ConsensusContract, r.data,
                                 r.value, r.gas_limit)

-----------------------------------------------------------------------------
(* Confirmation.                                                           *)

ValidTransfer(intent) ==
  /\ intent.amount # NULL /\ intent.amount <= MaxTransferAmount
  /\ intent.token = "GEN"
  /\ intent.recipient # ZeroAddress

\* The source of a prepared deployment and the method of a prepared call are
\* there: they were needed to build them.
validate_intent(intent) ==
  /\ intent.action = "transfer" => ValidTransfer(intent)
  /\ intent.action = "deploy_contract" =>
       (intent.gas_limit # NULL => intent.gas_limit >= MinGas)

FeeMode(fees) ==
  CASE fees.maxFeePerGas # NULL \/ fees.maxPriorityFeePerGas # NULL -> "eip1559"
    [] fees.maxFeePerGas = NULL /\ fees.maxPriorityFeePerGas = NULL
         /\ fees.gasPrice # NULL -> "legacy"
    [] OTHER -> "none"

\* What a unit of gas costs at most.
Price(fees) ==
  CASE FeeMode(fees) = "eip1559" -> fees.maxFeePerGas
    [] FeeMode(fees) = "legacy" -> fees.gasPrice
    [] FeeMode(fees) = "none" -> 0

\* Half as much gas again, rounded up.
Raised(gas) == (gas * 3 + 1) \div 2

Rewritten(intent, reviewed) ==
  reviewed.network \in Rewriting /\ intent.action \in {"deploy_contract", "contract_call"}

\* Mutant: the wallet's gas is accepted rounded down.
GasMatchesRoundedDown(intent, reviewed, tx) ==
  \/ tx.gas = reviewed.gas
  \/ (tx.studio \/ Rewritten(intent, reviewed)) /\ tx.gas = (reviewed.gas * 3) \div 2

GasMatches(intent, reviewed, tx) ==
  \/ tx.gas = reviewed.gas
  \/ (tx.studio \/ Rewritten(intent, reviewed)) /\ tx.gas = Raised(reviewed.gas)

FieldsMatch(reviewed, tx) ==
  /\ tx.from = reviewed.from /\ tx.to = reviewed.to
  /\ tx.data = reviewed.data /\ tx.value = reviewed.value
  /\ tx.nonce = reviewed.nonce /\ tx.network = reviewed.network

studio_zero_fee_normalization(reviewed, tx) ==
  /\ FeeMode(tx.fees) = "legacy" /\ tx.studio
  /\ reviewed.fees.gasPrice = NULL
  /\ reviewed.fees.maxFeePerGas \in {NULL, 0}
  /\ reviewed.fees.maxPriorityFeePerGas \in {NULL, 0}
  /\ tx.fees.gasPrice = 0

wallet_legacy_fee_normalization(intent, reviewed, tx) ==
  /\ FeeMode(tx.fees) = "legacy" /\ FeeMode(reviewed.fees) = "eip1559"
  /\ Rewritten(intent, reviewed)
  /\ reviewed.fees.maxPriorityFeePerGas = 0
  /\ tx.fees.gasPrice = reviewed.fees.maxFeePerGas

\* Mutant: only the fee mode is compared.
FeesMatchMode(intent, reviewed, tx) ==
  FeeMode(tx.fees) = FeeMode(reviewed.fees)
    \/ studio_zero_fee_normalization(reviewed, tx)
    \/ wallet_legacy_fee_normalization(intent, reviewed, tx)

FeesMatch(intent, reviewed, tx) ==
  \/ studio_zero_fee_normalization(reviewed, tx)
  \/ wallet_legacy_fee_normalization(intent, reviewed, tx)
  \/ /\ FeeMode(tx.fees) = FeeMode(reviewed.fees)
     /\ \A field \in {"gasPrice", "maxFeePerGas", "maxPriorityFeePerGas"} :
          reviewed.fees[field] # NULL => tx.fees[field] = reviewed.fees[field]

verify_submitted_transaction(intent, reviewed, tx) ==
  /\ FieldsMatch(reviewed, tx)
  /\ GasMatches(intent, reviewed, tx)
  /\ FeesMatch(intent, reviewed, tx)

\* The checks of POST /chat/confirm on the envelope and the transaction.
Confirmable(intent, reviewed, tx) ==
  validate_intent(intent) /\ verify_submitted_transaction(intent, reviewed, tx)

-----------------------------------------------------------------------------
(* The wallet: the ways it was seen to encode what it is asked to sign.    *)

LegacyFees(price) ==
  [gasPrice |-> price, maxFeePerGas |-> NULL, maxPriorityFeePerGas |-> NULL]

\* The gas may be raised and EIP-1559 fees without a tip become a gas price;
\* the Studio node hands out what was signed when that has a gas price.  The
\* effective price a node adds to EIP-1559 fees decides nothing.
Rewritings(intent, tx) ==
  {w \in [gas: {tx.gas, Raised(tx.gas)}, fees: {tx.fees, LegacyFees(Price(tx.fees))},
           studio: BOOLEAN] :
     /\ w.studio => tx.network = "studionet" /\ FeeMode(w.fees) = "legacy"
     /\ w.gas # tx.gas => w.studio \/ Rewritten(intent, tx)
     /\ w.fees # tx.fees =>
          /\ tx.fees.maxPriorityFeePerGas = 0
          /\ Rewritten(intent, tx) \/ (w.studio /\ Price(tx.fees) = 0)}

Encodings(intent, tx) ==
  {[tx EXCEPT !.gas = w.gas, !.fees = w.fees, !.studio = w.studio] :
     w \in Rewritings(intent, tx)}

=============================================================================
