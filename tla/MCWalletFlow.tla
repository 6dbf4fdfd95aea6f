---------------------------- MODULE MCWalletFlow ----------------------------
(* Small instances of WalletFlow for TLC. *)
EXTENDS WalletFlow, TLC

CONSTANTS message, other, wallet, friend, zero, consensus, source, method, empty,
  new, old, e1, e2, f1, f2

Base ==
  [recipient |-> ConsensusContract, value |-> 0, given |-> NULL, token |-> "GEN",
   gas_limit |-> NULL, valid |-> TRUE, reviewed |-> NULL]

\* The fields given, over the ones of a plain request.
With(extra, r) == extra @@ r

Deploy == With([action |-> "deploy_contract", data |-> source, reviewed |-> new], Base)
Call == With([action |-> "contract_call", data |-> method], Base)

Amount(form, value) == [form |-> form, value |-> value]
Pay(value, given, to) ==
  With([action |-> "transfer", data |-> Empty, recipient |-> to, value |-> value,
        given |-> given], Base)
Payment == Pay(2, Amount("text", 2), friend)
Payments ==
  {Payment, Pay(2, Amount("float", 2), friend), Pay(5, Amount("text", 5), friend),
   Pay(2, Amount("integer", 2), ZeroAddress), Pay(2, NULL, friend)}

Node(base_fee, priority, gas_price, estimate) ==
  [nonce |-> 0, base_fee |-> base_fee, priority |-> priority,
   gas_price |-> gas_price, estimate |-> estimate]
\* Without fees, without a tip, with a tip, before EIP-1559, out of order.
Free == Node(0, 0, NULL, 21001)
Tipless == Node(7, 0, 8, NULL)
Tipped == Node(7, NULL, 8, 0)
Old == Node(NULL, NULL, 8, 30000)
Silent == Node(NULL, NULL, NULL, 30000)

\* One message, or two.
Setup(asked, transfer, network, view) ==
  [messages |-> {message}, asked |-> [m \in Message |-> asked], transfer |-> transfer,
   network |-> network, view |-> view]
Both(first, second, view) ==
  [messages |-> Message, asked |-> (message :> first) @@ (other :> second),
   transfer |-> NULL, network |-> "localnet", view |-> view]

\* The source of Broken does not pass the validator: nothing is built of it.
Broken == [Deploy EXCEPT !.valid = FALSE]

Worlds ==
  {Setup(Deploy, NULL, "studionet", view) : view \in {Free, Tipless, Tipped, Silent}}
    \cup {Setup(Call, NULL, "localnet", view) : view \in {Tipless, Old}}
    \cup {Setup(Deploy, Payment, "studionet", Free)}
    \cup {Setup(Broken, pay, "localnet", Old) : pay \in Payments}
    \cup {Both(Deploy, Deploy, Old), Both(Deploy, Call, Tipless)}

Slots == Permutations(Flow) \cup Permutations(Envelope)
=============================================================================
