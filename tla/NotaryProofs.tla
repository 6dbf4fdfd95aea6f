---------------------------- MODULE NotaryProofs ----------------------------
(***************************************************************************)
(* Proofs about NotaryIndex, for any number of transactions, claims,       *)
(* drafts, requests in flight and calls that are not final yet, and any    *)
(* answers of the language model.                                          *)
(*                                                                         *)
(* The argument: the registry an accepted call found, and the one the last *)
(* call left, all satisfy RegistrySound, and each extends the one before   *)
(* it (Extends): records are added and evaluated once, never changed.  So  *)
(* final records stay, and what a poll or a read took from the chain holds *)
(* for good, however late it is stored.                                    *)
(***************************************************************************)
EXTENDS NotaryIndex, TLAPS

-----------------------------------------------------------------------------
\* The inductive invariant.

RegistryType == [claims: [Claim -> ClaimRecord], claim_fingerprints: SUBSET Content]

\* What the contract's rules for a claim's sources make of them.
Reviewable(content) ==
  /\ Len(content.source_urls) \in 1 .. MaxSources
  /\ \A i \in DOMAIN content.source_urls :
       validate_public_https_url(content.source_urls[i])
  /\ \A i, j \in DOMAIN content.source_urls :
       i # j => content.source_urls[i] # content.source_urls[j]

RecordSound(r) ==
  /\ ~r.exists => ~r.evaluated /\ r.verdict = "PENDING" /\ r.content = NULL
  /\ r.exists => /\ r.content \in Content
                 /\ Reviewable(r.content)
                 /\ WellFormed(r)
  /\ r.verdict \in Decisive =>
       /\ r.evaluated
       /\ r.reached = DOMAIN r.content.source_urls
       /\ r.material_facts # {} /\ r.material_facts \subseteq DOMAIN r.content.source_urls
       /\ r.rationale

RegistrySound(s) ==
  /\ s \in RegistryType
  /\ \A c \in Claim : RecordSound(s.claims[c])
  /\ \A c \in Claim : s.claims[c].exists => s.claims[c].content \in s.claim_fingerprints
  /\ \A c, d \in Claim :
       s.claims[c].exists /\ s.claims[d].exists
         /\ s.claims[c].content = s.claims[d].content => c = d

\* Records are added and evaluated, and otherwise stay.
Extends(s, t) ==
  \A c \in Claim :
    /\ s.claims[c].exists =>
         t.claims[c].exists /\ t.claims[c].content = s.claims[c].content
    /\ s.claims[c].evaluated => t.claims[c] = s.claims[c]

\* One call: a new claim is submitted, or one that was is judged.
OneCall(s, t) ==
  \E c \in Claim :
    /\ \A d \in Claim \ {c} : t.claims[d] = s.claims[d]
    /\ t.claims[c].exists
    /\ \/ ~s.claims[c].exists /\ ~t.claims[c].evaluated
       \/ /\ s.claims[c].exists /\ ~s.claims[c].evaluated
          /\ t.claims[c].evaluated /\ t.claims[c].content = s.claims[c].content

Link(s, t) == Extends(s, t) /\ OneCall(s, t)

\* The registry that call i of the open calls a found; the last one is s.
At(a, s, i) == IF i <= Len(a) THEN a[i].before ELSE s

Chain(a, s) ==
  /\ \A i \in 1 .. Len(a) + 1 : RegistrySound(At(a, s, i))
  /\ \A i \in 1 .. Len(a) : Link(At(a, s, i), At(a, s, i + 1))

CallType ==
  [method: Hash, by: Party, value: {0}, before: RegistryType, to: {NULL}, paid: {0}]

Typed ==
  /\ contract \in RegistryType
  /\ accepted \in Seq(CallType) /\ Len(accepted) <= MaxOpen
  /\ txs \in [Hash -> TxRecord]
  /\ confirms \in [Hash -> Nat]
  /\ registries \subseteq RegistryRow
  /\ claims \in [Claim -> ClaimRow]
  /\ polls \in [Poll -> PollRequest]
  /\ read \in ReadRequest

TxOK(h) ==
  /\ txs[h].stage # "unused" => txs[h].operation # NULL
  /\ txs[h].stage # "unused" /\ txs[h].operation = "submit_claim" =>
       txs[h].claim_id \in Claim /\ txs[h].content \in Content
  /\ txs[h].stage # "unused" /\ txs[h].operation = "evaluate_claim" =>
       txs[h].claim_id \in Claim
  /\ ~Submitted(h) => txs[h].consensus = "PENDING"
  /\ confirms[h] > 0 => Submitted(h)

\* An open call is of one submitted transaction, and has done what it is for.
CallOK(a, s, i) ==
  LET t == txs[a[i].method] IN
  /\ Submitted(a[i].method)
  /\ t.consensus # "FINALIZED"
  /\ t.operation = "evaluate_claim" => At(a, s, i + 1).claims[t.claim_id].evaluated

Calls ==
  /\ \A i \in 1 .. Len(accepted) : CallOK(accepted, contract, i)
  /\ \A i, j \in 1 .. Len(accepted) : accepted[i].method = accepted[j].method => i = j

FinalOK(h) ==
  txs[h].consensus = "FINALIZED" /\ txs[h].execution = "RETURN"
    /\ txs[h].operation = "evaluate_claim"
    => Finalized.claims[txs[h].claim_id].evaluated

\* What a poll read holds of the transactions, as all has them.
PollSound(poll, all) ==
  poll.busy =>
    LET t == all[poll.hash] IN
    /\ poll.hash \in Hash /\ t.stage \in {"mined", "confirmed"}
    /\ poll.status = "FINALIZED" =>
         /\ t.consensus = "FINALIZED"
         /\ poll.execution # "UNKNOWN" => t.execution = poll.execution

PollOK == \A p \in Poll : PollSound(polls[p], txs)

ReadOK ==
  /\ read.pc # "idle" => read.claim_id \in Claim
  /\ read.pc = "storing" =>
       IF read.record.evaluated
       THEN Finalized.claims[read.claim_id] = read.record
       ELSE read.record.verdict = "PENDING"

RowsOK ==
  /\ \A r \in registries : r.consensus_tx_id \in {NULL, r.deploy_tx_hash}
  /\ ActiveRegistryIsDeployed
  /\ ConfirmedRegistryIsIndexed
  /\ IndexFollowsContract

IInv ==
  /\ Typed
  /\ Chain(accepted, contract)
  /\ \A h \in Hash : TxOK(h)
  /\ Calls
  /\ \A h \in Hash : FinalOK(h)
  /\ PollOK /\ ReadOK /\ RowsOK

-----------------------------------------------------------------------------
\* What every step preserves of transactions and of final records.

TxKept(h) ==
  /\ Submitted(h) =>
       /\ Submitted(h)'
       /\ txs'[h].operation = txs[h].operation
       /\ txs'[h].claim_id = txs[h].claim_id
  /\ txs[h].consensus = "FINALIZED" =>
       /\ txs'[h].consensus = "FINALIZED"
       /\ txs'[h].execution = txs[h].execution

-----------------------------------------------------------------------------
\* The registry.

\* The reading of the finalized registry is the beginning of the chain.
LEMMA FinalizedIsFirst ==
  ASSUME accepted \in Seq(CallType)
  PROVE  Finalized = At(accepted, contract, 1)
BY DEF Finalized, At

\* What the contract accepts of a URL, the backend does.
LEMMA UrlRulesAgree ==
  ASSUME NEW u, _source_url_allowed(u)
  PROVE  validate_public_https_url(u)
BY DEF _source_url_allowed, validate_public_https_url

LEMMA ExtendsIsReflexive == ASSUME NEW s PROVE Extends(s, s)
BY DEF Extends

\* A draft as review returns it is one the contract can be sent.
LEMMA CanonicalIsContent ==
  ASSUME NEW d \in Content
  PROVE  Canonical(d) \in Content
<1> DEFINE urls == d.source_urls
           spelled == [i \in DOMAIN urls |-> Normalized(urls[i])]
<1>1. urls \in Seq(Url) /\ DOMAIN urls = 1 .. Len(urls) /\ Len(urls) \in Nat
  BY DEF Content
<1>2. \A i \in DOMAIN urls : Normalized(urls[i]) \in Url
  BY <1>1, NotaryAssumption
<1>3. spelled \in [1 .. Len(urls) -> Url]
  BY <1>1, <1>2
<1>4. spelled \in Seq(Url)
  BY <1>1, <1>3
<1>5. Canonical(d) = [d EXCEPT !.source_urls = spelled]
  BY DEF Canonical
<1> HIDE DEF spelled
<1> QED BY <1>4, <1>5 DEF Content

\* A malformed answer is one of those the rules are made for.
LEMMA MalformedIsAnswer == Malformed \in ModelAnswer
<1>1. <<>> \in Seq(SourceStatus \cup {"other"})
  OBVIOUS
<1> QED BY <1>1 DEF Malformed, ModelAnswer

-----------------------------------------------------------------------------
\* submit_claim leaves a sound registry that extends the one it found.
LEMMA SubmitSound ==
  ASSUME NEW s, RegistrySound(s), NEW c \in Claim, NEW content \in Content,
         ~s.claims[c].exists,
         Len(content.source_urls) \in 1 .. MaxSources,
         \A i \in DOMAIN content.source_urls : _source_url_allowed(content.source_urls[i]),
         \A i, j \in DOMAIN content.source_urls :
           i # j => content.source_urls[i] # content.source_urls[j],
         content \notin s.claim_fingerprints
  PROVE  LET t == [s EXCEPT
                     !.claims[c] = Unjudged(TRUE, content),
                     !.claim_fingerprints = @ \cup {content}]
         IN  RegistrySound(t) /\ Link(s, t)
<1> DEFINE new == Unjudged(TRUE, content)
           t == [s EXCEPT !.claims[c] = new, !.claim_fingerprints = @ \cup {content}]
<1>1. /\ s \in RegistryType
      /\ s.claims \in [Claim -> ClaimRecord] /\ s.claim_fingerprints \in SUBSET Content
  BY DEF RegistrySound, RegistryType
<1>2. new = [exists |-> TRUE, content |-> content, evaluated |-> FALSE,
             verdict |-> "PENDING", source_statuses |-> <<>>, material_facts |-> {},
             rationale |-> FALSE, reached |-> {}]
  BY DEF Unjudged
<1> HIDE DEF new
<1>3. new \in ClaimRecord
  <2>1. <<>> \in Seq(SourceStatus)
    OBVIOUS
  <2> QED BY <1>2, <2>1 DEF ClaimRecord, Verdict
<1>4. RecordSound(new)
  <2>1. Reviewable(content)
    BY UrlRulesAgree DEF Reviewable
  <2> QED BY <1>2, <2>1 DEF RecordSound, WellFormed, Decisive
<1>5. /\ t.claims = [s.claims EXCEPT ![c] = new]
      /\ t.claim_fingerprints = s.claim_fingerprints \cup {content}
  BY <1>1 DEF RegistryType
<1>6. t \in RegistryType
  BY <1>1, <1>3 DEF RegistryType
<1>7. new.exists /\ ~new.evaluated /\ new.content = content
  BY <1>2
<1> HIDE DEF t
<1>8. \A d \in Claim : t.claims[d] = IF d = c THEN new ELSE s.claims[d]
  BY <1>1, <1>5
<1>9. RegistrySound(t)
  BY <1>4, <1>5, <1>6, <1>7, <1>8 DEF RegistrySound
<1>10. Extends(s, t)
  <2>1. ~s.claims[c].evaluated
    BY DEF RegistrySound, RecordSound
  <2> QED BY <1>8, <2>1 DEF Extends
<1>11. OneCall(s, t)
  BY <1>7, <1>8 DEF OneCall
<1> QED BY <1>9, <1>10, <1>11 DEF t, new, Link

-----------------------------------------------------------------------------
\* The rules leader_fn applies leave a readable record, with a verdict that
\* decides only when all sources were fetched and found usable.
LEMMA JudgedSound ==
  ASSUME NEW r \in ClaimRecord, RecordSound(r), r.exists, ~r.evaluated,
         NEW a \in ModelAnswer,
         NEW fetched \in SUBSET (DOMAIN r.content.source_urls)
  PROVE  LET q == Judged(r, fetched, a) IN
         /\ q \in ClaimRecord /\ RecordSound(q)
         /\ q.exists /\ q.evaluated /\ q.content = r.content
<1> DEFINE urls == r.content.source_urls
           statuses == NormalizedStatuses(urls, fetched, a.source_statuses)
           facts == Cited(urls, a.material_facts)
           verdict == NormalizedVerdict(a.verdict, statuses, facts, a.rationale)
           q == Judged(r, fetched, a)
<1>1. r.content \in Content /\ urls \in Seq(Url) /\ DOMAIN urls = 1 .. Len(urls) /\ Len(urls) \in Nat
  BY DEF RecordSound, Content
<1>2. /\ statuses \in Seq(SourceStatus) /\ Len(statuses) = Len(urls)
      /\ DOMAIN statuses = DOMAIN urls
      /\ \A i \in DOMAIN urls : statuses[i] = "USABLE" => i \in fetched
  <2>1. statuses \in [1 .. Len(urls) -> SourceStatus]
    BY <1>1 DEF NormalizedStatuses, SourceStatus
  <2>2. statuses \in Seq(SourceStatus) /\ Len(statuses) = Len(urls)
    BY <1>1, <2>1
  <2>3. \A i \in DOMAIN urls : i \notin fetched => statuses[i] = "UNAVAILABLE"
    BY DEF NormalizedStatuses
  <2> QED BY <1>1, <2>1, <2>2, <2>3
<1>3. facts \in SUBSET Nat /\ facts \subseteq DOMAIN urls
  BY <1>1 DEF Cited, ModelAnswer
<1>4. verdict \in Decisive \cup {"INCONCLUSIVE"} /\
      (verdict \in Decisive =>
        /\ \A i \in DOMAIN statuses : statuses[i] = "USABLE"
        /\ facts # {} /\ a.rationale)
  BY DEF NormalizedVerdict, Decisive
<1>5. q = [r EXCEPT !.evaluated = TRUE, !.reached = fetched, !.source_statuses = statuses,
                    !.material_facts = facts, !.rationale = a.rationale,
                    !.verdict = verdict]
  BY DEF Judged
<1>6. a.rationale \in BOOLEAN /\ fetched \in SUBSET Nat
  BY <1>1 DEF ModelAnswer
<1> HIDE DEF urls, statuses, facts, verdict, q
<1>7. /\ q.exists = r.exists /\ q.content = r.content /\ q.evaluated = TRUE
      /\ q.reached = fetched /\ q.source_statuses = statuses /\ q.material_facts = facts
      /\ q.rationale = a.rationale /\ q.verdict = verdict
  BY <1>5 DEF ClaimRecord
<1>8. q \in ClaimRecord
  BY <1>2, <1>3, <1>4, <1>5, <1>6 DEF ClaimRecord, Verdict
<1>9. WellFormed(q)
  BY <1>1, <1>2, <1>3, <1>4, <1>7 DEF WellFormed, Decisive, urls
<1>10. verdict \in Decisive => fetched = DOMAIN urls
  BY <1>2, <1>4 DEF urls
<1>11. RecordSound(q)
  BY <1>1, <1>3, <1>4, <1>7, <1>9, <1>10 DEF RecordSound, urls
<1> QED BY <1>7, <1>8, <1>11 DEF q

\* evaluate_claim leaves a sound registry that extends the one it found.
LEMMA EvaluateSound ==
  ASSUME NEW s, RegistrySound(s), NEW c \in Claim, NEW a \in ModelAnswer,
         s.claims[c].exists, ~s.claims[c].evaluated,
         NEW fetched \in SUBSET (DOMAIN s.claims[c].content.source_urls)
  PROVE  LET t == [s EXCEPT !.claims[c] = Judged(@, fetched, a)] IN
         RegistrySound(t) /\ Link(s, t) /\ t.claims[c].evaluated
<1> DEFINE q == Judged(s.claims[c], fetched, a)
           t == [s EXCEPT !.claims[c] = Judged(@, fetched, a)]
<1>1. /\ s \in RegistryType
      /\ s.claims \in [Claim -> ClaimRecord] /\ s.claim_fingerprints \in SUBSET Content
  BY DEF RegistrySound, RegistryType
<1>2. /\ q \in ClaimRecord /\ RecordSound(q)
      /\ q.exists /\ q.evaluated /\ q.content = s.claims[c].content
  BY <1>1, JudgedSound DEF RegistrySound
<1> HIDE DEF q
<1>3. t = [s EXCEPT !.claims[c] = q]
  BY DEF q
<1>4. /\ t.claims = [s.claims EXCEPT ![c] = q]
      /\ t.claim_fingerprints = s.claim_fingerprints
      /\ t \in RegistryType
  BY <1>1, <1>2, <1>3 DEF RegistryType
<1> HIDE DEF t
<1>5. \A d \in Claim : t.claims[d] = IF d = c THEN q ELSE s.claims[d]
  BY <1>1, <1>4
<1>6. RegistrySound(t)
  BY <1>2, <1>4, <1>5 DEF RegistrySound
<1>7. Link(s, t)
  BY <1>2, <1>5 DEF Link, Extends, OneCall
<1> QED BY <1>2, <1>5, <1>6, <1>7 DEF t

-----------------------------------------------------------------------------
\* The chain of open calls.

\* A call that leaves a sound extension adds one link.
LEMMA ChainAppended ==
  ASSUME NEW a \in Seq(CallType), NEW s, NEW t, NEW e \in CallType,
         Chain(a, s), e.before = s, RegistrySound(t), Link(s, t)
  PROVE  /\ Chain(Append(a, e), t)
         /\ \A i \in 1 .. Len(a) : At(Append(a, e), t, i + 1) = At(a, s, i + 1)
         /\ At(Append(a, e), t, 1) = At(a, s, 1)
         /\ At(Append(a, e), t, Len(a) + 2) = t
<1> DEFINE b == Append(a, e)
<1>1. /\ Len(a) \in Nat /\ Len(b) = Len(a) + 1
      /\ \A i \in 1 .. Len(a) : b[i] = a[i]
      /\ b[Len(a) + 1] = e
  OBVIOUS
<1> HIDE DEF b
<1>2. \A i \in 1 .. Len(a) + 1 : At(b, t, i) = At(a, s, i)
  BY <1>1 DEF At
<1>3. At(b, t, Len(a) + 2) = t /\ At(b, t, Len(a) + 1) = s
  BY <1>1 DEF At
<1>4. \A i \in 1 .. Len(b) + 1 : RegistrySound(At(b, t, i))
  BY <1>1, <1>2, <1>3 DEF Chain
<1>5. \A i \in 1 .. Len(b) : Link(At(b, t, i), At(b, t, i + 1))
  <2> SUFFICES ASSUME NEW i \in 1 .. Len(b) PROVE Link(At(b, t, i), At(b, t, i + 1))
    OBVIOUS
  <2>1. CASE i \in 1 .. Len(a)
    BY <1>1, <1>2, <2>1 DEF Chain
  <2>2. CASE i = Len(a) + 1
    BY <1>1, <1>3, <2>2
  <2> QED BY <1>1, <2>1, <2>2
<1>6. Chain(b, t)
  BY <1>4, <1>5 DEF Chain
<1>7. \A i \in 1 .. Len(a) : At(b, t, i + 1) = At(a, s, i + 1)
  BY <1>1, <1>2
<1>8. At(b, t, 1) = At(a, s, 1)
  BY <1>1, <1>2
<1> QED BY <1>3, <1>6, <1>7, <1>8 DEF b

\* The oldest call leaves the chain.
LEMMA ChainAdvanced ==
  ASSUME NEW a \in Seq(CallType), NEW s, Chain(a, s), a # <<>>
  PROVE  /\ Chain(Tail(a), s)
         /\ \A i \in 1 .. Len(Tail(a)) + 1 : At(Tail(a), s, i) = At(a, s, i + 1)
<1> DEFINE b == Tail(a)
<1>1. /\ Len(a) \in Nat /\ Len(b) = Len(a) - 1 /\ Len(b) \in Nat
      /\ \A i \in 1 .. Len(b) : b[i] = a[i + 1]
  OBVIOUS
<1> HIDE DEF b
<1>2. \A i \in 1 .. Len(b) + 1 : At(b, s, i) = At(a, s, i + 1)
  BY <1>1 DEF At
<1>3. Chain(b, s)
  <2>1. \A i \in 1 .. Len(b) + 1 : RegistrySound(At(b, s, i))
    BY <1>1, <1>2 DEF Chain
  <2>2. ASSUME NEW i \in 1 .. Len(b)
        PROVE  Link(At(b, s, i), At(b, s, i + 1))
    <3>1. i + 1 \in 1 .. Len(a) /\ i \in 1 .. Len(b) + 1 /\ i + 1 \in 1 .. Len(b) + 1
      BY <1>1
    <3>2. Link(At(a, s, i + 1), At(a, s, (i + 1) + 1))
      BY <3>1 DEF Chain
    <3> QED BY <1>2, <3>1, <3>2
  <2> QED BY <2>1, <2>2 DEF Chain
<1> QED BY <1>2, <1>3 DEF b

\* The chain is cut at one of its registries.
LEMMA ChainCut ==
  ASSUME NEW a \in Seq(CallType), NEW s, Chain(a, s), NEW n \in 1 .. Len(a)
  PROVE  /\ Chain(SubSeq(a, 1, n - 1), a[n].before)
         /\ \A i \in 1 .. n : At(SubSeq(a, 1, n - 1), a[n].before, i) = At(a, s, i)
<1> DEFINE b == SubSeq(a, 1, n - 1)
           t == a[n].before
<1>1. /\ Len(a) \in Nat /\ Len(b) = n - 1 /\ n \in Nat
      /\ \A i \in 1 .. n - 1 : b[i] = a[i]
  OBVIOUS
<1>2. t = At(a, s, n)
  BY <1>1 DEF At
<1> HIDE DEF b, t
<1>3. \A i \in 1 .. n : At(b, t, i) = At(a, s, i)
  BY <1>1, <1>2 DEF At
<1>4. Chain(b, t)
  <2>1. \A i \in 1 .. Len(b) + 1 : RegistrySound(At(b, t, i))
    BY <1>1, <1>3 DEF Chain
  <2>2. ASSUME NEW i \in 1 .. Len(b)
        PROVE  Link(At(b, t, i), At(b, t, i + 1))
    <3>1. i \in 1 .. Len(a) /\ i \in 1 .. n /\ i + 1 \in 1 .. n
      BY <1>1
    <3> QED BY <1>3, <3>1 DEF Chain
  <2> QED BY <2>1, <2>2 DEF Chain
<1> QED BY <1>3, <1>4 DEF b, t

-----------------------------------------------------------------------------
\* The steps of the chain, and what they keep.

LEMMA InitIsSound == Init => IInv
<1> SUFFICES ASSUME Init PROVE IInv
  OBVIOUS
<1>a. Owner \in Party /\ Wanted \subseteq [Hash -> Operation \cup {NULL}] /\ MaxOpen \in Nat
  BY NotaryAssumption, IndexAssumption
<1>1. PICK wanted \in Wanted : txs = [h \in Hash |-> NewTx(wanted[h])]
  BY DEF Init
<1>2. NoClaim \in ClaimRecord /\ RecordSound(NoClaim) /\ ~NoClaim.exists
  <2>1. <<>> \in Seq(SourceStatus)
    OBVIOUS
  <2> QED BY <2>1 DEF NoClaim, Unjudged, ClaimRecord, Verdict, RecordSound, Decisive
<1>3. RegistrySound(contract)
  <2>1. contract = [claims |-> [c \in Claim |-> NoClaim], claim_fingerprints |-> {}]
    BY DEF Init, NewRegistry
  <2> QED BY <1>2, <2>1 DEF RegistrySound, RegistryType
<1>4. accepted = <<>> /\ accepted \in Seq(CallType) /\ Len(accepted) = 0
  BY DEF Init
<1>5. Chain(accepted, contract)
  BY <1>3, <1>4 DEF Chain, At
<1>6. txs \in [Hash -> TxRecord] /\ \A h \in Hash : txs[h].stage = "unused" /\ txs[h].consensus = "PENDING"
  BY <1>a, <1>1 DEF NewTx, TxRecord, Operation, ConsensusStatus, ExecutionStatus
<1>7. Typed
  BY <1>a, <1>2, <1>3, <1>4, <1>6
  DEF Init, Typed, RegistrySound, NoRow, ClaimRow, RowStatus, Verdict, NoPoll, PollRequest,
      ConsensusStatus, ExecutionStatus, NoRead, ReadRequest
<1>8. /\ \A h \in Hash : TxOK(h)
      /\ \A h \in Hash : FinalOK(h)
  BY <1>6, <1>7 DEF Init, TxOK, Submitted, FinalOK
<1>9. Calls
  BY <1>4 DEF Calls
<1>10. PollOK /\ ReadOK
  BY DEF Init, PollOK, PollSound, ReadOK, NoPoll, NoRead
<1>11. RowsOK
  BY <1>6 DEF Init, RowsOK, ActiveRegistryIsDeployed, ConfirmedRegistryIsIndexed,
              IndexFollowsContract, NoRow
<1> QED BY <1>5, <1>7, <1>8, <1>9, <1>10, <1>11 DEF IInv

\* A call that is accepted adds a link to the chain.
LEMMA AcceptFacts ==
  ASSUME IInv, NEW h \in Hash, Accept(h)
  PROVE  /\ Submitted(h) /\ ~Waits(h) /\ txs[h].consensus # "FINALIZED"
         /\ \E e \in CallType : accepted' = Append(accepted, e) /\ e.before = contract /\ e.method = h
         /\ Len(accepted) < MaxOpen
         /\ RegistrySound(contract') /\ Link(contract, contract')
         /\ txs[h].operation = "evaluate_claim" =>
              contract'.claims[txs[h].claim_id].evaluated
         /\ txs' = [txs EXCEPT ![h].consensus = "ONGOING", ![h].execution = "UNKNOWN"]
<1>1. /\ Submitted(h) /\ ~Waits(h) /\ txs[h].consensus # "FINALIZED"
      /\ txs' = [txs EXCEPT ![h].consensus = "ONGOING", ![h].execution = "UNKNOWN"]
  BY DEF Accept, Decided
<1>2. /\ contract \in RegistryType /\ txs[h] \in TxRecord /\ RegistrySound(contract)
      /\ TxOK(h) /\ txs[h].stage # "unused" /\ Owner \in Party
  <2>1. RegistrySound(At(accepted, contract, Len(accepted) + 1))
    BY DEF IInv, Typed, Chain
  <2>2. At(accepted, contract, Len(accepted) + 1) = contract
    BY DEF IInv, Typed, At
  <2> QED BY <1>1, <2>1, <2>2, NotaryAssumption DEF IInv, Typed, Submitted
<1> DEFINE Adds(post) ==
      /\ Len(accepted) < MaxOpen /\ contract' = post
      /\ \E e \in CallType : accepted' = Append(accepted, e) /\ e.before = contract /\ e.method = h
<1>3. ASSUME NEW post, NEW by \in Party, Update(h, by, 0, post)
      PROVE  Adds(post)
  <2>1. [method |-> h, by |-> by, value |-> 0, before |-> contract, to |-> NULL, paid |-> 0] \in CallType
    BY <1>2 DEF CallType
  <2> QED BY <1>3, <2>1 DEF Update, Transfer, Entry
<1> HIDE DEF Adds
<1>4. CASE /\ txs[h].operation = "submit_claim"
           /\ submit_claim(h, txs[h].sender, txs[h].claim_id, txs[h].content)
  <2> DEFINE c == txs[h].claim_id
             content == txs[h].content
             post == [contract EXCEPT !.claims[c] = Unjudged(TRUE, content),
                                      !.claim_fingerprints = @ \cup {content}]
  <2>1. c \in Claim /\ content \in Content
    BY <1>2, <1>4 DEF TxOK
  <2>2. Update(h, txs[h].sender, 0, post) /\ txs[h].sender = Owner
    BY <1>4 DEF submit_claim
  <2>3. RegistrySound(post) /\ Link(contract, post)
    <3>1. /\ ~contract.claims[c].exists
          /\ Len(content.source_urls) \in 1 .. MaxSources
          /\ \A i \in DOMAIN content.source_urls : _source_url_allowed(content.source_urls[i])
          /\ \A i, j \in DOMAIN content.source_urls :
               i # j => content.source_urls[i] # content.source_urls[j]
          /\ content \notin contract.claim_fingerprints
      BY <1>4 DEF submit_claim
    <3> HIDE DEF c, content
    <3> QED BY <1>2, <2>1, <3>1, SubmitSound
  <2> HIDE DEF post
  <2>4. Adds(post)
    BY <1>2, <1>3, <2>2
  <2> QED BY <1>1, <1>4, <2>3, <2>4 DEF Adds
<1>5. ASSUME txs[h].operation = "evaluate_claim",
             NEW fetched \in SUBSET (1 .. MaxSources), NEW a \in Answer[h] \cup {Malformed},
             evaluate_claim(h, txs[h].sender, txs[h].claim_id, fetched, a)
      PROVE  /\ Len(accepted) < MaxOpen
             /\ \E e \in CallType : accepted' = Append(accepted, e) /\ e.before = contract /\ e.method = h
             /\ RegistrySound(contract') /\ Link(contract, contract')
             /\ contract'.claims[txs[h].claim_id].evaluated
  <2> DEFINE c == txs[h].claim_id
             post == [contract EXCEPT !.claims[c] = Judged(@, fetched, a)]
  <2>1. c \in Claim
    BY <1>2, <1>5 DEF TxOK
  <2>2. a \in ModelAnswer
    BY MalformedIsAnswer, IndexAssumption
  <2>3. Update(h, txs[h].sender, 0, post) /\ txs[h].sender = Owner
    BY <1>5 DEF evaluate_claim
  <2>4. RegistrySound(post) /\ Link(contract, post) /\ post.claims[c].evaluated
    <3>1. /\ contract.claims[c].exists /\ ~contract.claims[c].evaluated
          /\ fetched \in SUBSET (DOMAIN contract.claims[c].content.source_urls)
      BY <1>5 DEF evaluate_claim
    <3> HIDE DEF c
    <3> QED BY <1>2, <2>1, <2>2, <3>1, EvaluateSound
  <2> HIDE DEF post
  <2>5. Adds(post)
    BY <1>2, <1>3, <2>3
  <2> QED BY <2>4, <2>5 DEF Adds
<1>6. CASE /\ txs[h].operation = "evaluate_claim"
           /\ \E fetched \in SUBSET (1 .. MaxSources), a \in Answer[h] \cup {Malformed} :
                evaluate_claim(h, txs[h].sender, txs[h].claim_id, fetched, a)
  BY <1>1, <1>5, <1>6
<1> QED BY <1>4, <1>6 DEF Accept

\* Every step keeps the chain, and what is final of it.
LEMMA ChainStep ==
  ASSUME IInv, [Next]_vars
  PROVE  /\ accepted' \in Seq(CallType) /\ Len(accepted') <= MaxOpen
         /\ Chain(accepted', contract')
         /\ contract' \in RegistryType
         /\ Extends(Finalized, Finalized')
         /\ Finalized' # Finalized => FinalizeCall /\ OneCall(Finalized, Finalized')
<1>1. /\ accepted \in Seq(CallType) /\ Len(accepted) \in Nat /\ Len(accepted) <= MaxOpen
      /\ MaxOpen \in Nat /\ Chain(accepted, contract)
      /\ Finalized = At(accepted, contract, 1)
  BY FinalizedIsFirst, NotaryAssumption DEF IInv, Typed
<1>2. ASSUME accepted' \in Seq(CallType), Chain(accepted', contract')
      PROVE  /\ contract' \in RegistryType
             /\ Finalized' = At(accepted', contract', 1)
  <2>1. RegistrySound(At(accepted', contract', Len(accepted') + 1))
    BY <1>2 DEF Chain
  <2>2. At(accepted', contract', Len(accepted') + 1) = contract'
    BY <1>2 DEF At
  <2> QED BY <1>2, <2>1, <2>2 DEF RegistrySound, Finalized, At
<1>3. CASE \E h \in Hash : Accept(h)
  <2>1. PICK h \in Hash : Accept(h)
    BY <1>3
  <2>2. PICK e \in CallType : accepted' = Append(accepted, e) /\ e.before = contract
    BY <2>1, AcceptFacts
  <2>3. Len(accepted) < MaxOpen /\ RegistrySound(contract') /\ Link(contract, contract')
    BY <2>1, AcceptFacts
  <2>4. /\ Chain(accepted', contract')
        /\ At(accepted', contract', 1) = At(accepted, contract, 1)
    BY <1>1, <2>2, <2>3, ChainAppended
  <2>5. accepted' \in Seq(CallType) /\ Len(accepted') <= MaxOpen
    BY <1>1, <2>2, <2>3
  <2> QED BY <1>1, <1>2, <2>4, <2>5, ExtendsIsReflexive
<1>4. CASE FinalizeCall
  <2>1. accepted # <<>> /\ accepted' = Tail(accepted) /\ contract' = contract
    BY <1>4 DEF FinalizeCall, Finalize
  <2>2. /\ Chain(accepted', contract')
        /\ At(accepted', contract', 1) = At(accepted, contract, 2)
    <3>1. 1 \in 1 .. Len(Tail(accepted)) + 1
      BY <1>1, <2>1
    <3> QED BY <1>1, <2>1, <3>1, ChainAdvanced
  <2>3. Link(At(accepted, contract, 1), At(accepted, contract, 2))
    <3>1. 1 \in 1 .. Len(accepted)
      BY <1>1, <2>1
    <3> QED BY <1>1, <3>1 DEF Chain
  <2>4. accepted' \in Seq(CallType) /\ Len(accepted') <= MaxOpen
    BY <1>1, <2>1
  <2> QED BY <1>1, <1>2, <1>4, <2>2, <2>3, <2>4 DEF Link
<1>5. CASE \E i \in 1 .. MaxOpen : AppealCall(i)
  <2>1. PICK i \in 1 .. MaxOpen : Appeal(i)
    BY <1>5 DEF AppealCall
  <2>2. i \in 1 .. Len(accepted) /\ contract' = accepted[i].before /\ accepted' = SubSeq(accepted, 1, i - 1)
    BY <2>1 DEF Appeal
  <2>3. /\ Chain(accepted', contract')
        /\ At(accepted', contract', 1) = At(accepted, contract, 1)
    <3>1. 1 \in 1 .. i
      BY <2>2
    <3> QED BY <1>1, <2>2, <3>1, ChainCut
  <2>4. accepted' \in Seq(CallType) /\ Len(accepted') <= MaxOpen
    BY <1>1, <2>2
  <2> QED BY <1>1, <1>2, <2>3, <2>4, ExtendsIsReflexive
<1>6. CASE UNCHANGED <<accepted, contract>>
  BY <1>1, <1>2, <1>6, ExtendsIsReflexive
<1>7. \/ UNCHANGED <<accepted, contract>>
      \/ \E h \in Hash : Accept(h)
      \/ FinalizeCall
      \/ \E i \in 1 .. MaxOpen : AppealCall(i)
  BY DEF Next, Chains, Backend, vars, executionVars, Mine, Send, Decide, Prepare,
         build_notary_deploy_tx, build_notary_submit_tx, build_notary_evaluate_tx,
         ConfirmLoad, ConfirmStore, ConfirmCut, ConfirmFail, PollRead, PollStore, PollFail,
         ReadLoad, ReadContract, ReadStore, ReadFail
<1> QED BY <1>3, <1>4, <1>5, <1>6, <1>7

-----------------------------------------------------------------------------
\* Transactions.

\* What a step may make of transaction h: an operation once submitted stays,
\* and so does what is final.
Moves(h, u) ==
  LET t == txs[h] IN
  /\ u \in TxRecord
  /\ u.stage # "unused" => u.operation # NULL
  /\ u.stage # "unused" /\ u.operation = "submit_claim" =>
       u.claim_id \in Claim /\ u.content \in Content
  /\ u.stage # "unused" /\ u.operation = "evaluate_claim" => u.claim_id \in Claim
  /\ u.stage \notin {"mined", "confirmed"} => u.consensus = "PENDING"
  /\ Submitted(h) =>
       /\ u.stage \in {"mined", "confirmed"}
       /\ u.operation = t.operation /\ u.claim_id = t.claim_id
  /\ t.consensus = "FINALIZED" =>
       u.consensus = "FINALIZED" /\ u.execution = t.execution

LEMMA StayMoves ==
  ASSUME IInv, NEW h \in Hash
  PROVE  Moves(h, txs[h])
BY DEF IInv, Typed, TxOK, Submitted, Moves

LEMMA MovesSuffice ==
  ASSUME IInv, txs' \in [Hash -> TxRecord], \A h \in Hash : Moves(h, txs'[h]),
         confirms' \in [Hash -> Nat],
         \A h \in Hash : confirms'[h] > 0 => confirms[h] > 0 \/ Submitted(h)
  PROVE  \A h \in Hash : TxKept(h) /\ TxOK(h)'
BY DEF IInv, TxOK, Submitted, Moves, TxKept

\* One transaction moves and the others stay.
LEMMA OneMoves ==
  ASSUME IInv, NEW h \in Hash, NEW u, Moves(h, u), txs' = [txs EXCEPT ![h] = u]
  PROVE  txs' \in [Hash -> TxRecord] /\ \A k \in Hash : Moves(k, txs'[k])
<1>1. txs \in [Hash -> TxRecord] /\ u \in TxRecord
  BY DEF IInv, Typed, Moves
<1>2. \A k \in Hash : txs'[k] = IF k = h THEN u ELSE txs[k]
  BY <1>1
<1> QED BY <1>1, <1>2, StayMoves

LEMMA TxStep ==
  ASSUME IInv, [Next]_vars
  PROVE  /\ txs' \in [Hash -> TxRecord] /\ confirms' \in [Hash -> Nat]
         /\ \A h \in Hash : TxKept(h) /\ TxOK(h)'
<1> DEFINE AllMove == txs' \in [Hash -> TxRecord] /\ \A h \in Hash : Moves(h, txs'[h])
           Counted == /\ confirms' \in [Hash -> Nat]
                      /\ \A h \in Hash : confirms'[h] > 0 => confirms[h] > 0 \/ Submitted(h)
<1>a. /\ txs \in [Hash -> TxRecord] /\ confirms \in [Hash -> Nat]
      /\ \A h \in Hash : TxOK(h)
      /\ Draft \subseteq Content /\ HexId \subseteq Claim
      /\ ClaimId \in [{Canonical(d) : d \in Draft} -> HexId]
  BY IndexAssumption, NotaryAssumption DEF IInv, Typed
<1>b. ASSUME UNCHANGED txs PROVE AllMove
  BY <1>a, <1>b, StayMoves
<1>c. ASSUME UNCHANGED confirms PROVE Counted
  BY <1>a, <1>c
<1>1. ASSUME NEW h \in Hash, Mine(h) PROVE AllMove
  <2> DEFINE u == [txs[h] EXCEPT !.stage = "mined"]
  <2>1. txs' = [txs EXCEPT ![h] = u] /\ txs[h].stage = "prepared"
    BY <1>1 DEF Mine
  <2>2. txs[h] \in TxRecord
    BY <1>a
  <2>3. Moves(h, u)
    BY <1>a, <2>1, <2>2 DEF Moves, TxOK, Submitted, TxRecord
  <2> HIDE DEF u
  <2> QED BY <2>1, <2>3, OneMoves
<1>2. ASSUME NEW h \in Hash, Send(h) PROVE AllMove
  <2>a. PICK call \in Direct[h] :
          txs' = [txs EXCEPT ![h] =
            [@ EXCEPT !.stage = "mined", !.sender = call.sender, !.claim_id = call.claim_id,
                      !.content = IF txs[h].operation = "submit_claim" THEN call.content
                                  ELSE NULL]]
    BY <1>2 DEF Send
  <2> DEFINE content == IF txs[h].operation = "submit_claim" THEN call.content ELSE NULL
             u == [txs[h] EXCEPT !.stage = "mined", !.sender = call.sender,
                                 !.claim_id = call.claim_id, !.content = content]
  <2>0. call.sender \in Party /\ call.claim_id \in Claim /\ call.content \in Content
    BY IndexAssumption DEF DirectCall
  <2>1. /\ txs' = [txs EXCEPT ![h] = u] /\ txs[h].stage = "unused"
        /\ txs[h].operation \in {"submit_claim", "evaluate_claim"}
    BY <1>2, <2>a DEF Send
  <2>2. txs[h] \in TxRecord /\ content \in Content \cup {NULL}
    BY <1>a, <2>0
  <2>3. txs[h].operation = "submit_claim" => content \in Content
    BY <1>a, <2>0
  <2> HIDE DEF content
  <2>5. txs[h].operation # NULL
    BY <2>1, IndexAssumption DEF Operation
  <2>6. Moves(h, u)
    BY <1>a, <2>0, <2>1, <2>2, <2>3, <2>5 DEF Moves, TxOK, Submitted, TxRecord
  <2> HIDE DEF u
  <2> QED BY <2>1, <2>6, OneMoves
<1>3. ASSUME NEW h \in Hash, NEW status \in ConsensusStatus, NEW execution \in ExecutionStatus,
             Submitted(h), txs[h].consensus # "FINALIZED", Decided(h, status, execution)
      PROVE  AllMove
  <2> DEFINE u == [txs[h] EXCEPT !.consensus = status, !.execution = execution]
  <2>1. txs[h] \in TxRecord
    BY <1>a
  <2>2. txs' = [txs EXCEPT ![h] = u]
    BY <1>3, <2>1 DEF Decided
  <2>3. Moves(h, u)
    BY <1>a, <1>3, <2>1 DEF Moves, TxOK, Submitted, TxRecord
  <2> HIDE DEF u
  <2> QED BY <2>2, <2>3, OneMoves
<1>4. ASSUME NEW h \in Hash, Accept(h) PROVE AllMove
  BY <1>3, <1>4 DEF Accept, ConsensusStatus, ExecutionStatus
<1>5. ASSUME NEW h \in Hash, NEW status \in ConsensusStatus, NEW execution \in ExecutionStatus,
             Decide(h, status, execution)
      PROVE  AllMove
  BY <1>3, <1>5 DEF Decide
<1>6. ASSUME FinalizeCall PROVE AllMove
  <2>1. /\ accepted # <<>> /\ accepted \in Seq(CallType)
        /\ 1 \in 1 .. Len(accepted) /\ Head(accepted) = accepted[1]
    <3>1. accepted # <<>> /\ accepted \in Seq(CallType)
      BY <1>6 DEF FinalizeCall, Finalize, IInv, Typed
    <3>2. 1 \in 1 .. Len(accepted)
      BY <3>1
    <3> QED BY <3>1, <3>2
  <2> DEFINE First(h) == h = Head(accepted).method
             u(h) == [txs[h] EXCEPT !.consensus = "FINALIZED", !.execution = "RETURN"]
  <2>2. txs' = [h \in Hash |-> IF First(h) THEN u(h) ELSE txs[h]]
    BY <1>6 DEF FinalizeCall
  <2>3. ASSUME NEW h \in Hash, First(h) PROVE Moves(h, u(h))
    <3>1. Submitted(h) /\ txs[h].consensus # "FINALIZED" /\ txs[h] \in TxRecord
      <4>1. h = accepted[1].method
        BY <2>1, <2>3
      <4>2. CallOK(accepted, contract, 1)
        BY <2>1 DEF IInv, Calls
      <4> QED BY <1>a, <4>1, <4>2 DEF CallOK
    <3> QED BY <1>a, <3>1 DEF Moves, TxOK, Submitted, TxRecord, ConsensusStatus, ExecutionStatus
  <2> HIDE DEF First, u
  <2>4. \A h \in Hash : Moves(h, IF First(h) THEN u(h) ELSE txs[h])
    BY <2>3, StayMoves
  <2>5. \A h \in Hash : (IF First(h) THEN u(h) ELSE txs[h]) \in TxRecord
    BY <2>4 DEF Moves
  <2> QED BY <2>2, <2>4, <2>5
<1>7. ASSUME NEW i \in 1 .. MaxOpen, AppealCall(i) PROVE AllMove
  <2> DEFINE Undone(h) == \E j \in i .. Len(accepted) : accepted[j].method = h
             u(h) == [txs[h] EXCEPT !.consensus = "PENDING"]
  <2>1. txs' = [h \in Hash |-> IF Undone(h) THEN u(h) ELSE txs[h]]
    BY <1>7 DEF AppealCall
  <2>2. ASSUME NEW h \in Hash, Undone(h) PROVE Moves(h, u(h))
    <3>1. Submitted(h) /\ txs[h].consensus # "FINALIZED" /\ txs[h] \in TxRecord
      BY <1>a, <2>2, NotaryAssumption DEF IInv, Typed, Calls, CallOK
    <3> QED BY <1>a, <3>1 DEF Moves, TxOK, Submitted, TxRecord, ConsensusStatus
  <2> HIDE DEF Undone, u
  <2>3. \A h \in Hash : Moves(h, IF Undone(h) THEN u(h) ELSE txs[h])
    BY <2>2, StayMoves
  <2>4. \A h \in Hash : (IF Undone(h) THEN u(h) ELSE txs[h]) \in TxRecord
    BY <2>3 DEF Moves
  <2> QED BY <2>1, <2>3, <2>4
<1>8. ASSUME NEW h \in Hash, NEW operation \in Operation, NEW c, NEW d,
             Prepare(h, operation, c, d), c \in Claim \cup {NULL}, d \in Content \cup {NULL},
             operation = "submit_claim" => c \in Claim /\ d \in Content,
             operation = "evaluate_claim" => c \in Claim, operation # NULL
      PROVE  AllMove
  <2> DEFINE u == [txs[h] EXCEPT !.stage = "prepared", !.claim_id = c, !.content = d]
  <2>1. /\ txs' = [txs EXCEPT ![h] = u] /\ txs[h].stage = "unused"
        /\ txs[h].operation = operation
    BY <1>8 DEF Prepare
  <2>2. txs[h] \in TxRecord
    BY <1>a
  <2>3. Moves(h, u)
    BY <1>8, <1>a, <2>1, <2>2 DEF Moves, TxOK, Submitted, TxRecord
  <2> HIDE DEF u
  <2> QED BY <2>1, <2>3, OneMoves
<1>9. ASSUME NEW h \in Hash, build_notary_deploy_tx(h) PROVE AllMove
  BY <1>8, <1>9, IndexAssumption DEF build_notary_deploy_tx, Operation
<1>10. ASSUME NEW h \in Hash, NEW d \in Draft, build_notary_submit_tx(h, d) PROVE AllMove
  <2>1. ClaimId[Canonical(d)] \in Claim /\ Canonical(d) \in Content
    BY <1>a, CanonicalIsContent
  <2> QED BY <1>8, <1>10, <2>1, IndexAssumption DEF build_notary_submit_tx, Operation
<1>11. ASSUME NEW h \in Hash, NEW c \in Claim, build_notary_evaluate_tx(h, c) PROVE AllMove
  BY <1>8, <1>11, IndexAssumption DEF build_notary_evaluate_tx, Operation
<1>12. ASSUME NEW h \in Hash, ConfirmStore(h) PROVE AllMove
  <2>1. PICK id \in {h, NULL} :
          txs' = [txs EXCEPT ![h].stage = "confirmed", ![h].consensus_tx_id = id]
    BY <1>12 DEF ConfirmStore
  <2> DEFINE u == [txs[h] EXCEPT !.stage = "confirmed", !.consensus_tx_id = id]
  <2>2. txs[h] \in TxRecord /\ Submitted(h)
    BY <1>12, <1>a DEF ConfirmStore, TxOK
  <2>3. txs' = [txs EXCEPT ![h] = u]
    BY <2>1, <2>2
  <2>4. Moves(h, u)
    BY <1>a, <2>2 DEF Moves, TxOK, Submitted, TxRecord
  <2> HIDE DEF u
  <2> QED BY <2>3, <2>4, OneMoves
<1>13. ASSUME NEW p \in Poll, NEW h \in Hash, PollRead(p, h) PROVE AllMove
  <2> DEFINE u == [txs[h] EXCEPT !.consensus_tx_id = h]
  <2>1. txs' = [txs EXCEPT ![h] = u] /\ txs[h].stage = "confirmed" /\ txs[h] \in TxRecord
    BY <1>13, <1>a DEF PollRead
  <2>2. Moves(h, u)
    BY <1>a, <2>1 DEF Moves, TxOK, Submitted, TxRecord
  <2> HIDE DEF u
  <2> QED BY <2>1, <2>2, OneMoves
<1>14. AllMove
  BY <1>b, <1>1, <1>2, <1>4, <1>5, <1>6, <1>7, <1>9, <1>10, <1>11, <1>12, <1>13
  DEF Next, Chains, Backend, vars, ConfirmLoad, ConfirmCut, ConfirmFail, PollStore, PollFail,
      ReadLoad, ReadContract, ReadStore, ReadFail
<1>15. ASSUME NEW h \in Hash, \/ ConfirmLoad(h) \/ ConfirmStore(h)
                            \/ ConfirmCut(h) \/ ConfirmFail(h)
       PROVE  Counted
  <2>1. PICK n \in Nat : confirms' = [confirms EXCEPT ![h] = n]
    BY <1>a, <1>15 DEF ConfirmLoad, ConfirmStore, ConfirmCut, ConfirmFail
  <2>2. Submitted(h)
    BY <1>a, <1>15 DEF ConfirmLoad, ConfirmStore, ConfirmCut, ConfirmFail, TxOK, Submitted
  <2> QED BY <1>a, <2>1, <2>2
<1>16. Counted
  BY <1>c, <1>15
  DEF Next, Chains, Backend, vars, Requests, Mine, Send, Accept, Decide, FinalizeCall, AppealCall,
      Prepare, build_notary_deploy_tx, build_notary_submit_tx, build_notary_evaluate_tx,
      PollRead, PollStore, PollFail, ReadLoad, ReadContract, ReadStore, ReadFail
<1> QED BY <1>14, <1>16, MovesSuffice
-----------------------------------------------------------------------------
\* Open and final calls.

\* Steps that decide nothing.
Quiet ==
  /\ UNCHANGED <<accepted, contract>>
  /\ \A h \in Hash : txs'[h].consensus = txs[h].consensus
                     /\ txs'[h].execution = txs[h].execution

LEMMA StepKinds ==
  ASSUME IInv, [Next]_vars
  PROVE  \/ Quiet
         \/ \E h \in Hash : Accept(h)
         \/ \E h \in Hash, status \in ConsensusStatus, execution \in ExecutionStatus :
              Decide(h, status, execution)
         \/ FinalizeCall
         \/ \E i \in 1 .. MaxOpen : AppealCall(i)
<1> DEFINE Same == \A h \in Hash : txs'[h].consensus = txs[h].consensus
                                   /\ txs'[h].execution = txs[h].execution
<1>1. txs \in [Hash -> TxRecord]
  BY DEF IInv, Typed
<1>2. ASSUME NEW h \in Hash, NEW u,
             txs' = [txs EXCEPT ![h] = u],
             u.consensus = txs[h].consensus, u.execution = txs[h].execution
      PROVE  Same
  BY <1>1, <1>2
<1>3. ASSUME NEW h \in Hash, Mine(h) PROVE Same
  <2> DEFINE u == [txs[h] EXCEPT !.stage = "mined"]
  <2>1. txs' = [txs EXCEPT ![h] = u]
    BY <1>3 DEF Mine
  <2>2. u.consensus = txs[h].consensus /\ u.execution = txs[h].execution
    BY <1>1 DEF TxRecord
  <2> HIDE DEF u
  <2> QED BY <1>2, <2>1, <2>2
<1>4. ASSUME NEW h \in Hash, Send(h) PROVE Same
  <2>a. PICK call \in Direct[h] :
          txs' = [txs EXCEPT ![h] =
            [@ EXCEPT !.stage = "mined", !.sender = call.sender, !.claim_id = call.claim_id,
                      !.content = IF txs[h].operation = "submit_claim" THEN call.content
                                  ELSE NULL]]
    BY <1>4 DEF Send
  <2> DEFINE content == IF txs[h].operation = "submit_claim" THEN call.content ELSE NULL
             u == [txs[h] EXCEPT !.stage = "mined", !.sender = call.sender,
                                 !.claim_id = call.claim_id, !.content = content]
  <2>1. txs' = [txs EXCEPT ![h] = u]
    BY <2>a
  <2> HIDE DEF content
  <2>2. u.consensus = txs[h].consensus /\ u.execution = txs[h].execution
    BY <1>1 DEF TxRecord
  <2> HIDE DEF u
  <2> QED BY <1>2, <2>1, <2>2
<1>5. ASSUME NEW h \in Hash, NEW operation, NEW c, NEW d, Prepare(h, operation, c, d)
      PROVE  Same
  <2> DEFINE u == [txs[h] EXCEPT !.stage = "prepared", !.claim_id = c, !.content = d]
  <2>1. txs' = [txs EXCEPT ![h] = u]
    BY <1>5 DEF Prepare
  <2>2. u.consensus = txs[h].consensus /\ u.execution = txs[h].execution
    BY <1>1 DEF TxRecord
  <2> HIDE DEF u
  <2> QED BY <1>2, <2>1, <2>2
<1>6. ASSUME NEW h \in Hash, ConfirmStore(h) PROVE Same
  <2>1. PICK id \in {h, NULL} :
          txs' = [txs EXCEPT ![h].stage = "confirmed", ![h].consensus_tx_id = id]
    BY <1>6 DEF ConfirmStore
  <2> DEFINE u == [txs[h] EXCEPT !.stage = "confirmed", !.consensus_tx_id = id]
  <2>2. txs' = [txs EXCEPT ![h] = u]
    BY <1>1, <2>1
  <2>3. u.consensus = txs[h].consensus /\ u.execution = txs[h].execution
    BY <1>1 DEF TxRecord
  <2> HIDE DEF u
  <2> QED BY <1>2, <2>2, <2>3
<1>7. ASSUME NEW p \in Poll, NEW h \in Hash, PollRead(p, h) PROVE Same
  <2> DEFINE u == [txs[h] EXCEPT !.consensus_tx_id = h]
  <2>1. txs' = [txs EXCEPT ![h] = u]
    BY <1>7 DEF PollRead
  <2>2. u.consensus = txs[h].consensus /\ u.execution = txs[h].execution
    BY <1>1 DEF TxRecord
  <2> HIDE DEF u
  <2> QED BY <1>2, <2>1, <2>2
<1>8. ASSUME UNCHANGED txs PROVE Same
  BY <1>8
<1> HIDE DEF Same
<1>9. CASE Chains
  BY <1>3, <1>4, <1>9 DEF Chains, Mine, Send, executionVars, Quiet, Same
<1>10. CASE Backend
  <2>1. ASSUME NEW h \in Hash, build_notary_deploy_tx(h) PROVE Same
    BY <1>5, <2>1 DEF build_notary_deploy_tx
  <2>2. ASSUME NEW h \in Hash, NEW d \in Draft, build_notary_submit_tx(h, d) PROVE Same
    BY <1>5, <2>2 DEF build_notary_submit_tx
  <2>3. ASSUME NEW h \in Hash, NEW c \in Claim, build_notary_evaluate_tx(h, c) PROVE Same
    BY <1>5, <2>3 DEF build_notary_evaluate_tx
  <2>4. Same
    BY <1>6, <1>7, <1>8, <1>10, <2>1, <2>2, <2>3
    DEF Backend, ConfirmLoad, ConfirmCut, ConfirmFail, PollStore, PollFail,
        ReadLoad, ReadContract, ReadStore, ReadFail
  <2>5. UNCHANGED <<accepted, contract>>
    BY <1>10
    DEF Backend, executionVars, Prepare,
        build_notary_deploy_tx, build_notary_submit_tx, build_notary_evaluate_tx,
        ConfirmLoad, ConfirmStore, ConfirmCut, ConfirmFail, PollRead, PollStore, PollFail,
        ReadLoad, ReadContract, ReadStore, ReadFail
  <2> QED BY <2>4, <2>5 DEF Quiet, Same
<1>11. CASE UNCHANGED vars
  BY <1>8, <1>11 DEF vars, executionVars, Quiet, Same
<1> QED BY <1>9, <1>10, <1>11 DEF Next

\* An evaluation that is final once has left its claim evaluated for good.
LEMMA FinalEvaluationStays ==
  ASSUME IInv, [Next]_vars, NEW h \in Hash,
         txs[h].consensus = "FINALIZED", txs[h].execution = "RETURN",
         txs[h].operation = "evaluate_claim"
  PROVE  FinalOK(h)'
<1>1. Finalized.claims[txs[h].claim_id].evaluated /\ txs[h].claim_id \in Claim /\ Submitted(h)
  BY DEF IInv, FinalOK, TxOK, Submitted
<1>2. txs'[h].claim_id = txs[h].claim_id
  BY <1>1, TxStep DEF TxKept
<1>3. Finalized'.claims[txs[h].claim_id].evaluated
  BY <1>1, ChainStep DEF Extends
<1> QED BY <1>2, <1>3 DEF FinalOK

LEMMA CallsStep ==
  ASSUME IInv, [Next]_vars
  PROVE  Calls' /\ \A h \in Hash : FinalOK(h)'
<1>a. /\ txs \in [Hash -> TxRecord]
      /\ \A h \in Hash : TxOK(h)
      /\ accepted \in Seq(CallType) /\ Len(accepted) \in Nat
      /\ \A i \in 1 .. Len(accepted) : accepted[i].method \in Hash
      /\ Calls /\ Chain(accepted, contract)
      /\ MaxOpen \in Nat
  <2>1. ASSUME NEW i \in 1 .. Len(accepted) PROVE accepted[i].method \in Hash
    <3>1. accepted[i] \in CallType
      BY DEF IInv, Typed
    <3> QED BY <3>1 DEF CallType
  <2> QED BY <2>1, NotaryAssumption DEF IInv, Typed
<1>b. \A h \in Hash : txs[h].consensus = "FINALIZED" => Submitted(h)
  BY <1>a DEF TxOK
\* A call whose transaction keeps its consensus stays a call.
<1>c. ASSUME NEW i \in 1 .. Len(accepted), NEW j \in 1 .. Len(accepted'), NEW h \in Hash,
             h = accepted[i].method, accepted'[j].method = h,
             At(accepted', contract', j + 1) = At(accepted, contract, i + 1),
             txs'[h].consensus = txs[h].consensus
      PROVE  CallOK(accepted, contract, j)'
  <2>1. CallOK(accepted, contract, i) /\ TxKept(h)
    BY <1>a, TxStep DEF Calls
  <2>2. /\ Submitted(h)' /\ txs'[h].consensus # "FINALIZED"
        /\ txs'[h].operation = txs[h].operation /\ txs'[h].claim_id = txs[h].claim_id
    BY <1>c, <2>1 DEF CallOK, TxKept
  <2>3. txs[h].operation = "evaluate_claim" =>
          At(accepted, contract, i + 1).claims[txs[h].claim_id].evaluated
    BY <1>c, <2>1 DEF CallOK
  <2> QED BY <1>c, <2>2, <2>3 DEF CallOK, Submitted
\* A transaction that this step does not make final is final as before.
<1>d. ASSUME NEW h \in Hash,
             txs'[h].consensus = "FINALIZED" => txs[h].consensus = "FINALIZED"
      PROVE  FinalOK(h)'
  <2> SUFFICES ASSUME txs'[h].consensus = "FINALIZED", txs'[h].execution = "RETURN",
                      txs'[h].operation = "evaluate_claim"
               PROVE  FinalOK(h)'
    BY DEF FinalOK
  <2>1. txs[h].consensus = "FINALIZED" /\ Submitted(h)
    BY <1>b, <1>d
  <2>2. txs[h].execution = "RETURN" /\ txs[h].operation = "evaluate_claim"
    BY <2>1, TxStep DEF TxKept
  <2> QED BY <2>1, <2>2, FinalEvaluationStays
<1>1. CASE Quiet
  <2>1. \A h \in Hash : FinalOK(h)'
    BY <1>1, <1>d DEF Quiet
  <2>2. ASSUME NEW i \in 1 .. Len(accepted') PROVE CallOK(accepted, contract, i)'
    BY <1>1, <1>a, <1>c DEF Quiet
  <2> QED BY <1>1, <1>a, <2>1, <2>2 DEF Calls, Quiet
<1>2. CASE \E h \in Hash : Accept(h)
  <2>1. PICK h \in Hash : Accept(h)
    BY <1>2
  <2>2. PICK e \in CallType : accepted' = Append(accepted, e) /\ e.before = contract /\ e.method = h
    BY <2>1, AcceptFacts
  <2>3. /\ Submitted(h) /\ ~Waits(h)
        /\ RegistrySound(contract') /\ Link(contract, contract')
        /\ txs[h].operation = "evaluate_claim" => contract'.claims[txs[h].claim_id].evaluated
        /\ txs' = [txs EXCEPT ![h].consensus = "ONGOING", ![h].execution = "UNKNOWN"]
    BY <2>1, AcceptFacts
  <2>4. /\ \A i \in 1 .. Len(accepted) : At(accepted', contract', i + 1) = At(accepted, contract, i + 1)
        /\ At(accepted', contract', Len(accepted) + 2) = contract'
    <3>1. accepted' = Append(accepted, e)
      BY <2>2
    <3>2. /\ \A i \in 1 .. Len(accepted) :
               At(Append(accepted, e), contract', i + 1) = At(accepted, contract, i + 1)
          /\ At(Append(accepted, e), contract', Len(accepted) + 2) = contract'
      <4>1. accepted \in Seq(CallType) /\ Chain(accepted, contract)
        BY <1>a
      <4>2. e.before = contract /\ RegistrySound(contract') /\ Link(contract, contract')
        BY <2>2, <2>3
      <4>3. PICK s : s = contract
        OBVIOUS
      <4>4. PICK t : t = contract'
        OBVIOUS
      <4>5. /\ Chain(Append(accepted, e), t)
            /\ \A i \in 1 .. Len(accepted) : At(Append(accepted, e), t, i + 1) = At(accepted, s, i + 1)
            /\ At(Append(accepted, e), t, 1) = At(accepted, s, 1)
            /\ At(Append(accepted, e), t, Len(accepted) + 2) = t
        <5>1. Chain(accepted, s) /\ e.before = s /\ RegistrySound(t) /\ Link(s, t)
          BY <4>1, <4>2, <4>3, <4>4
        <5> QED BY <4>1, <5>1, ChainAppended
      <4> QED BY <4>3, <4>4, <4>5
    <3> QED BY <3>1, <3>2
  <2>5. /\ Len(accepted') = Len(accepted) + 1
        /\ \A i \in 1 .. Len(accepted) : accepted'[i] = accepted[i]
        /\ accepted'[Len(accepted) + 1].method = h
    BY <1>a, <2>2
  <2>6. /\ \A k \in Hash : k # h => txs'[k] = txs[k]
        /\ txs'[h].consensus = "ONGOING"
    <3>1. txs'[h] = [txs[h] EXCEPT !.consensus = "ONGOING", !.execution = "UNKNOWN"]
      BY <1>a, <2>3
    <3>2. txs[h] \in TxRecord
      BY <1>a
    <3>3. txs'[h].consensus = "ONGOING"
      BY <3>1, <3>2 DEF TxRecord
    <3> QED BY <1>a, <2>3, <3>3
  <2>7. \A i \in 1 .. Len(accepted) : accepted[i].method # h
    BY <2>3 DEF Waits
  <2>8. \A k \in Hash : FinalOK(k)'
    BY <1>d, <2>6
  <2>9. ASSUME NEW i \in 1 .. Len(accepted') PROVE CallOK(accepted, contract, i)'
    <3>1. CASE i \in 1 .. Len(accepted)
      BY <1>a, <1>c, <2>4, <2>5, <2>6, <2>7, <3>1
    <3>2. CASE i = Len(accepted) + 1
      <4>1. Submitted(h)' /\ txs'[h].operation = txs[h].operation /\ txs'[h].claim_id = txs[h].claim_id
        BY <2>3, TxStep DEF TxKept
      <4>2. At(accepted', contract', i + 1) = contract'
        BY <1>a, <2>4, <3>2
      <4> QED BY <2>3, <2>5, <2>6, <3>2, <4>1, <4>2 DEF CallOK
    <3> QED BY <1>a, <2>5, <3>1, <3>2
  <2>10. \A i, j \in 1 .. Len(accepted') : accepted'[i].method = accepted'[j].method => i = j
    BY <1>a, <2>5, <2>7 DEF Calls
  <2> QED BY <2>8, <2>9, <2>10 DEF Calls
<1>3. CASE \E h \in Hash, status \in ConsensusStatus, execution \in ExecutionStatus :
             Decide(h, status, execution)
  <2>1. PICK h \in Hash, status \in ConsensusStatus, execution \in ExecutionStatus :
          Decide(h, status, execution)
    BY <1>3
  <2>2. /\ Submitted(h) /\ ~Waits(h) /\ UNCHANGED <<accepted, contract>>
        /\ txs' = [txs EXCEPT ![h].consensus = status, ![h].execution = execution]
        /\ status = "FINALIZED" /\ execution = "RETURN" => txs[h].operation = "deploy_registry"
    BY <2>1 DEF Decide, Decided, executionVars
  <2>3. /\ \A k \in Hash : k # h => txs'[k] = txs[k]
        /\ txs'[h].consensus = status /\ txs'[h].execution = execution
    <3>1. txs'[h] = [txs[h] EXCEPT !.consensus = status, !.execution = execution]
      BY <1>a, <2>2
    <3>2. txs[h] \in TxRecord
      BY <1>a
    <3>3. txs'[h].consensus = status /\ txs'[h].execution = execution
      BY <3>1, <3>2 DEF TxRecord
    <3> QED BY <1>a, <2>2, <3>3
  <2>4. FinalOK(h)'
    BY <2>2, <2>3, TxStep DEF FinalOK, TxKept
  <2>5. \A k \in Hash : FinalOK(k)'
    BY <1>d, <2>3, <2>4
  <2>6. ASSUME NEW i \in 1 .. Len(accepted') PROVE CallOK(accepted, contract, i)'
    <3>1. i \in 1 .. Len(accepted) /\ accepted[i].method # h
      BY <2>2 DEF Waits
    <3> QED BY <1>a, <1>c, <2>2, <2>3, <3>1
  <2> QED BY <1>a, <2>2, <2>5, <2>6 DEF Calls
<1>4. CASE FinalizeCall
  <2> DEFINE k == Head(accepted).method
  <2>1. /\ accepted # <<>> /\ accepted' = Tail(accepted) /\ contract' = contract
        /\ txs' = [h \in Hash |-> IF h = k THEN [txs[h] EXCEPT !.consensus = "FINALIZED",
                                                               !.execution = "RETURN"]
                                  ELSE txs[h]]
    BY <1>4 DEF FinalizeCall, Finalize
  <2>2. /\ 1 \in 1 .. Len(accepted) /\ k = accepted[1].method
        /\ Len(accepted') = Len(accepted) - 1 /\ Len(accepted') \in Nat
        /\ \A i \in 1 .. Len(accepted') : accepted'[i] = accepted[i + 1] /\ i + 1 \in 1 .. Len(accepted)
    <3>1. accepted \in Seq(CallType) /\ accepted # <<>> /\ accepted' = Tail(accepted)
      BY <1>a, <2>1
    <3>2. Len(accepted) \in Nat /\ Len(accepted) > 0 /\ Head(accepted) = accepted[1]
      BY <3>1
    <3>3. /\ Len(Tail(accepted)) = Len(accepted) - 1
          /\ \A i \in 1 .. Len(Tail(accepted)) : Tail(accepted)[i] = accepted[i + 1]
      BY <3>1
    <3> QED BY <3>1, <3>2, <3>3
  <2>3. \A i \in 1 .. Len(accepted') + 1 :
          At(accepted', contract', i) = At(accepted, contract, i + 1)
    BY <1>a, <2>1, ChainAdvanced
  <2>4. \A h \in Hash : h # k => txs'[h] = txs[h]
    BY <2>1
  <2>5. ASSUME NEW i \in 1 .. Len(accepted') PROVE CallOK(accepted, contract, i)'
    <3> DEFINE j == i + 1
    <3>1. j \in 1 .. Len(accepted) /\ accepted'[i].method = accepted[j].method
      BY <2>2
    <3>2. accepted[j].method # k
      <4>1. j # 1
        BY <2>2
      <4> QED BY <1>a, <2>2, <3>1, <4>1 DEF Calls
    <3>3. At(accepted', contract', i + 1) = At(accepted, contract, j + 1)
      <4>1. i + 1 \in 1 .. Len(accepted') + 1
        BY <2>2
      <4> QED BY <2>3, <4>1
    <3> HIDE DEF j, k
    <3> QED BY <1>a, <1>c, <2>4, <3>1, <3>2, <3>3
  <2>6. \A i, j \in 1 .. Len(accepted') : accepted'[i].method = accepted'[j].method => i = j
    <3> TAKE i, j \in 1 .. Len(accepted')
    <3>1. i + 1 \in 1 .. Len(accepted) /\ j + 1 \in 1 .. Len(accepted)
      BY <2>2
    <3>2. accepted[i + 1].method = accepted[j + 1].method => i + 1 = j + 1
      BY <1>a, <3>1 DEF Calls
    <3> QED BY <2>2, <3>2
  <2>7. ASSUME NEW h \in Hash, h = k PROVE FinalOK(h)'
    <3>1. h = accepted[1].method /\ h \in Hash /\ CallOK(accepted, contract, 1) /\ TxKept(h)
      BY <1>a, <2>2, <2>7, TxStep DEF Calls
    <3>2. Finalized' = At(accepted', contract', 1)
      BY ChainStep DEF Finalized, At
    <3>3. At(accepted', contract', 1) = At(accepted, contract, 1 + 1)
      <4>1. 1 \in 1 .. Len(accepted') + 1
        BY <2>2
      <4> QED BY <2>3, <4>1
    <3>4. txs[h].operation = "evaluate_claim" =>
            At(accepted, contract, 1 + 1).claims[txs[h].claim_id].evaluated
      BY <3>1 DEF CallOK
    <3>5. txs'[h].operation = txs[h].operation /\ txs'[h].claim_id = txs[h].claim_id
      BY <3>1 DEF CallOK, TxKept
    <3> QED BY <3>2, <3>3, <3>4, <3>5 DEF FinalOK
  <2>8. \A h \in Hash : FinalOK(h)'
    BY <1>d, <2>4, <2>7
  <2> QED BY <2>5, <2>6, <2>8 DEF Calls
<1>5. CASE \E i \in 1 .. MaxOpen : AppealCall(i)
  <2>1. PICK n \in 1 .. MaxOpen : AppealCall(n)
    BY <1>5
  <2> DEFINE Undone(h) == \E j \in n .. Len(accepted) : accepted[j].method = h
  <2>2. /\ n \in 1 .. Len(accepted)
        /\ contract' = accepted[n].before /\ accepted' = SubSeq(accepted, 1, n - 1)
        /\ txs' = [h \in Hash |-> IF Undone(h) THEN [txs[h] EXCEPT !.consensus = "PENDING"]
                                  ELSE txs[h]]
    BY <2>1 DEF AppealCall, Appeal
  <2>3. \A i \in 1 .. n : At(accepted', contract', i) = At(accepted, contract, i)
    BY <1>a, <2>2, ChainCut
  <2>4. /\ Len(accepted') = n - 1 /\ n \in Nat /\ n <= Len(accepted)
        /\ \A i \in 1 .. n - 1 : accepted'[i] = accepted[i]
    BY <1>a, <2>2
  <2>5. \A h \in Hash : /\ ~Undone(h) => txs'[h] = txs[h]
                        /\ Undone(h) => txs'[h].consensus = "PENDING"
    <3>1. ASSUME NEW h \in Hash, Undone(h) PROVE txs'[h].consensus = "PENDING"
      <4>1. txs'[h] = [txs[h] EXCEPT !.consensus = "PENDING"]
        BY <2>2, <3>1
      <4>2. txs[h] \in TxRecord
        BY <1>a
      <4> QED BY <4>1, <4>2 DEF TxRecord
    <3> QED BY <2>2, <3>1
  <2>6. ASSUME NEW i \in 1 .. Len(accepted') PROVE CallOK(accepted, contract, i)'
    <3>1. i \in 1 .. Len(accepted) /\ i \in 1 .. n - 1 /\ i + 1 \in 1 .. n
      BY <1>a, <2>4
    <3>2. ~Undone(accepted[i].method)
      <4>1. ASSUME NEW j \in n .. Len(accepted) PROVE accepted[j].method # accepted[i].method
        <5>1. j \in 1 .. Len(accepted) /\ j # i
          BY <1>a, <2>4, <3>1
        <5> QED BY <1>a, <3>1, <5>1 DEF Calls
      <4> QED BY <4>1
    <3> HIDE DEF Undone
    <3> QED BY <1>a, <1>c, <2>3, <2>4, <2>5, <3>1, <3>2
  <2>7. \A i, j \in 1 .. Len(accepted') : accepted'[i].method = accepted'[j].method => i = j
    BY <1>a, <2>4 DEF Calls
  <2> HIDE DEF Undone
  <2>8. \A h \in Hash : FinalOK(h)'
    BY <1>d, <2>5
  <2> QED BY <2>6, <2>7, <2>8 DEF Calls
<1> QED BY <1>1, <1>2, <1>3, <1>4, <1>5, StepKinds
-----------------------------------------------------------------------------
\* Requests in flight.

\* What is read of a final record or transaction is read of a sound one.
LEMMA FinalizedIsSound ==
  ASSUME IInv
  PROVE  RegistrySound(Finalized)
<1>1. accepted \in Seq(CallType) /\ 1 \in 1 .. Len(accepted) + 1
  BY DEF IInv, Typed
<1>2. RegistrySound(At(accepted, contract, 1))
  BY <1>1 DEF IInv, Chain
<1> QED BY <1>1, <1>2, FinalizedIsFirst

LEMMA PollStep ==
  ASSUME IInv, [Next]_vars
  PROVE  polls' \in [Poll -> PollRequest] /\ PollOK'
<1> DEFINE Sound(poll) == poll \in PollRequest /\ PollSound(poll, txs')
<1>a. polls \in [Poll -> PollRequest]
  BY DEF IInv, Typed
<1>1. ASSUME NEW p \in Poll PROVE Sound(polls[p])
  <2> DEFINE poll == polls[p]
  <2>1. PollSound(poll, txs) /\ poll \in PollRequest
    BY <1>a DEF IInv, PollOK
  <2> HIDE DEF poll
  <2>2. ASSUME poll.busy, NEW h \in Hash, h = poll.hash PROVE PollSound(poll, txs')
    <3>1. TxKept(h)
      BY TxStep
    <3> QED BY <2>1, <2>2, <3>1 DEF PollSound, TxKept, Submitted
  <2>3. PollSound(poll, txs')
    BY <2>1, <2>2 DEF PollSound
  <2> QED BY <2>1, <2>3 DEF poll
<1>2. Sound(NoPoll)
  BY DEF NoPoll, PollRequest, PollSound, ConsensusStatus, ExecutionStatus
<1>3. ASSUME NEW p \in Poll, NEW h \in Hash, PollRead(p, h)
      PROVE  \E poll : polls' = [polls EXCEPT ![p] = poll] /\ Sound(poll)
  <2>1. PICK execution \in {txs[h].execution, "UNKNOWN"}, found \in BOOLEAN :
          polls' = [polls EXCEPT ![p] =
            [busy |-> TRUE, hash |-> h, status |-> txs[h].consensus,
             execution |-> execution, found |-> found]]
    BY <1>3 DEF PollRead
  <2>2. PICK poll : poll = [busy |-> TRUE, hash |-> h, status |-> txs[h].consensus,
                            execution |-> execution, found |-> found]
    OBVIOUS
  <2>3. txs[h] \in TxRecord /\ Submitted(h)
    BY <1>3 DEF IInv, Typed, PollRead, Submitted
  <2>4. poll \in PollRequest
    BY <2>2, <2>3 DEF PollRequest, TxRecord, ExecutionStatus
  <2>5. TxKept(h)
    BY TxStep
  <2>6. PollSound(poll, txs')
    BY <2>2, <2>3, <2>5 DEF PollSound, TxKept, Submitted
  <2> QED BY <2>1, <2>2, <2>4, <2>6
<1>4. \/ UNCHANGED polls
      \/ \E p \in Poll : \/ polls' = [polls EXCEPT ![p] = NoPoll]
                         \/ \E h \in Hash : PollRead(p, h)
  BY DEF Next, Chains, Backend, vars, Requests, Mine, Send, Accept, Decide, FinalizeCall,
         AppealCall, Prepare, build_notary_deploy_tx, build_notary_submit_tx,
         build_notary_evaluate_tx, ConfirmLoad, ConfirmStore, ConfirmCut, ConfirmFail,
         PollStore, PollFail, ReadLoad, ReadContract, ReadStore, ReadFail
<1>5. \/ UNCHANGED polls
      \/ \E p \in Poll : \E poll : polls' = [polls EXCEPT ![p] = poll] /\ Sound(poll)
  BY <1>2, <1>3, <1>4
<1> HIDE DEF Sound
<1>6. polls' \in [Poll -> PollRequest] /\ \A p \in Poll : Sound(polls'[p])
  <2>1. CASE UNCHANGED polls
    BY <1>a, <1>1, <2>1
  <2>2. CASE \E p \in Poll : \E poll : polls' = [polls EXCEPT ![p] = poll] /\ Sound(poll)
    <3>0. PICK p \in Poll : \E poll : polls' = [polls EXCEPT ![p] = poll] /\ Sound(poll)
      BY <2>2
    <3>1. PICK poll : polls' = [polls EXCEPT ![p] = poll] /\ Sound(poll)
      BY <3>0
    <3>2. poll \in PollRequest
      BY <3>1 DEF Sound
    <3> QED BY <1>a, <1>1, <3>1, <3>2
  <2> QED BY <1>5, <2>1, <2>2
<1> QED BY <1>6 DEF Sound, PollOK

LEMMA ReadStep ==
  ASSUME IInv, [Next]_vars
  PROVE  read' \in ReadRequest /\ ReadOK'
<1>1. /\ read \in ReadRequest /\ claims \in [Claim -> ClaimRow] /\ ReadOK
      /\ RegistrySound(Finalized) /\ Extends(Finalized, Finalized')
  BY FinalizedIsSound, ChainStep DEF IInv, Typed
<1>2. CASE UNCHANGED read
  <2>1. ASSUME read.pc = "storing", read.record.evaluated
        PROVE  Finalized'.claims[read.claim_id] = read.record
    <3>1. read.claim_id \in Claim /\ Finalized.claims[read.claim_id] = read.record
      BY <1>1, <2>1 DEF ReadOK
    <3> QED BY <1>1, <2>1, <3>1 DEF Extends
  <2> QED BY <1>1, <1>2, <2>1 DEF ReadOK
<1>3. CASE read' = NoRead
  <2>1. NoClaim \in ClaimRecord
    <3>1. <<>> \in Seq(SourceStatus)
      OBVIOUS
    <3> QED BY <3>1 DEF NoClaim, Unjudged, ClaimRecord, Verdict
  <2> QED BY <1>3, <2>1 DEF NoRead, NoRow, ReadRequest, ClaimRow, RowStatus, Verdict, ReadOK
<1>4. ASSUME NEW c \in Claim, ReadLoad(c) PROVE read' \in ReadRequest /\ ReadOK'
  <2> DEFINE row == claims[c]
  <2>1. read' = [read EXCEPT !.pc = "reading", !.claim_id = c, !.loaded = row] /\ row \in ClaimRow
    BY <1>1, <1>4 DEF ReadLoad
  <2> HIDE DEF row
  <2> QED BY <1>1, <2>1 DEF ReadRequest, ReadOK
<1>5. CASE ReadContract
  <2> DEFINE record == Finalized.claims[read.claim_id]
  <2>1. /\ read.pc = "reading" /\ record.exists /\ WellFormed(record)
        /\ read' = [read EXCEPT !.pc = "storing", !.record = record]
        /\ Finalized' = Finalized
    BY <1>5 DEF ReadContract, get_claim, Serializable, executionVars, Finalized
  <2>2. read.claim_id \in Claim /\ record \in ClaimRecord
    BY <1>1, <2>1 DEF ReadOK, RegistrySound, RegistryType
  <2>3. ~record.evaluated => record.verdict = "PENDING"
    BY <2>1 DEF WellFormed
  <2>4. PICK q \in ClaimRecord : q = record
    BY <2>2
  <2>5. /\ read' = [read EXCEPT !.pc = "storing", !.record = q]
        /\ ~q.evaluated => q.verdict = "PENDING"
        /\ Finalized'.claims[read.claim_id] = q
    BY <2>1, <2>3, <2>4
  <2>6. read' \in ReadRequest /\ read'.record = q /\ read'.claim_id = read.claim_id
    BY <1>1, <2>4, <2>5 DEF ReadRequest
  <2> QED BY <2>2, <2>5, <2>6 DEF ReadOK
<1>6. UNCHANGED read \/ read' = NoRead \/ (\E c \in Claim : ReadLoad(c)) \/ ReadContract
  BY DEF Next, Chains, Backend, vars, Requests, Mine, Send, Accept, Decide, FinalizeCall,
         AppealCall, Prepare, build_notary_deploy_tx, build_notary_submit_tx,
         build_notary_evaluate_tx, ConfirmLoad, ConfirmStore, ConfirmCut, ConfirmFail,
         PollRead, PollStore, PollFail, ReadStore, ReadFail
<1> QED BY <1>2, <1>3, <1>4, <1>5, <1>6

-----------------------------------------------------------------------------
\* The rows of the index.

\* A row says of a claim what its final record does.
Follows(row, record) ==
  /\ row.verdict # "PENDING" => record.evaluated /\ row.verdict = record.verdict
  /\ row.status = "evaluated" => record.evaluated

LEMMA RowOf ==
  ASSUME IInv, NEW c \in Claim
  PROVE  claims[c] \in ClaimRow /\ Follows(claims[c], Finalized.claims[c])
BY DEF IInv, Typed, RowsOK, IndexFollowsContract, Follows

\* One row is written, and the others stay.
LEMMA OneRow ==
  ASSUME IInv, NEW c, NEW row, claims' = [claims EXCEPT ![c] = row],
         c \in Claim => row \in ClaimRow /\ Follows(row, Finalized.claims[c])
  PROVE  /\ claims' \in [Claim -> ClaimRow]
         /\ \A k \in Claim : Follows(claims'[k], Finalized.claims[k])
<1>1. claims \in [Claim -> ClaimRow]
  BY DEF IInv, Typed
<1>2. \A k \in Claim : claims'[k] = IF k = c THEN row ELSE claims[k]
  BY <1>1
<1>3. \A k \in Claim : claims'[k] \in ClaimRow /\ Follows(claims'[k], Finalized.claims[k])
  BY <1>2, RowOf
<1> QED BY <1>1, <1>3

LEMMA ClaimsStep ==
  ASSUME IInv, [Next]_vars
  PROVE  claims' \in [Claim -> ClaimRow] /\ IndexFollowsContract'
<1> DEFINE Sound == /\ claims' \in [Claim -> ClaimRow]
                    /\ \A k \in Claim : Follows(claims'[k], Finalized.claims[k])
<1>a. claims \in [Claim -> ClaimRow] /\ \A h \in Hash : TxOK(h)
  BY DEF IInv, Typed
<1>1. ASSUME UNCHANGED claims PROVE Sound
  BY <1>1, <1>a, RowOf
<1>2. ASSUME NEW h \in Hash, persist_notary_call(h) PROVE Sound
  <2> DEFINE t == txs[h]
             old == claims[t.claim_id]
             row == CASE t.operation = "submit_claim" ->
                           [stored |-> TRUE, status |-> "submitted", verdict |-> "PENDING"]
                      [] t.operation = "evaluate_claim" /\ old.stored ->
                           [old EXCEPT !.status = "evaluating"]
                      [] OTHER -> old
  <2>1. claims' = [claims EXCEPT ![t.claim_id] = row]
    BY <1>2 DEF persist_notary_call
  <2>2. ASSUME t.claim_id \in Claim PROVE row \in ClaimRow /\ Follows(row, Finalized.claims[t.claim_id])
    <3>1. old \in ClaimRow /\ Follows(old, Finalized.claims[t.claim_id])
      BY <2>2, RowOf
    <3>2. CASE t.operation = "submit_claim"
      <4>1. row = [stored |-> TRUE, status |-> "submitted", verdict |-> "PENDING"]
        BY <3>2
      <4> HIDE DEF row, old, t
      <4> QED BY <4>1 DEF ClaimRow, RowStatus, Verdict, Follows
    <3>3. CASE t.operation # "submit_claim" /\ t.operation = "evaluate_claim" /\ old.stored
      <4>1. row = [old EXCEPT !.status = "evaluating"]
        BY <3>3
      <4> HIDE DEF row, old, t
      <4> QED BY <3>1, <4>1 DEF ClaimRow, RowStatus, Verdict, Follows
    <3>4. CASE t.operation # "submit_claim" /\ ~(t.operation = "evaluate_claim" /\ old.stored)
      <4>1. row = old
        BY <3>4
      <4> HIDE DEF row, old, t
      <4> QED BY <3>1, <4>1
    <3> QED BY <3>2, <3>3, <3>4
  <2> HIDE DEF row
  <2> QED BY <2>1, <2>2, OneRow
<1>3. ASSUME NEW p \in Poll, PollStore(p) PROVE Sound
  <2> DEFINE poll == polls[p]
             t == txs[poll.hash]
             old == claims[t.claim_id]
             status == PolledClaimStatus(poll, t.operation)
             row == [old EXCEPT !.status = status]
  <2>1. \/ UNCHANGED claims
        \/ /\ t.operation # "deploy_registry"
           /\ claims' = [claims EXCEPT ![t.claim_id].status = status]
    BY <1>3 DEF PollStore, update_notary_consensus_state
  <2>2. CASE /\ t.operation # "deploy_registry"
             /\ claims' = [claims EXCEPT ![t.claim_id].status = status]
    <3>1. claims' = [claims EXCEPT ![t.claim_id] = row]
      BY <2>2
    <3>2. /\ poll.hash \in Hash /\ Submitted(poll.hash) /\ poll \in PollRequest
          /\ poll.status = "FINALIZED" /\ poll.execution = "RETURN" =>
               t.consensus = "FINALIZED" /\ t.execution = "RETURN"
      BY <1>3 DEF PollStore, IInv, Typed, PollOK, PollSound, Submitted
    <3>3. t.operation \in {"submit_claim", "evaluate_claim"}
      BY <2>2, <3>2 DEF IInv, Typed, TxRecord, TxOK, Operation, Submitted
    <3>4. FinalOK(poll.hash)
      BY <3>2 DEF IInv
    <3>5. /\ status \in RowStatus
          /\ status = "evaluated" =>
               /\ poll.status = "FINALIZED" /\ poll.execution = "RETURN"
               /\ t.operation = "evaluate_claim"
      <4>1. Lower(poll.status) \in RowStatus \ {"evaluated"}
        BY <3>2 DEF PollRequest, ConsensusStatus, Lower, RowStatus
      <4>2. CASE poll.status = "FINALIZED" /\ poll.execution = "RETURN"
        BY <3>3, <4>2 DEF PolledClaimStatus, RowStatus
      <4>3. CASE poll.status = "FINALIZED" /\ poll.execution = "ERROR"
        BY <4>3 DEF PolledClaimStatus, RowStatus
      <4>4. CASE ~(poll.status = "FINALIZED" /\ poll.execution \in {"RETURN", "ERROR"})
        BY <4>1, <4>4 DEF PolledClaimStatus
      <4> QED BY <4>2, <4>3, <4>4
    <3>6. status = "evaluated" => Finalized.claims[t.claim_id].evaluated
      BY <3>2, <3>4, <3>5 DEF FinalOK
    <3>7. ASSUME t.claim_id \in Claim PROVE row \in ClaimRow /\ Follows(row, Finalized.claims[t.claim_id])
      <4>1. old \in ClaimRow /\ Follows(old, Finalized.claims[t.claim_id])
        BY <3>7, RowOf
      <4>2. row = [old EXCEPT !.status = status]
        OBVIOUS
      <4> HIDE DEF row, old, t, status
      <4> QED BY <3>5, <3>6, <4>1, <4>2 DEF ClaimRow, Follows
    <3> HIDE DEF row
    <3> QED BY <3>1, <3>7, OneRow
  <2> QED BY <1>1, <2>1, <2>2
<1>4. ASSUME ReadStore PROVE Sound
  <2> DEFINE c == read.claim_id
             old == claims[c]
             r == read.record
             verdict == Column(old.verdict, read.loaded.verdict, r.verdict)
             status == Column(old.status, read.loaded.status,
                              IF r.evaluated THEN "evaluated" ELSE "pending")
             row == [old EXCEPT !.verdict = verdict, !.status = status]
  <2>1. read.pc = "storing" /\ claims' = [claims EXCEPT ![c] = row]
    BY <1>4 DEF ReadStore
  <2>2. /\ c \in Claim /\ r \in ClaimRecord
        /\ r.evaluated => Finalized.claims[c] = r
        /\ ~r.evaluated => r.verdict = "PENDING"
    BY <2>1 DEF IInv, Typed, ReadOK, ReadRequest
  <2>3. old \in ClaimRow /\ Follows(old, Finalized.claims[c])
    BY <2>2, RowOf
  <2>4. verdict \in {old.verdict, r.verdict}
        /\ status \in {old.status} \cup (IF r.evaluated THEN {"evaluated"} ELSE {"pending"})
    BY DEF Column
  <2>5. row \in ClaimRow /\ row.verdict = verdict /\ row.status = status
    <3>1. verdict \in Verdict /\ status \in RowStatus
      BY <2>2, <2>3, <2>4 DEF ClaimRow, ClaimRecord, RowStatus
    <3> HIDE DEF verdict, status, old
    <3> QED BY <2>3, <3>1 DEF ClaimRow
  <2> HIDE DEF row, verdict, status
  <2>6. Follows(row, Finalized.claims[c])
    BY <2>2, <2>3, <2>4, <2>5 DEF Follows
  <2> QED BY <2>1, <2>5, <2>6, OneRow
<1>5. ASSUME NEW h \in Hash, NEW id, Persist(h, id) PROVE Sound
  BY <1>1, <1>2, <1>5 DEF Persist
<1> HIDE DEF Sound
<1>6. Sound
  BY <1>1, <1>3, <1>4, <1>5
  DEF Next, Chains, Backend, vars, Requests, indexVars, Mine, Send, Accept, Decide, FinalizeCall,
      AppealCall, Prepare, build_notary_deploy_tx, build_notary_submit_tx,
      build_notary_evaluate_tx, ConfirmLoad, ConfirmStore, ConfirmCut, ConfirmFail,
      PollRead, PollFail, ReadLoad, ReadContract, ReadFail
<1>7. ASSUME NEW k \in Claim PROVE Follows(claims'[k], Finalized'.claims[k])
  <2>1. Follows(claims'[k], Finalized.claims[k])
    BY <1>6 DEF Sound
  <2>2. Finalized.claims[k].evaluated => Finalized'.claims[k] = Finalized.claims[k]
    BY ChainStep DEF Extends
  <2> QED BY <2>1, <2>2 DEF Follows
<1> QED BY <1>6, <1>7 DEF Sound, Follows, IndexFollowsContract

\* A transaction is confirmed by nothing but the commit of its envelope, and
\* stays for what it is for.
LEMMA OnlyConfirmStoreConfirms ==
  ASSUME IInv, [Next]_vars
  PROVE  \A h \in Hash : /\ txs'[h].operation = txs[h].operation
                         /\ txs'[h].stage = "confirmed" =>
                              txs[h].stage = "confirmed" \/ ConfirmStore(h)
<1> DEFINE Goal == \A h \in Hash : /\ txs'[h].operation = txs[h].operation
                                   /\ txs'[h].stage = "confirmed" =>
                                        txs[h].stage = "confirmed" \/ ConfirmStore(h)
<1>a. txs \in [Hash -> TxRecord]
  BY DEF IInv, Typed
<1>1. ASSUME NEW k \in Hash, NEW u, txs' = [txs EXCEPT ![k] = u],
             u.operation = txs[k].operation,
             u.stage = "confirmed" => txs[k].stage = "confirmed" \/ ConfirmStore(k)
      PROVE  Goal
  BY <1>1, <1>a
<1>2. ASSUME UNCHANGED txs PROVE Goal
  BY <1>2
<1>3. ASSUME NEW k \in Hash, Send(k) PROVE Goal
  <2>a. PICK call \in Direct[k] :
          txs' = [txs EXCEPT ![k] =
            [@ EXCEPT !.stage = "mined", !.sender = call.sender, !.claim_id = call.claim_id,
                      !.content = IF txs[k].operation = "submit_claim" THEN call.content
                                  ELSE NULL]]
    BY <1>3 DEF Send
  <2> DEFINE content == IF txs[k].operation = "submit_claim" THEN call.content ELSE NULL
             u == [txs[k] EXCEPT !.stage = "mined", !.sender = call.sender,
                                 !.claim_id = call.claim_id, !.content = content]
  <2>1. txs' = [txs EXCEPT ![k] = u]
    BY <2>a
  <2> HIDE DEF content
  <2>2. u.operation = txs[k].operation /\ u.stage = "mined"
    BY <1>a DEF TxRecord
  <2> HIDE DEF u
  <2> QED BY <1>1, <2>1, <2>2
<1>4. ASSUME NEW k \in Hash, NEW operation, NEW c, NEW d, Prepare(k, operation, c, d)
      PROVE  Goal
  <2> DEFINE u == [txs[k] EXCEPT !.stage = "prepared", !.claim_id = c, !.content = d]
  <2>1. txs' = [txs EXCEPT ![k] = u]
    BY <1>4 DEF Prepare
  <2>2. u.operation = txs[k].operation /\ u.stage = "prepared"
    BY <1>a DEF TxRecord
  <2> HIDE DEF u
  <2> QED BY <1>1, <2>1, <2>2
<1>5. ASSUME NEW k \in Hash, Mine(k) PROVE Goal
  <2> DEFINE u == [txs[k] EXCEPT !.stage = "mined"]
  <2>1. txs' = [txs EXCEPT ![k] = u]
    BY <1>5 DEF Mine
  <2>2. u.operation = txs[k].operation /\ u.stage = "mined"
    BY <1>a DEF TxRecord
  <2> HIDE DEF u
  <2> QED BY <1>1, <2>1, <2>2
<1>6. ASSUME NEW k \in Hash, ConfirmStore(k) PROVE Goal
  <2>1. PICK id \in {k, NULL} :
          txs' = [txs EXCEPT ![k].stage = "confirmed", ![k].consensus_tx_id = id]
    BY <1>6 DEF ConfirmStore
  <2> DEFINE u == [txs[k] EXCEPT !.stage = "confirmed", !.consensus_tx_id = id]
  <2>2. txs' = [txs EXCEPT ![k] = u]
    BY <1>a, <2>1
  <2>3. u.operation = txs[k].operation
    BY <1>a DEF TxRecord
  <2> HIDE DEF u
  <2> QED BY <1>1, <1>6, <2>2, <2>3
<1>7. ASSUME NEW p \in Poll, NEW k \in Hash, PollRead(p, k) PROVE Goal
  <2> DEFINE u == [txs[k] EXCEPT !.consensus_tx_id = k]
  <2>1. txs' = [txs EXCEPT ![k] = u]
    BY <1>7 DEF PollRead
  <2>2. u.operation = txs[k].operation /\ u.stage = txs[k].stage
    BY <1>a DEF TxRecord
  <2> HIDE DEF u
  <2> QED BY <1>1, <2>1, <2>2
<1>8. ASSUME NEW k \in Hash, NEW status, NEW execution, Decided(k, status, execution) PROVE Goal
  <2> DEFINE u == [txs[k] EXCEPT !.consensus = status, !.execution = execution]
  <2>1. txs' = [txs EXCEPT ![k] = u]
    BY <1>a, <1>8 DEF Decided
  <2>2. u.operation = txs[k].operation /\ u.stage = txs[k].stage
    BY <1>a DEF TxRecord
  <2> HIDE DEF u
  <2> QED BY <1>1, <2>1, <2>2
<1>9. ASSUME NEW k, FinalizeCall \/ AppealCall(k) PROVE Goal
  <2> DEFINE u(h) == [txs[h] EXCEPT !.consensus = "FINALIZED", !.execution = "RETURN"]
             v(h) == [txs[h] EXCEPT !.consensus = "PENDING"]
  <2>1. ASSUME NEW h \in Hash PROVE txs'[h] \in {txs[h], u(h), v(h)}
    BY <1>9 DEF FinalizeCall, AppealCall
  <2>2. ASSUME NEW h \in Hash
        PROVE  /\ u(h).operation = txs[h].operation /\ u(h).stage = txs[h].stage
               /\ v(h).operation = txs[h].operation /\ v(h).stage = txs[h].stage
    BY <1>a DEF TxRecord
  <2> HIDE DEF u, v
  <2>3. ASSUME NEW h \in Hash
        PROVE  txs'[h].operation = txs[h].operation /\ txs'[h].stage = txs[h].stage
    BY <2>1, <2>2
  <2> QED BY <2>3
<1> HIDE DEF Goal
<1>10. ASSUME NEW h \in Hash, build_notary_deploy_tx(h) PROVE Goal
  BY <1>4, <1>10 DEF build_notary_deploy_tx
<1>11. ASSUME NEW h \in Hash, NEW d \in Draft, build_notary_submit_tx(h, d) PROVE Goal
  BY <1>4, <1>11 DEF build_notary_submit_tx
<1>12. ASSUME NEW h \in Hash, NEW c \in Claim, build_notary_evaluate_tx(h, c) PROVE Goal
  BY <1>4, <1>12 DEF build_notary_evaluate_tx
<1>13. ASSUME Chains PROVE Goal
  <2>1. ASSUME NEW h \in Hash, Accept(h) PROVE Goal
    BY <1>8, <2>1 DEF Accept
  <2>2. ASSUME NEW h \in Hash, NEW status \in ConsensusStatus,
               NEW execution \in ExecutionStatus, Decide(h, status, execution)
        PROVE  Goal
    BY <1>8, <2>2 DEF Decide
  <2> QED BY <1>3, <1>5, <1>9, <1>13, <2>1, <2>2 DEF Chains
<1>14. ASSUME Backend PROVE Goal
  BY <1>2, <1>6, <1>7, <1>10, <1>11, <1>12, <1>14
  DEF Backend, ConfirmLoad, ConfirmCut, ConfirmFail, PollStore, PollFail,
      ReadLoad, ReadContract, ReadStore, ReadFail
<1>15. ASSUME UNCHANGED vars PROVE Goal
  BY <1>2, <1>15 DEF vars
<1> QED BY <1>13, <1>14, <1>15 DEF Next, Goal

\* Rows are kept with the transaction and the id they are found by, or updated
\* from the poll of their own deployment.
LEMMA RegistriesStep ==
  ASSUME IInv, [Next]_vars
  PROVE  /\ registries' \subseteq RegistryRow
         /\ \A r \in registries' : r.consensus_tx_id \in {NULL, r.deploy_tx_hash}
         /\ ActiveRegistryIsDeployed'
         /\ ConfirmedRegistryIsIndexed'
<1> DEFINE Deployed(r) == r.contract_address # NULL =>
                            /\ r.contract_address = r.deploy_tx_hash
                            /\ txs[r.deploy_tx_hash].consensus = "FINALIZED"
                            /\ txs[r.deploy_tx_hash].execution = "RETURN"
           Good(r) == /\ r \in RegistryRow
                      /\ r.consensus_tx_id \in {NULL, r.deploy_tx_hash}
                      /\ Deployed(r)
           Kept == \A r \in registries : \E q \in registries' :
                     q.deploy_tx_hash = r.deploy_tx_hash /\ q.consensus_tx_id = r.consensus_tx_id
           Found(h, s) == \E r \in s : r.deploy_tx_hash = h \/ r.consensus_tx_id = NULL
<1>a. /\ txs \in [Hash -> TxRecord] /\ \A r \in registries : Good(r)
      /\ NULL \notin Hash
  BY IndexAssumption DEF IInv, Typed, RowsOK, ActiveRegistryIsDeployed
<1>1. ASSUME UNCHANGED registries PROVE Kept /\ \A r \in registries' : Good(r)
  BY <1>1, <1>a
<1>2. ASSUME NEW h \in Hash, NEW id \in {h, NULL}, persist_notary_registry(h, id)
      PROVE  Kept /\ (\A r \in registries' : Good(r)) /\ Found(h, registries')
  <2> DEFINE new == [deploy_tx_hash |-> h, consensus_tx_id |-> id, status |-> "submitted",
                     contract_address |-> NULL]
  <2>1. CASE \E r \in registries : r.consensus_tx_id = id
    <3>1. registries' = registries
      BY <1>2, <2>1 DEF persist_notary_registry
    <3>2. PICK r \in registries : r.consensus_tx_id = id
      BY <2>1
    <3>3. r.deploy_tx_hash = h \/ r.consensus_tx_id = NULL
      BY <1>a, <3>2
    <3> QED BY <1>1, <3>1, <3>2, <3>3
  <2>2. CASE ~\E r \in registries : r.consensus_tx_id = id
    <3>1. registries' = registries \cup {new}
      BY <1>2, <2>2 DEF persist_notary_registry
    <3>2. Good(new) /\ new.deploy_tx_hash = h
      BY DEF RegistryRow, RowStatus
    <3> HIDE DEF new
    <3> QED BY <1>a, <3>1, <3>2
  <2> QED BY <2>1, <2>2
<1>3. ASSUME NEW h \in Hash, NEW id \in {h, NULL}, Persist(h, id)
      PROVE  /\ Kept /\ \A r \in registries' : Good(r)
             /\ txs[h].operation = "deploy_registry" => Found(h, registries')
  BY <1>1, <1>2, <1>3 DEF Persist
<1>4. ASSUME NEW r \in registries, NEW poll \in PollRequest, PollSound(poll, txs),
             poll.busy, r.consensus_tx_id = poll.hash
      PROVE  /\ Good(PolledRegistry(poll, r))
             /\ PolledRegistry(poll, r).deploy_tx_hash = r.deploy_tx_hash
             /\ PolledRegistry(poll, r).consensus_tx_id = r.consensus_tx_id
  <2>1. /\ poll.hash \in Hash
        /\ poll.status = "FINALIZED" /\ poll.execution = "RETURN" =>
             txs[poll.hash].consensus = "FINALIZED" /\ txs[poll.hash].execution = "RETURN"
    BY <1>4 DEF PollSound
  <2>2. Good(r) /\ r.deploy_tx_hash = poll.hash
    BY <1>a, <1>4, <2>1
  <2> DEFINE address == IF poll.found THEN poll.hash ELSE r.contract_address
             status1 == IF address # NULL THEN "active" ELSE "finalized"
             status2 == IF poll.execution = "ERROR" THEN "execution_failed" ELSE "finalized"
             status3 == Lower(poll.status)
  <2>3. /\ address \in Hash \cup {NULL}
        /\ address # NULL => address = r.deploy_tx_hash
        /\ status1 \in RowStatus /\ status2 \in RowStatus /\ status3 \in RowStatus
    BY <1>4, <2>1, <2>2 DEF RegistryRow, RowStatus, Lower, PollRequest, ConsensusStatus
  <2>4. CASE poll.status = "FINALIZED" /\ poll.execution = "RETURN"
    <3>1. PolledRegistry(poll, r) = [r EXCEPT !.contract_address = address, !.status = status1]
      BY <2>4 DEF PolledRegistry
    <3> HIDE DEF address, status1, status2, status3
    <3> QED BY <2>1, <2>2, <2>3, <2>4, <3>1 DEF RegistryRow
  <2>5. CASE poll.status = "FINALIZED" /\ poll.execution # "RETURN"
    <3>1. PolledRegistry(poll, r) = [r EXCEPT !.contract_address = NULL, !.status = status2]
      BY <2>5 DEF PolledRegistry
    <3> HIDE DEF address, status1, status2, status3
    <3> QED BY <2>2, <2>3, <3>1 DEF RegistryRow
  <2>6. CASE poll.status # "FINALIZED"
    <3>1. PolledRegistry(poll, r) = [r EXCEPT !.status = status3]
      BY <2>6 DEF PolledRegistry
    <3> HIDE DEF address, status1, status2, status3
    <3> QED BY <2>2, <2>3, <3>1 DEF RegistryRow
  <2> QED BY <2>4, <2>5, <2>6
<1>5. ASSUME NEW p \in Poll, PollStore(p) PROVE Kept /\ \A r \in registries' : Good(r)
  <2> DEFINE poll == polls[p]
  <2>0. poll \in PollRequest /\ PollSound(poll, txs) /\ poll.busy
    BY <1>5 DEF IInv, Typed, PollOK, PollStore
  <2>1. CASE registries' = {IF r.consensus_tx_id = poll.hash THEN PolledRegistry(poll, r) ELSE r
                              : r \in registries}
    <3> DEFINE q(r) == IF r.consensus_tx_id = poll.hash THEN PolledRegistry(poll, r) ELSE r
    <3>1. ASSUME NEW r \in registries
          PROVE  /\ Good(q(r)) /\ q(r).deploy_tx_hash = r.deploy_tx_hash
                 /\ q(r).consensus_tx_id = r.consensus_tx_id
      BY <1>a, <1>4, <2>0
    <3>2. registries' = {q(r) : r \in registries}
      BY <2>1
    <3> HIDE DEF q, Good
    <3> QED BY <3>1, <3>2
  <2> QED BY <1>1, <1>5, <2>1 DEF PollStore, update_notary_consensus_state
<1> HIDE DEF Kept, Good
<1>6. Kept /\ \A r \in registries' : Good(r)
  BY <1>1, <1>3, <1>5
  DEF Next, Chains, Backend, vars, Requests, indexVars, Mine, Send, Accept, Decide, FinalizeCall,
      AppealCall, Prepare, build_notary_deploy_tx, build_notary_submit_tx,
      build_notary_evaluate_tx, ConfirmLoad, ConfirmStore, ConfirmCut, ConfirmFail,
      PollRead, PollFail, ReadLoad, ReadContract, ReadStore, ReadFail
<1>7. \A h \in Hash : /\ txs'[h].operation = txs[h].operation
                      /\ txs'[h].stage = "confirmed" =>
                            txs[h].stage = "confirmed" \/ ConfirmStore(h)
  BY OnlyConfirmStoreConfirms
<1>8. ASSUME NEW h \in Hash, txs'[h].operation = "deploy_registry", txs'[h].stage = "confirmed"
      PROVE  Found(h, registries')
  <2>1. CASE txs[h].operation = "deploy_registry" /\ txs[h].stage = "confirmed"
    <3>1. Found(h, registries)
      BY <2>1 DEF IInv, RowsOK, ConfirmedRegistryIsIndexed
    <3> QED BY <1>6, <3>1 DEF Kept
  <2>2. CASE txs[h].operation = "deploy_registry" /\ ConfirmStore(h)
    BY <1>3, <2>2 DEF ConfirmStore
  <2>3. \/ txs[h].operation = "deploy_registry" /\ txs[h].stage = "confirmed"
        \/ txs[h].operation = "deploy_registry" /\ ConfirmStore(h)
    BY <1>7, <1>8
  <2> QED BY <2>1, <2>2, <2>3
<1>9. ASSUME NEW r \in registries', r.contract_address # NULL
      PROVE  /\ r.contract_address = r.deploy_tx_hash
             /\ txs'[r.deploy_tx_hash].consensus = "FINALIZED"
             /\ txs'[r.deploy_tx_hash].execution = "RETURN"
  <2>1. Good(r)
    BY <1>6
  <2>2. r.deploy_tx_hash \in Hash
    BY <2>1 DEF Good, RegistryRow
  <2> QED BY <1>9, <2>1, <2>2, TxStep DEF Good, TxKept
<1>10. \A r \in registries' : r \in RegistryRow /\ r.consensus_tx_id \in {NULL, r.deploy_tx_hash}
  BY <1>6 DEF Good
<1> QED BY <1>8, <1>9, <1>10 DEF ActiveRegistryIsDeployed, ConfirmedRegistryIsIndexed

-----------------------------------------------------------------------------
\* The theorems.

LEMMA StepIsSound == IInv /\ [Next]_vars => IInv'
<1> SUFFICES ASSUME IInv, [Next]_vars PROVE IInv'
  OBVIOUS
<1>1. Typed'
  BY ChainStep, TxStep, RegistriesStep, ClaimsStep, PollStep, ReadStep DEF Typed
<1>2. Chain(accepted, contract)'
  BY ChainStep DEF Chain, At
<1>3. \A h \in Hash : TxOK(h)'
  BY TxStep
<1>4. RowsOK'
  BY RegistriesStep, ClaimsStep DEF RowsOK
<1> QED BY <1>1, <1>2, <1>3, <1>4, CallsStep, PollStep, ReadStep DEF IInv

\* The invariant the other theorems follow from holds in every state that the
\* contract, the wallets, the validators and the backend can reach.
THEOREM Inductive == Spec => []IInv
BY InitIsSound, StepIsSound, PTL DEF Spec

\* Every variable has the values its description gives it.
THEOREM TypeCorrect == Spec => []TypeOK
<1>1. IInv => TypeOK
  <2> SUFFICES ASSUME IInv PROVE TypeOK
    OBVIOUS
  <2>1. ASSUME NEW i \in 1 .. Len(accepted)
        PROVE  accepted[i].method \in Hash \cup {NULL} /\ accepted[i].before \in RegistryType
    <3>1. accepted[i] \in CallType
      BY DEF IInv, Typed
    <3> QED BY <3>1 DEF CallType
  <2> QED BY <2>1 DEF IInv, Typed, TypeOK, RegistryType
<1> QED BY <1>1, Inductive, PTL

\* The record of a claim in the contract and in its finalized state is sound.
LEMMA ContractIsSound == IInv => RegistrySound(contract) /\ RegistrySound(Finalized)
<1> SUFFICES ASSUME IInv PROVE RegistrySound(contract)
  BY FinalizedIsSound
<1>1. accepted \in Seq(CallType) /\ Len(accepted) + 1 \in 1 .. Len(accepted) + 1
  BY DEF IInv, Typed
<1>2. RegistrySound(At(accepted, contract, Len(accepted) + 1))
  BY <1>1 DEF IInv, Chain
<1> QED BY <1>1, <1>2 DEF At

\* No verdict that decides rests on a page that could not be fetched, on a
\* citation of nothing or on no reason, whatever the language model answers.
THEOREM VerdictsRestOnEvidence == Spec => []VerdictRestsOnEvidence
<1>1. IInv => VerdictRestsOnEvidence
  <2> SUFFICES ASSUME IInv, NEW c \in Claim, contract.claims[c].verdict \in Decisive
               PROVE  LET r == contract.claims[c] IN
                      /\ r.exists /\ r.evaluated
                      /\ r.reached = DOMAIN r.content.source_urls
                      /\ \E i \in r.material_facts : i \in DOMAIN r.content.source_urls
                      /\ r.rationale
    BY DEF VerdictRestsOnEvidence
  <2>1. RecordSound(contract.claims[c])
    BY ContractIsSound DEF RegistrySound
  <2> QED BY <2>1 DEF RecordSound, Decisive
<1> QED BY <1>1, Inductive, PTL

\* What serialize_notary_record refuses of a claim with an id of the backend's
\* form, the contract never finalizes, whoever sent the claim.
THEOREM RecordsStayReadable == Spec => []RecordsAreReadable
<1>1. IInv => RecordsAreReadable
  BY ContractIsSound, NotaryAssumption
  DEF RegistrySound, RecordSound, Serializable, RecordsAreReadable
<1> QED BY <1>1, Inductive, PTL

\* A content whose URLs are spelled as review spells them passes the review
\* when it passes the contract.
LEMMA SpelledAlikeIsReviewed ==
  ASSUME NEW content \in Content, Reviewable(content), Canonical(content) = content
  PROVE  Reviewed(content)
<1> DEFINE urls == content.source_urls
<1>1. ASSUME NEW i \in DOMAIN urls PROVE Normalized(urls[i]) = urls[i]
  <2>1. Canonical(content).source_urls = [j \in DOMAIN urls |-> Normalized(urls[j])]
    BY DEF Canonical, Content
  <2>2. urls = [j \in DOMAIN urls |-> Normalized(urls[j])]
    BY <2>1
  <2>3. [j \in DOMAIN urls |-> Normalized(urls[j])][i] = Normalized(urls[i])
    BY <1>1
  <2> QED BY <2>2, <2>3
<1> QED BY <1>1 DEF Reviewable, Reviewed

\* What the contract accepts, validate_notary_spec would have accepted: every
\* source by itself, and the claim when its URLs are in their normal spelling.
THEOREM ContractIsAsStrictAsReview == Spec => []StoredClaimsAreReviewable
<1>1. IInv => StoredClaimsAreReviewable
  <2> SUFFICES ASSUME IInv, NEW c \in Claim, contract.claims[c].exists
               PROVE  LET content == contract.claims[c].content IN
                      /\ Len(content.source_urls) \in 1 .. MaxSources
                      /\ \A i \in DOMAIN content.source_urls :
                           validate_public_https_url(content.source_urls[i])
                      /\ Canonical(content) = content => Reviewed(content)
    BY DEF StoredClaimsAreReviewable
  <2> DEFINE content == contract.claims[c].content
  <2>1. content \in Content /\ Reviewable(content)
    BY ContractIsSound DEF RegistrySound, RecordSound
  <2>2. Canonical(content) = content => Reviewed(content)
    BY <2>1, SpelledAlikeIsReviewed
  <2> QED BY <2>1, <2>2 DEF Reviewable
<1> QED BY <1>1, Inductive, PTL

\* The fingerprints keep a content, as it is written, from being claimed under
\* two ids, through any appeals.
THEOREM OneClaimPerContent == Spec => []ContentIsClaimedOnce
<1>1. IInv => ContentIsClaimedOnce
  BY ContractIsSound DEF RegistrySound, ContentIsClaimedOnce
<1> QED BY <1>1, Inductive, PTL

\* What the index shows of a claim is final in the contract, in whatever order
\* the handlers store what they read.
THEOREM IndexNeverLeads == Spec => []IndexFollowsContract
<1>1. IInv => IndexFollowsContract
  BY DEF IInv, RowsOK
<1> QED BY <1>1, Inductive, PTL

\* An address in the index is that of a final deployment that returned.
THEOREM ActiveMeansDeployed == Spec => []ActiveRegistryIsDeployed
<1>1. IInv => ActiveRegistryIsDeployed
  BY DEF IInv, RowsOK
<1> QED BY <1>1, Inductive, PTL

\* Requests that end between the two commits lose no registry.
THEOREM ConfirmedIsIndexed == Spec => []ConfirmedRegistryIsIndexed
<1>1. IInv => ConfirmedRegistryIsIndexed
  BY DEF IInv, RowsOK
<1> QED BY <1>1, Inductive, PTL

\* Appeals undo accepted calls and never a final record.
THEOREM FinalRecordsAreKept == Spec => FinalRecordsStay
<1> DEFINE Stays == \A c \in Claim : LET r == Finalized.claims[c] IN
                      /\ r.exists => /\ Finalized'.claims[c].exists
                                     /\ Finalized'.claims[c].content = r.content
                      /\ r.evaluated => Finalized'.claims[c] = r
<1>1. IInv /\ [Next]_vars => Stays
  BY ChainStep DEF Extends
<1>2. IInv /\ [Next]_vars => [Stays]_vars
  BY <1>1
<1> QED BY <1>2, Inductive, PTL DEF Spec, FinalRecordsStay

-----------------------------------------------------------------------------
\* What a reader is promised.

\* A step writes the row of one claim at most.
LEMMA OneRowIsWritten ==
  ASSUME IInv, [Next]_vars, claims' # claims
  PROVE  /\ UNCHANGED <<contract, accepted>>
         /\ \E c \in Claim : claims' = [claims EXCEPT ![c] = claims'[c]]
<1> DEFINE One == \E c \in Claim : claims' = [claims EXCEPT ![c] = claims'[c]]
<1>1. claims \in [Claim -> ClaimRow]
  BY DEF IInv, Typed
<1>2. ASSUME NEW c, NEW row, claims' = [claims EXCEPT ![c] = row] PROVE One
  <2>1. c \in Claim
    BY <1>1, <1>2
  <2>2. claims'[c] = row
    BY <1>1, <1>2, <2>1
  <2> QED BY <1>2, <2>1, <2>2
<1> HIDE DEF One
<1>3. ASSUME NEW h \in Hash, NEW id, Persist(h, id) PROVE One
  <2>1. persist_notary_call(h)
    BY <1>3 DEF Persist
  <2> QED BY <1>2, <2>1 DEF persist_notary_call
<1>4. ASSUME NEW p \in Poll, PollStore(p) PROVE One
  <2> DEFINE poll == polls[p]
             c == txs[poll.hash].claim_id
             status == PolledClaimStatus(poll, txs[poll.hash].operation)
  <2>1. claims' = [claims EXCEPT ![c].status = status]
    BY <1>4 DEF PollStore, update_notary_consensus_state
  <2>2. claims' = [claims EXCEPT ![c] = [claims[c] EXCEPT !.status = status]]
    BY <2>1
  <2> QED BY <1>2, <2>2
<1>5. ASSUME ReadStore PROVE One
  BY <1>2, <1>5 DEF ReadStore
<1>6. /\ UNCHANGED <<contract, accepted>>
      /\ \/ \E h \in Hash : ConfirmStore(h) \/ ConfirmCut(h)
         \/ (\E p \in Poll : PollStore(p)) \/ ReadStore
  BY DEF Next, Chains, Backend, vars, executionVars, Requests, indexVars, Mine, Send, Accept,
         Decide, FinalizeCall, AppealCall, Prepare, build_notary_deploy_tx,
         build_notary_submit_tx, build_notary_evaluate_tx, ConfirmLoad, ConfirmStore,
         ConfirmCut, ConfirmFail, PollRead, PollStore, PollFail, ReadLoad, ReadContract,
         ReadStore, ReadFail
<1>7. One
  BY <1>3, <1>4, <1>5, <1>6 DEF ConfirmStore, ConfirmCut
<1> QED BY <1>6, <1>7 DEF One

\* What sound records say of finality and of verdicts.
LEMMA RecordOf ==
  ASSUME NEW s, RegistrySound(s), NEW c \in Claim
  PROVE  /\ s.claims[c] \in ClaimRecord
         /\ s.claims[c].exists <=> s.claims[c].content # NULL
         /\ s.claims[c].exists => s.claims[c].content \in Content
         /\ s.claims[c].evaluated <=> s.claims[c].verdict # "PENDING"
<1>1. NULL \notin Content
  BY IndexAssumption
<1>2. s.claims[c] \in ClaimRecord /\ RecordSound(s.claims[c])
  BY DEF RegistrySound, RegistryType
<1> QED BY <1>1, <1>2 DEF RecordSound, WellFormed, ClaimRecord

\* A final call is a submission or a judgment of the promise.
LEMMA CallKeepsPromise ==
  ASSUME IInv, [Next]_vars, OneCall(Finalized, Finalized'), UNCHANGED claims
  PROVE  Promise!Next
<1> DEFINE s == Finalized
           t == Finalized'
           claimed == [c \in Claim |-> s.claims[c].content]
           judged == [c \in Claim |-> s.claims[c].verdict]
           claimedNext == [c \in Claim |-> t.claims[c].content]
           judgedNext == [c \in Claim |-> t.claims[c].verdict]
<1>1. RegistrySound(s)
  BY FinalizedIsSound
<1>2. RegistrySound(t)
  <2>1. accepted' \in Seq(CallType) /\ Chain(accepted', contract')
    BY ChainStep
  <2>2. RegistrySound(At(accepted', contract', 1))
    BY <2>1 DEF Chain
  <2>3. t = At(accepted', contract', 1)
    BY <2>1 DEF Finalized, At
  <2> QED BY <2>2, <2>3
<1>3. PICK c \in Claim :
        /\ \A d \in Claim \ {c} : t.claims[d] = s.claims[d]
        /\ t.claims[c].exists
        /\ \/ ~s.claims[c].exists /\ ~t.claims[c].evaluated
           \/ /\ s.claims[c].exists /\ ~s.claims[c].evaluated
              /\ t.claims[c].evaluated /\ t.claims[c].content = s.claims[c].content
  BY DEF OneCall
<1>4. \A d \in Claim :
        /\ s.claims[d] \in ClaimRecord /\ t.claims[d] \in ClaimRecord
        /\ s.claims[d].exists <=> s.claims[d].content # NULL
        /\ s.claims[d].evaluated <=> s.claims[d].verdict # "PENDING"
        /\ t.claims[d].exists => t.claims[d].content \in Content
        /\ t.claims[d].evaluated <=> t.claims[d].verdict # "PENDING"
  BY <1>1, <1>2, RecordOf
<1>5. \A d \in Claim : ~s.claims[d].exists => ~s.claims[d].evaluated
  BY <1>1 DEF RegistrySound, RecordSound
<1>6. UNCHANGED <<[d \in Claim |-> claims[d].verdict],
                  {d \in Claim : claims[d].status = "evaluated"}>>
  OBVIOUS
<1> HIDE DEF s, t
<1>7. CASE ~s.claims[c].exists /\ ~t.claims[c].evaluated
  <2>1. claimed[c] = NULL
    BY <1>4, <1>7
  <2>2. claimedNext[c] \in Content \ {claimed[d] : d \in Claim}
    <3>1. claimedNext[c] \in Content
      BY <1>3, <1>4
    <3>2. ASSUME NEW d \in Claim, claimed[d] = claimedNext[c] PROVE FALSE
      <4>1. s.claims[d].content = t.claims[c].content /\ s.claims[d].content # NULL
        BY <1>3, <1>4, <3>2, IndexAssumption
      <4>2. d # c /\ t.claims[d] = s.claims[d] /\ t.claims[d].exists
        BY <1>3, <1>4, <1>7, <4>1
      <4> QED BY <1>2, <1>3, <4>1, <4>2 DEF RegistrySound
    <3> QED BY <3>1, <3>2
  <2>3. claimedNext = [claimed EXCEPT ![c] = claimedNext[c]]
    BY <1>3
  <2>4. judgedNext = judged
    <3>1. ASSUME NEW d \in Claim PROVE t.claims[d].verdict = s.claims[d].verdict
      BY <1>3, <1>4, <1>5, <1>7
    <3> QED BY <3>1
  <2> QED BY <1>6, <2>1, <2>2, <2>3, <2>4 DEF Promise!Next, Promise!Submit, s, t
<1>8. CASE /\ s.claims[c].exists /\ ~s.claims[c].evaluated
           /\ t.claims[c].evaluated /\ t.claims[c].content = s.claims[c].content
  <2>1. claimed[c] # NULL /\ judged[c] = "PENDING"
    BY <1>4, <1>8
  <2>2. judgedNext[c] \in Verdict \ {"PENDING"}
    BY <1>4, <1>8 DEF ClaimRecord
  <2>3. judgedNext = [judged EXCEPT ![c] = judgedNext[c]]
    BY <1>3
  <2>4. claimedNext = claimed
    <3>1. ASSUME NEW d \in Claim PROVE t.claims[d].content = s.claims[d].content
      BY <1>3, <1>8
    <3> QED BY <3>1
  <2> QED BY <1>6, <2>1, <2>2, <2>3, <2>4 DEF Promise!Next, Promise!Judge, s, t
<1> QED BY <1>3, <1>7, <1>8

\* A row that is written shows a final verdict or none.
LEMMA RowKeepsPromise ==
  ASSUME IInv, IInv', NEW c \in Claim, claims' = [claims EXCEPT ![c] = claims'[c]],
         Finalized' = Finalized
  PROVE  Promise!Next
<1> DEFINE s == Finalized
           judged == [d \in Claim |-> s.claims[d].verdict]
           shown == [d \in Claim |-> claims[d].verdict]
           shownNext == [d \in Claim |-> claims'[d].verdict]
           reported == {d \in Claim : claims[d].status = "evaluated"}
           reportedNext == {d \in Claim : claims'[d].status = "evaluated"}
<1>1. claims \in [Claim -> ClaimRow] /\ RegistrySound(s)
  BY FinalizedIsSound DEF IInv, Typed
<1>2. /\ claims'[c].verdict # "PENDING" => claims'[c].verdict = s.claims[c].verdict
      /\ claims'[c].status = "evaluated" => s.claims[c].evaluated
  BY DEF IInv, RowsOK, IndexFollowsContract
<1>3. s.claims[c].evaluated <=> s.claims[c].verdict # "PENDING"
  BY <1>1, RecordOf
<1>4. UNCHANGED <<[d \in Claim |-> Finalized.claims[d].content],
                  [d \in Claim |-> Finalized.claims[d].verdict]>>
  OBVIOUS
<1> HIDE DEF s
<1>5. \A d \in Claim : d # c => claims'[d] = claims[d]
  BY <1>1
<1>6. /\ shownNext[c] \in {"PENDING", judged[c]}
      /\ shownNext = [shown EXCEPT ![c] = shownNext[c]]
  BY <1>2, <1>5
<1>7. \/ reportedNext = reported \ {c}
      \/ judged[c] # "PENDING" /\ reportedNext = reported \cup {c}
  <2>1. CASE claims'[c].status = "evaluated"
    BY <1>2, <1>3, <1>5, <2>1
  <2>2. CASE claims'[c].status # "evaluated"
    BY <1>5, <2>2
  <2> QED BY <2>1, <2>2
<1> QED BY <1>4, <1>6, <1>7 DEF Promise!Next, Promise!Show, s

\* The contract and its index together keep what is promised to a reader, in
\* spite of appeals, late polls and reads, and repeated confirmations.
THEOREM NotaryImplementsFinalVerdicts == Spec => ImplementsFinalVerdicts
<1>1. Init => Promise!Init
  <2> SUFFICES ASSUME Init PROVE Promise!Init
    OBVIOUS
  <2>1. \A c \in Claim : Finalized.claims[c] = NoClaim
    BY DEF Init, Finalized, NewRegistry
  <2>2. NoClaim.content = NULL /\ NoClaim.verdict = "PENDING"
    BY DEF NoClaim, Unjudged
  <2>3. \A c \in Claim : claims[c].verdict = "PENDING" /\ claims[c].status # "evaluated"
    BY DEF Init, NoRow
  <2> QED BY <2>1, <2>2, <2>3 DEF Promise!Init
<1>2. IInv /\ IInv' /\ [Next]_vars => [Promise!Next]_(Promise!vars)
  <2> SUFFICES ASSUME IInv, IInv', [Next]_vars PROVE [Promise!Next]_(Promise!vars)
    OBVIOUS
  <2>1. CASE Finalized' # Finalized
    <3>1. FinalizeCall /\ OneCall(Finalized, Finalized')
      BY <2>1, ChainStep
    <3>2. UNCHANGED claims
      BY <3>1 DEF FinalizeCall, Requests, indexVars
    <3> QED BY <3>1, <3>2, CallKeepsPromise
  <2>2. CASE Finalized' = Finalized /\ claims' # claims
    BY <2>2, OneRowIsWritten, RowKeepsPromise
  <2>3. CASE Finalized' = Finalized /\ claims' = claims
    BY <2>3 DEF Promise!vars
  <2> QED BY <2>1, <2>2, <2>3
<1> QED BY <1>1, <1>2, Inductive, PTL DEF Spec, ImplementsFinalVerdicts, Promise!Spec

=============================================================================
