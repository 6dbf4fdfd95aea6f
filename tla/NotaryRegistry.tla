--------------------------- MODULE NotaryRegistry ---------------------------
(***************************************************************************)
(* The AI Notary contract of notary_service.py: its owner submits claims,  *)
(* each a statement with the URLs of the evidence, and has each evaluated  *)
(* once, by a language model that validators run over the fetched pages.   *)
(* Texts are values that are only compared, and none is too long; the      *)
(* reasons given for an inconclusive verdict, which nothing reads, are     *)
(* left out.  The backend allows the domains the contract was made for.    *)
(***************************************************************************)
EXTENDS ContractExecution

CONSTANTS
  Owner,        \* the wallet that deployed the registry
  Claim,        \* the 72 characters long claim ids in the owner's namespace
  HexId,        \* those that end in the 24 hexadecimal digits of a digest
  Statement,    \* statement, rubric and freshness rule together
  Url           \* evidence URLs, as they are written

MaxSources == 3

\* What the checks look at in a URL.  cased: capitals in its scheme or host;
\* path: "" when there is none; extra: an "@" in the path, something empty
\* that review drops (a query, fragment, user name or port, a dot after the
\* host), or credentials, a query or a fragment.
UrlParts ==
  [scheme: {"https", "http"}, host: {"allowed", "unlisted", "private"},
   cased: BOOLEAN, port: {"none", "443", "other"}, path: STRING,
   extra: {"none", "at", "dropped", "refused"}]

\* validate_public_https_url: the spelling it returns of a URL it lets pass.
Normalized(u) ==
  [u EXCEPT !.cased = FALSE,
            !.path = IF @ = "" THEN "/" ELSE @,
            !.extra = IF @ = "dropped" THEN "none" ELSE @]

SourceStatus == {"USABLE", "UNAVAILABLE", "STALE", "CONFLICTING"}
Decisive == {"CONFIRMED", "REFUTED"}
Verdict == Decisive \cup {"INCONCLUSIVE", "PENDING"}

\* An answer of the language model.  "other" is any text outside the enumeration, and
\* material_facts are the sources its first five facts cite.
ModelAnswer ==
  [verdict: Decisive \cup {"INCONCLUSIVE", "other"},
   source_statuses: Seq(SourceStatus \cup {"other"}),
   material_facts: SUBSET Nat, rationale: BOOLEAN]

ASSUME NotaryAssumption ==
  /\ Owner \in Party /\ NULL \notin Party /\ NULL \notin Claim
  /\ HexId \subseteq Claim
  /\ Url \subseteq UrlParts /\ \A u \in Url : Normalized(u) \in Url
  /\ MaxOpen \in Nat

-----------------------------------------------------------------------------
\* A claim's immutable part: what was submitted.
Content == [statement: Statement, source_urls: Seq(Url)]

\* reached is a history variable: the sources the evaluation could fetch.
ClaimRecord ==
  [exists: BOOLEAN, content: Content \cup {NULL}, evaluated: BOOLEAN,
   verdict: Verdict, source_statuses: Seq(SourceStatus),
   material_facts: SUBSET Nat, rationale: BOOLEAN, reached: SUBSET Nat]

Unjudged(exists, content) ==
  [exists |-> exists, content |-> content, evaluated |-> FALSE,
   verdict |-> "PENDING", source_statuses |-> <<>>, material_facts |-> {},
   rationale |-> FALSE, reached |-> {}]

NoClaim == Unjudged(FALSE, NULL)

NewRegistry == [claims |-> [c \in Claim |-> NoClaim], claim_fingerprints |-> {}]

\* Mutant: the port is not looked at.
_source_url_allowed_any_port(u) ==
  u.scheme = "https" /\ u.extra = "none" /\ u.host = "allowed"

\* Capitals are ignored, and any path will do.
_source_url_allowed(u) ==
  u.scheme = "https" /\ u.extra = "none" /\ u.port = "none" /\ u.host = "allowed"

\* Mutant: the fingerprints are not looked at.
submit_claim_again(call, by, claim_id, content) ==
  /\ by = Owner
  /\ ~contract.claims[claim_id].exists
  /\ Len(content.source_urls) \in 1 .. MaxSources
  /\ \A i \in DOMAIN content.source_urls : _source_url_allowed(content.source_urls[i])
  /\ Update(call, by, 0,
       [contract EXCEPT
          !.claims[claim_id] = Unjudged(TRUE, content),
          !.claim_fingerprints = @ \cup {content}])

\* URLs and contents are compared as they are written.  The call's identity
\* stands for the method in the execution's record.
submit_claim(call, by, claim_id, content) ==
  /\ by = Owner
  /\ ~contract.claims[claim_id].exists
  /\ Len(content.source_urls) \in 1 .. MaxSources
  /\ \A i \in DOMAIN content.source_urls : _source_url_allowed(content.source_urls[i])
  /\ \A i, j \in DOMAIN content.source_urls :
       i # j => content.source_urls[i] # content.source_urls[j]
  /\ content \notin contract.claim_fingerprints
  /\ Update(call, by, 0,
       [contract EXCEPT
          !.claims[claim_id] = Unjudged(TRUE, content),
          !.claim_fingerprints = @ \cup {content}])

\* Mutant: the model's word on a source the leader could not fetch is taken.
NormalizedStatusesTrusting(urls, fetched, proposed) ==
  [i \in DOMAIN urls |->
     IF Len(proposed) = Len(urls) /\ proposed[i] \in SourceStatus
     THEN proposed[i]
     ELSE IF i \in fetched THEN "USABLE" ELSE "UNAVAILABLE"]

\* A source that could not be fetched is unavailable whatever the model says;
\* a status it leaves out or makes up is what the fetch found.
NormalizedStatuses(urls, fetched, proposed) ==
  [i \in DOMAIN urls |->
     CASE i \notin fetched -> "UNAVAILABLE"
       [] i \in fetched /\ Len(proposed) = Len(urls) /\ proposed[i] \in SourceStatus ->
            proposed[i]
       [] OTHER -> "USABLE"]

NormalizedVerdict(proposed, statuses, facts, rationale) ==
  IF /\ proposed \in Decisive
     /\ \A i \in DOMAIN statuses : statuses[i] = "USABLE"
     /\ facts # {} /\ rationale
  THEN proposed ELSE "INCONCLUSIVE"

\* Mutant: facts are kept whatever they cite.
CitedAny(urls, facts) == facts

\* The facts that cite one of the claim's sources.
Cited(urls, facts) == facts \cap DOMAIN urls

\* leader_fn: the record an evaluation leaves when the sources in fetched
\* answer with text.  No answer at all counts as inconclusive.
Judged(claim, fetched, answer) ==
  LET urls == claim.content.source_urls
      statuses == NormalizedStatuses(urls, fetched, answer.source_statuses)
      facts == Cited(urls, answer.material_facts)
  IN  [claim EXCEPT
         !.evaluated = TRUE, !.reached = fetched,
         !.source_statuses = statuses, !.material_facts = facts,
         !.rationale = answer.rationale,
         !.verdict = NormalizedVerdict(answer.verdict, statuses, facts,
                                       answer.rationale)]

\* What leader_fn makes of text that is not an object.
Malformed ==
  [verdict |-> "INCONCLUSIVE", source_statuses |-> <<>>, material_facts |-> {},
   rationale |-> TRUE]

\* Mutant: a claim can be evaluated until the answer suits.
evaluate_claim_again(call, by, claim_id, fetched, answer) ==
  /\ contract.claims[claim_id].exists
  /\ by = Owner
  /\ fetched \subseteq DOMAIN contract.claims[claim_id].content.source_urls
  /\ Update(call, by, 0,
       [contract EXCEPT !.claims[claim_id] = Judged(@, fetched, answer)])

\* The claimant is the wallet that submitted, which is the owner.
evaluate_claim(call, by, claim_id, fetched, answer) ==
  /\ contract.claims[claim_id].exists
  /\ by = Owner
  /\ ~contract.claims[claim_id].evaluated
  /\ fetched \subseteq DOMAIN contract.claims[claim_id].content.source_urls
  /\ Update(call, by, 0,
       [contract EXCEPT !.claims[claim_id] = Judged(@, fetched, answer)])

-----------------------------------------------------------------------------
\* Mutant: accepted state is read.
get_claim_accepted(claim_id) == contract.claims[claim_id]

\* What get_claim returns of finalized state, and what the backend accepts
\* of it: serialize_notary_record refuses a record that breaks these rules.
get_claim(claim_id) == Finalized.claims[claim_id]

WellFormed(r) ==
  /\ r.evaluated =>
       /\ Len(r.source_statuses) = Len(r.content.source_urls)
       /\ r.verdict # "PENDING"
  /\ ~r.evaluated =>
       r.verdict = "PENDING" /\ r.source_statuses = <<>> /\ r.material_facts = {}
  /\ r.material_facts \subseteq 1 .. Len(r.content.source_urls)
  /\ r.evaluated /\ r.verdict \in Decisive =>
       /\ \A i \in DOMAIN r.source_statuses : r.source_statuses[i] = "USABLE"
       /\ r.material_facts # {} /\ r.rationale

\* The id is one of the backend's form, which the contract does not ask for.
Serializable(claim_id, r) == claim_id \in HexId /\ WellFormed(r)

\* validate_public_https_url: what the backend lets into a reviewed claim.
validate_public_https_url(u) ==
  /\ u.scheme = "https" /\ u.extra # "refused"
  /\ u.port \in {"none", "443"}
  /\ u.host = "allowed"

=============================================================================
