------------------------------ MODULE MCNotary ------------------------------
(* A small instance of NotaryIndex for TLC.  In some of its initial states    *)
(* the app is used, in one the contract is called without it alone.           *)
EXTENDS NotaryIndex, TLC

CONSTANTS a1, a2, a3, s1, owner, stranger, h1, h2, d1, d2, d3, d4

Https(cased, port, path) ==
  [scheme |-> "https", host |-> "allowed", cased |-> cased, port |-> port,
   path |-> path, extra |-> "none"]
Page == Https(FALSE, "none", "/a")
PageRecased == Https(TRUE, "none", "/a")
Root == Https(FALSE, "none", "/")
RootBare == Https(FALSE, "none", "")
OtherPort == Https(FALSE, "other", "/a")

Urls == {Page, PageRecased, Root, RootBare, OtherPort}

Written(urls) == [statement |-> s1, source_urls |-> urls]

Calls(parties, ids, contents) == [sender: parties, claim_id: ids, content: contents]

\* What the hashes that are named are for; the others are not used.
Wants(wanted) == [h \in Hash |-> IF h \in DOMAIN wanted THEN wanted[h] ELSE NULL]

Symmetry == Permutations(Poll) \cup Permutations({h1, h2})

-----------------------------------------------------------------------------
(* The index.                                                              *)

\* A draft that review spells anew, and one it refuses.
Drafts == {Written(<<PageRecased>>), Written(<<PageRecased, Page>>)}
Digests ==
  (Canonical(Written(<<PageRecased>>)) :> a1) @@
  (Canonical(Written(<<PageRecased, Page>>)) :> a2)

Answered(verdict, statuses, facts) ==
  [verdict |-> verdict, source_statuses |-> statuses, material_facts |-> facts,
   rationale |-> TRUE]

Trusting == Answered("CONFIRMED", <<"USABLE">>, {1})

\* Two registries; two submissions of one claim, by the app, or one of them
\* without it; its evaluation by the app, or twice without it.
AppWanted ==
  {Wants((h1 :> "deploy_registry") @@ (h2 :> "deploy_registry")),
   Wants((h1 :> "submit_claim") @@ (h2 :> "submit_claim")),
   Wants((h1 :> "submit_claim") @@ (d1 :> "submit_claim")),
   Wants((h1 :> "submit_claim") @@ (h2 :> "evaluate_claim")),
   Wants((h1 :> "submit_claim") @@ (d1 :> "evaluate_claim") @@ (d2 :> "evaluate_claim"))}

-----------------------------------------------------------------------------
(* The contract alone.                                                     *)

\* One source, in two spellings; two pages, in two orders; a page that is named
\* twice, in two spellings; three sources; and a source nobody accepts.
DirectContents ==
  {Written(urls) : urls \in
     {<<Page>>, <<PageRecased>>, <<Page, Root>>, <<Root, Page>>,
      <<RootBare, Root>>, <<Page, Root, RootBare>>, <<OtherPort>>}}

\* An answer that trusts what it may not have seen and cites a source too many,
\* one with a status that does not exist, one that cites the second source
\* only, one that finds a source stale, and one that says nothing.
DirectAnswers ==
  {Answered("CONFIRMED", <<"USABLE", "USABLE">>, {1, 3}),
   Answered("REFUTED", <<"other">>, {}),
   Answered("REFUTED", <<>>, {2}),
   Answered("CONFIRMED", <<"USABLE", "STALE", "USABLE">>, {3}),
   [Trusting EXCEPT !.rationale = FALSE]}

DirectWanted ==
  Wants((d2 :> "submit_claim") @@ (d3 :> "submit_claim") @@ (d4 :> "evaluate_claim"))

-----------------------------------------------------------------------------
\* The app's two hashes may change places, as the symmetry requires.
Operations ==
  LET wanted == AppWanted \cup {DirectWanted} IN
  wanted \cup {[w EXCEPT ![h1] = w[h2], ![h2] = w[h1]] : w \in wanted}

\* d1 is about the claims of the drafts, by the owner or by a stranger.
DirectCalls ==
  [h \in Hash |->
     CASE h = d1 -> Calls({owner}, {a1, a2}, Drafts) \cup Calls({stranger}, {a1}, Drafts)
       [] h \in {d2, d3} -> Calls({owner}, {a1, a3}, DirectContents)
       [] h = d4 -> Calls({owner, stranger}, {a1, a3}, {Written(<<Page>>)})
       [] OTHER -> {}]

Answers == [h \in Hash |-> IF h = d4 THEN DirectAnswers ELSE {Trusting}]
=============================================================================
