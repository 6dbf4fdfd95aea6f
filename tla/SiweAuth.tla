------------------------------ MODULE SiweAuth ------------------------------
(***************************************************************************)
(* Sign-in with Ethereum: GET /auth/nonce stores a challenge for a wallet, *)
(* POST /auth/verify consumes it, checks the signed message and answers    *)
(* with a session token, creating the user on the first sign-in.           *)
(*                                                                         *)
(* Both endpoints are plain functions that run in a pool of threads, and   *)
(* the table may be shared by several processes: requests interleave       *)
(* between any two statements that reach the database.  A statement is one *)
(* action together with the commit that follows it.  SQLite has no row     *)
(* locks (SELECT ... FOR UPDATE selects), and may give a new row the key   *)
(* of a deleted one; PostgreSQL locks, and does not.  The model takes no   *)
(* lock and gives an inserted row any free key.                            *)
(***************************************************************************)
EXTENDS Naturals

CONSTANTS
  Wallet,           \* normalized addresses
  Nonce,            \* what generate_nonce returns, each value once
  RowId,            \* primary keys of siwe_nonces
  Ask,              \* slots for concurrent /auth/nonce requests
  Verify,           \* slots for concurrent /auth/verify requests
  NULL

ASSUME SiweAssumption ==
  NULL \notin Wallet /\ NULL \notin Nonce /\ NULL \notin RowId

VARIABLES
  challenges,       \* siwe_nonces: the row of a wallet, its key and nonce, or no row
  users,            \* number of rows in users of a wallet
  drawn,            \* nonces that were generated
  lapsed,           \* nonces generated more than ten minutes ago
  signed,           \* <<w, n>>: w signed an acceptable message with nonce n
  asks,             \* the /auth/nonce requests in flight
  verifies,         \* the /auth/verify requests in flight
  tokens            \* per wallet and nonce: the session tokens returned

vars == <<challenges, users, drawn, lapsed, signed, asks, verifies, tokens>>

-----------------------------------------------------------------------------
\* A row of siwe_nonces; "no row" has the key NULL.
Row == [id: RowId, nonce: Nonce]
NoRow == [id |-> NULL, nonce |-> NULL]

\* found: the row the request has selected, and will update, or no row: it
\* will insert one.
AskRequest ==
  [pc: {"idle", "writing", "conflict"},
   wallet: Wallet \cup {NULL}, nonce: Nonce \cup {NULL}, found: Row \cup {NoRow}]

\* sound: the message passes verify_siwe_signature (domain, URI, chain,
\* address, issue time, signature).
VerifyRequest ==
  [pc: {"idle", "consuming", "checking", "entering", "answering"},
   wallet: Wallet \cup {NULL}, nonce: Nonce \cup {NULL}, id: RowId \cup {NULL},
   sound: BOOLEAN]

TypeOK ==
  /\ challenges \in [Wallet -> Row \cup {NoRow}]
  /\ users \in [Wallet -> Nat]
  /\ drawn \subseteq Nonce
  /\ lapsed \subseteq Nonce
  /\ signed \subseteq Wallet \X Nonce
  /\ asks \in [Ask -> AskRequest]
  /\ verifies \in [Verify -> VerifyRequest]
  /\ tokens \in [Wallet -> [Nonce -> Nat]]

IdleAsk == [pc |-> "idle", wallet |-> NULL, nonce |-> NULL, found |-> NoRow]
IdleVerify ==
  [pc |-> "idle", wallet |-> NULL, nonce |-> NULL, id |-> NULL, sound |-> FALSE]

Init ==
  /\ challenges = [w \in Wallet |-> NoRow]
  /\ users = [w \in Wallet |-> 0]
  /\ drawn = {}
  /\ lapsed = {}
  /\ signed = {}
  /\ asks = [a \in Ask |-> IdleAsk]
  /\ verifies = [v \in Verify |-> IdleVerify]
  /\ tokens = [w \in Wallet |-> [n \in Nonce |-> 0]]

-----------------------------------------------------------------------------
(* The wallet and the clock.                                               *)

\* A wallet signs a message that carries a nonce some request was answered.  The
\* endpoint asks for no proof of an address: the nonce may have been drawn for
\* another wallet.
Sign(w, n) ==
  /\ n \in drawn /\ <<w, n>> \notin signed
  /\ \A a \in Ask : asks[a].nonce # n
  /\ signed' = signed \cup {<<w, n>>}
  /\ UNCHANGED <<challenges, users, drawn, lapsed, asks, verifies, tokens>>

Lapse(n) ==
  /\ n \in drawn \ lapsed
  /\ lapsed' = lapsed \cup {n}
  /\ UNCHANGED <<challenges, users, drawn, signed, asks, verifies, tokens>>

-----------------------------------------------------------------------------
(* get_nonce                                                               *)

\* A fresh nonce, and the SELECT of the wallet's row.
AskRead(a, w, n) ==
  /\ asks[a].pc = "idle"
  /\ n \notin drawn
  /\ drawn' = drawn \cup {n}
  /\ asks' = [asks EXCEPT ![a] =
       [pc |-> "writing", wallet |-> w, nonce |-> n, found |-> challenges[w]]]
  /\ UNCHANGED <<challenges, users, lapsed, signed, verifies, tokens>>

\* UPDATE ... WHERE id: the row that has the key by now, whatever it holds.  It
\* is another wallet's when the selected one was deleted and its key reused.
AskUpdate(a, x) ==
  /\ asks[a].pc = "writing"
  /\ asks[a].found # NoRow /\ challenges[x].id = asks[a].found.id
  /\ challenges' = [challenges EXCEPT ![x].nonce = asks[a].nonce]
  /\ asks' = [asks EXCEPT ![a] = IdleAsk]
  /\ UNCHANGED <<users, drawn, lapsed, signed, verifies, tokens>>

\* INSERT: the wallet's address is UNIQUE.
AskInsert(a, id) ==
  LET w == asks[a].wallet
  IN  /\ asks[a].pc = "writing" /\ asks[a].found = NoRow
      /\ challenges[w] = NoRow
      /\ \A x \in Wallet : challenges[x].id # id
      /\ challenges' = [challenges EXCEPT ![w] = [id |-> id, nonce |-> asks[a].nonce]]
      /\ asks' = [asks EXCEPT ![a] = IdleAsk]
      /\ UNCHANGED <<users, drawn, lapsed, signed, verifies, tokens>>

\* IntegrityError: another request inserted the wallet's row first.
AskConflict(a) ==
  /\ asks[a].pc = "writing" /\ asks[a].found = NoRow
  /\ challenges[asks[a].wallet] # NoRow
  /\ asks' = [asks EXCEPT ![a].pc = "conflict"]
  /\ UNCHANGED <<challenges, users, drawn, lapsed, signed, verifies, tokens>>

\* The other request's row is selected, to be overwritten.
AskReread(a) ==
  LET row == challenges[asks[a].wallet]
  IN  /\ asks[a].pc = "conflict" /\ row # NoRow
      /\ asks' = [asks EXCEPT ![a].pc = "writing", ![a].found = row]
      /\ UNCHANGED <<challenges, users, drawn, lapsed, signed, verifies, tokens>>

\* 503 when that row is gone as well, 500 when the row to update is gone, or
\* the process stops.
AskFail(a) ==
  /\ asks[a].pc # "idle"
  /\ asks' = [asks EXCEPT ![a] = IdleAsk]
  /\ UNCHANGED <<challenges, users, drawn, lapsed, signed, verifies, tokens>>

-----------------------------------------------------------------------------
(* verify_signature                                                        *)

\* The challenge of the claimed wallet with the nonce of the message.
VerifyRead(v, w, n, sound) ==
  /\ verifies[v].pc = "idle"
  /\ challenges[w].nonce = n
  /\ sound => <<w, n>> \in signed
  /\ verifies' = [verifies EXCEPT ![v] =
       [pc |-> "consuming", wallet |-> w, nonce |-> n, id |-> challenges[w].id,
        sound |-> sound]]
  /\ UNCHANGED <<challenges, users, drawn, lapsed, signed, asks, tokens>>

\* Mutant: the DELETE names the key alone.
MatchedById(v, x) == challenges[x].id = verifies[v].id

\* The WHERE clause of the DELETE.
Matched(v, x) ==
  challenges[x].id = verifies[v].id /\ challenges[x].nonce = verifies[v].nonce

\* Mutant: the number of deleted rows is not tested.
VerifyConsumeUncounted(v, x) ==
  /\ verifies[v].pc = "consuming"
  /\ challenges' = IF Matched(v, x) THEN [challenges EXCEPT ![x] = NoRow] ELSE challenges
  /\ verifies' = [verifies EXCEPT ![v].pc = "checking"]
  /\ UNCHANGED <<users, drawn, lapsed, signed, asks, tokens>>

\* Mutant: the nonce is cleared and the row stays.
VerifyConsumeInPlace(v, x) ==
  /\ verifies[v].pc = "consuming"
  /\ Matched(v, x)
  /\ challenges' = [challenges EXCEPT ![x].nonce = NULL]
  /\ verifies' = [verifies EXCEPT ![v].pc = "checking"]
  /\ UNCHANGED <<users, drawn, lapsed, signed, asks, tokens>>

\* One row deleted, and committed: the challenge is used up before it is
\* checked.  With no row deleted the request ends with 401.
VerifyConsume(v, x) ==
  /\ verifies[v].pc = "consuming"
  /\ Matched(v, x)
  /\ challenges' = [challenges EXCEPT ![x] = NoRow]
  /\ verifies' = [verifies EXCEPT ![v].pc = "checking"]
  /\ UNCHANGED <<users, drawn, lapsed, signed, asks, tokens>>

\* Mutant: consuming the challenge is taken for the proof.
ConsumedIsAcceptable(v) == verifies[v].nonce \notin lapsed

\* Not past expires_at as it was selected, then verify_siwe_signature.
Acceptable(v) == verifies[v].nonce \notin lapsed /\ verifies[v].sound

\* The checks, and the SELECT of the user.
VerifyCheck(v) ==
  /\ verifies[v].pc = "checking"
  /\ Acceptable(v)
  /\ verifies' = [verifies EXCEPT ![v].pc =
                    IF users[verifies[v].wallet] = 0 THEN "entering" ELSE "answering"]
  /\ UNCHANGED <<challenges, users, drawn, lapsed, signed, asks, tokens>>

\* Mutant: addresses are not UNIQUE.
AnyUser(w) == TRUE

\* The UNIQUE constraint on users.connected_wallet_address.
FirstUser(w) == users[w] = 0

\* The first sign-in inserts the user; the loser of a race ends with 500.
VerifyEnter(v) ==
  LET w == verifies[v].wallet
  IN  /\ verifies[v].pc = "entering"
      /\ FirstUser(w)
      /\ users' = [users EXCEPT ![w] = @ + 1]
      /\ verifies' = [verifies EXCEPT ![v].pc = "answering"]
      /\ UNCHANGED <<challenges, drawn, lapsed, signed, asks, tokens>>

\* create_access_token
VerifyAnswer(v) ==
  LET w == verifies[v].wallet
      n == verifies[v].nonce
  IN  /\ verifies[v].pc = "answering"
      /\ tokens' = [tokens EXCEPT ![w][n] = @ + 1]
      /\ verifies' = [verifies EXCEPT ![v] = IdleVerify]
      /\ UNCHANGED <<challenges, users, drawn, lapsed, signed, asks>>

\* 401 for a failed check or a challenge that is gone, 500 for a lost race to
\* insert the user, or the process stops.
VerifyFail(v) ==
  /\ verifies[v].pc # "idle"
  /\ verifies' = [verifies EXCEPT ![v] = IdleVerify]
  /\ UNCHANGED <<challenges, users, drawn, lapsed, signed, asks, tokens>>

-----------------------------------------------------------------------------
Next ==
  \/ \E w \in Wallet, n \in Nonce : Sign(w, n)
  \/ \E n \in Nonce : Lapse(n)
  \/ \E a \in Ask, w \in Wallet, n \in Nonce : AskRead(a, w, n)
  \/ \E a \in Ask, id \in RowId : AskInsert(a, id)
  \/ \E a \in Ask, x \in Wallet : AskUpdate(a, x)
  \/ \E a \in Ask : AskConflict(a) \/ AskReread(a) \/ AskFail(a)
  \/ \E v \in Verify, w \in Wallet, n \in Nonce, sound \in BOOLEAN :
       VerifyRead(v, w, n, sound)
  \/ \E v \in Verify, x \in Wallet : VerifyConsume(v, x)
  \/ \E v \in Verify : VerifyCheck(v) \/ VerifyEnter(v) \/ VerifyAnswer(v)
  \/ \E v \in Verify : VerifyFail(v)

Spec == Init /\ [][Next]_vars

-----------------------------------------------------------------------------
(* Properties.                                                             *)

\* A challenge is good for one session, though verifications of it may run in
\* two threads, or come again.
OneTokenPerChallenge ==
  \A n \in Nonce, w, x \in Wallet :
    /\ tokens[w][n] <= 1
    /\ tokens[w][n] > 0 /\ tokens[x][n] > 0 => w = x

\* A verification that has used up its challenge and is not answered yet.
Redeemed == {v \in Verify : verifies[v].pc \in {"checking", "entering", "answering"}}

\* A session of a wallet rests on a message that this wallet signed, and its
\* nonce is spent: no row has it, of any wallet, and no verification is about
\* to answer for it, even when the keys of deleted rows come back.
TokenWasSigned ==
  \A w \in Wallet, n \in Nonce : tokens[w][n] > 0 =>
    /\ <<w, n>> \in signed
    /\ \A x \in Wallet : challenges[x].nonce # n
    /\ \A v \in Redeemed : verifies[v].nonce # n

\* First sign-ins of a wallet may race: there is never more than one user of an
\* address, and a token is only returned for a user that is stored.
TokenHasOneUser ==
  \A w \in Wallet :
    /\ users[w] <= 1
    /\ (\E n \in Nonce : tokens[w][n] > 0) => users[w] = 1

\* The two tables and the requests implement challenges that are open for one
\* wallet at a time and used once.
OneShot == INSTANCE OneShotChallenges WITH
  open <- [w \in Wallet |-> challenges[w].nonce],
  past <- {n \in drawn : \A a \in Ask : asks[a].nonce # n},
  redeemed <- {<<verifies[v].wallet, verifies[v].nonce>> : v \in Redeemed},
  sessions <- tokens

ImplementsOneShot == OneShot!Spec
=============================================================================
