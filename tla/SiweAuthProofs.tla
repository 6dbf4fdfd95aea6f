--------------------------- MODULE SiweAuthProofs ---------------------------
(***************************************************************************)
(* Proofs about SiweAuth, for any number of wallets, challenges and        *)
(* concurrent requests.  The invariant follows a nonce: a request that     *)
(* still asks for it, a stored row, a verification that has redeemed it    *)
(* and a token exclude each other, and each of the first three is unique.  *)
(***************************************************************************)
EXTENDS SiweAuth, TLAPS

Asking(a) == asks[a].pc # "idle"
Stored(x) == challenges[x] # NoRow
Verifying(v) == verifies[v].pc # "idle"

\* A slot without a request holds nothing.
IdleOK ==
  /\ \A a \in Ask : ~Asking(a) => asks[a] = IdleAsk
  /\ \A v \in Verify : ~Verifying(v) => verifies[v] = IdleVerify

\* The nonce of a request that asks is its own.
AskOK ==
  \A a \in Ask : Asking(a) =>
    LET n == asks[a].nonce
    IN  /\ asks[a].wallet \in Wallet /\ n \in Nonce /\ n \in drawn
        /\ \A b \in Ask \ {a} : asks[b].nonce # n
        /\ \A x \in Wallet : challenges[x].nonce # n /\ tokens[x][n] = 0
        /\ \A v \in Verify : verifies[v].nonce # n

\* The nonce of a row is in no other row, and neither redeemed nor granted.
RowOK ==
  \A x \in Wallet : Stored(x) =>
    LET n == challenges[x].nonce
    IN  /\ n \in drawn
        /\ \A y \in Wallet \ {x} : challenges[y].nonce # n
        /\ \A y \in Wallet : tokens[y][n] = 0
        /\ \A v \in Redeemed : verifies[v].nonce # n
        /\ \A v \in Verify : verifies[v].nonce = n => verifies[v].wallet = x

\* A redeemed nonce is redeemed by one request, which has no token for it yet
\* and is as far as its checks allow.
VerifyOK ==
  \A v \in Verify : Verifying(v) =>
    LET w == verifies[v].wallet
        n == verifies[v].nonce
    IN  /\ w \in Wallet /\ n \in Nonce /\ verifies[v].id # NULL /\ n \in drawn
        /\ verifies[v].sound => <<w, n>> \in signed
        /\ v \in Redeemed =>
             /\ \A u \in Redeemed \ {v} : verifies[u].nonce # n
             /\ \A x \in Wallet : tokens[x][n] = 0
        /\ verifies[v].pc \in {"entering", "answering"} => <<w, n>> \in signed
        /\ verifies[v].pc = "answering" => users[w] = 1

\* A nonce is granted once, to a wallet that signed it.
TokenOK ==
  \A w \in Wallet, n \in Nonce :
    /\ tokens[w][n] <= 1
    /\ tokens[w][n] > 0 =>
         /\ <<w, n>> \in signed /\ users[w] = 1
         /\ \A x \in Wallet \ {w} : tokens[x][n] = 0

SignedOK == \A w \in Wallet, n \in Nonce : <<w, n>> \in signed => n \in drawn

UserOK == \A w \in Wallet : users[w] <= 1

IInv == TypeOK /\ IdleOK /\ AskOK /\ RowOK /\ VerifyOK /\ TokenOK /\ SignedOK /\ UserOK

-----------------------------------------------------------------------------
(* The initial states.                                                     *)

LEMMA Starts == Init => IInv
  BY SiweAssumption
  DEF Init, IInv, TypeOK, IdleOK, AskOK, RowOK, VerifyOK, TokenOK, SignedOK, UserOK,
      Asking, Stored, Verifying, Redeemed, IdleAsk, IdleVerify, NoRow, Row,
      AskRequest, VerifyRequest

-----------------------------------------------------------------------------
(* The steps.                                                              *)

\* A key that was selected is the key of a row, if it is that of anything.
LEMMA StoredKey ==
  ASSUME IInv, NEW a \in Ask, NEW x \in Wallet,
         asks[a].found # NoRow, challenges[x].id = asks[a].found.id
  PROVE  challenges[x] \in Row
<1>1. asks[a].found \in Row
  BY DEF IInv, TypeOK, AskRequest
<1>2. challenges[x].id \in RowId
  BY <1>1 DEF Row
<1> QED
  BY <1>2, SiweAssumption DEF IInv, TypeOK, NoRow

LEMMA Signs ==
  ASSUME IInv, NEW w \in Wallet, NEW n \in Nonce, Sign(w, n)
  PROVE  IInv'
<1>1. TypeOK'
  BY DEF Sign, IInv, TypeOK
<1>2. IdleOK'
  BY DEF Sign, IInv, IdleOK, Asking, Verifying
<1>3. AskOK'
  BY DEF Sign, IInv, AskOK, Asking
<1>4. RowOK'
  BY DEF Sign, IInv, RowOK, Stored, Redeemed
<1>5. VerifyOK'
  BY DEF Sign, IInv, VerifyOK, Verifying, Redeemed
<1>6. TokenOK'
  BY DEF Sign, IInv, TokenOK
<1>7. SignedOK'
  BY DEF Sign, IInv, SignedOK
<1>8. UserOK'
  BY DEF Sign, IInv, UserOK
<1> QED
  BY <1>1, <1>2, <1>3, <1>4, <1>5, <1>6, <1>7, <1>8 DEF IInv

LEMMA Lapses ==
  ASSUME IInv, NEW n \in Nonce, Lapse(n)
  PROVE  IInv'
<1>1. TypeOK'
  BY DEF Lapse, IInv, TypeOK
<1>2. IdleOK'
  BY DEF Lapse, IInv, IdleOK, Asking, Verifying
<1>3. AskOK'
  BY DEF Lapse, IInv, AskOK, Asking
<1>4. RowOK'
  BY DEF Lapse, IInv, RowOK, Stored, Redeemed
<1>5. VerifyOK'
  BY DEF Lapse, IInv, VerifyOK, Verifying, Redeemed
<1>6. TokenOK'
  BY DEF Lapse, IInv, TokenOK
<1>7. SignedOK'
  BY DEF Lapse, IInv, SignedOK
<1>8. UserOK'
  BY DEF Lapse, IInv, UserOK
<1> QED
  BY <1>1, <1>2, <1>3, <1>4, <1>5, <1>6, <1>7, <1>8 DEF IInv

LEMMA AskReads ==
  ASSUME IInv, NEW a \in Ask, NEW w \in Wallet, NEW n \in Nonce, AskRead(a, w, n)
  PROVE  IInv'
<1>1. n \notin drawn /\ drawn' = drawn \cup {n} /\ w # NULL
  BY SiweAssumption DEF AskRead, IInv, TypeOK
<1>2. /\ asks' = [asks EXCEPT ![a] = asks'[a]]
      /\ asks'[a] \in AskRequest /\ asks'[a].pc = "writing"
      /\ asks'[a].nonce = n /\ asks'[a].wallet = w
  BY DEF AskRead, IInv, TypeOK, AskRequest
<1>3. /\ \A b \in Ask : asks[b].nonce # n
      /\ \A v \in Verify : verifies[v].nonce # n
      /\ \A x \in Wallet : challenges[x].nonce # n /\ tokens[x][n] = 0
  <2>1. \A b \in Ask : asks[b].nonce # n
    BY <1>1, SiweAssumption DEF IInv, AskOK, IdleOK, IdleAsk, Asking
  <2>2. \A v \in Verify : verifies[v].nonce # n
    <3>1. \A v \in Verify : Verifying(v) => verifies[v].nonce \in drawn
      BY DEF IInv, VerifyOK
    <3>2. \A v \in Verify : ~Verifying(v) => verifies[v].nonce = NULL
      BY DEF IInv, IdleOK, IdleVerify
    <3> QED
      BY <1>1, <3>1, <3>2, SiweAssumption
  <2>3. \A x \in Wallet : challenges[x].nonce # n
    BY <1>1, SiweAssumption DEF IInv, TypeOK, RowOK, Stored, NoRow
  <2>4. \A x \in Wallet : <<x, n>> \notin signed
    BY <1>1, SiweAssumption DEF IInv, SignedOK
  <2>5. ASSUME NEW x \in Wallet PROVE tokens[x][n] = 0
    <3>1. tokens[x][n] \in Nat
      BY DEF IInv, TypeOK
    <3>2. tokens[x][n] > 0 => <<x, n>> \in signed
      BY DEF IInv, TokenOK
    <3> QED
      BY <2>4, <3>1, <3>2
  <2> QED
    BY <2>1, <2>2, <2>3, <2>5
<1>4. TypeOK'
  BY <1>2 DEF AskRead, IInv, TypeOK
<1>5. IdleOK'
  BY <1>2 DEF AskRead, IInv, IdleOK, TypeOK, Asking, Verifying
<1>6. AskOK'
  <2>1. \A b \in Ask \ {a} : asks'[b] = asks[b]
    BY <1>2 DEF IInv, TypeOK
  <2> QED
    BY <1>1, <1>2, <1>3, <2>1 DEF AskRead, IInv, AskOK, Asking
<1>7. RowOK'
  BY <1>1, <1>3 DEF AskRead, IInv, TypeOK, RowOK, Stored, Redeemed
<1>8. VerifyOK'
  BY <1>1, <1>3 DEF AskRead, IInv, TypeOK, VerifyOK, Verifying, Redeemed
<1>9. TokenOK'
  BY DEF AskRead, IInv, TokenOK
<1>10. SignedOK'
  BY <1>1, SiweAssumption DEF AskRead, IInv, SignedOK
<1>11. UserOK'
  BY DEF AskRead, IInv, UserOK
<1> QED
  BY <1>4, <1>5, <1>6, <1>7, <1>8, <1>9, <1>10, <1>11 DEF IInv

LEMMA AskUpdates ==
  ASSUME IInv, NEW a \in Ask, NEW x \in Wallet, AskUpdate(a, x)
  PROVE  IInv'
<1> DEFINE n == asks[a].nonce
<1>1. /\ n \in Nonce /\ asks[a].wallet \in Wallet /\ n \in drawn
      /\ \A b \in Ask \ {a} : asks[b].nonce # n
      /\ \A y \in Wallet : challenges[y].nonce # n /\ tokens[y][n] = 0
      /\ \A v \in Verify : verifies[v].nonce # n
  BY SiweAssumption DEF AskUpdate, IInv, AskOK, Asking
<1>2. /\ challenges[x] \in Row
      /\ challenges' = [challenges EXCEPT ![x] = [id |-> challenges[x].id, nonce |-> n]]
  <2>4. challenges[x] \in Row
    BY StoredKey DEF AskUpdate
  <2> QED
    <3>1. challenges' = [challenges EXCEPT ![x] = [challenges[x] EXCEPT !.nonce = n]]
      BY DEF AskUpdate, IInv, TypeOK
    <3>2. [challenges[x] EXCEPT !.nonce = n] = [id |-> challenges[x].id, nonce |-> n]
      BY <2>4 DEF Row
    <3> QED
      BY <2>4, <3>1, <3>2
<1>3. /\ asks' = [asks EXCEPT ![a] = IdleAsk] /\ IdleAsk \in AskRequest
      /\ asks'[a] = IdleAsk /\ \A b \in Ask \ {a} : asks'[b] = asks[b]
  BY DEF AskUpdate, IInv, TypeOK, IdleAsk, AskRequest, NoRow
<1>4. /\ challenges'[x] \in Row /\ challenges'[x] # NoRow /\ challenges'[x].nonce = n
      /\ \A y \in Wallet \ {x} : challenges'[y] = challenges[y]
  BY <1>1, <1>2, SiweAssumption DEF IInv, TypeOK, Row, NoRow
<1>5. TypeOK'
  BY <1>1, <1>2, <1>3, <1>4 DEF AskUpdate, IInv, TypeOK, Row
<1>6. IdleOK'
  BY <1>3 DEF AskUpdate, IInv, IdleOK, Asking, Verifying
<1>7. AskOK'
  <2>1. \A b \in Ask : asks'[b].pc # "idle" => b # a /\ asks'[b] = asks[b] /\ asks[b].nonce # n
    BY <1>1, <1>3 DEF IdleAsk
  <2>2. \A b \in Ask : asks'[b].nonce = NULL \/ (b # a /\ asks'[b] = asks[b])
    BY <1>3 DEF IdleAsk
  <2>3. \A y \in Wallet : challenges'[y].nonce \in {n, challenges[y].nonce}
    BY <1>4
  <2> QED
    BY <2>1, <2>2, <2>3, SiweAssumption DEF AskUpdate, IInv, AskOK, Asking
<1>8. RowOK'
  BY <1>1, <1>4 DEF AskUpdate, IInv, RowOK, Stored, Redeemed
<1>9. VerifyOK'
  BY DEF AskUpdate, IInv, VerifyOK, Verifying, Redeemed
<1>10. TokenOK'
  BY DEF AskUpdate, IInv, TokenOK
<1>11. SignedOK'
  BY DEF AskUpdate, IInv, SignedOK
<1>12. UserOK'
  BY DEF AskUpdate, IInv, UserOK
<1> QED
  BY <1>5, <1>6, <1>7, <1>8, <1>9, <1>10, <1>11, <1>12 DEF IInv

LEMMA AskInserts ==
  ASSUME IInv, NEW a \in Ask, NEW id \in RowId, AskInsert(a, id)
  PROVE  IInv'
<1> DEFINE n == asks[a].nonce
<1> DEFINE w == asks[a].wallet
<1>1. /\ n \in Nonce /\ asks[a].wallet \in Wallet /\ n \in drawn
      /\ \A b \in Ask \ {a} : asks[b].nonce # n
      /\ \A y \in Wallet : challenges[y].nonce # n /\ tokens[y][n] = 0
      /\ \A v \in Verify : verifies[v].nonce # n
  BY SiweAssumption DEF AskInsert, IInv, AskOK, Asking
<1>2. /\ challenges' = [challenges EXCEPT ![w] = [id |-> id, nonce |-> n]]
  BY DEF AskInsert
<1>3. /\ asks' = [asks EXCEPT ![a] = IdleAsk] /\ IdleAsk \in AskRequest
      /\ asks'[a] = IdleAsk /\ \A b \in Ask \ {a} : asks'[b] = asks[b]
  BY DEF AskInsert, IInv, TypeOK, IdleAsk, AskRequest, NoRow
<1>4. /\ challenges'[w] \in Row /\ challenges'[w] # NoRow /\ challenges'[w].nonce = n
      /\ \A y \in Wallet \ {w} : challenges'[y] = challenges[y]
  BY <1>1, <1>2, SiweAssumption DEF IInv, TypeOK, Row, NoRow
<1>5. TypeOK'
  BY <1>1, <1>2, <1>3, <1>4 DEF AskInsert, IInv, TypeOK, Row
<1>6. IdleOK'
  BY <1>3 DEF AskInsert, IInv, IdleOK, Asking, Verifying
<1>7. AskOK'
  <2>1. \A b \in Ask : asks'[b].pc # "idle" => b # a /\ asks'[b] = asks[b] /\ asks[b].nonce # n
    BY <1>1, <1>3 DEF IdleAsk
  <2>2. \A b \in Ask : asks'[b].nonce = NULL \/ (b # a /\ asks'[b] = asks[b])
    BY <1>3 DEF IdleAsk
  <2>3. \A y \in Wallet : challenges'[y].nonce \in {n, challenges[y].nonce}
    BY <1>4
  <2> QED
    BY <2>1, <2>2, <2>3, SiweAssumption DEF AskInsert, IInv, AskOK, Asking
<1>8. RowOK'
  BY <1>1, <1>4 DEF AskInsert, IInv, RowOK, Stored, Redeemed
<1>9. VerifyOK'
  BY DEF AskInsert, IInv, VerifyOK, Verifying, Redeemed
<1>10. TokenOK'
  BY DEF AskInsert, IInv, TokenOK
<1>11. SignedOK'
  BY DEF AskInsert, IInv, SignedOK
<1>12. UserOK'
  BY DEF AskInsert, IInv, UserOK
<1> QED
  BY <1>5, <1>6, <1>7, <1>8, <1>9, <1>10, <1>11, <1>12 DEF IInv

LEMMA AskConflicts ==
  ASSUME IInv, NEW a \in Ask, AskConflict(a)
  PROVE  IInv'
<1>1. /\ asks'[a] = [asks[a] EXCEPT !.pc = "conflict"] /\ asks'[a] \in AskRequest
      /\ asks' = [asks EXCEPT ![a] = asks'[a]]
  BY DEF AskConflict, IInv, TypeOK, AskRequest
<1>2. /\ asks[a].pc # "idle" /\ asks'[a].pc # "idle"
      /\ asks'[a].nonce = asks[a].nonce /\ asks'[a].wallet = asks[a].wallet
      /\ \A b \in Ask \ {a} : asks'[b] = asks[b]
  BY <1>1 DEF AskConflict, IInv, TypeOK, AskRequest
<1>3. TypeOK'
  BY <1>1 DEF AskConflict, IInv, TypeOK
<1>4. IdleOK'
  BY <1>2 DEF AskConflict, IInv, IdleOK, Asking, Verifying
<1>5. AskOK'
  BY <1>2 DEF AskConflict, IInv, AskOK, Asking
<1>6. RowOK'
  BY DEF AskConflict, IInv, RowOK, Stored, Redeemed
<1>7. VerifyOK'
  BY DEF AskConflict, IInv, VerifyOK, Verifying, Redeemed
<1>8. TokenOK'
  BY DEF AskConflict, IInv, TokenOK
<1>9. SignedOK'
  BY DEF AskConflict, IInv, SignedOK
<1>10. UserOK'
  BY DEF AskConflict, IInv, UserOK
<1> QED
  BY <1>3, <1>4, <1>5, <1>6, <1>7, <1>8, <1>9, <1>10 DEF IInv

LEMMA AskRereads ==
  ASSUME IInv, NEW a \in Ask, AskReread(a)
  PROVE  IInv'
<1> DEFINE row == challenges[asks[a].wallet]
<1>1. row \in Row
  BY DEF AskReread, IInv, TypeOK, AskOK, Asking
<1>2. /\ asks'[a] = [asks[a] EXCEPT !.pc = "writing", !.found = row]
      /\ asks' = [asks EXCEPT ![a] = asks'[a]]
  BY DEF AskReread, IInv, TypeOK
<1>3. asks'[a] \in AskRequest
  <2>1. asks[a] \in AskRequest /\ asks'[a] = [asks[a] EXCEPT !.pc = "writing", !.found = row]
    BY <1>2 DEF IInv, TypeOK
  <2> HIDE DEF row
  <2> QED
    BY <1>1, <2>1 DEF AskRequest
<1>4. /\ asks[a].pc # "idle" /\ asks'[a].pc # "idle"
      /\ asks'[a].nonce = asks[a].nonce /\ asks'[a].wallet = asks[a].wallet
      /\ \A b \in Ask \ {a} : asks'[b] = asks[b]
  BY <1>2 DEF AskReread, IInv, TypeOK, AskRequest
<1>5. TypeOK'
  BY <1>2, <1>3 DEF AskReread, IInv, TypeOK
<1>6. IdleOK'
  BY <1>4 DEF AskReread, IInv, IdleOK, Asking, Verifying
<1>7. AskOK'
  <2>1. UNCHANGED <<drawn, challenges, tokens, verifies>>
    BY DEF AskReread
  <2> QED
    BY <1>4, <2>1 DEF IInv, AskOK, Asking
<1>8. RowOK'
  BY DEF AskReread, IInv, RowOK, Stored, Redeemed
<1>9. VerifyOK'
  BY DEF AskReread, IInv, VerifyOK, Verifying, Redeemed
<1>10. TokenOK'
  BY DEF AskReread, IInv, TokenOK
<1>11. SignedOK'
  BY DEF AskReread, IInv, SignedOK
<1>12. UserOK'
  BY DEF AskReread, IInv, UserOK
<1> QED
  BY <1>5, <1>6, <1>7, <1>8, <1>9, <1>10, <1>11, <1>12 DEF IInv

LEMMA AskFails ==
  ASSUME IInv, NEW a \in Ask, AskFail(a)
  PROVE  IInv'
<1>1. /\ asks' = [asks EXCEPT ![a] = IdleAsk] /\ IdleAsk \in AskRequest
      /\ asks'[a] = IdleAsk /\ \A b \in Ask \ {a} : asks'[b] = asks[b]
  BY DEF AskFail, IInv, TypeOK, IdleAsk, AskRequest, NoRow
<1>2. TypeOK'
  BY <1>1 DEF AskFail, IInv, TypeOK
<1>3. IdleOK'
  BY <1>1 DEF AskFail, IInv, IdleOK, Asking, Verifying
<1>4. AskOK'
  BY <1>1, SiweAssumption DEF AskFail, IInv, AskOK, Asking, IdleAsk
<1>5. RowOK'
  BY DEF AskFail, IInv, RowOK, Stored, Redeemed
<1>6. VerifyOK'
  BY DEF AskFail, IInv, VerifyOK, Verifying, Redeemed
<1>7. TokenOK'
  BY DEF AskFail, IInv, TokenOK
<1>8. SignedOK'
  BY DEF AskFail, IInv, SignedOK
<1>9. UserOK'
  BY DEF AskFail, IInv, UserOK
<1> QED
  BY <1>2, <1>3, <1>4, <1>5, <1>6, <1>7, <1>8, <1>9 DEF IInv

LEMMA VerifyReads ==
  ASSUME IInv, NEW v \in Verify, NEW w \in Wallet, NEW n \in Nonce,
         NEW sound \in BOOLEAN, VerifyRead(v, w, n, sound)
  PROVE  IInv'
<1>1. /\ challenges[w] \in Row /\ n \in drawn
      /\ \A a \in Ask : asks[a].nonce # n
      /\ \A y \in Wallet \ {w} : challenges[y].nonce # n
  <2>1. challenges[w] \in Row
    BY SiweAssumption DEF VerifyRead, IInv, TypeOK, NoRow
  <2>2. \A a \in Ask : asks[a].nonce # n
    BY SiweAssumption DEF VerifyRead, IInv, AskOK, IdleOK, Asking, IdleAsk
  <2> QED
    BY <2>1, <2>2, SiweAssumption DEF VerifyRead, IInv, RowOK, Stored, Row, NoRow
<1>2. /\ verifies'[v] = [pc |-> "consuming", wallet |-> w, nonce |-> n,
                         id |-> challenges[w].id, sound |-> sound]
      /\ verifies' = [verifies EXCEPT ![v] = verifies'[v]]
      /\ \A u \in Verify \ {v} : verifies'[u] = verifies[u]
  BY DEF VerifyRead, IInv, TypeOK
<1>3. challenges[w].id \in RowId /\ challenges[w].id # NULL
  BY <1>1, SiweAssumption DEF Row
<1>4. v \notin Redeemed /\ Redeemed' = Redeemed
  BY <1>2 DEF Redeemed, VerifyRead
<1>5. TypeOK'
  BY <1>2, <1>3 DEF VerifyRead, IInv, TypeOK, VerifyRequest
<1>6. IdleOK'
  BY <1>2 DEF VerifyRead, IInv, IdleOK, Asking, Verifying
<1>7. AskOK'
  BY <1>1, <1>2 DEF VerifyRead, IInv, AskOK, Asking
<1>8. RowOK'
  <2>1. \A u \in Redeemed : u \in Verify /\ verifies'[u] = verifies[u]
    BY <1>2, <1>4 DEF Redeemed
  <2> QED
    BY <1>1, <1>2, <1>4, <2>1 DEF VerifyRead, IInv, RowOK, Stored
<1>9. VerifyOK'
  <2>1. \A u \in Redeemed : u \in Verify /\ verifies'[u] = verifies[u]
    BY <1>2, <1>4 DEF Redeemed
  <2>2. /\ verifies'[v].wallet = w /\ verifies'[v].nonce = n /\ verifies'[v].sound = sound
        /\ verifies'[v].pc = "consuming" /\ verifies'[v].id = challenges[w].id
    BY <1>2
  <2> QED
    BY <1>1, <1>2, <1>3, <1>4, <2>1, <2>2 DEF VerifyRead, IInv, VerifyOK, Verifying
<1>10. TokenOK'
  BY DEF VerifyRead, IInv, TokenOK
<1>11. SignedOK'
  BY DEF VerifyRead, IInv, SignedOK
<1>12. UserOK'
  BY DEF VerifyRead, IInv, UserOK
<1> QED
  BY <1>5, <1>6, <1>7, <1>8, <1>9, <1>10, <1>11, <1>12 DEF IInv

LEMMA VerifyConsumes ==
  ASSUME IInv, NEW v \in Verify, NEW x \in Wallet, VerifyConsume(v, x)
  PROVE  IInv'
<1>1. /\ verifies'[v] = [verifies[v] EXCEPT !.pc = verifies'[v].pc]
      /\ verifies'[v].pc = "checking" /\ verifies[v].pc = "consuming"
      /\ verifies' = [verifies EXCEPT ![v] = verifies'[v]]
      /\ \A u \in Verify \ {v} : verifies'[u] = verifies[u]
  BY DEF VerifyConsume, IInv, TypeOK, VerifyRequest
<1>2. /\ verifies'[v] \in VerifyRequest
      /\ verifies'[v].wallet = verifies[v].wallet /\ verifies'[v].nonce = verifies[v].nonce
      /\ verifies'[v].sound = verifies[v].sound /\ verifies'[v].id = verifies[v].id
      /\ verifies'[v].pc # "idle" /\ verifies[v].pc # "idle"
  BY <1>1 DEF IInv, TypeOK, VerifyRequest
<1>3. Redeemed' = Redeemed \cup {v} /\ v \notin Redeemed
  BY <1>1 DEF Redeemed
<1>4. /\ challenges[x] # NoRow /\ challenges[x].nonce = verifies[v].nonce
      /\ verifies[v].nonce \in Nonce
  <2>1. verifies[v].nonce \in Nonce
    BY <1>1 DEF IInv, VerifyOK, Verifying
  <2> QED
    BY <2>1, SiweAssumption DEF VerifyConsume, Matched, NoRow
<1>5. /\ challenges'[x] = NoRow /\ \A y \in Wallet \ {x} : challenges'[y] = challenges[y]
      /\ challenges' = [challenges EXCEPT ![x] = NoRow]
  BY DEF VerifyConsume, IInv, TypeOK
<1>6. TypeOK'
  BY <1>1, <1>2, <1>5 DEF VerifyConsume, IInv, TypeOK
<1>7. IdleOK'
  BY <1>1, <1>2 DEF VerifyConsume, IInv, IdleOK, Asking, Verifying
<1>8. AskOK'
  BY <1>1, <1>2, <1>5, SiweAssumption DEF VerifyConsume, IInv, AskOK, Asking, NoRow
<1>9. RowOK'
  <2>1. \A y \in Wallet : challenges'[y] # NoRow =>
          y # x /\ challenges[y] # NoRow /\ challenges'[y] = challenges[y]
    BY <1>5
  <2>2. \A y \in Wallet \ {x} : challenges[y].nonce # verifies[v].nonce
    BY <1>4 DEF IInv, RowOK, Stored
  <2>3. \A y, z \in Wallet : challenges'[y] # NoRow /\ z # y =>
          challenges'[z].nonce # challenges'[y].nonce
    <3> SUFFICES ASSUME NEW y \in Wallet, NEW z \in Wallet, challenges'[y] # NoRow, z # y
                 PROVE  challenges'[z].nonce # challenges'[y].nonce
      OBVIOUS
    <3>1. challenges[y].nonce \in Nonce
      BY <2>1 DEF IInv, TypeOK, Row
    <3> QED
      BY <1>5, <2>1, <3>1, SiweAssumption DEF IInv, RowOK, Stored, NoRow
  <2>4. \A y \in Wallet : challenges'[y] # NoRow =>
          \A u \in Redeemed' : verifies'[u].nonce # challenges'[y].nonce
    BY <1>1, <1>2, <1>3, <2>1, <2>2 DEF IInv, RowOK, Stored, Redeemed
  <2> QED
    BY <1>1, <1>2, <2>1, <2>3, <2>4 DEF VerifyConsume, IInv, RowOK, Stored
<1>10. VerifyOK'
  <2>1. /\ \A u \in Redeemed : verifies[u].nonce # verifies[v].nonce
        /\ \A y \in Wallet : tokens[y][verifies[v].nonce] = 0
    BY <1>4 DEF IInv, RowOK, Stored
  <2>2. \A u \in Redeemed : u \in Verify \ {v} /\ verifies'[u] = verifies[u]
    BY <1>1 DEF Redeemed
  <2> QED
    BY <1>1, <1>2, <1>3, <2>1, <2>2 DEF VerifyConsume, IInv, VerifyOK, Verifying
<1>11. TokenOK'
  BY DEF VerifyConsume, IInv, TokenOK
<1>12. SignedOK'
  BY DEF VerifyConsume, IInv, SignedOK
<1>13. UserOK'
  BY DEF VerifyConsume, IInv, UserOK
<1> QED
  BY <1>6, <1>7, <1>8, <1>9, <1>10, <1>11, <1>12, <1>13 DEF IInv

LEMMA VerifyChecks ==
  ASSUME IInv, NEW v \in Verify, VerifyCheck(v)
  PROVE  IInv'
<1>1. /\ verifies'[v] = [verifies[v] EXCEPT !.pc = verifies'[v].pc]
      /\ verifies'[v].pc \in {"entering", "answering"} /\ verifies[v].pc = "checking"
      /\ verifies' = [verifies EXCEPT ![v] = verifies'[v]]
      /\ \A u \in Verify \ {v} : verifies'[u] = verifies[u]
  BY DEF VerifyCheck, IInv, TypeOK, VerifyRequest
<1>2. /\ verifies'[v] \in VerifyRequest
      /\ verifies'[v].wallet = verifies[v].wallet /\ verifies'[v].nonce = verifies[v].nonce
      /\ verifies'[v].sound = verifies[v].sound /\ verifies'[v].id = verifies[v].id
      /\ verifies'[v].pc # "idle" /\ verifies[v].pc # "idle"
  BY <1>1 DEF IInv, TypeOK, VerifyRequest
<1>3. Redeemed' = Redeemed
  BY <1>1, <1>2 DEF Redeemed
<1>4. TypeOK'
  BY <1>1, <1>2 DEF VerifyCheck, IInv, TypeOK
<1>5. IdleOK'
  BY <1>1, <1>2 DEF VerifyCheck, IInv, IdleOK, Asking, Verifying
<1>6. AskOK'
  BY <1>1, <1>2 DEF VerifyCheck, IInv, AskOK, Asking
<1>7. RowOK'
  BY <1>1, <1>2, <1>3 DEF VerifyCheck, IInv, RowOK, Stored, Redeemed
<1>8. VerifyOK'
  <2>1. /\ verifies[v].sound
        /\ verifies'[v].pc = IF users[verifies[v].wallet] = 0 THEN "entering" ELSE "answering"
    BY <1>1 DEF VerifyCheck, Acceptable, IInv, TypeOK
  <2>2. verifies[v].wallet \in Wallet
    BY <1>2 DEF IInv, VerifyOK, Verifying
  <2>3. verifies'[v].pc = "answering" => users[verifies[v].wallet] = 1
    <3>1. users[verifies[v].wallet] \in Nat /\ users[verifies[v].wallet] <= 1
      BY <2>2 DEF IInv, TypeOK, UserOK
    <3> QED
      BY <2>1, <3>1
  <2> QED
    BY <1>1, <1>2, <1>3, <2>1, <2>3 DEF VerifyCheck, IInv, VerifyOK, Verifying, Redeemed
<1>9. TokenOK'
  BY DEF VerifyCheck, IInv, TokenOK
<1>10. SignedOK'
  BY DEF VerifyCheck, IInv, SignedOK
<1>11. UserOK'
  BY DEF VerifyCheck, IInv, UserOK
<1> QED
  BY <1>4, <1>5, <1>6, <1>7, <1>8, <1>9, <1>10, <1>11 DEF IInv

LEMMA VerifyEnters ==
  ASSUME IInv, NEW v \in Verify, VerifyEnter(v)
  PROVE  IInv'
<1>1. /\ verifies'[v] = [verifies[v] EXCEPT !.pc = verifies'[v].pc]
      /\ verifies'[v].pc = "answering" /\ verifies[v].pc = "entering"
      /\ verifies' = [verifies EXCEPT ![v] = verifies'[v]]
      /\ \A u \in Verify \ {v} : verifies'[u] = verifies[u]
  BY DEF VerifyEnter, IInv, TypeOK, VerifyRequest
<1>2. /\ verifies'[v] \in VerifyRequest
      /\ verifies'[v].wallet = verifies[v].wallet /\ verifies'[v].nonce = verifies[v].nonce
      /\ verifies'[v].sound = verifies[v].sound /\ verifies'[v].id = verifies[v].id
      /\ verifies'[v].pc # "idle" /\ verifies[v].pc # "idle"
  BY <1>1 DEF IInv, TypeOK, VerifyRequest
<1>3. Redeemed' = Redeemed
  BY <1>1, <1>2 DEF Redeemed
<1>4. /\ verifies[v].wallet \in Wallet
      /\ users' = [users EXCEPT ![verifies[v].wallet] = 1]
      /\ users'[verifies[v].wallet] = 1
      /\ \A w \in Wallet \ {verifies[v].wallet} : users'[w] = users[w]
  <2>1. verifies[v].wallet \in Wallet
    BY <1>2 DEF IInv, VerifyOK, Verifying
  <2> QED
    BY <2>1 DEF VerifyEnter, FirstUser, IInv, TypeOK
<1>5. TypeOK'
  BY <1>1, <1>2, <1>4 DEF VerifyEnter, IInv, TypeOK
<1>6. IdleOK'
  BY <1>1, <1>2 DEF VerifyEnter, IInv, IdleOK, Asking, Verifying
<1>7. AskOK'
  BY <1>1, <1>2 DEF VerifyEnter, IInv, AskOK, Asking
<1>8. RowOK'
  BY <1>1, <1>2, <1>3 DEF VerifyEnter, IInv, RowOK, Stored, Redeemed
<1>9. VerifyOK'
  BY <1>1, <1>2, <1>3, <1>4 DEF VerifyEnter, IInv, VerifyOK, Verifying, Redeemed
<1>10. TokenOK'
  <2>1. UNCHANGED <<tokens, signed>>
    BY DEF VerifyEnter
  <2>2. \A w \in Wallet : users[w] = 1 => users'[w] = 1
    BY <1>4
  <2> QED
    BY <2>1, <2>2 DEF IInv, TokenOK
<1>11. SignedOK'
  BY DEF VerifyEnter, IInv, SignedOK
<1>12. UserOK'
  BY <1>4 DEF VerifyEnter, IInv, UserOK
<1> QED
  BY <1>5, <1>6, <1>7, <1>8, <1>9, <1>10, <1>11, <1>12 DEF IInv

LEMMA VerifyAnswers ==
  ASSUME IInv, NEW v \in Verify, VerifyAnswer(v)
  PROVE  IInv'
<1> DEFINE w == verifies[v].wallet
<1> DEFINE n == verifies[v].nonce
<1>1. /\ verifies' = [verifies EXCEPT ![v] = IdleVerify] /\ IdleVerify \in VerifyRequest
      /\ verifies'[v] = IdleVerify /\ \A u \in Verify \ {v} : verifies'[u] = verifies[u]
  BY DEF VerifyAnswer, IInv, TypeOK, IdleVerify, VerifyRequest
<1>2. Redeemed' = Redeemed \ {v} /\ Redeemed \subseteq Verify
  BY <1>1 DEF Redeemed, IdleVerify
<1>3. /\ v \in Redeemed /\ verifies[v].pc # "idle"
      /\ w \in Wallet /\ n \in Nonce /\ <<w, n>> \in signed /\ users[w] = 1
      /\ tokens[w][n] = 0
  BY DEF VerifyAnswer, IInv, VerifyOK, Verifying, Redeemed
<1>4. /\ tokens' = [tokens EXCEPT ![w] = [tokens[w] EXCEPT ![n] = 1]]
      /\ tokens' \in [Wallet -> [Nonce -> Nat]]
  BY <1>3 DEF VerifyAnswer, IInv, TypeOK
<1>5. \A x \in Wallet, m \in Nonce : m # n \/ x # w => tokens'[x][m] = tokens[x][m]
  BY <1>3, <1>4 DEF IInv, TypeOK
<1>6. tokens'[w][n] = 1
  BY <1>3, <1>4 DEF IInv, TypeOK
<1>7. TypeOK'
  BY <1>1, <1>4 DEF VerifyAnswer, IInv, TypeOK
<1>8. IdleOK'
  BY <1>1 DEF VerifyAnswer, IInv, IdleOK, Asking, Verifying
<1>9. AskOK'
  BY <1>1, <1>3, <1>5, SiweAssumption DEF VerifyAnswer, IInv, AskOK, Asking, IdleVerify
<1>10. RowOK'
  <2>1. \A x \in Wallet : Stored(x) =>
          challenges[x].nonce \in Nonce /\ challenges[x].nonce # n
    BY <1>3 DEF IInv, TypeOK, RowOK, Stored, Row
  <2> QED
    BY <1>1, <1>2, <1>5, <2>1, SiweAssumption DEF VerifyAnswer, IInv, RowOK, Stored, IdleVerify
<1>11. VerifyOK'
  <2>1. \A u \in Redeemed \ {v} : verifies[u].nonce # n
    BY <1>3 DEF IInv, VerifyOK, Verifying
  <2>2. /\ UNCHANGED <<drawn, signed, users>>
        /\ \A u \in Verify : verifies'[u].pc # "idle" =>
             u # v /\ verifies[u].pc # "idle" /\ verifies'[u] = verifies[u]
    BY <1>1 DEF VerifyAnswer, IdleVerify
  <2>3. \A u \in Redeemed' : u \in Redeemed /\ verifies'[u] = verifies[u]
    BY <1>1, <1>2
  <2>4. ASSUME NEW u \in Redeemed', NEW x \in Wallet, verifies[u].nonce \in Nonce
        PROVE  tokens'[x][verifies[u].nonce] = tokens[x][verifies[u].nonce]
    BY <1>2, <1>5, <2>1, <2>4
  <2>5. \A u \in Verify : verifies[u].pc # "idle" => verifies[u].nonce \in Nonce
    BY DEF IInv, VerifyOK, Verifying
  <2> HIDE DEF w, n
  <2> QED
    BY <2>2, <2>3, <2>4, <2>5 DEF IInv, VerifyOK, Verifying
<1>12. TokenOK'
  <2>1. UNCHANGED <<signed, users>>
    BY DEF VerifyAnswer
  <2> SUFFICES ASSUME NEW x \in Wallet, NEW m \in Nonce
               PROVE  /\ tokens'[x][m] <= 1
                      /\ tokens'[x][m] > 0 =>
                           /\ <<x, m>> \in signed /\ users[x] = 1
                           /\ \A y \in Wallet \ {x} : tokens'[y][m] = 0
    BY <2>1 DEF TokenOK
  <2>4. \A y \in Wallet : tokens[y][n] = 0
    BY <1>3 DEF IInv, VerifyOK, Verifying
  <2>2. CASE x = w /\ m = n
    BY <1>3, <1>5, <1>6, <2>2, <2>4
  <2>3. CASE ~(x = w /\ m = n)
    <3>1. CASE m = n
      BY <1>5, <2>3, <2>4, <3>1
    <3>2. CASE m # n
      BY <1>5, <3>2 DEF IInv, TokenOK
    <3> QED
      BY <3>1, <3>2
  <2> QED
    BY <2>2, <2>3
<1>13. SignedOK'
  BY DEF VerifyAnswer, IInv, SignedOK
<1>14. UserOK'
  BY DEF VerifyAnswer, IInv, UserOK
<1> QED
  BY <1>7, <1>8, <1>9, <1>10, <1>11, <1>12, <1>13, <1>14 DEF IInv

LEMMA VerifyFails ==
  ASSUME IInv, NEW v \in Verify, VerifyFail(v)
  PROVE  IInv'
<1>1. /\ verifies' = [verifies EXCEPT ![v] = IdleVerify] /\ IdleVerify \in VerifyRequest
      /\ verifies'[v] = IdleVerify /\ \A u \in Verify \ {v} : verifies'[u] = verifies[u]
  BY DEF VerifyFail, IInv, TypeOK, IdleVerify, VerifyRequest
<1>2. Redeemed' = Redeemed \ {v} /\ Redeemed \subseteq Verify
  BY <1>1 DEF Redeemed, IdleVerify
<1>3. TypeOK'
  BY <1>1 DEF VerifyFail, IInv, TypeOK
<1>4. IdleOK'
  BY <1>1 DEF VerifyFail, IInv, IdleOK, Asking, Verifying
<1>5. AskOK'
  BY <1>1, SiweAssumption DEF VerifyFail, IInv, AskOK, Asking, IdleVerify
<1>6. RowOK'
  <2>1. \A x \in Wallet : Stored(x) => challenges[x].nonce \in Nonce
    BY DEF IInv, TypeOK, Stored, Row
  <2> QED
    BY <1>1, <1>2, <2>1, SiweAssumption DEF VerifyFail, IInv, RowOK, Stored, IdleVerify
<1>7. VerifyOK'
  BY <1>1, <1>2 DEF VerifyFail, IInv, VerifyOK, Verifying, IdleVerify
<1>8. TokenOK'
  BY DEF VerifyFail, IInv, TokenOK
<1>9. SignedOK'
  BY DEF VerifyFail, IInv, SignedOK
<1>10. UserOK'
  BY DEF VerifyFail, IInv, UserOK
<1> QED
  BY <1>3, <1>4, <1>5, <1>6, <1>7, <1>8, <1>9, <1>10 DEF IInv

-----------------------------------------------------------------------------
(* Theorems.                                                               *)

\* The invariant: what each request, row and token says of its nonce.
THEOREM Inductive == Spec => []IInv
<1>1. Init => IInv
  BY Starts
<1>2. IInv /\ [Next]_vars => IInv'
  <2> SUFFICES ASSUME IInv, [Next]_vars PROVE IInv'
    OBVIOUS
  <2>1. CASE UNCHANGED vars
    BY <2>1 DEF vars, IInv, TypeOK, IdleOK, AskOK, RowOK, VerifyOK, TokenOK, SignedOK,
               UserOK, Asking, Stored, Verifying, Redeemed
  <2>2. CASE Next
    BY <2>2, Signs, Lapses, AskReads, AskUpdates, AskInserts, AskConflicts, AskRereads,
       AskFails, VerifyReads, VerifyConsumes, VerifyChecks, VerifyEnters, VerifyAnswers,
       VerifyFails
    DEF Next
  <2> QED
    BY <2>1, <2>2
<1> QED
  BY <1>1, <1>2, PTL DEF Spec

\* Challenges, users, requests and tokens keep their types.
THEOREM TypeCorrect == Spec => []TypeOK
<1>1. IInv => TypeOK
  BY DEF IInv
<1> QED
  BY <1>1, Inductive, PTL

\* A challenge yields one session at most, for one wallet, in any number of
\* threads and processes.
THEOREM ChallengesAreOneShot == Spec => []OneTokenPerChallenge
<1>1. IInv => OneTokenPerChallenge
  <2> SUFFICES ASSUME IInv, NEW n \in Nonce, NEW w \in Wallet, NEW x \in Wallet
               PROVE  /\ tokens[w][n] <= 1
                      /\ tokens[w][n] > 0 /\ tokens[x][n] > 0 => w = x
    BY DEF OneTokenPerChallenge
  <2>1. tokens[w][n] <= 1
    BY DEF IInv, TokenOK
  <2>2. tokens[w][n] > 0 /\ x # w => tokens[x][n] = 0
    BY DEF IInv, TokenOK
  <2> QED
    BY <2>1, <2>2
<1> QED
  BY <1>1, Inductive, PTL

\* Every session rests on a message its wallet signed with the nonce, which no
\* row and no verification has any more.
THEOREM SessionsAreSigned == Spec => []TokenWasSigned
<1>1. IInv => TokenWasSigned
  <2> SUFFICES ASSUME IInv, NEW w \in Wallet, NEW n \in Nonce, tokens[w][n] > 0
               PROVE  /\ <<w, n>> \in signed
                      /\ \A x \in Wallet : challenges[x].nonce # n
                      /\ \A v \in Redeemed : verifies[v].nonce # n
    BY DEF TokenWasSigned
  <2>1. <<w, n>> \in signed
    BY DEF IInv, TokenOK
  <2>2. tokens[w][n] # 0
    OBVIOUS
  <2>3. ASSUME NEW x \in Wallet PROVE challenges[x].nonce # n
    <3>1. Stored(x) => tokens[w][challenges[x].nonce] = 0
      BY DEF IInv, RowOK
    <3>2. ~Stored(x) => challenges[x].nonce = NULL
      BY DEF Stored, NoRow
    <3> QED
      BY <2>2, <3>1, <3>2, SiweAssumption
  <2>4. ASSUME NEW v \in Redeemed PROVE verifies[v].nonce # n
    <3>1. v \in Verify /\ Verifying(v)
      BY DEF Redeemed, Verifying
    <3>2. tokens[w][verifies[v].nonce] = 0
      BY <3>1 DEF IInv, VerifyOK
    <3> QED
      BY <2>2, <3>2
  <2> QED
    BY <2>1, <2>3, <2>4
<1> QED
  BY <1>1, Inductive, PTL

\* Every session is that of the one user of its address.
THEOREM SessionsHaveUsers == Spec => []TokenHasOneUser
<1>1. IInv => TokenHasOneUser
  BY DEF IInv, TokenOK, UserOK, TokenHasOneUser
<1> QED
  BY <1>1, Inductive, PTL

-----------------------------------------------------------------------------
(* Refinement: the tables and the requests implement one-shot challenges.  *)

Open == [w \in Wallet |-> challenges[w].nonce]
Past == {n \in drawn : \A a \in Ask : asks[a].nonce # n}
Taken == {<<verifies[v].wallet, verifies[v].nonce>> : v \in Redeemed}

\* A request that ends leaves its nonce in the past.
LEMMA EndsAsking ==
  ASSUME IInv, NEW a \in Ask, Asking(a), asks' = [asks EXCEPT ![a] = IdleAsk], drawn' = drawn
  PROVE  /\ asks[a].nonce \in Nonce
         /\ asks[a].nonce \notin Past
         /\ Past' = Past \cup {asks[a].nonce}
<1> DEFINE n == asks[a].nonce
<1>1. /\ n \in Nonce /\ n \in drawn
      /\ \A b \in Ask \ {a} : asks[b].nonce # n
      /\ drawn \subseteq Nonce
  BY SiweAssumption DEF IInv, AskOK, TypeOK
<1>2. /\ asks'[a].nonce = NULL
      /\ \A b \in Ask \ {a} : asks'[b].nonce = asks[b].nonce
  BY DEF IInv, TypeOK, IdleAsk
<1>3. n \notin Past
  BY DEF Past
<1>4. \A m : m \in Past' <=> m \in Past \/ m = n
  BY <1>1, <1>2, SiweAssumption DEF Past
<1> QED
  BY <1>1, <1>3, <1>4

\* Requests that keep their nonce do not change the past.
LEMMA KeepsPast ==
  ASSUME drawn' = drawn, \A a \in Ask : asks'[a].nonce = asks[a].nonce
  PROVE  Past' = Past
  BY DEF Past

\* A request that goes on keeps its pair redeemed.
LEMMA KeepsTaken ==
  ASSUME Redeemed' = Redeemed,
         \A v \in Redeemed : /\ verifies'[v].wallet = verifies[v].wallet
                             /\ verifies'[v].nonce = verifies[v].nonce
  PROVE  Taken' = Taken
<1>1. \A t : t \in Taken' <=> t \in Taken
  BY DEF Taken
<1> QED
  BY <1>1

\* A request that has redeemed its challenge ends, and no other one holds it.
LEMMA EndsVerifying ==
  ASSUME IInv, NEW v \in Redeemed, verifies' = [verifies EXCEPT ![v] = IdleVerify]
  PROVE  /\ <<verifies[v].wallet, verifies[v].nonce>> \in Taken
         /\ verifies[v].wallet \in Wallet /\ verifies[v].nonce \in Nonce
         /\ Taken' = Taken \ {<<verifies[v].wallet, verifies[v].nonce>>}
<1>1. /\ v \in Verify /\ Verifying(v)
      /\ Redeemed' = Redeemed \ {v}
      /\ \A u \in Redeemed \ {v} : verifies'[u] = verifies[u]
  BY DEF Redeemed, Verifying, IInv, TypeOK, IdleVerify
<1>2. /\ verifies[v].wallet \in Wallet /\ verifies[v].nonce \in Nonce
      /\ \A u \in Redeemed \ {v} : verifies[u].nonce # verifies[v].nonce
  BY <1>1 DEF IInv, VerifyOK
<1>3. Taken' = {<<verifies[u].wallet, verifies[u].nonce>> : u \in Redeemed \ {v}}
  BY <1>1 DEF Taken
<1>4. \A t : t \in Taken' <=> t \in Taken /\ t # <<verifies[v].wallet, verifies[v].nonce>>
  BY <1>2, <1>3 DEF Taken
<1> QED
  BY <1>2, <1>4 DEF Taken

\* Every step of an ask stutters, offers its nonce or throws it away.
LEMMA AskRefines ==
  ASSUME IInv, NEW a \in Ask
  PROVE  /\ \A w \in Wallet, n \in Nonce :
              AskRead(a, w, n) => UNCHANGED <<Open, Past, Taken, tokens>>
         /\ AskConflict(a) \/ AskReread(a) => UNCHANGED <<Open, Past, Taken, tokens>>
         /\ \A id \in RowId : AskInsert(a, id) => OneShot!Next
         /\ \A x \in Wallet : AskUpdate(a, x) => OneShot!Next
         /\ AskFail(a) => OneShot!Next
<1>1. ASSUME UNCHANGED verifies PROVE Taken' = Taken
  BY <1>1 DEF Taken, Redeemed
<1>2. ASSUME NEW w \in Wallet, NEW n \in Nonce, AskRead(a, w, n)
      PROVE  UNCHANGED <<Open, Past, Taken, tokens>>
  <2>1. n \notin drawn /\ drawn' = drawn \cup {n} /\ drawn \subseteq Nonce
    BY <1>2 DEF AskRead, IInv, TypeOK
  <2>2. /\ asks[a].nonce = NULL /\ asks'[a].nonce = n
        /\ \A b \in Ask \ {a} : asks'[b] = asks[b]
    BY <1>2 DEF AskRead, IInv, TypeOK, IdleOK, IdleAsk, Asking
  <2>3. \A m : m \in Past' <=> m \in Past
    BY <2>1, <2>2, SiweAssumption DEF Past
  <2>4. Past' = Past
    BY <2>3
  <2> QED
    BY <1>1, <1>2, <2>4 DEF AskRead, Open
<1>3. ASSUME AskConflict(a) \/ AskReread(a)
      PROVE  UNCHANGED <<Open, Past, Taken, tokens>>
  <2> asks \in [Ask -> AskRequest]
    BY DEF IInv, TypeOK
  <2>1. \A b \in Ask : asks'[b].nonce = asks[b].nonce
    <3>1. CASE AskConflict(a)
      BY <3>1 DEF AskConflict, AskRequest
    <3>2. CASE AskReread(a)
      BY <3>2 DEF AskReread, AskRequest
    <3> QED
      BY <1>3, <3>1, <3>2
  <2> QED
    BY <1>1, <1>3, <2>1, KeepsPast DEF AskConflict, AskReread, Open
<1>4. ASSUME NEW x \in Wallet, NEW n \in Nonce, n = asks[a].nonce, Asking(a),
             asks' = [asks EXCEPT ![a] = IdleAsk],
             challenges'[x].nonce = n, challenges' \in [Wallet -> Row \cup {NoRow}],
             \A y \in Wallet \ {x} : challenges'[y] = challenges[y],
             UNCHANGED <<drawn, verifies, tokens>>
      PROVE  OneShot!Next
  <2>1. n \notin Past /\ Past' = Past \cup {n}
    BY <1>4, EndsAsking
  <2>2. Open' = [Open EXCEPT ![x] = n]
    BY <1>4 DEF Open
  <2>3. OneShot!Offer(x, n)
    BY <1>1, <1>4, <2>1, <2>2 DEF OneShot!Offer, Open, Past, Taken
  <2> QED
    BY <2>3 DEF OneShot!Next
<1>5. ASSUME NEW x \in Wallet, AskUpdate(a, x) PROVE OneShot!Next
  <2> DEFINE n == asks[a].nonce
  <2>1. /\ challenges' = [challenges EXCEPT ![x].nonce = n]
        /\ Asking(a) /\ n \in Nonce
        /\ asks' = [asks EXCEPT ![a] = IdleAsk]
        /\ UNCHANGED <<drawn, verifies, tokens>>
    BY <1>5 DEF AskUpdate, IInv, AskOK, Asking
  <2>2. challenges[x] \in Row
    BY <1>5, StoredKey DEF AskUpdate
  <2>3. /\ challenges'[x].nonce = n /\ challenges'[x] \in Row
        /\ \A y \in Wallet \ {x} : challenges'[y] = challenges[y]
        /\ challenges' \in [Wallet -> Row \cup {NoRow}]
    BY <2>1, <2>2 DEF IInv, TypeOK, Row
  <2> QED
    BY <1>4, <2>1, <2>3
<1>6. ASSUME NEW id \in RowId, AskInsert(a, id) PROVE OneShot!Next
  <2> DEFINE n == asks[a].nonce
  <2> DEFINE w == asks[a].wallet
  <2>1. /\ challenges' = [challenges EXCEPT ![w] = [id |-> id, nonce |-> n]]
        /\ Asking(a) /\ n \in Nonce /\ w \in Wallet
        /\ asks' = [asks EXCEPT ![a] = IdleAsk]
        /\ UNCHANGED <<drawn, verifies, tokens>>
    BY <1>6 DEF AskInsert, IInv, AskOK, Asking
  <2>2. /\ challenges'[w].nonce = n
        /\ \A y \in Wallet \ {w} : challenges'[y] = challenges[y]
        /\ challenges' \in [Wallet -> Row \cup {NoRow}]
    BY <2>1 DEF IInv, TypeOK, Row
  <2> QED
    BY <1>4, <2>1, <2>2
<1>7. ASSUME AskFail(a) PROVE OneShot!Next
  <2>1. PICK n \in Nonce : Past' = Past \cup {n}
    BY <1>7, EndsAsking DEF AskFail, Asking
  <2>2. OneShot!Discard(n)
    BY <1>1, <1>7, <2>1 DEF AskFail, OneShot!Discard, Open, Past, Taken
  <2> QED
    BY <2>1, <2>2 DEF OneShot!Next
<1> QED
  BY <1>2, <1>3, <1>5, <1>6, <1>7

\* Every step of a verification stutters, redeems, grants or refuses.
LEMMA VerifyRefines ==
  ASSUME IInv, NEW v \in Verify
  PROVE  /\ \A w \in Wallet, n \in Nonce, sound \in BOOLEAN :
              VerifyRead(v, w, n, sound) => UNCHANGED <<Open, Past, Taken, tokens>>
         /\ VerifyCheck(v) \/ VerifyEnter(v) => UNCHANGED <<Open, Past, Taken, tokens>>
         /\ \A x \in Wallet : VerifyConsume(v, x) => OneShot!Next
         /\ VerifyAnswer(v) => OneShot!Next
         /\ VerifyFail(v) => OneShot!Next \/ UNCHANGED <<Open, Past, Taken, tokens>>
<1>1. ASSUME UNCHANGED <<drawn, asks>> PROVE Past' = Past
  BY <1>1 DEF Past
<1>2. ASSUME UNCHANGED challenges PROVE Open' = Open
  BY <1>2 DEF Open
<1>3. ASSUME NEW w \in Wallet, NEW n \in Nonce, NEW sound \in BOOLEAN,
             VerifyRead(v, w, n, sound)
      PROVE  UNCHANGED <<Open, Past, Taken, tokens>>
  <2>1. /\ v \notin Redeemed /\ verifies'[v].pc = "consuming"
        /\ \A u \in Verify \ {v} : verifies'[u] = verifies[u]
    BY <1>3 DEF VerifyRead, IInv, TypeOK, Redeemed
  <2>2. Taken' = Taken
    BY <2>1, KeepsTaken DEF Redeemed
  <2> QED
    BY <1>1, <1>2, <1>3, <2>2 DEF VerifyRead
<1>4. ASSUME VerifyCheck(v) \/ VerifyEnter(v)
      PROVE  UNCHANGED <<Open, Past, Taken, tokens>>
  <2>1. /\ verifies[v].pc \in {"checking", "entering"}
        /\ verifies'[v].pc \in {"entering", "answering"}
        /\ verifies'[v].wallet = verifies[v].wallet /\ verifies'[v].nonce = verifies[v].nonce
        /\ \A u \in Verify \ {v} : verifies'[u] = verifies[u]
    BY <1>4 DEF VerifyCheck, VerifyEnter, IInv, TypeOK, VerifyRequest
  <2>2. Redeemed' = Redeemed
    BY <2>1 DEF Redeemed
  <2>3. Taken' = Taken
    BY <2>1, <2>2, KeepsTaken DEF Redeemed
  <2> QED
    BY <1>1, <1>2, <1>4, <2>3 DEF VerifyCheck, VerifyEnter
<1>5. ASSUME NEW x \in Wallet, VerifyConsume(v, x) PROVE OneShot!Next
  <2> DEFINE n == verifies[v].nonce
  <2>1. /\ n \in Nonce /\ challenges[x].nonce = n
        /\ Verifying(v) /\ v \notin Redeemed
    BY <1>5 DEF VerifyConsume, Matched, IInv, VerifyOK, Verifying, Redeemed
  <2>2. verifies[v].wallet = x
    BY <2>1, SiweAssumption DEF IInv, RowOK, Stored, NoRow
  <2>3. /\ verifies'[v].pc = "checking"
        /\ verifies'[v].wallet = x /\ verifies'[v].nonce = n
        /\ \A u \in Verify \ {v} : verifies'[u] = verifies[u]
    BY <1>5, <2>2 DEF VerifyConsume, IInv, TypeOK, VerifyRequest
  <2>4. /\ Redeemed' = Redeemed \cup {v}
        /\ \A u \in Redeemed : verifies'[u] = verifies[u]
    BY <2>1, <2>3 DEF Redeemed
  <2>5. \A t : t \in Taken' <=> t \in Taken \/ t = <<x, n>>
    BY <2>3, <2>4 DEF Taken
  <2>6. Open' = [Open EXCEPT ![x] = NULL] /\ Open[x] = n
    BY <1>5, <2>1 DEF VerifyConsume, IInv, TypeOK, Open, NoRow
  <2>7. Taken' = Taken \cup {<<x, Open[x]>>}
    BY <2>5, <2>6
  <2>8. Open[x] # NULL
    BY <2>1, <2>6, SiweAssumption
  <2>9. OneShot!Redeem(x)
    BY <1>1, <1>5, <2>6, <2>7, <2>8 DEF VerifyConsume, OneShot!Redeem, Open, Past, Taken
  <2> QED
    BY <2>9 DEF OneShot!Next
<1>6. ASSUME VerifyAnswer(v) PROVE OneShot!Next
  <2>1. v \in Redeemed /\ verifies' = [verifies EXCEPT ![v] = IdleVerify]
    BY <1>6 DEF VerifyAnswer, Redeemed
  <2>2. PICK w \in Wallet, n \in Nonce :
          /\ w = verifies[v].wallet /\ n = verifies[v].nonce
          /\ <<w, n>> \in Taken /\ Taken' = Taken \ {<<w, n>>}
    BY <2>1, EndsVerifying
  <2>3. OneShot!Grant(w, n)
    BY <1>1, <1>2, <1>6, <2>2 DEF VerifyAnswer, OneShot!Grant, Open, Past, Taken
  <2> QED
    BY <2>2, <2>3 DEF OneShot!Next
<1>7. ASSUME VerifyFail(v)
      PROVE  OneShot!Next \/ UNCHANGED <<Open, Past, Taken, tokens>>
  <2>1. /\ verifies' = [verifies EXCEPT ![v] = IdleVerify]
        /\ UNCHANGED <<challenges, drawn, asks, tokens>>
    BY <1>7 DEF VerifyFail
  <2>2. CASE v \in Redeemed
    <3>1. PICK w \in Wallet, n \in Nonce : Taken' = Taken \ {<<w, n>>}
      BY <2>1, <2>2, EndsVerifying
    <3>2. OneShot!Refuse(w, n)
      BY <1>1, <1>2, <2>1, <3>1 DEF OneShot!Refuse, Open, Past, Taken
    <3> QED
      BY <3>1, <3>2 DEF OneShot!Next
  <2>3. CASE v \notin Redeemed
    <3>1. Redeemed' = Redeemed /\ \A u \in Redeemed : verifies'[u] = verifies[u]
      BY <2>1, <2>3 DEF Redeemed, IdleVerify, IInv, TypeOK
    <3>2. Taken' = Taken
      BY <3>1, KeepsTaken
    <3> QED
      BY <1>1, <1>2, <2>1, <3>2
  <2> QED
    BY <2>2, <2>3
<1> QED
  BY <1>3, <1>4, <1>5, <1>6, <1>7

\* The sign-in implements one-shot challenges, for any number of wallets,
\* nonces and concurrent requests.
THEOREM SignInIsOneShot == Spec => ImplementsOneShot
<1>1. Init => OneShot!Init
  BY SiweAssumption DEF Init, OneShot!Init, Redeemed, NoRow, IdleVerify
<1>2. IInv /\ [Next]_vars => [OneShot!Next]_(OneShot!vars)
  <2> SUFFICES ASSUME IInv, [Next]_vars
               PROVE  OneShot!Next \/ UNCHANGED <<Open, Past, Taken, tokens>>
    BY DEF OneShot!vars, Open, Past, Taken
  <2>1. CASE UNCHANGED vars
    BY <2>1 DEF vars, Open, Past, Taken, Redeemed
  <2>2. ASSUME NEW w \in Wallet, NEW n \in Nonce, Sign(w, n)
        PROVE  UNCHANGED <<Open, Past, Taken, tokens>>
    BY <2>2 DEF Sign, Open, Past, Taken, Redeemed
  <2>3. ASSUME NEW n \in Nonce, Lapse(n)
        PROVE  UNCHANGED <<Open, Past, Taken, tokens>>
    BY <2>3 DEF Lapse, Open, Past, Taken, Redeemed
  <2>4. CASE Next
    <3> HIDE DEF IInv
    <3> QED
      BY <2>2, <2>3, <2>4, AskRefines, VerifyRefines DEF Next
  <2> QED
    BY <2>1, <2>4
<1> QED
  BY <1>1, <1>2, Inductive, PTL DEF Spec, ImplementsOneShot, OneShot!Spec
=============================================================================
