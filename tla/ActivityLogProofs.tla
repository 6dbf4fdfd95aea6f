------------------------- MODULE ActivityLogProofs --------------------------
(***************************************************************************)
(* Proofs about ActivityLog, for any wallets and any bounds.               *)
(*                                                                         *)
(* A history is a piece of the wallet's log that ends with its newest item *)
(* (HistoryOK), in Redis as in memory.  So a backlog read from it misses   *)
(* nothing new (BacklogOK), whatever was shown before.  A queue in memory  *)
(* is such a piece too, and what is shown ends where it begins, unless it  *)
(* is full (StreamIsInOrder, with the bound of the queue).                 *)
(***************************************************************************)
EXTENDS ActivityLog, SequenceTheorems, TLAPS

-----------------------------------------------------------------------------
\* The last items of a sequence are its end.
LEMMA LastItemsAre ==
  ASSUME NEW s \in Seq(Item), NEW n \in Nat
  PROVE  \E k \in Nat :
           /\ Len(LastItems(s, n)) = Len(s) - k /\ Len(LastItems(s, n)) \in Nat
           /\ LastItems(s, n) \in Seq(Item)
           /\ \A i \in 1 .. Len(s) - k : LastItems(s, n)[i] = s[i + k]
           /\ Len(s) <= n => k = 0
           /\ Len(s) > n => Len(LastItems(s, n)) = n
<1> DEFINE k == IF Len(s) > n THEN Len(s) - n ELSE 0
<1>1. Len(s) \in Nat /\ k \in Nat /\ k <= Len(s)
  OBVIOUS
<1>2. LastItems(s, n) = SubSeq(s, k + 1, Len(s))
  BY <1>1 DEF LastItems
<1>3. \A i \in k + 1 .. Len(s) : s[i] \in Item
  BY <1>1
<1>4. /\ SubSeq(s, k + 1, Len(s)) \in Seq(Item)
      /\ Len(SubSeq(s, k + 1, Len(s))) = Len(s) - k
      /\ \A i \in 1 .. Len(s) - k : SubSeq(s, k + 1, Len(s))[i] = s[i + k]
  <2>1. /\ SubSeq(s, k + 1, Len(s)) \in Seq(Item)
        /\ Len(SubSeq(s, k + 1, Len(s))) = IF k + 1 <= Len(s) THEN Len(s) - (k + 1) + 1 ELSE 0
        /\ \A i \in 1 .. Len(s) - (k + 1) + 1 :
             SubSeq(s, k + 1, Len(s))[i] = s[k + 1 + i - 1]
    <3> HIDE DEF k
    <3> QED BY <1>1, <1>3, SubSeqProperties, SMT
  <2> HIDE DEF k
  <2> QED BY <1>1, <2>1
<1>5. (Len(s) <= n => k = 0) /\ (Len(s) > n => Len(s) - k = n)
  BY <1>1
<1> HIDE DEF k
<1>6. /\ Len(LastItems(s, n)) = Len(s) - k /\ Len(s) - k \in Nat
      /\ LastItems(s, n) \in Seq(Item)
      /\ \A i \in 1 .. Len(s) - k : LastItems(s, n)[i] = s[i + k]
  BY <1>1, <1>2, <1>4
<1> k \in Nat
  BY <1>1
<1> WITNESS k \in Nat
<1> QED BY <1>5, <1>6

\* What an item adds to a full or another queue.
LEMMA EnqueueAdds ==
  ASSUME NEW queue \in Seq(Item), NEW item \in Item, Len(queue) <= QueueSize
  PROVE  \E k \in {0, 1} :
           /\ _enqueue(queue, item) \in Seq(Item)
           /\ Len(_enqueue(queue, item)) = Len(queue) + 1 - k
           /\ Len(queue) + 1 - k <= QueueSize
           /\ \A i \in 1 .. Len(queue) - k : _enqueue(queue, item)[i] = queue[i + k]
           /\ _enqueue(queue, item)[Len(queue) + 1 - k] = item
           /\ k = 1 => Len(queue) = QueueSize
<1>a. Len(queue) \in Nat /\ QueueSize \in Nat /\ QueueSize # 0
  BY LogAssumption
<1>1. CASE Len(queue) = QueueSize
  <2>1. _enqueue(queue, item) = Append(Tail(queue), item)
    BY <1>1 DEF _enqueue
  <2>2. /\ Tail(queue) \in Seq(Item) /\ Len(Tail(queue)) = Len(queue) - 1
        /\ \A i \in 1 .. Len(queue) - 1 : Tail(queue)[i] = queue[i + 1]
    BY <1>a, <1>1
  <2>3. /\ Append(Tail(queue), item) \in Seq(Item)
        /\ Len(Append(Tail(queue), item)) = Len(queue)
        /\ \A i \in 1 .. Len(queue) - 1 : Append(Tail(queue), item)[i] = queue[i + 1]
        /\ Append(Tail(queue), item)[Len(queue)] = item
    BY <1>a, <2>2
  <2> WITNESS 1 \in {0, 1}
  <2> QED BY <1>a, <1>1, <2>1, <2>3
<1>2. CASE Len(queue) # QueueSize
  <2>1. _enqueue(queue, item) = Append(queue, item)
    BY <1>2 DEF _enqueue
  <2> WITNESS 0 \in {0, 1}
  <2> QED BY <1>a, <1>2, <2>1
<1> QED BY <1>1, <1>2

-----------------------------------------------------------------------------
\* The inductive invariant.

\* s has the newest items of the log of wallet w, n in number and without
\* the first old ones, one after the other, and all of them while it is not
\* full.
Newest(s, w, n, old, size) ==
  /\ s \in Seq(Item)
  /\ Len(s) <= n - old /\ (Len(s) >= size \/ Len(s) = n - old)
  /\ \A i \in 1 .. Len(s) : s[i].wallet = w /\ s[i].n = n - Len(s) + i

HistoryOK(w) ==
  lost[w] <= pushed[w] /\ Newest(items[w], w, pushed[w], lost[w], MaxItems)

Histories == \A w \in Wallet : HistoryOK(w)

\* s has items of the stream's wallet.
Own(s) ==
  \A i \in 1 .. Len(s) : s[i].wallet = stream.wallet /\ s[i].n <= pushed[stream.wallet]

StreamOK ==
  /\ stream.pc = "closed" => ~stream.subscribed /\ stream.backlog = <<>> /\ stream.queue = <<>>
  /\ stream.pc # "closed" => account \in Wallet /\ stream.wallet = account
  /\ ~stream.subscribed => stream.queue = <<>>
  /\ store = "memory" => (stream.subscribed <=> stream.pc \in {"backlog", "streaming"})
  /\ Own(stream.backlog) /\ Own(stream.queue)
  /\ Len(stream.backlog) <= BacklogSize /\ Len(stream.queue) <= QueueSize

LogsOK ==
  /\ \A i \in 1 .. Len(logs) : logs[i].n <= pushed[logs[i].wallet]
  /\ \A i, j \in 1 .. Len(logs) : logs[i].wallet = logs[j].wallet
  /\ stream.pc = "streaming" => \A i \in 1 .. Len(logs) : logs[i].wallet = stream.wallet

AppendsOK ==
  /\ appends # {} => store = "redis"
  /\ \A a \in appends : a.item.n <= pushed[a.item.wallet]

\* What the panel shows is in the backlog it is about to get, or is old.
BacklogOK ==
  stream.pc = "backlog" =>
    \A i \in 1 .. Len(logs) : logs[i].wallet = stream.wallet =>
      \/ \E j \in 1 .. Len(stream.backlog) : stream.backlog[j].n = logs[i].n
      \/ logs[i].n + BacklogSize <= pushed[stream.wallet]
      \/ logs[i].n <= lost[stream.wallet]

IInv ==
  /\ TypeOK /\ Histories /\ StreamOK /\ LogsOK /\ AppendsOK /\ BacklogOK
  /\ StreamIsInOrder

LEMMA InitIsSound == Init => IInv
<1> SUFFICES ASSUME Init PROVE IInv
  OBVIOUS
<1>1. Len(<<>>) = 0 /\ <<>> \in Seq(Item)
  OBVIOUS
<1>2. stream = Closed /\ Closed \in Stream /\ Closed.pc = "closed"
      /\ Closed.subscribed = FALSE /\ Closed.queue = <<>> /\ Closed.backlog = <<>>
  BY DEF Init, Closed, Stream
<1>3. TypeOK
  BY <1>1, <1>2 DEF Init, TypeOK
<1>4. Histories
  BY <1>1, LogAssumption DEF Init, Histories, HistoryOK, Newest
<1>5. StreamOK /\ LogsOK /\ AppendsOK /\ BacklogOK /\ StreamIsInOrder
  BY <1>1, <1>2, LogAssumption
     DEF Init, StreamOK, Own, LogsOK, AppendsOK, BacklogOK, StreamIsInOrder
<1> QED BY <1>3, <1>4, <1>5 DEF IInv

-----------------------------------------------------------------------------
\* What is appended.

\* What a stream becomes when an item is published.
LEMMA ReceivedIs ==
  ASSUME NEW s \in Stream, NEW item \in Item, Len(s.queue) <= QueueSize
  PROVE  /\ Received(s, item) \in Stream
         /\ Received(s, item).pc = s.pc /\ Received(s, item).wallet = s.wallet
         /\ Received(s, item).subscribed = s.subscribed
         /\ Received(s, item).backlog = s.backlog
         /\ ~(s.subscribed /\ s.wallet = item.wallet) => Received(s, item) = s
         /\ s.subscribed /\ s.wallet = item.wallet =>
              Received(s, item).queue = _enqueue(s.queue, item)
<1>1. s.queue \in Seq(Item)
  BY DEF Stream
<1>2. _enqueue(s.queue, item) \in Seq(Item)
  BY <1>1, EnqueueAdds
<1> DEFINE t == [s EXCEPT !.queue = _enqueue(s.queue, item)]
<1>3. /\ t \in Stream /\ t.pc = s.pc /\ t.wallet = s.wallet /\ t.subscribed = s.subscribed
      /\ t.backlog = s.backlog /\ t.queue = _enqueue(s.queue, item)
  BY <1>2 DEF Stream
<1>4. Received(s, item) = IF s.subscribed /\ s.wallet = item.wallet THEN t ELSE s
  BY DEF Received
<1> HIDE DEF t
<1> QED BY <1>3, <1>4

\* The log of a wallet grows.
LEMMA Grows ==
  ASSUME IInv, [Next]_vars
  PROVE  \A w \in Wallet :
           /\ pushed[w] \in Nat /\ pushed'[w] \in Nat /\ pushed[w] <= pushed'[w]
           /\ lost[w] \in Nat /\ lost'[w] \in Nat /\ lost[w] <= lost'[w]
<1>a. /\ pushed \in [Wallet -> Nat] /\ lost \in [Wallet -> Nat]
      /\ \A w \in Wallet : lost[w] <= pushed[w]
  BY DEF IInv, TypeOK, Histories, HistoryOK
<1>1. \/ \E w \in Wallet : pushed' = [pushed EXCEPT ![w] = @ + 1] /\ lost' = lost
      \/ lost' = pushed /\ pushed' = pushed
      \/ pushed' = pushed /\ lost' = lost
  BY DEF Next, Appends, Streaming, Page, vars, storeVars, AppendMemory, Push, Trim, Publish,
         AppendFails, Connect, SubscribeAndRead, Subscribe, ReadBacklog, SendBacklog, Deliver, Disconnect, Restart,
         AccountChanges, setStoredAuthToken, clearStoredAuthToken
<1> QED BY <1>a, <1>1

\* The end of a history is one that has fewer items, or all of them.
LEMMA TrimmedIs ==
  ASSUME NEW w \in Wallet, NEW s \in Seq(Item), NEW n \in Nat, NEW old \in Nat,
         NEW size \in Nat, size <= MaxItems, Newest(s, w, n, old, MaxItems)
  PROVE  Newest(LastItems(s, size), w, n, old, size) /\ Len(LastItems(s, size)) <= size
<1>0. /\ Len(s) <= n - old /\ (Len(s) >= MaxItems \/ Len(s) = n - old)
      /\ \A i \in 1 .. Len(s) : s[i].wallet = w /\ s[i].n = n - Len(s) + i
  BY DEF Newest
<1>1. PICK t : t = LastItems(s, size)
  OBVIOUS
<1>2. MaxItems \in Nat /\ size \in Nat /\ size <= MaxItems
  BY LogAssumption
<1>3. PICK k \in Nat :
        /\ Len(t) = Len(s) - k /\ Len(t) \in Nat
        /\ t \in Seq(Item)
        /\ \A i \in 1 .. Len(s) - k : t[i] = s[i + k]
        /\ Len(s) <= size => k = 0
        /\ Len(s) > size => Len(t) = size
  BY <1>1, <1>2, LastItemsAre
<1>4. Len(s) \in Nat
  OBVIOUS
<1>5. Len(t) <= size /\ Len(t) <= n - old /\ (Len(t) >= size \/ Len(t) = n - old)
  <2>1. CASE Len(s) <= size
    <3>1. Len(t) = Len(s)
      BY <1>3, <1>4, <2>1
    <3> QED BY <1>0, <1>2, <1>4, <2>1, <3>1
  <2>2. CASE Len(s) > size
    BY <1>0, <1>2, <1>3, <1>4, <2>2
  <2> QED BY <1>2, <1>4, <2>1, <2>2
<1>6. ASSUME NEW i \in 1 .. Len(t) PROVE t[i].wallet = w /\ t[i].n = n - Len(t) + i
  <2>1. i + k \in 1 .. Len(s) /\ t[i] = s[i + k]
    BY <1>3, <1>4
  <2>2. s[i + k].wallet = w /\ s[i + k].n = n - Len(s) + (i + k)
    BY <1>0, <2>1
  <2> QED BY <1>3, <1>4, <2>1, <2>2
<1> QED BY <1>1, <1>3, <1>5, <1>6 DEF Newest


\* The histories stay pieces of the log.
LEMMA HistoriesStep ==
  ASSUME IInv, [Next]_vars
  PROVE  Histories' /\ items' \in [Wallet -> Seq(Item)]
<1>a. /\ items \in [Wallet -> Seq(Item)] /\ pushed \in [Wallet -> Nat] /\ lost \in [Wallet -> Nat]
      /\ \A w \in Wallet : HistoryOK(w)
      /\ appends \subseteq Appending /\ MaxItems \in Nat
  BY LogAssumption DEF IInv, TypeOK, Histories
<1>b. \A w \in Wallet : Newest(items[w], w, pushed[w], lost[w], MaxItems)
  BY <1>a DEF HistoryOK
<1>m. MaxItems \in Nat /\ MaxItems <= MaxItems
  BY <1>a
<1>c. ASSUME \A w \in Wallet : Newest(items'[w], w, pushed'[w], lost'[w], MaxItems)
      PROVE  \A w \in Wallet : HistoryOK(w)'
  <2> SUFFICES ASSUME NEW w \in Wallet PROVE HistoryOK(w)'
    OBVIOUS
  <2>1. Len(items'[w]) \in Nat /\ pushed'[w] \in Nat /\ lost'[w] \in Nat
    BY <1>c, Grows
  <2>2. Len(items'[w]) <= pushed'[w] - lost'[w]
    BY <1>c DEF Newest
  <2>3. lost'[w] <= pushed'[w]
    BY <2>1, <2>2
  <2> QED BY <1>c, <2>3 DEF HistoryOK
<1> DEFINE Kept == /\ items' \in [Wallet -> Seq(Item)]
                   /\ \A w \in Wallet : Newest(items'[w], w, pushed'[w], lost'[w], MaxItems)
<1>1. ASSUME UNCHANGED <<items, pushed, lost>> PROVE Kept
  BY <1>1, <1>a, <1>b
<1>2. ASSUME NEW w \in Wallet
      PROVE  /\ NextItem(w) \in Item /\ NextItem(w).wallet = w /\ NextItem(w).n = pushed[w] + 1
             /\ Newest(Append(items[w], NextItem(w)), w, pushed[w] + 1, lost[w], MaxItems)
  <2>1. NextItem(w) \in Item /\ NextItem(w).wallet = w /\ NextItem(w).n = pushed[w] + 1
    BY <1>a DEF NextItem, Item
  <2>2. pushed[w] \in Nat /\ lost[w] \in Nat /\ items[w] \in Seq(Item)
    BY <1>a
  <2>3. /\ Len(items[w]) <= pushed[w] - lost[w]
        /\ Len(items[w]) >= MaxItems \/ Len(items[w]) = pushed[w] - lost[w]
        /\ \A i \in 1 .. Len(items[w]) :
             items[w][i].wallet = w /\ items[w][i].n = pushed[w] - Len(items[w]) + i
    BY <1>b DEF Newest
  <2>4. PICK s \in Seq(Item), n \in Nat, old \in Nat, item \in Item :
          s = items[w] /\ n = pushed[w] /\ old = lost[w] /\ item = NextItem(w)
    BY <2>1, <2>2
  <2>5. Newest(Append(s, item), w, n + 1, old, MaxItems)
    <3>1. /\ Len(s) <= n - old /\ (Len(s) >= MaxItems \/ Len(s) = n - old)
          /\ \A i \in 1 .. Len(s) : s[i].wallet = w /\ s[i].n = n - Len(s) + i
          /\ item.wallet = w /\ item.n = n + 1
      BY <2>1, <2>3, <2>4
    <3>2. PICK t : t = Append(s, item)
      OBVIOUS
    <3>3. /\ t \in Seq(Item)
          /\ Len(t) <= n + 1 - old /\ (Len(t) >= MaxItems \/ Len(t) = n + 1 - old)
          /\ \A i \in 1 .. Len(t) : t[i].wallet = w /\ t[i].n = n + 1 - Len(t) + i
      <4>1. /\ Len(s) \in Nat /\ Len(t) = Len(s) + 1 /\ t \in Seq(Item)
            /\ \A i \in 1 .. Len(s) : t[i] = s[i]
            /\ t[Len(s) + 1] = item
        BY <3>2
      <4>2. ASSUME NEW i \in 1 .. Len(t)
            PROVE  t[i].wallet = w /\ t[i].n = n + 1 - Len(t) + i
        <5>1. CASE i = Len(s) + 1
          <6>1. t[i] = item /\ n + 1 - Len(t) + i = n + 1
            BY <4>1, <5>1
          <6> QED BY <3>1, <6>1
        <5>2. CASE i # Len(s) + 1
          <6>1. i \in 1 .. Len(s) /\ t[i] = s[i] /\ n + 1 - Len(t) + i = n - Len(s) + i
            BY <4>1, <5>2
          <6> QED BY <3>1, <6>1
        <5> QED BY <5>1, <5>2
      <4>3. Len(t) <= n + 1 - old /\ (Len(t) >= MaxItems \/ Len(t) = n + 1 - old)
        <5>1. MaxItems \in Nat
          BY <1>a
        <5> QED BY <3>1, <4>1, <5>1
      <4> QED BY <4>1, <4>2, <4>3
    <3>4. Newest(t, w, n + 1, old, MaxItems)
      BY <3>3 DEF Newest
    <3> QED BY <3>2, <3>4
  <2> QED BY <2>1, <2>4, <2>5
<1>3. ASSUME NEW w \in Wallet, AppendMemory(w) PROVE Kept
  <2>1. PICK s : s = Append(items[w], NextItem(w))
    OBVIOUS
  <2>0. pushed[w] + 1 \in Nat /\ lost[w] \in Nat
    BY <1>a
  <2>2. Newest(s, w, pushed[w] + 1, lost[w], MaxItems)
    BY <1>2, <2>1
  <2>3. Newest(LastItems(s, MaxItems), w, pushed[w] + 1, lost[w], MaxItems)
    <3>1. PICK n \in Nat, old \in Nat : n = pushed[w] + 1 /\ old = lost[w]
      BY <2>0
    <3>2. Newest(s, w, n, old, MaxItems)
      BY <2>2, <3>1
    <3>3. Newest(LastItems(s, MaxItems), w, n, old, MaxItems)
      BY <1>m, <3>2, TrimmedIs DEF Newest
    <3> QED BY <3>1, <3>3
  <2>4. /\ items' = [items EXCEPT ![w] = LastItems(s, MaxItems)]
        /\ pushed' = [pushed EXCEPT ![w] = pushed[w] + 1] /\ lost' = lost
    BY <1>3, <2>1 DEF AppendMemory
  <2>5. LastItems(s, MaxItems) \in Seq(Item)
    BY <2>3 DEF Newest
  <2> QED BY <1>a, <1>b, <2>3, <2>4, <2>5
<1>4. ASSUME NEW w \in Wallet, Push(w) PROVE Kept
  <2>1. PICK s : s = Append(items[w], NextItem(w))
    OBVIOUS
  <2>2. Newest(s, w, pushed[w] + 1, lost[w], MaxItems)
    BY <1>2, <2>1
  <2>3. /\ items' = [items EXCEPT ![w] = s]
        /\ pushed' = [pushed EXCEPT ![w] = pushed[w] + 1] /\ lost' = lost
    BY <1>4, <2>1 DEF Push
  <2>4. s \in Seq(Item)
    BY <2>2 DEF Newest
  <2> QED BY <1>a, <1>b, <2>2, <2>3, <2>4
<1>5. ASSUME NEW a \in appends, Trim(a) PROVE Kept
  <2>1. PICK w \in Wallet : w = a.item.wallet
    BY <1>a DEF Appending, Item
  <2>2. items' = [items EXCEPT ![w] = LastItems(items[w], MaxItems)]
        /\ UNCHANGED <<pushed, lost>>
    BY <1>5, <2>1 DEF Trim
  <2>3. pushed[w] \in Nat /\ lost[w] \in Nat /\ Newest(items[w], w, pushed[w], lost[w], MaxItems)
    BY <1>a, <1>b
  <2>4. Newest(LastItems(items[w], MaxItems), w, pushed[w], lost[w], MaxItems)
    <3>0. PICK s : s = items[w]
      OBVIOUS
    <3>1. PICK n \in Nat, old \in Nat : n = pushed[w] /\ old = lost[w]
      BY <2>3
    <3>2. Newest(s, w, n, old, MaxItems)
      BY <2>3, <3>0, <3>1
    <3>3. Newest(LastItems(s, MaxItems), w, n, old, MaxItems)
      BY <1>m, <3>2, TrimmedIs DEF Newest
    <3> QED BY <3>0, <3>1, <3>3
  <2>5. LastItems(items[w], MaxItems) \in Seq(Item)
    BY <2>4 DEF Newest
  <2> QED BY <1>a, <1>b, <2>2, <2>4, <2>5
<1>6. ASSUME Restart PROVE Kept
  <2>1. items' = [w \in Wallet |-> <<>>] /\ lost' = pushed /\ pushed' = pushed
    BY <1>6 DEF Restart
  <2>2. \A w \in Wallet : Newest(<<>>, w, pushed[w], pushed[w], MaxItems)
    BY <1>a DEF Newest
  <2> QED BY <2>1, <2>2
<1> HIDE DEF Kept
<1>7. ASSUME Appends PROVE Kept
  BY <1>1, <1>3, <1>4, <1>5, <1>7 DEF Appends, Publish, AppendFails
<1>8. ASSUME Streaming PROVE Kept
  BY <1>1, <1>6, <1>8 DEF Streaming, Connect, SubscribeAndRead, Subscribe, ReadBacklog, SendBacklog, Deliver,
                          Disconnect, storeVars
<1>9. ASSUME Page \/ UNCHANGED vars PROVE Kept
  BY <1>1, <1>9 DEF Page, AccountChanges, setStoredAuthToken, clearStoredAuthToken, vars, storeVars
<1>10. Kept
  BY <1>7, <1>8, <1>9 DEF Next
<1> QED BY <1>10, <1>c DEF Kept, Histories

LEMMA AppendsStep ==
  ASSUME IInv, [Next]_vars
  PROVE  AppendsOK' /\ appends' \subseteq Appending
<1>a. /\ appends \subseteq Appending /\ pushed \in [Wallet -> Nat]
      /\ \A a \in appends : a.item \in Item /\ a.item.wallet \in Wallet
                            /\ a.item.n \in Nat /\ a.item.n <= pushed[a.item.wallet]
  BY DEF IInv, TypeOK, AppendsOK, Appending, Item
<1>b. ASSUME NEW a \in appends PROVE a.item.n <= pushed'[a.item.wallet]
  BY <1>a, <1>b, Grows
<1>c. appends # {} => store = "redis"
  BY DEF IInv, AppendsOK
<1>1. ASSUME appends' \subseteq appends, store' = store
      PROVE  AppendsOK' /\ appends' \subseteq Appending
  BY <1>1, <1>a, <1>b, <1>c DEF AppendsOK
<1>2. ASSUME NEW w \in Wallet, Push(w) PROVE AppendsOK' /\ appends' \subseteq Appending
  <2> DEFINE new == [item |-> NextItem(w), pc |-> "trim"]
  <2>1. /\ appends' = appends \cup {new} /\ pushed' = [pushed EXCEPT ![w] = pushed[w] + 1]
        /\ store' = "redis"
    BY <1>2 DEF Push
  <2>2. new \in Appending /\ new.item.wallet = w /\ new.item.n = pushed[w] + 1
    BY <1>a DEF NextItem, Item, Appending
  <2>3. pushed'[w] = pushed[w] + 1
    BY <1>a, <2>1
  <2> HIDE DEF new
  <2>4. new.item.n <= pushed'[new.item.wallet]
    BY <1>a, <2>2, <2>3
  <2> QED BY <1>a, <1>b, <2>1, <2>2, <2>4 DEF AppendsOK
<1>3. ASSUME NEW a \in appends, Trim(a) PROVE AppendsOK' /\ appends' \subseteq Appending
  <2> DEFINE new == [a EXCEPT !.pc = "publish"]
  <2>1. appends' = (appends \ {a}) \cup {new} /\ store' = store
    BY <1>3 DEF Trim
  <2>2. new \in Appending /\ new.item = a.item
    BY <1>a DEF Appending
  <2> HIDE DEF new
  <2> QED BY <1>a, <1>b, <1>c, <2>1, <2>2 DEF AppendsOK
<1>4. CASE Appends
  BY <1>1, <1>2, <1>3, <1>4 DEF Appends, AppendMemory, Publish, AppendFails
<1>5. CASE Streaming \/ Page \/ UNCHANGED vars
  BY <1>1, <1>5 DEF Streaming, Page, Connect, SubscribeAndRead, Subscribe, ReadBacklog, SendBacklog, Deliver,
       Disconnect, Restart, AccountChanges, setStoredAuthToken, clearStoredAuthToken, vars, storeVars
<1> QED BY <1>4, <1>5 DEF Next

-----------------------------------------------------------------------------
\* The order of a stream.

\* What StreamIsInOrder says of what was shown, the queue and the newest item.
Orderly(before, queue, newest) ==
  /\ \A i \in 2 .. Len(before) : before[i - 1].n < before[i].n
  /\ \A i \in 1 .. Len(queue) : queue[i].n + Len(queue) = newest + i
  /\ before # <<>> =>
       \/ before[Len(before)].n = newest - Len(queue)
       \/ before[Len(before)].n < newest - Len(queue) /\ Len(queue) = QueueSize

\* A published item comes after those in the queue.
LEMMA OrderlyWhenQueued ==
  ASSUME NEW before \in Seq(Item), NEW queue \in Seq(Item), NEW item \in Item,
         NEW newest \in Nat, Len(queue) <= QueueSize,
         Orderly(before, queue, newest), item.n = newest + 1
  PROVE  Orderly(before, _enqueue(queue, item), newest + 1)
<1>1. PICK q : q = _enqueue(queue, item)
  OBVIOUS
<1>2. PICK k \in {0, 1} :
        /\ q \in Seq(Item)
        /\ Len(q) = Len(queue) + 1 - k
        /\ Len(queue) + 1 - k <= QueueSize
        /\ \A i \in 1 .. Len(queue) - k : q[i] = queue[i + k]
        /\ q[Len(queue) + 1 - k] = item
        /\ k = 1 => Len(queue) = QueueSize
  BY <1>1, EnqueueAdds
<1>3. Len(queue) \in Nat /\ Len(q) \in Nat /\ QueueSize \in Nat
  BY <1>2, LogAssumption
<1>4. ASSUME NEW i \in 1 .. Len(q) PROVE q[i].n + Len(q) = newest + 1 + i
  <2>1. CASE i = Len(queue) + 1 - k
    <3>1. q[i].n = newest + 1
      BY <1>2, <2>1
    <3> QED BY <1>2, <1>3, <2>1, <3>1
  <2>2. CASE i # Len(queue) + 1 - k
    <3>1. i + k \in 1 .. Len(queue) /\ q[i] = queue[i + k]
      BY <1>2, <1>3, <2>2
    <3>2. queue[i + k].n + Len(queue) = newest + (i + k)
      BY <3>1 DEF Orderly
    <3>3. PICK x \in Item : x = queue[i + k]
      BY <3>1
    <3>4. PICK m \in Nat : m = x.n
      BY DEF Item
    <3>5. m + Len(queue) = newest + (i + k)
      BY <3>2, <3>3, <3>4
    <3>6. Len(q) = Len(queue) + 1 - k /\ i \in Nat
      BY <1>2, <1>3
    <3>7. m + Len(q) = newest + 1 + i
      BY <1>3, <3>5, <3>6
    <3> QED BY <3>1, <3>3, <3>4, <3>7
  <2> QED BY <2>1, <2>2
<1>5. ASSUME before # <<>>
      PROVE  \/ before[Len(before)].n = newest + 1 - Len(q)
             \/ before[Len(before)].n < newest + 1 - Len(q) /\ Len(q) = QueueSize
  <2>1. PICK x \in Item : x = before[Len(before)]
    BY <1>5
  <2>2. PICK m \in Nat : m = x.n
    BY DEF Item
  <2>3. m = newest - Len(queue) \/ (m < newest - Len(queue) /\ Len(queue) = QueueSize)
    BY <1>5, <2>1, <2>2 DEF Orderly
  <2>4. m = newest + 1 - Len(q) \/ (m < newest + 1 - Len(q) /\ Len(q) = QueueSize)
    BY <1>2, <1>3, <2>3, SMTT(20)
  <2> QED BY <2>1, <2>2, <2>4
<1>6. Orderly(before, q, newest + 1)
  BY <1>4, <1>5 DEF Orderly
<1> QED BY <1>1, <1>6

\* The head of the queue comes after what was shown.
LEMMA OrderlyWhenDelivered ==
  ASSUME NEW before \in Seq(Item), NEW queue \in Seq(Item), queue # <<>>,
         NEW newest \in Nat, Orderly(before, queue, newest)
  PROVE  Orderly(LastItems(Append(before, Head(queue)), PanelSize), Tail(queue), newest)
<1>0. PanelSize \in Nat /\ PanelSize # 0
  BY LogAssumption
<1>1. PICK head, rest : head = Head(queue) /\ rest = Tail(queue)
  OBVIOUS
<1>2. /\ Len(queue) \in Nat /\ Len(queue) # 0 /\ head \in Item /\ head = queue[1]
      /\ rest \in Seq(Item) /\ Len(rest) = Len(queue) - 1
      /\ \A i \in 1 .. Len(queue) - 1 : rest[i] = queue[i + 1]
  BY <1>1
<1>3. head.n \in Nat /\ head.n + Len(queue) = newest + 1
  BY <1>2 DEF Orderly, Item
<1>a. Append(before, head) \in Seq(Item)
  BY <1>2
<1>4. PICK all \in Seq(Item) : all = Append(before, head)
  BY <1>a
<1>5. /\ Len(before) \in Nat /\ Len(all) = Len(before) + 1
      /\ \A i \in 1 .. Len(before) : all[i] = before[i]
      /\ all[Len(before) + 1] = head
  BY <1>2, <1>4
<1>6. ASSUME NEW i \in 2 .. Len(all) PROVE all[i - 1].n < all[i].n
  <2>1. CASE i = Len(before) + 1
    <3>1. Len(before) \in 1 .. Len(before) /\ before # <<>> /\ i - 1 = Len(before)
      BY <1>5, <2>1
    <3>2. all[i - 1] = before[Len(before)] /\ all[i] = head
      BY <1>5, <2>1, <3>1
    <3>3. PICK x \in Item : x = before[Len(before)]
      BY <3>1
    <3>4. PICK m \in Nat : m = x.n
      BY DEF Item
    <3>5. m <= newest - Len(queue)
      BY <1>2, <3>1, <3>3, <3>4 DEF Orderly
    <3>6. m < head.n
      BY <1>2, <1>3, <3>5
    <3> QED BY <3>2, <3>3, <3>4, <3>6
  <2>2. CASE i # Len(before) + 1
    <3>1. i \in 2 .. Len(before) /\ i - 1 \in 1 .. Len(before) /\ i \in 1 .. Len(before)
      BY <1>5, <2>2
    <3> QED BY <1>5, <3>1 DEF Orderly
  <2> QED BY <2>1, <2>2
<1>7. PICK shown : shown = LastItems(all, PanelSize)
  OBVIOUS
<1>s. PICK size \in Nat : size = PanelSize
  BY <1>0
<1>8. PICK k \in Nat :
        /\ Len(shown) = Len(all) - k /\ Len(shown) \in Nat
        /\ shown \in Seq(Item)
        /\ \A i \in 1 .. Len(all) - k : shown[i] = all[i + k]
        /\ Len(all) <= size => k = 0
        /\ Len(all) > size => Len(shown) = size
  BY <1>7, <1>s, LastItemsAre
<1>9. ASSUME NEW i \in 2 .. Len(shown) PROVE shown[i - 1].n < shown[i].n
  <2>1. /\ i \in 1 .. Len(all) - k /\ i - 1 \in 1 .. Len(all) - k
        /\ i + k \in 2 .. Len(all) /\ (i - 1) + k = (i + k) - 1
    BY <1>5, <1>8
  <2>2. shown[i] = all[i + k] /\ shown[i - 1] = all[(i + k) - 1]
    BY <1>8, <2>1
  <2> QED BY <1>6, <2>1, <2>2
<1>10. ASSUME NEW i \in 1 .. Len(rest) PROVE rest[i].n + Len(rest) = newest + i
  <2>1. i + 1 \in 1 .. Len(queue) /\ rest[i] = queue[i + 1]
    BY <1>2
  <2>2. queue[i + 1].n + Len(queue) = newest + (i + 1)
    BY <2>1 DEF Orderly
  <2>3. PICK x \in Item : x = queue[i + 1]
    BY <2>1
  <2>4. PICK m \in Nat : m = x.n
    BY DEF Item
  <2>5. m + Len(queue) = newest + (i + 1)
    BY <2>2, <2>3, <2>4
  <2>6. i \in Nat /\ m + Len(rest) = newest + i
    BY <1>2, <2>5
  <2> QED BY <2>1, <2>3, <2>4, <2>6
<1>11. shown[Len(shown)].n = newest - Len(rest)
  <2>1. Len(shown) # 0 /\ Len(shown) \in 1 .. Len(all) - k /\ Len(shown) + k = Len(before) + 1
    BY <1>0, <1>s, <1>5, <1>8
  <2>2. shown[Len(shown)] = head
    BY <1>5, <1>8, <2>1
  <2> QED BY <1>2, <1>3, <2>2
<1>12. Orderly(shown, rest, newest)
  BY <1>9, <1>10, <1>11 DEF Orderly
<1> QED BY <1>1, <1>4, <1>7, <1>12

\* What is recent at a moment.
LEMMA RecentIs ==
  ASSUME IInv, NEW w \in Wallet
  PROVE  LET b == recent(w, BacklogSize) IN
         /\ b \in Seq(Item) /\ Len(b) <= BacklogSize
         /\ \A i \in 1 .. Len(b) : b[i].wallet = w /\ b[i].n <= pushed[w]
         /\ \A n \in Nat : n <= pushed[w] =>
              \/ \E j \in 1 .. Len(b) : b[j].n = n
              \/ n + BacklogSize <= pushed[w]
              \/ n <= lost[w]
         /\ Orderly(b, <<>>, pushed[w])
<1>0. items[w] \in Seq(Item) /\ pushed[w] \in Nat /\ lost[w] \in Nat
  BY DEF IInv, TypeOK
<1>1. PICK s \in Seq(Item), n \in Nat, old \in Nat, size \in Nat :
        s = items[w] /\ n = pushed[w] /\ old = lost[w] /\ size = BacklogSize
  BY <1>0, LogAssumption
<1>2. Newest(s, w, n, old, MaxItems)
  BY <1>1 DEF IInv, Histories, HistoryOK
<1>3. size <= MaxItems
  BY <1>1, LogAssumption
<1>4. PICK b : b = LastItems(s, size)
  OBVIOUS
<1>b. Newest(b, w, n, old, size) /\ Len(b) <= size
  BY <1>2, <1>3, <1>4, TrimmedIs
<1>5. /\ b \in Seq(Item) /\ Len(b) <= size
      /\ Len(b) <= n - old /\ (Len(b) >= size \/ Len(b) = n - old)
      /\ \A i \in 1 .. Len(b) : b[i].wallet = w /\ b[i].n = n - Len(b) + i
  BY <1>b DEF Newest
<1>6. Len(b) \in Nat
  BY <1>5
<1>7. \A i \in 1 .. Len(b) : b[i].wallet = w /\ b[i].n <= n
  BY <1>2, <1>5, <1>6
<1>8. ASSUME NEW m \in Nat, m <= n, ~(m + size <= n), ~(m <= old)
      PROVE  \E j \in 1 .. Len(b) : b[j].n = m
  <2>1. m - (n - Len(b)) \in 1 .. Len(b)
    BY <1>2, <1>3, <1>5, <1>6, <1>8
  <2>2. PICK j \in 1 .. Len(b) : j = m - (n - Len(b))
    BY <2>1
  <2>3. b[j].n = n - Len(b) + j
    BY <1>5
  <2>4. b[j].n = m
    BY <1>6, <2>2, <2>3
  <2> QED BY <2>4
<1>9. Orderly(b, <<>>, n)
  <2>1. Len(<<>>) = 0
    OBVIOUS
  <2>2. ASSUME NEW i \in 2 .. Len(b) PROVE b[i - 1].n < b[i].n
    <3>1. i - 1 \in 1 .. Len(b) /\ i \in 1 .. Len(b)
      BY <1>6
    <3>2. b[i - 1].n = n - Len(b) + (i - 1) /\ b[i].n = n - Len(b) + i
      BY <1>5, <3>1
    <3> QED BY <1>2, <1>6, <3>2
  <2>3. b # <<>> => b[Len(b)].n = n - 0
    BY <1>2, <1>5, <1>6
  <2> QED BY <2>1, <2>2, <2>3 DEF Orderly
<1>10. recent(w, BacklogSize) = b
  BY <1>1, <1>4 DEF recent
<1> QED BY <1>1, <1>5, <1>7, <1>8, <1>9, <1>10

-----------------------------------------------------------------------------
\* The steps of the stream and of the panel.

LEMMA ItemsAre ==
  ASSUME NEW s \in Seq(Item), NEW i \in 1 .. Len(s)
  PROVE  s[i] \in Item /\ s[i].wallet \in Wallet /\ s[i].n \in Nat
<1>1. PICK x \in Item : x = s[i]
  OBVIOUS
<1> QED BY <1>1 DEF Item

\* StreamIsInOrder, by its parts.
LEMMA OrderIs ==
  StreamIsInOrder <=>
    /\ store = "memory" /\ stream.pc = "backlog" =>
         Orderly(stream.backlog, stream.queue, pushed[stream.wallet])
    /\ store = "memory" /\ stream.pc = "streaming" =>
         Orderly(logs, stream.queue, pushed[stream.wallet])
  BY DEF StreamIsInOrder, Orderly

Panel == StreamOK /\ LogsOK /\ BacklogOK /\ StreamIsInOrder /\ stream \in Stream /\ logs \in Seq(Item)

\* What is known before a step.
LEMMA Known ==
  ASSUME IInv
  PROVE  /\ Panel /\ appends \subseteq Appending /\ AppendsOK
         /\ pushed \in [Wallet -> Nat] /\ lost \in [Wallet -> Nat]
         /\ account \in Wallet \cup {NULL}
         /\ stream.pc \in {"closed", "opened", "backlog", "streaming"}
         /\ stream.wallet \in Wallet \cup {NULL} /\ stream.subscribed \in BOOLEAN
         /\ stream.backlog \in Seq(Item) /\ stream.queue \in Seq(Item)
  BY DEF IInv, TypeOK, Panel, Stream

\* A step that leaves the stream and the panel alone, and whose wallet is
\* another one when the store is in memory and the stream is subscribed.
LEMMA QuietStep ==
  ASSUME IInv, [Next]_vars, UNCHANGED <<store, stream, logs>>,
         stream.pc # "closed" => account' = account,
         store = "memory" /\ stream.pc \in {"backlog", "streaming"} =>
           pushed'[stream.wallet] = pushed[stream.wallet]
  PROVE  Panel'
<1>a. /\ Panel /\ pushed \in [Wallet -> Nat]
      /\ stream.backlog \in Seq(Item) /\ stream.queue \in Seq(Item)
      /\ \A w \in Wallet :
           /\ pushed[w] \in Nat /\ pushed'[w] \in Nat /\ pushed[w] <= pushed'[w]
           /\ lost[w] \in Nat /\ lost'[w] \in Nat /\ lost[w] <= lost'[w]
  BY Known, Grows
<1>b. ASSUME NEW s \in Seq(Item), NEW w \in Wallet, NEW i \in 1 .. Len(s), s[i].n <= pushed[w]
      PROVE  s[i].n <= pushed'[w]
  <2>1. PICK x \in Item : x = s[i]
    OBVIOUS
  <2>2. x.n \in Nat
    BY DEF Item
  <2> QED BY <1>a, <1>b, <2>1, <2>2
<1>1. StreamOK'
  <2>1. CASE stream.pc = "closed"
    BY <1>a, <2>1 DEF Panel, StreamOK, Own
  <2>2. CASE stream.pc # "closed"
    <3>1. stream.wallet = account /\ account \in Wallet
      BY <1>a, <2>2 DEF Panel, StreamOK
    <3>2. \A s \in Seq(Item) : Own(s) =>
            \A i \in 1 .. Len(s) : s[i].wallet = stream.wallet /\ s[i].n <= pushed'[stream.wallet]
      BY <1>b, <3>1 DEF Own
    <3>3. Own(stream.backlog)' /\ Own(stream.queue)'
      BY <1>a, <3>2 DEF Panel, StreamOK, Own
    <3> QED BY <1>a, <2>2, <3>3 DEF Panel, StreamOK
  <2> QED BY <2>1, <2>2
<1>2. LogsOK'
  <2>1. \A i \in 1 .. Len(logs) : logs[i] \in Item /\ logs[i].wallet \in Wallet
    BY <1>a, ItemsAre DEF Panel
  <2> QED BY <1>a, <1>b, <2>1 DEF Panel, LogsOK
<1>3. BacklogOK'
  <2> SUFFICES ASSUME stream.pc = "backlog", NEW i \in 1 .. Len(logs), logs[i].wallet = stream.wallet,
                      ~\E j \in 1 .. Len(stream.backlog) : stream.backlog[j].n = logs[i].n
               PROVE  \/ logs[i].n + BacklogSize <= pushed'[stream.wallet]
                      \/ logs[i].n <= lost'[stream.wallet]
    BY DEF BacklogOK
  <2>1. PICK x \in Item : x = logs[i]
    BY <1>a DEF Panel
  <2>2. PICK w \in Wallet, n \in Nat : w = x.wallet /\ n = x.n
    BY DEF Item
  <2>3. w = stream.wallet /\ (n + BacklogSize <= pushed[w] \/ n <= lost[w])
    BY <1>a, <2>1, <2>2 DEF Panel, BacklogOK
  <2>4. BacklogSize \in Nat
    BY LogAssumption
  <2>5. n + BacklogSize <= pushed'[w] \/ n <= lost'[w]
    BY <1>a, <2>3, <2>4
  <2> QED BY <2>1, <2>2, <2>3, <2>5
<1>4. StreamIsInOrder'
  <2>1. stream.pc \in {"backlog", "streaming"} => stream.pc # "closed"
    OBVIOUS
  <2>2. StreamIsInOrder
    BY <1>a DEF Panel
  <2> QED BY <2>1, <2>2 DEF StreamIsInOrder
<1> QED BY <1>a, <1>1, <1>2, <1>3, <1>4 DEF Panel

\* The panel's stream is closed.
LEMMA ClosingStep ==
  ASSUME IInv, [Next]_vars, stream' = Closed, logs' = logs
  PROVE  Panel'
<1>a. /\ Panel
      /\ \A w \in Wallet : pushed[w] \in Nat /\ pushed'[w] \in Nat /\ pushed[w] <= pushed'[w]
  BY Known, Grows
<1>1. /\ Closed \in Stream /\ Closed.pc = "closed" /\ ~Closed.subscribed
      /\ Closed.backlog = <<>> /\ Closed.queue = <<>> /\ Len(<<>>) = 0
  BY DEF Closed, Stream
<1>2. StreamOK'
  BY <1>1, LogAssumption DEF StreamOK, Own
<1>3. LogsOK'
  <2>1. \A i \in 1 .. Len(logs) : logs[i] \in Item /\ logs[i].wallet \in Wallet /\ logs[i].n \in Nat
    BY <1>a, ItemsAre DEF Panel
  <2>2. \A i \in 1 .. Len(logs) : logs[i].n <= pushed'[logs[i].wallet]
    BY <1>a, <2>1 DEF Panel, LogsOK
  <2> QED BY <1>a, <1>1, <2>2 DEF Panel, LogsOK
<1>4. BacklogOK' /\ StreamIsInOrder'
  BY <1>1 DEF BacklogOK, StreamIsInOrder
<1> QED BY <1>a, <1>1, <1>2, <1>3, <1>4 DEF Panel

\* An item is published to the stream of its wallet.
LEMMA ReceivingStep ==
  ASSUME IInv, [Next]_vars, NEW item \in Item,
         stream' = Received(stream, item), UNCHANGED <<store, logs, account, lost>>,
         item.n <= pushed'[item.wallet],
         \A w \in Wallet : w # item.wallet => pushed'[w] = pushed[w],
         store = "memory" =>
           pushed'[item.wallet] = pushed[item.wallet] + 1 /\ item.n = pushed[item.wallet] + 1
  PROVE  Panel'
<1>a. /\ Panel /\ stream \in Stream /\ Len(stream.queue) <= QueueSize
      /\ stream.backlog \in Seq(Item) /\ stream.queue \in Seq(Item)
      /\ \A w \in Wallet :
           /\ pushed[w] \in Nat /\ pushed'[w] \in Nat /\ pushed[w] <= pushed'[w]
           /\ lost[w] \in Nat /\ lost'[w] \in Nat /\ lost[w] <= lost'[w]
  BY Known, Grows DEF Panel, StreamOK
<1>1. CASE ~(stream.subscribed /\ stream.wallet = item.wallet)
  <2>1. stream' = stream
    BY <1>1, <1>a, ReceivedIs
  <2>2. store = "memory" /\ stream.pc \in {"backlog", "streaming"} =>
          pushed'[stream.wallet] = pushed[stream.wallet]
    BY <1>1, <1>a DEF Panel, StreamOK
  <2> QED BY <2>1, <2>2, QuietStep
<1>2. CASE stream.subscribed /\ stream.wallet = item.wallet
  <2>1. PICK t \in Stream : t = Received(stream, item)
    BY <1>a, ReceivedIs
  <2>2. /\ stream' = t /\ t.pc = stream.pc /\ t.wallet = stream.wallet /\ t.subscribed = stream.subscribed
        /\ t.backlog = stream.backlog /\ t.queue = _enqueue(stream.queue, item)
    BY <1>2, <1>a, <2>1, ReceivedIs
  <2>3. stream.pc # "closed" /\ stream.wallet = account /\ account \in Wallet
    BY <1>2, <1>a DEF Panel, StreamOK
  <2>4. PICK w \in Wallet : w = stream.wallet
    BY <2>3
  <2>5. PICK k \in {0, 1} :
          /\ Len(t.queue) = Len(stream.queue) + 1 - k
          /\ Len(stream.queue) + 1 - k <= QueueSize
          /\ \A i \in 1 .. Len(stream.queue) - k : t.queue[i] = stream.queue[i + k]
          /\ t.queue[Len(stream.queue) + 1 - k] = item
    BY <1>a, <2>2, EnqueueAdds
  <2>6. ASSUME NEW i \in 1 .. Len(t.queue)
        PROVE  t.queue[i].wallet = w /\ t.queue[i].n <= pushed'[w]
    <3>1. Len(stream.queue) \in Nat
      BY <1>a
    <3>2. CASE i = Len(stream.queue) + 1 - k
      BY <1>2, <2>4, <2>5, <3>2
    <3>3. CASE i # Len(stream.queue) + 1 - k
      <4>1. i + k \in 1 .. Len(stream.queue) /\ t.queue[i] = stream.queue[i + k]
        BY <2>5, <3>1, <3>3
      <4>2. PICK x \in Item : x = stream.queue[i + k]
        BY <1>a, <4>1
      <4>3. x.n \in Nat /\ x.wallet = w /\ x.n <= pushed[w]
        BY <1>a, <2>4, <4>1, <4>2 DEF Panel, StreamOK, Own, Item
      <4> QED BY <1>a, <4>1, <4>2, <4>3
    <3> QED BY <3>2, <3>3
  <2>7. ASSUME NEW s \in Seq(Item), NEW i \in 1 .. Len(s), NEW v \in Wallet, s[i].n <= pushed[v]
        PROVE  s[i].n <= pushed'[v]
    <3>1. PICK x \in Item : x = s[i]
      OBVIOUS
    <3>2. x.n \in Nat
      BY DEF Item
    <3> QED BY <1>a, <2>7, <3>1, <3>2
  <2>8. StreamOK'
    <3>1. \A i \in 1 .. Len(t.backlog) : t.backlog[i].wallet = w /\ t.backlog[i].n <= pushed'[w]
      BY <1>a, <2>2, <2>4, <2>7 DEF Panel, StreamOK, Own
    <3>2. Len(t.queue) <= QueueSize /\ Len(t.backlog) <= BacklogSize
      BY <1>a, <2>2, <2>5 DEF Panel, StreamOK
    <3>3. t.wallet = w
      BY <2>2, <2>4
    <3>4. Own(stream.backlog)' /\ Own(stream.queue)'
      BY <2>2, <2>6, <3>1, <3>3 DEF Own
    <3> QED BY <1>a, <1>2, <2>2, <2>3, <3>2, <3>4 DEF Panel, StreamOK
  <2>9. LogsOK'
    <3>1. \A i \in 1 .. Len(logs) : logs[i] \in Item /\ logs[i].wallet \in Wallet
      BY <1>a, ItemsAre DEF Panel
    <3> QED BY <1>a, <2>2, <2>7, <3>1 DEF Panel, LogsOK
  <2>10. BacklogOK'
    <3> SUFFICES ASSUME stream.pc = "backlog", NEW i \in 1 .. Len(logs), logs[i].wallet = w,
                        ~\E j \in 1 .. Len(stream.backlog) : stream.backlog[j].n = logs[i].n
                 PROVE  logs[i].n + BacklogSize <= pushed'[w] \/ logs[i].n <= lost'[w]
      BY <2>2, <2>4 DEF BacklogOK
    <3>1. PICK x \in Item : x = logs[i]
      BY <1>a DEF Panel
    <3>2. PICK n \in Nat : n = x.n
      BY DEF Item
    <3>3. n + BacklogSize <= pushed[w] \/ n <= lost[w]
      BY <1>a, <2>4, <3>1, <3>2 DEF Panel, BacklogOK
    <3>4. BacklogSize \in Nat
      BY LogAssumption
    <3>5. n + BacklogSize <= pushed'[w] \/ n <= lost'[w]
      BY <1>a, <3>3, <3>4
    <3> QED BY <3>1, <3>2, <3>5
  <2>11. StreamIsInOrder'
    <3>1. StreamIsInOrder /\ logs \in Seq(Item)
      BY <1>a DEF Panel
    <3>2. PICK newest \in Nat : newest = pushed[w]
      BY <1>a
    <3>3. store = "memory" => pushed'[w] = newest + 1 /\ item.n = newest + 1
      BY <1>2, <2>4, <3>2
    <3>4. ASSUME NEW before \in Seq(Item), store = "memory", Orderly(before, stream.queue, newest)
          PROVE  Orderly(before, t.queue, pushed'[w])
      <4>1. Orderly(before, _enqueue(stream.queue, item), newest + 1)
        BY <1>a, <3>3, <3>4, OrderlyWhenQueued
      <4> QED BY <2>2, <3>3, <3>4, <4>1
    <3>5. /\ store = "memory" /\ t.pc = "backlog" => Orderly(t.backlog, t.queue, pushed'[w])
          /\ store = "memory" /\ t.pc = "streaming" => Orderly(logs, t.queue, pushed'[w])
      BY <1>a, <2>2, <2>4, <3>1, <3>2, <3>4, OrderIs
    <3> QED BY <2>2, <2>4, <3>5 DEF StreamIsInOrder, Orderly
  <2> QED BY <1>a, <2>1, <2>2, <2>8, <2>9, <2>10, <2>11 DEF Panel
<1> QED BY <1>1, <1>2

\* The page's panel connects.
LEMMA ConnectStep ==
  ASSUME IInv, [Next]_vars, Connect
  PROVE  Panel'
<1>a. /\ Panel /\ pushed' = pushed /\ lost' = lost /\ store' = store /\ logs' = logs
      /\ account' = account /\ stream.pc = "closed"
      /\ \A w \in Wallet : pushed[w] \in Nat
  BY Known DEF Connect, storeVars, pageVars
<1>b. account \in Wallet
  BY DEF IInv, TypeOK, Connect
<1>c. BacklogSize \in Nat /\ QueueSize \in Nat /\ Len(<<>>) = 0 /\ <<>> \in Seq(Item)
  BY LogAssumption
<1>1. /\ stream' \in Stream /\ stream'.pc = "opened" /\ stream'.wallet = account
      /\ stream'.subscribed = FALSE /\ stream'.backlog = <<>> /\ stream'.queue = <<>>
  BY <1>b, <1>c DEF Connect, Closed, Stream
<1>2. StreamOK'
  BY <1>a, <1>b, <1>c, <1>1 DEF StreamOK, Own
<1>3. LogsOK' /\ BacklogOK' /\ StreamIsInOrder'
  BY <1>a, <1>1 DEF Panel, LogsOK, BacklogOK, StreamIsInOrder
<1> QED BY <1>a, <1>1, <1>2, <1>3 DEF Panel

LEMMA SubscribeStep ==
  ASSUME IInv, [Next]_vars, Subscribe
  PROVE  Panel'
<1>a. /\ Panel /\ stream \in Stream /\ pushed' = pushed /\ lost' = lost /\ store' = store
      /\ logs' = logs /\ account' = account /\ stream.pc # "closed" /\ ~stream.subscribed
      /\ stream' = [stream EXCEPT !.subscribed = TRUE]
  BY Known DEF Subscribe, storeVars, pageVars, Panel
<1>1. /\ stream' \in Stream /\ stream'.pc = stream.pc /\ stream'.wallet = stream.wallet
      /\ stream'.subscribed = TRUE /\ stream'.backlog = stream.backlog
      /\ stream'.queue = stream.queue
  BY <1>a DEF Stream
<1>2. store # "memory"
  BY DEF Subscribe
<1>3. StreamOK'
  BY <1>a, <1>1, <1>2 DEF Panel, StreamOK, Own
<1>4. LogsOK' /\ BacklogOK' /\ StreamIsInOrder'
  BY <1>a, <1>1, <1>2 DEF Panel, LogsOK, BacklogOK, StreamIsInOrder
<1> QED BY <1>a, <1>1, <1>3, <1>4 DEF Panel

LEMMA ReadBacklogStep ==
  ASSUME IInv, [Next]_vars, ReadBacklog
  PROVE  Panel'
<1>a. /\ Panel /\ stream \in Stream /\ pushed' = pushed /\ lost' = lost /\ store' = store
      /\ logs' = logs /\ account' = account /\ stream.pc = "opened"
      /\ \A w \in Wallet : pushed[w] \in Nat
      /\ stream.queue \in Seq(Item)
  BY Known DEF ReadBacklog, storeVars, pageVars, Panel
<1>1. store # "memory" /\ stream.wallet = account /\ account \in Wallet
  BY <1>a DEF ReadBacklog, Panel, StreamOK
<1>b. PICK w \in Wallet : w = stream.wallet
  BY <1>1
<1>c. PICK b : b = recent(w, BacklogSize)
  OBVIOUS
<1>2. w = stream.wallet /\ b = recent(stream.wallet, BacklogSize)
  BY <1>b, <1>c
<1>3. /\ b \in Seq(Item) /\ Len(b) <= BacklogSize
      /\ \A i \in 1 .. Len(b) : b[i].wallet = w /\ b[i].n <= pushed[w]
      /\ \A n \in Nat : n <= pushed[w] =>
           \/ \E j \in 1 .. Len(b) : b[j].n = n
           \/ n + BacklogSize <= pushed[w]
           \/ n <= lost[w]
  BY <1>2, RecentIs
<1>4. stream' = [stream EXCEPT !.pc = "backlog", !.backlog = b]
  BY <1>2 DEF ReadBacklog
<1>5. /\ stream' \in Stream /\ stream'.pc = "backlog" /\ stream'.wallet = stream.wallet
      /\ stream'.subscribed = stream.subscribed /\ stream'.backlog = b
      /\ stream'.queue = stream.queue
  BY <1>a, <1>3, <1>4 DEF Stream
<1>6. StreamOK'
  BY <1>a, <1>1, <1>2, <1>3, <1>5 DEF Panel, StreamOK, Own
<1>7. LogsOK' /\ StreamIsInOrder'
  BY <1>a, <1>1, <1>5 DEF Panel, LogsOK, StreamIsInOrder
<1>8. BacklogOK'
  <2> SUFFICES ASSUME NEW i \in 1 .. Len(logs), logs[i].wallet = w
               PROVE  \/ \E j \in 1 .. Len(b) : b[j].n = logs[i].n
                      \/ logs[i].n + BacklogSize <= pushed[w]
                      \/ logs[i].n <= lost[w]
    BY <1>a, <1>2, <1>5 DEF BacklogOK
  <2>1. logs[i].n \in Nat /\ logs[i].n <= pushed[w]
    BY <1>a, ItemsAre DEF Panel, LogsOK
  <2> QED BY <1>3, <2>1
<1> QED BY <1>a, <1>5, <1>6, <1>7, <1>8 DEF Panel

LEMMA SubscribeAndReadStep ==
  ASSUME IInv, [Next]_vars, SubscribeAndRead
  PROVE  Panel'
<1>a. /\ Panel /\ stream \in Stream /\ pushed' = pushed /\ lost' = lost /\ store' = store
      /\ logs' = logs /\ account' = account /\ stream.pc = "opened" /\ store = "memory"
      /\ \A w \in Wallet : pushed[w] \in Nat
  BY Known DEF SubscribeAndRead, storeVars, pageVars, Panel
<1>1. stream.queue = <<>> /\ Len(<<>>) = 0 /\ stream.wallet = account /\ account \in Wallet
  BY <1>a DEF Panel, StreamOK
<1>b. PICK w \in Wallet : w = stream.wallet
  BY <1>1
<1>c. PICK b : b = recent(w, BacklogSize)
  OBVIOUS
<1>2. w = stream.wallet /\ b = recent(stream.wallet, BacklogSize)
  BY <1>b, <1>c
<1>3. /\ b \in Seq(Item) /\ Len(b) <= BacklogSize
      /\ \A i \in 1 .. Len(b) : b[i].wallet = w /\ b[i].n <= pushed[w]
      /\ \A n \in Nat : n <= pushed[w] =>
           \/ \E j \in 1 .. Len(b) : b[j].n = n
           \/ n + BacklogSize <= pushed[w]
           \/ n <= lost[w]
      /\ Orderly(b, <<>>, pushed[w])
  BY <1>2, RecentIs
<1>4. stream' = [stream EXCEPT !.pc = "backlog", !.subscribed = TRUE, !.backlog = b]
  BY <1>2 DEF SubscribeAndRead
<1>5. /\ stream' \in Stream /\ stream'.pc = "backlog" /\ stream'.wallet = stream.wallet
      /\ stream'.subscribed = TRUE /\ stream'.backlog = b /\ stream'.queue = <<>>
  BY <1>a, <1>1, <1>3, <1>4 DEF Stream
<1>6. StreamOK'
  BY <1>a, <1>1, <1>2, <1>3, <1>5, LogAssumption DEF Panel, StreamOK, Own
<1>7. LogsOK'
  BY <1>a, <1>5 DEF Panel, LogsOK
<1>8. BacklogOK'
  <2> SUFFICES ASSUME NEW i \in 1 .. Len(logs), logs[i].wallet = w
               PROVE  \/ \E j \in 1 .. Len(b) : b[j].n = logs[i].n
                      \/ logs[i].n + BacklogSize <= pushed[w]
                      \/ logs[i].n <= lost[w]
    BY <1>a, <1>2, <1>5 DEF BacklogOK
  <2>1. logs[i].n \in Nat /\ logs[i].n <= pushed[w]
    BY <1>a, ItemsAre DEF Panel, LogsOK
  <2> QED BY <1>3, <2>1
<1>9. StreamIsInOrder'
  BY <1>a, <1>2, <1>3, <1>5 DEF StreamIsInOrder, Orderly
<1> QED BY <1>a, <1>5, <1>6, <1>7, <1>8, <1>9 DEF Panel

\* The panel shows the backlog and nothing else.
LEMMA BacklogIsShown ==
  ASSUME IInv, SendBacklog
  PROVE  /\ logs' = stream.backlog
         /\ stream' \in Stream /\ stream'.pc = "streaming" /\ stream'.wallet = stream.wallet
         /\ stream'.subscribed = stream.subscribed /\ stream'.backlog = <<>>
         /\ stream'.queue = stream.queue
<1>a. stream \in Stream /\ stream.backlog \in Seq(Item) /\ Len(stream.backlog) <= BacklogSize
  BY Known DEF Panel, StreamOK
<1>1. PICK b \in Seq(Item), size \in Nat : b = stream.backlog /\ size = PanelSize
  BY <1>a, LogAssumption
<1>2. Len(b) \in Nat /\ Len(b) <= size
  BY <1>a, <1>1, LogAssumption
<1>3. LastItems(b, size) = SubSeq(b, 1, Len(b))
  <2>1. ~(Len(b) > size)
    BY <1>2
  <2> QED BY <2>1 DEF LastItems
<1>4. SubSeq(b, 1, Len(b)) = b
  OBVIOUS
<1>5. logs' = stream.backlog
  BY <1>1, <1>3, <1>4 DEF SendBacklog
<1>6. stream' = [stream EXCEPT !.pc = "streaming", !.backlog = <<>>]
  BY DEF SendBacklog
<1>7. <<>> \in Seq(Item)
  OBVIOUS
<1>8. /\ stream' \in Stream /\ stream'.pc = "streaming" /\ stream'.wallet = stream.wallet
      /\ stream'.subscribed = stream.subscribed /\ stream'.backlog = <<>>
      /\ stream'.queue = stream.queue
  BY <1>a, <1>6, <1>7 DEF Stream
<1> QED BY <1>5, <1>8

LEMMA SendBacklogStep ==
  ASSUME IInv, [Next]_vars, SendBacklog
  PROVE  Panel'
<1>a. /\ Panel /\ stream \in Stream /\ pushed' = pushed /\ lost' = lost /\ store' = store
      /\ account' = account /\ stream.pc = "backlog" /\ stream.backlog \in Seq(Item)
  BY Known DEF SendBacklog, storeVars, Panel
<1>1. /\ logs' = stream.backlog
      /\ stream' \in Stream /\ stream'.pc = "streaming" /\ stream'.wallet = stream.wallet
      /\ stream'.subscribed = stream.subscribed /\ stream'.backlog = <<>>
      /\ stream'.queue = stream.queue
  BY BacklogIsShown
<1>2. Len(<<>>) = 0 /\ 0 <= BacklogSize
  BY LogAssumption
<1>3. StreamOK'
  BY <1>a, <1>1, <1>2 DEF Panel, StreamOK, Own
<1>4. LogsOK'
  BY <1>a, <1>1 DEF Panel, StreamOK, Own, LogsOK
<1>5. BacklogOK'
  BY <1>1 DEF BacklogOK
<1>6. StreamIsInOrder'
  <2>1. store = "memory" => Orderly(stream.backlog, stream.queue, pushed[stream.wallet])
    BY <1>a, OrderIs DEF Panel
  <2>2. store' = "memory" => Orderly(logs', stream'.queue, pushed'[stream'.wallet])
    BY <1>a, <1>1, <2>1
  <2> QED BY <1>1, <2>2 DEF StreamIsInOrder, Orderly
<1> QED BY <1>a, <1>1, <1>3, <1>4, <1>5, <1>6 DEF Panel

LEMMA DeliverStep ==
  ASSUME IInv, [Next]_vars, Deliver
  PROVE  Panel'
<1>a. /\ Panel /\ stream \in Stream /\ pushed' = pushed /\ lost' = lost /\ store' = store
      /\ account' = account /\ stream.pc = "streaming" /\ stream.queue \in Seq(Item)
      /\ stream.queue # <<>> /\ logs \in Seq(Item) /\ pushed \in [Wallet -> Nat]
  BY Known DEF Deliver, storeVars, Panel
<1>b. stream.wallet = account /\ account \in Wallet /\ Len(stream.queue) <= QueueSize
      /\ QueueSize \in Nat
  BY <1>a, LogAssumption DEF Panel, StreamOK
<1>c. Tail(stream.queue) \in Seq(Item) /\ Head(stream.queue) \in Item
  BY <1>a
<1>1. PICK w \in Wallet, head \in Item, rest \in Seq(Item) :
        w = stream.wallet /\ head = Head(stream.queue) /\ rest = Tail(stream.queue)
  BY <1>b, <1>c
<1>2. /\ Len(stream.queue) \in Nat /\ Len(stream.queue) # 0 /\ head = stream.queue[1]
      /\ Len(rest) = Len(stream.queue) - 1
      /\ \A i \in 1 .. Len(rest) : rest[i] = stream.queue[i + 1]
  BY <1>a, <1>1
<1>3. /\ \A i \in 1 .. Len(stream.queue) :
           stream.queue[i].wallet = w /\ stream.queue[i].n <= pushed[w]
      /\ head \in Item /\ head.wallet = w /\ head.n <= pushed[w]
  <2>1. \A i \in 1 .. Len(stream.queue) :
          stream.queue[i].wallet = w /\ stream.queue[i].n <= pushed[w]
    BY <1>a, <1>1 DEF Panel, StreamOK, Own
  <2>2. 1 \in 1 .. Len(stream.queue)
    BY <1>2
  <2> QED BY <1>a, <1>2, <2>1, <2>2
<1>4. stream' = [stream EXCEPT !.queue = rest]
  BY <1>1 DEF Deliver
<1>5. /\ stream' \in Stream /\ stream'.pc = stream.pc /\ stream'.wallet = stream.wallet
      /\ stream'.subscribed = stream.subscribed /\ stream'.backlog = stream.backlog
      /\ stream'.queue = rest
  BY <1>a, <1>4 DEF Stream
<1>6. Append(logs, head) \in Seq(Item)
  BY <1>a, <1>3
<1>7. PICK all \in Seq(Item), size \in Nat : all = Append(logs, head) /\ size = PanelSize
  BY <1>6, LogAssumption
<1>8. /\ Len(logs) \in Nat /\ Len(all) = Len(logs) + 1
      /\ \A i \in 1 .. Len(logs) : all[i] = logs[i]
      /\ all[Len(logs) + 1] = head
  BY <1>a, <1>3, <1>7
<1>9. \A i \in 1 .. Len(all) : all[i].wallet = w /\ all[i].n <= pushed[w]
  <2>1. \A i \in 1 .. Len(logs) : logs[i].wallet = w /\ logs[i].n <= pushed[w]
    BY <1>a, <1>1 DEF Panel, LogsOK
  <2> QED BY <1>3, <1>8, <2>1
<1>10. PICK k \in Nat :
         /\ Len(LastItems(all, size)) = Len(all) - k
         /\ LastItems(all, size) \in Seq(Item)
         /\ \A i \in 1 .. Len(all) - k : LastItems(all, size)[i] = all[i + k]
  BY LastItemsAre
<1>11. logs' = LastItems(all, size)
  BY <1>1, <1>7 DEF Deliver
<1>12. logs' \in Seq(Item) /\ \A i \in 1 .. Len(logs') : logs'[i].wallet = w /\ logs'[i].n <= pushed[w]
  <2>1. ASSUME NEW i \in 1 .. Len(all) - k PROVE i + k \in 1 .. Len(all)
    BY <1>8
  <2> QED BY <1>9, <1>10, <1>11, <2>1
<1>13. StreamOK'
  <2>1. \A i \in 1 .. Len(rest) : rest[i].wallet = w /\ rest[i].n <= pushed[w]
    <3>1. ASSUME NEW i \in 1 .. Len(rest) PROVE i + 1 \in 1 .. Len(stream.queue)
      BY <1>2
    <3> QED BY <1>2, <1>3, <3>1
  <2>2. Len(rest) <= QueueSize
    BY <1>b, <1>2
  <2>3. Own(stream.queue)'
    BY <1>a, <1>1, <1>5, <2>1 DEF Own
  <2>4. Own(stream.backlog)'
    BY <1>a, <1>5 DEF Panel, StreamOK, Own
  <2> QED BY <1>a, <1>5, <2>2, <2>3, <2>4 DEF Panel, StreamOK
<1>14. LogsOK'
  BY <1>a, <1>1, <1>5, <1>12 DEF LogsOK
<1>15. BacklogOK'
  BY <1>a, <1>5 DEF BacklogOK
<1>16. StreamIsInOrder'
  <2>1. store = "memory" => Orderly(logs, stream.queue, pushed[w])
    BY <1>a, <1>1, OrderIs DEF Panel
  <2>2. pushed[w] \in Nat
    BY <1>a
  <2>3. store = "memory" => Orderly(logs', rest, pushed[w])
    BY <1>a, <1>1, <1>7, <1>11, <2>1, <2>2, OrderlyWhenDelivered
  <2>4. store' = "memory" => Orderly(logs', stream'.queue, pushed'[stream'.wallet])
    BY <1>a, <1>1, <1>5, <2>3
  <2>5. stream'.pc = "streaming"
    BY <1>a, <1>5
  <2> QED BY <2>4, <2>5 DEF StreamIsInOrder, Orderly
<1> QED BY <1>5, <1>12, <1>13, <1>14, <1>15, <1>16 DEF Panel

-----------------------------------------------------------------------------
\* The theorems.

LEMMA PanelStep ==
  ASSUME IInv, [Next]_vars
  PROVE  Panel'
<1>a. /\ appends \subseteq Appending /\ AppendsOK
      /\ pushed \in [Wallet -> Nat]
  BY Known
<1>1. ASSUME NEW w \in Wallet, AppendMemory(w) PROVE Panel'
  <2>1. /\ store = "memory" /\ pushed' = [pushed EXCEPT ![w] = pushed[w] + 1]
        /\ stream' = Received(stream, NextItem(w))
        /\ UNCHANGED <<store, logs, account, lost>>
    BY <1>1 DEF AppendMemory, pageVars
  <2>2. NextItem(w) \in Item /\ NextItem(w).wallet = w /\ NextItem(w).n = pushed[w] + 1
    BY <1>a DEF NextItem, Item
  <2>3. pushed'[w] = pushed[w] + 1 /\ \A v \in Wallet : v # w => pushed'[v] = pushed[v]
    BY <1>a, <2>1
  <2>4. NextItem(w).n <= pushed'[w]
    BY <1>a, <2>2, <2>3
  <2> QED BY <2>1, <2>2, <2>3, <2>4, ReceivingStep
<1>2. ASSUME NEW w \in Wallet, Push(w) PROVE Panel'
  <2>1. store = "redis" /\ UNCHANGED <<store, stream, logs, account>>
    BY <1>2 DEF Push, pageVars
  <2> QED BY <2>1, QuietStep
<1>3. ASSUME NEW a \in appends, Publish(a) PROVE Panel'
  <2>1. a.item \in Item /\ a.item.n <= pushed[a.item.wallet] /\ store = "redis"
    BY <1>a DEF Appending, AppendsOK
  <2>2. /\ stream' = Received(stream, a.item) /\ pushed' = pushed
        /\ UNCHANGED <<store, logs, account, lost>>
    BY <1>3 DEF Publish, pageVars
  <2> QED BY <2>1, <2>2, ReceivingStep
<1>4. ASSUME NEW a \in appends, Trim(a) \/ AppendFails(a) PROVE Panel'
  BY <1>4, QuietStep DEF Trim, AppendFails, pageVars
<1>5. ASSUME Appends PROVE Panel'
  BY <1>1, <1>2, <1>3, <1>4, <1>5 DEF Appends
<1>6. ASSUME Disconnect \/ Restart PROVE Panel'
  BY <1>6, ClosingStep DEF Disconnect, Restart, pageVars
<1>7. ASSUME Streaming PROVE Panel'
  BY <1>6, <1>7, ConnectStep, SubscribeAndReadStep, SubscribeStep, ReadBacklogStep,
     SendBacklogStep, DeliverStep
     DEF Streaming
<1>8. ASSUME NEW w \in Wallet \cup {NULL}, AccountChanges(w) PROVE Panel'
  BY <1>8, ClosingStep DEF AccountChanges
<1>9. ASSUME \/ setStoredAuthToken
             \/ \E w \in Wallet : clearStoredAuthToken(w)
             \/ UNCHANGED vars
      PROVE  Panel'
  <2>1. UNCHANGED <<store, pushed, stream, logs, account>>
    BY <1>9 DEF setStoredAuthToken, clearStoredAuthToken, vars, storeVars, pageVars
  <2> QED BY <2>1, QuietStep
<1> QED BY <1>5, <1>7, <1>8, <1>9 DEF Next, Page

LEMMA NextIsSound == IInv /\ [Next]_vars => IInv'
<1> SUFFICES ASSUME IInv, [Next]_vars PROVE IInv'
  OBVIOUS
<1>1. /\ Histories' /\ items' \in [Wallet -> Seq(Item)]
      /\ AppendsOK' /\ appends' \subseteq Appending /\ Panel'
  BY HistoriesStep, AppendsStep, PanelStep
<1>2. pushed' \in [Wallet -> Nat] /\ lost' \in [Wallet -> Nat]
  <2>1. pushed \in [Wallet -> Nat] /\ lost \in [Wallet -> Nat]
    BY Known
  <2>2. \/ \E w \in Wallet : pushed' = [pushed EXCEPT ![w] = @ + 1] /\ lost' = lost
        \/ lost' = pushed /\ pushed' = pushed
        \/ pushed' = pushed /\ lost' = lost
    BY DEF Next, Appends, Streaming, Page, vars, storeVars, AppendMemory, Push, Trim, Publish,
           AppendFails, Connect, SubscribeAndRead, Subscribe, ReadBacklog, SendBacklog, Deliver, Disconnect, Restart,
           AccountChanges, setStoredAuthToken, clearStoredAuthToken
  <2> QED BY <2>1, <2>2
<1>3. store' \in {"memory", "redis"} /\ account' \in Wallet \cup {NULL} /\ tokens' \subseteq Wallet
  <2>1. store \in {"memory", "redis"} /\ account \in Wallet \cup {NULL} /\ tokens \subseteq Wallet
    BY DEF IInv, TypeOK
  <2>2. store' = store
    BY DEF Next, Appends, Streaming, Page, vars, AppendMemory, Push, Trim, Publish,
           AppendFails, Connect, SubscribeAndRead, Subscribe, ReadBacklog, SendBacklog, Deliver, Disconnect, Restart,
           AccountChanges, setStoredAuthToken, clearStoredAuthToken
  <2>3. \/ UNCHANGED <<account, tokens>>
        \/ account' \in Wallet \cup {NULL} /\ tokens' = tokens
        \/ account # NULL /\ tokens' = tokens \cup {account} /\ account' = account
        \/ (\E w \in Wallet : tokens' = tokens \ {w}) /\ account' = account
    BY DEF Next, Appends, Streaming, Page, vars, pageVars, AppendMemory, Push, Trim, Publish,
           AppendFails, Connect, SubscribeAndRead, Subscribe, ReadBacklog, SendBacklog, Deliver, Disconnect, Restart,
           AccountChanges, setStoredAuthToken, clearStoredAuthToken
  <2> QED BY <2>1, <2>2, <2>3
<1> QED BY <1>1, <1>2, <1>3 DEF IInv, TypeOK, Panel

\* The invariant holds in every state.
THEOREM Inductive == Spec => []IInv
<1>1. Init => IInv
  BY InitIsSound
<1>2. IInv /\ [Next]_vars => IInv'
  BY NextIsSound
<1> QED BY <1>1, <1>2, PTL DEF Spec

\* The variables have the values their descriptions give.
THEOREM TypeCorrect == Spec => []TypeOK
<1>1. IInv => TypeOK
  BY DEF IInv
<1> QED BY <1>1, Inductive, PTL

\* The panel never shows events of two wallets, what waits in its stream is the
\* connected wallet's, and so is all it shows from the backlog on: the page
\* closes the stream of a wallet when another is connected, and the first
\* thing a stream sends replaces what was shown.
THEOREM PanelShowsOneWallet == Spec => []StreamIsOwn
<1>1. IInv => StreamIsOwn
  <2> SUFFICES ASSUME IInv PROVE StreamIsOwn
    OBVIOUS
  <2>1. /\ Panel /\ stream.queue \in Seq(Item) /\ logs \in Seq(Item)
        /\ stream.backlog \in Seq(Item)
    BY Known DEF Panel
  <2>2. stream.pc # "closed" => stream.wallet = account
    BY <2>1 DEF Panel, StreamOK
  <2>3. /\ DOMAIN logs = 1 .. Len(logs) /\ DOMAIN stream.queue = 1 .. Len(stream.queue)
        /\ DOMAIN stream.backlog = 1 .. Len(stream.backlog)
    BY <2>1
  <2> QED BY <2>1, <2>2, <2>3 DEF StreamIsOwn, Panel, StreamOK, LogsOK, Own
<1> QED BY <1>1, Inductive, PTL

\* In memory an open stream is in order and without a gap, but for what a full
\* queue dropped.
THEOREM StreamStaysInOrder == Spec => []StreamIsInOrder
<1>1. IInv => StreamIsInOrder
  BY DEF IInv
<1> QED BY <1>1, Inductive, PTL

\* A new backlog keeps what is among the newest, in Redis as in memory: it was
\* read from a history that has the newest items, and what is shown was in the
\* history before.
THEOREM NewestAreKept == Spec => ReconnectKeepsNewest
<1> DEFINE Keeps ==
      stream.pc = "backlog" /\ stream'.pc = "streaming" =>
        \A n \in Shown(stream.wallet) :
          \/ n \in Shown(stream.wallet)'
          \/ n + BacklogSize <= pushed[stream.wallet]
          \/ n <= lost[stream.wallet]
<1>1. ASSUME IInv, [Next]_vars PROVE Keeps
  <2> SUFFICES ASSUME stream.pc = "backlog", stream'.pc = "streaming",
                      NEW n \in Shown(stream.wallet)
               PROVE  \/ n \in Shown(stream.wallet)'
                      \/ n + BacklogSize <= pushed[stream.wallet]
                      \/ n <= lost[stream.wallet]
    OBVIOUS
  <2>1. Panel /\ appends \subseteq Appending /\ stream \in Stream /\ Len(stream.queue) <= QueueSize
        /\ stream.backlog \in Seq(Item) /\ logs \in Seq(Item)
    BY <1>1, Known DEF Panel, StreamOK
  <2>2. \A item \in Item : Received(stream, item).pc = stream.pc
    BY <2>1, ReceivedIs
  <2>3. Closed.pc = "closed"
    BY DEF Closed
  <2>4. ~Appends
    <3>1. \A w \in Wallet : NextItem(w) \in Item
      BY <1>1, Known DEF NextItem, Item
    <3>2. \A a \in appends : a.item \in Item
      BY <2>1 DEF Appending
    <3> QED BY <2>2, <3>1, <3>2 DEF Appends, AppendMemory, Push, Trim, Publish, AppendFails
  <2>5. ~(Page \/ UNCHANGED vars)
    BY <2>3 DEF Page, vars, AccountChanges, setStoredAuthToken, clearStoredAuthToken
  <2>6. ~(SubscribeAndRead \/ Subscribe \/ ReadBacklog \/ Connect \/ Deliver \/ Disconnect \/ Restart)
    <3>1. ~Subscribe
      BY <2>1 DEF Subscribe, Stream
    <3>2. ~SubscribeAndRead /\ ~ReadBacklog
      BY DEF SubscribeAndRead, ReadBacklog
    <3>3. ~Connect /\ ~Deliver
      BY DEF Connect, Deliver
    <3> QED BY <2>3, <3>1, <3>2, <3>3 DEF Disconnect, Restart
  <2>7. SendBacklog
    BY <1>1, <2>4, <2>5, <2>6 DEF Next, Streaming
  <2>8. logs' = stream.backlog /\ stream'.wallet = stream.wallet
    BY <1>1, <2>7, BacklogIsShown
  <2>9. PICK i \in 1 .. Len(logs) : logs[i].wallet = stream.wallet /\ logs[i].n = n
    BY <2>1 DEF Shown
  <2>10. ASSUME NEW j \in 1 .. Len(stream.backlog), stream.backlog[j].n = n
         PROVE  n \in Shown(stream.wallet)'
    <3>1. stream.backlog[j].wallet = stream.wallet
      BY <2>1 DEF Panel, StreamOK, Own
    <3>2. j \in DOMAIN logs' /\ logs'[j].wallet = stream'.wallet /\ logs'[j].n = n
      BY <2>1, <2>8, <2>10, <3>1
    <3> QED BY <3>2 DEF Shown
  <2> QED BY <2>1, <2>9, <2>10 DEF Panel, BacklogOK
<1>2. IInv /\ [Next]_vars => [Keeps]_vars
  BY <1>1
<1>3. [][Keeps]_vars => ReconnectKeepsNewest
  BY DEF ReconnectKeepsNewest
<1> QED BY <1>2, <1>3, Inductive, PTL DEF Spec
=============================================================================
