---------------------------- MODULE ActivityLog -----------------------------
(***************************************************************************)
(* The activity log (logs_store.py, routers/logs.py) and the panel that    *)
(* shows it (LiveLogsPanel.tsx).                                           *)
(*                                                                         *)
(* Every request appends what it did to the bounded history of its wallet, *)
(* and passes it on to the wallet's open streams, each a bounded queue     *)
(* that drops its oldest item when it is full.  The store is in the memory *)
(* of the process, where an append and the opening of a stream are one     *)
(* step each (the lock is never held across an await), or in Redis, where  *)
(* each is several commands between which others run.                      *)
(*                                                                         *)
(* One page, its panel and one stream at a time: queues share nothing, and *)
(* what the server still does for a closed stream is seen by nobody.  A    *)
(* connection keeps the order and loses nothing until it is lost, and so   *)
(* what is on its way needs no variable of its own.                        *)
(***************************************************************************)
EXTENDS Naturals, Sequences, FiniteSets, Functions

CONSTANTS
  Wallet,       \* the wallets of the page's user
  NULL,         \* no wallet is connected
  MaxItems,     \* bound on a wallet's history (ACTIVITY_LOG_MAX_ITEMS)
  QueueSize,    \* bound on a stream's queue
  BacklogSize,  \* how much of the history a stream begins with
  PanelSize,    \* how much the panel shows
  MaxPushed,    \* bound on the items that are appended
  MaxAppends    \* Redis: bound on the appends in flight

ASSUME LogAssumption ==
  /\ NULL \notin Wallet
  /\ MaxItems \in Nat /\ QueueSize \in Nat \ {0} /\ MaxPushed \in Nat /\ MaxAppends \in Nat
  /\ BacklogSize \in 1 .. MaxItems /\ BacklogSize <= PanelSize /\ PanelSize \in Nat

VARIABLES
  store,        \* "memory" or "redis"
  items,        \* per wallet: its history, oldest first
  pushed,       \* history variable: how many items a wallet's history got
  lost,         \* history variable: how many of them a restart forgot
  appends,      \* Redis: the appends between their commands
  account,      \* the page's wallet
  tokens,       \* the wallets whose session token the browser keeps
  stream,       \* the panel's stream
  logs          \* what the panel shows

storeVars == <<items, pushed, lost, appends>>
pageVars == <<account, tokens, logs>>
vars == <<store, storeVars, pageVars, stream>>

-----------------------------------------------------------------------------
\* An item is told from others by its place in the wallet's history.
Item == [wallet: Wallet, n: Nat]

Appending == [item: Item, pc: {"trim", "publish"}]

\* subscribed: the queue gets what is published.
Stream ==
  [pc: {"closed", "opened", "backlog", "streaming"}, wallet: Wallet \cup {NULL},
   subscribed: BOOLEAN, backlog: Seq(Item), queue: Seq(Item)]

Closed ==
  [pc |-> "closed", wallet |-> NULL, subscribed |-> FALSE,
   backlog |-> <<>>, queue |-> <<>>]

\* The variables have the values their descriptions give.
TypeOK ==
  /\ store \in {"memory", "redis"}
  /\ items \in [Wallet -> Seq(Item)]
  /\ pushed \in [Wallet -> Nat] /\ lost \in [Wallet -> Nat]
  /\ appends \subseteq Appending
  /\ account \in Wallet \cup {NULL}
  /\ tokens \subseteq Wallet
  /\ stream \in Stream
  /\ logs \in Seq(Item)

Init ==
  /\ store \in {"memory", "redis"}
  /\ items = [w \in Wallet |-> <<>>]
  /\ pushed = [w \in Wallet |-> 0]
  /\ lost = pushed
  /\ appends = {}
  /\ account = NULL
  /\ tokens = {}
  /\ stream = Closed
  /\ logs = <<>>

\* The last n items of s: deque(maxlen), [-limit:], LTRIM and slice(-n).
LastItems(s, n) == SubSeq(s, IF Len(s) > n THEN Len(s) - n + 1 ELSE 1, Len(s))

_enqueue(queue, item) ==
  Append(IF Len(queue) = QueueSize THEN Tail(queue) ELSE queue, item)

\* A stream gets the items of its own wallet.
Received(s, item) ==
  IF s.subscribed /\ s.wallet = item.wallet
  THEN [s EXCEPT !.queue = _enqueue(@, item)] ELSE s

-----------------------------------------------------------------------------
(* The store in memory.                                                    *)

NextItem(w) == [wallet |-> w, n |-> pushed[w] + 1]

AllPushed == FoldFunction(+, 0, pushed)

AppendMemory(w) ==
  /\ store = "memory" /\ AllPushed < MaxPushed
  /\ items' = [items EXCEPT ![w] = LastItems(Append(@, NextItem(w)), MaxItems)]
  /\ pushed' = [pushed EXCEPT ![w] = @ + 1]
  /\ stream' = Received(stream, NextItem(w))
  /\ UNCHANGED <<store, lost, appends, pageVars>>

\* The history goes with the process, and so do the streams.
Restart ==
  /\ store = "memory"
  /\ items' = [w \in Wallet |-> <<>>]
  /\ lost' = pushed
  /\ stream' = Closed
  /\ UNCHANGED <<store, pushed, appends, pageVars>>

-----------------------------------------------------------------------------
(* The store in Redis.                                                     *)

\* Mutant: an item that could not be stored is published all the same.
PushIgnoringErrors(w) ==
  /\ store = "redis" /\ AllPushed < MaxPushed /\ Cardinality(appends) < MaxAppends
  /\ items' \in {items, [items EXCEPT ![w] = Append(@, NextItem(w))]}
  /\ pushed' = [pushed EXCEPT ![w] = @ + 1]
  /\ appends' = appends \cup {[item |-> NextItem(w), pc |-> "trim"]}
  /\ UNCHANGED <<store, lost, pageVars, stream>>

\* LPUSH
Push(w) ==
  /\ store = "redis" /\ AllPushed < MaxPushed /\ Cardinality(appends) < MaxAppends
  /\ items' = [items EXCEPT ![w] = Append(@, NextItem(w))]
  /\ pushed' = [pushed EXCEPT ![w] = @ + 1]
  /\ appends' = appends \cup {[item |-> NextItem(w), pc |-> "trim"]}
  /\ UNCHANGED <<store, lost, pageVars, stream>>

\* LTRIM
Trim(a) ==
  /\ a \in appends /\ a.pc = "trim"
  /\ items' = [items EXCEPT ![a.item.wallet] = LastItems(@, MaxItems)]
  /\ appends' = (appends \ {a}) \cup {[a EXCEPT !.pc = "publish"]}
  /\ UNCHANGED <<store, pushed, lost, pageVars, stream>>

\* PUBLISH
Publish(a) ==
  /\ a \in appends /\ a.pc = "publish"
  /\ stream' = Received(stream, a.item)
  /\ appends' = appends \ {a}
  /\ UNCHANGED <<store, items, pushed, lost, pageVars>>

\* Redis answers with an error, or the process dies.
AppendFails(a) ==
  /\ a \in appends
  /\ appends' = appends \ {a}
  /\ UNCHANGED <<store, items, pushed, lost, pageVars, stream>>

-----------------------------------------------------------------------------
(* The stream.                                                             *)

recent(w, limit) == LastItems(items[w], limit)

\* The panel connects with its wallet's token and the handler accepts: from
\* onopen on the panel is live, whatever it still shows.
Connect ==
  /\ stream.pc = "closed" /\ account \in tokens
  /\ stream' = [Closed EXCEPT !.pc = "opened", !.wallet = account]
  /\ UNCHANGED <<store, storeVars, pageVars>>

\* In memory the handler subscribes and reads the backlog in one step, since
\* the lock is free and nothing else is awaited.
SubscribeAndRead ==
  /\ store = "memory" /\ stream.pc = "opened"
  /\ stream' = [stream EXCEPT !.pc = "backlog", !.subscribed = TRUE,
                              !.backlog = recent(stream.wallet, BacklogSize)]
  /\ UNCHANGED <<store, storeVars, pageVars>>

\* SUBSCRIBE is sent and not waited for: Redis may carry it out after LRANGE,
\* which goes over another connection.
Subscribe ==
  /\ store = "redis" /\ stream.pc # "closed" /\ ~stream.subscribed
  /\ stream' = [stream EXCEPT !.subscribed = TRUE]
  /\ UNCHANGED <<store, storeVars, pageVars>>

\* LRANGE
ReadBacklog ==
  /\ store = "redis" /\ stream.pc = "opened"
  /\ stream' = [stream EXCEPT !.pc = "backlog",
                              !.backlog = recent(stream.wallet, BacklogSize)]
  /\ UNCHANGED <<store, storeVars, pageVars>>

\* Mutant: the backlog is added to what the panel shows.
SendBacklogAdding ==
  /\ stream.pc = "backlog"
  /\ logs' = LastItems(logs \o stream.backlog, PanelSize)
  /\ stream' = [stream EXCEPT !.pc = "streaming", !.backlog = <<>>]
  /\ UNCHANGED <<store, storeVars, account, tokens>>

\* The backlog takes the place of what the panel showed.
SendBacklog ==
  /\ stream.pc = "backlog"
  /\ logs' = LastItems(stream.backlog, PanelSize)
  /\ stream' = [stream EXCEPT !.pc = "streaming", !.backlog = <<>>]
  /\ UNCHANGED <<store, storeVars, account, tokens>>

\* Mutant: the queue is emptied when it is full.
DeliverWhenFull ==
  /\ stream.pc = "streaming" /\ Len(stream.queue) = QueueSize
  /\ logs' = LastItems(Append(logs, Head(stream.queue)), PanelSize)
  /\ stream' = [stream EXCEPT !.queue = Tail(@)]
  /\ UNCHANGED <<store, storeVars, account, tokens>>

Deliver ==
  /\ stream.pc = "streaming" /\ stream.queue # <<>>
  /\ logs' = LastItems(Append(logs, Head(stream.queue)), PanelSize)
  /\ stream' = [stream EXCEPT !.queue = Tail(@)]
  /\ UNCHANGED <<store, storeVars, account, tokens>>

\* The connection is lost; the panel will connect again.
Disconnect ==
  /\ stream.pc # "closed"
  /\ stream' = Closed
  /\ UNCHANGED <<store, storeVars, pageVars>>

-----------------------------------------------------------------------------
(* The page.                                                               *)

\* Mutant: the stream of the last wallet stays open.
AccountChangesOnly(w) ==
  /\ w # account
  /\ account' = w
  /\ UNCHANGED <<store, storeVars, tokens, logs, stream>>

\* Another wallet is connected, or none: the panel closes its stream.
AccountChanges(w) ==
  /\ w # account
  /\ account' = w
  /\ stream' = Closed
  /\ UNCHANGED <<store, storeVars, tokens, logs>>

\* Mutant: a token is stored for no wallet.
setStoredAuthTokenAlways ==
  /\ tokens' = tokens \cup {account}
  /\ UNCHANGED <<store, storeVars, account, logs, stream>>

\* Sign-in succeeds.
setStoredAuthToken ==
  /\ account # NULL
  /\ tokens' = tokens \cup {account}
  /\ UNCHANGED <<store, storeVars, account, logs, stream>>

\* The token expires, or a sign-in fails.
clearStoredAuthToken(w) ==
  /\ tokens' = tokens \ {w}
  /\ UNCHANGED <<store, storeVars, account, logs, stream>>

-----------------------------------------------------------------------------
Appends ==
  \/ \E w \in Wallet : AppendMemory(w) \/ Push(w)
  \/ \E a \in appends : Trim(a) \/ Publish(a) \/ AppendFails(a)

Streaming ==
  \/ Connect \/ SubscribeAndRead \/ Subscribe \/ ReadBacklog
  \/ SendBacklog \/ Deliver \/ Disconnect \/ Restart

Page ==
  \/ \E w \in Wallet \cup {NULL} : AccountChanges(w)
  \/ setStoredAuthToken
  \/ \E w \in Wallet : clearStoredAuthToken(w)

Next == Appends \/ Streaming \/ Page

Spec == Init /\ [][Next]_vars

\* The handler goes on while the connection lasts.
FairSpec ==
  Spec /\ WF_vars(SubscribeAndRead) /\ WF_vars(SendBacklog) /\ WF_vars(Deliver)

-----------------------------------------------------------------------------
Shown(w) == {logs[i].n : i \in {j \in DOMAIN logs : logs[j].wallet = w}}

\* No event reaches the panel of another wallet: an open stream is that of the
\* connected wallet, with all that waits in it; the panel never mixes two
\* wallets, and shows the connected one's events once its backlog is there.
StreamIsOwn ==
  /\ \A i, j \in DOMAIN logs : logs[i].wallet = logs[j].wallet
  /\ stream.pc # "closed" =>
       /\ stream.wallet = account
       /\ \A i \in DOMAIN stream.backlog : stream.backlog[i].wallet = account
       /\ \A i \in DOMAIN stream.queue : stream.queue[i].wallet = account
  /\ stream.pc = "streaming" => \A i \in DOMAIN logs : logs[i].wallet = account

\* In memory, an open stream has each item once and in order, and its queue
\* the newest ones without a gap: what is missing between what it showed, or
\* begins with, and the queue was dropped from a queue that is still full.
StreamIsInOrder ==
  store = "memory" /\ stream.pc \in {"backlog", "streaming"} =>
    LET before == IF stream.pc = "streaming" THEN logs ELSE stream.backlog
        queue == stream.queue
        newest == pushed[stream.wallet]
    IN  /\ \A i \in 2 .. Len(before) : before[i - 1].n < before[i].n
        /\ \A i \in DOMAIN queue : queue[i].n + Len(queue) = newest + i
        /\ before # <<>> =>
             LET after == newest - Len(queue) IN
             \/ before[Len(before)].n = after
             \/ before[Len(before)].n < after /\ Len(queue) = QueueSize

\* A new backlog never takes away an event among the newest ones: it was in
\* the history before it was published, and only newer ones displaced it.
ReconnectKeepsNewest ==
  [][stream.pc = "backlog" /\ stream'.pc = "streaming" =>
       \A n \in Shown(stream.wallet) :
         \/ n \in Shown(stream.wallet)'
         \/ n + BacklogSize <= pushed[stream.wallet]
         \/ n <= lost[stream.wallet]]_vars

\* In memory, an open stream catches up: the newest event is shown unless
\* there is a newer one, or the connection is lost.
PanelCatchesUp ==
  \A w \in Wallet, n \in 1 .. MaxPushed :
    (store = "memory" /\ stream.pc # "closed" /\ stream.wallet = w
       /\ pushed[w] = n /\ lost[w] < n)
    ~> (n \in Shown(w) \/ pushed[w] # n \/ stream.pc = "closed")

=============================================================================
