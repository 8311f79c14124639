-------------------------- MODULE ConsensusEvents --------------------------
(***************************************************************************)
(* One restaurant's process around its order application: the threads that *)
(* call the application under the one mutex of Tendermint's local client,  *)
(* the listener that turns its events into calls of the Python callback    *)
(* (consensus.go), and the bounded channels between them.                  *)
(*                                                                         *)
(* What CheckTx and DeliverTx decide is the business of OrderApp: here an  *)
(* order is approved or not.  A subdomain of this node is the hash of its  *)
(* ENR with a height as sequence number, and stands as that height.        *)
(***************************************************************************)
EXTENDS Integers, Sequences, FiniteSets

CONSTANTS
  Id,          \* names of orders
  Order,       \* the orders this node may meet
  NoSubDomain, \* the empty subdomain
  Domain,      \* the domain of the urls, which is no subdomain
  None,        \* nobody, nothing
  OutCap,      \* capacity of a subscription and of its out channel
  MaxHeight,   \* bound: blocks in the chain
  MaxBlock     \* bound: orders in a block

OrderType ==
  [id : Id, local : BOOLEAN, approved : BOOLEAN,
   mode : {"solo", "assist"}, subs : SUBSET Nat]

ASSUME ConstantsAssumption ==
  /\ Order \subseteq OrderType
  /\ NoSubDomain \notin Nat
  /\ Domain \notin Nat \cup {NoSubDomain}
  /\ OutCap \in Nat \ {0}
  /\ MaxHeight \in Nat
  /\ MaxBlock \in Nat

\* SendOrder on Python's thread and the mempool reactor call CheckTx; the
\* consensus thread executes the blocks and checks the mempool again.
Caller == {"python", "reactor"}
Thread == Caller \cup {"consensus"}
Stream == {"NewBlock", "Tx"}

VARIABLES
  pc,            \* where each thread is
  arg,           \* the order a thread checks
  abci,          \* who holds the mutex of the local client
  mempool,       \* orders that passed CheckTx, not yet committed
  cache,         \* orders the mempool has seen
  decided,       \* orders in the chain
  height,        \* blocks committed
  nodeSubDomain, \* InferSyncApp.nodeSubDomain
  block,         \* the block being executed
  recheck,       \* orders the consensus thread has still to check again
  publish,       \* events the consensus thread has still to publish
  open,          \* per stream: the event bus knows the subscription
  sub,           \* per stream: events in the subscription
  outc,          \* per stream: events in the channel of the listener
  listener,      \* the event whose callback runs, or None
  instHeight,    \* ConsensusInstance.height
  signals        \* what the Python callback was given

tmVars  == <<mempool, cache, decided, height, block, recheck, publish>>
busVars == <<open, sub, outc>>
lstVars == <<listener, instHeight, signals>>
vars == <<pc, arg, abci, nodeSubDomain, tmVars, busVars, lstVars>>

Goto(t, label) == pc' = [pc EXCEPT ![t] = label]

NewBlock(h) == [type |-> "NewBlock", height |-> h]
Start(o, s) == [type |-> "start", order |-> o, status |-> s]
Done(o) == [type |-> "done", order |-> o]

\* The handshake, which is over, has replayed some blocks before anybody
\* subscribed; the height of the instance is 0 whatever their number.
Init ==
  /\ pc = [t \in Thread |-> "idle"]
  /\ arg = [t \in Thread |-> None]
  /\ abci = None
  /\ mempool = {} /\ cache = {} /\ decided = {}
  /\ height \in 0..(MaxHeight - 1)
  /\ nodeSubDomain = NoSubDomain
  /\ block = <<>> /\ recheck = {} /\ publish = <<>>
  /\ open = [k \in Stream |-> TRUE]
  /\ sub = [k \in Stream |-> <<>>]
  /\ outc = [k \in Stream |-> <<>>]
  /\ listener = None
  /\ instHeight = 0
  /\ signals = <<>>

-----------------------------------------------------------------------------
(* CheckTx, on whatever thread.                                            *)

\* The consensus thread has, or waits for, the write lock of the mempool.
MempoolLocked == pc["consensus"] \in {"lock", "recheck", "send", "sent"}

\* BroadcastTxAsync, or an order from a peer: the mempool takes its read lock
\* and notes the order.
Enter(t, o) ==
  /\ pc[t] = "idle"
  /\ t = "python" => o.local
  /\ ~ MempoolLocked
  /\ o \notin cache
  /\ cache' = cache \cup {o}
  /\ arg' = [arg EXCEPT ![t] = o]
  /\ Goto(t, "call")
  /\ UNCHANGED <<abci, nodeSubDomain, mempool, decided, height, block, recheck,
                 publish, busVars, lstVars>>

SendOrder(o) == Enter("python", o)
Receive(o) == (o.local => o \in decided) /\ Enter("reactor", o)

\* Under the mutex an approved order goes on to send its event; a refused one
\* is answered with code 3 and forgotten.
CheckTx(t) ==
  /\ pc[t] = "call"
  /\ abci = None
  /\ IF arg[t].approved
     THEN /\ abci' = t
          /\ Goto(t, "send")
          /\ UNCHANGED <<arg, cache>>
     ELSE /\ cache' = cache \ {arg[t]}
          /\ arg' = [arg EXCEPT ![t] = None]
          /\ Goto(t, "idle")
          /\ UNCHANGED abci
  /\ UNCHANGED <<nodeSubDomain, mempool, decided, height, block, recheck,
                 publish, busVars, lstVars>>

\* Variant: CheckTx drops the event when the listener is busy.
HandedOrDropped(t) == pc[t] \in {"send", "sent"}

\* The event was sent: the listener took it from the channel without buffer.
Handed(t) == pc[t] = "sent"

\* CheckTx returns with the mutex, and the order joins the mempool.
Return(t) ==
  /\ Handed(t)
  /\ abci' = None
  /\ arg' = [arg EXCEPT ![t] = None]
  /\ IF t = "consensus"
     THEN /\ recheck' = recheck \ {arg[t]}
          /\ Goto(t, "recheck")
          /\ UNCHANGED mempool
     ELSE /\ mempool' = mempool \cup {arg[t]}
          /\ Goto(t, "idle")
          /\ UNCHANGED recheck
  /\ UNCHANGED <<nodeSubDomain, cache, decided, height, block, publish,
                 busVars, lstVars>>

-----------------------------------------------------------------------------
(* The consensus thread.                                                   *)

\* A block is decided.  An order of this node can only have come from its
\* mempool, one of another node need never have been here.
Candidates == (mempool \cup {o \in Order : o.approved /\ ~ o.local}) \ decided

Blocks ==
  {b \in UNION {[1..k -> Candidates] : k \in 1..MaxBlock} :
     \A i, j \in DOMAIN b : b[i] = b[j] => i = j}

Decide(b) ==
  /\ pc["consensus"] = "idle"
  /\ height < MaxHeight
  /\ block' = b
  /\ decided' = decided \cup {b[i] : i \in DOMAIN b}
  /\ Goto("consensus", "execute")
  /\ UNCHANGED <<arg, abci, nodeSubDomain, mempool, cache, height, recheck,
                 publish, busVars, lstVars>>

\* Variant: the height compared is that of the last block committed.
CreateNodeSubDomainLast(h) == IF instHeight = h - 2 THEN h ELSE NoSubDomain

\* The subdomain is that of the given height if the instance is there.
CreateNodeSubDomain(h) == IF instHeight = h THEN h ELSE NoSubDomain

\* Variant: EndBlock waits for the instance to be at the last block.
EndBlockCaughtUp ==
  /\ pc["consensus"] = "execute"
  /\ abci = None
  /\ instHeight = height
  /\ nodeSubDomain' = CreateNodeSubDomain(height + 1 + 1)
  /\ Goto("consensus", "lock")
  /\ UNCHANGED <<arg, abci, tmVars, busVars, lstVars>>

\* BeginBlock and the DeliverTx of the orders came before, each with the
\* mutex for itself; their events wait for the Commit.
EndBlock ==
  /\ pc["consensus"] = "execute"
  /\ abci = None
  /\ nodeSubDomain' = CreateNodeSubDomain(height + 1 + 1)
  /\ Goto("consensus", "lock")
  /\ UNCHANGED <<arg, abci, tmVars, busVars, lstVars>>

\* Under the write lock of the mempool the application commits, the block
\* leaves the mempool, and what remains is to be checked again.
Commit ==
  /\ pc["consensus"] = "lock"
  /\ \A t \in Caller : pc[t] = "idle"
  /\ abci = None
  /\ LET orders == {block[i] : i \in DOMAIN block}
     IN  /\ mempool' = mempool \ orders
         /\ recheck' = mempool \ orders
         /\ cache' = cache \cup orders
  /\ height' = height + 1
  /\ Goto("consensus", "recheck")
  /\ UNCHANGED <<arg, abci, nodeSubDomain, decided, block, publish, busVars,
                 lstVars>>

\* CheckTx once more for an order that stayed: it passes, and sends its event.
Recheck(o) ==
  /\ pc["consensus"] = "recheck"
  /\ o \in recheck
  /\ abci = None
  /\ abci' = "consensus"
  /\ arg' = [arg EXCEPT !["consensus"] = o]
  /\ Goto("consensus", "send")
  /\ UNCHANGED <<nodeSubDomain, tmVars, busVars, lstVars>>

\* The mempool is released and the events of the block are due.
FireEvents ==
  /\ pc["consensus"] = "recheck"
  /\ recheck = {}
  /\ publish' = <<NewBlock(height)>>
                  \o [i \in DOMAIN block |-> Done(block[i])]
  /\ block' = <<>>
  /\ Goto("consensus", "publish")
  /\ UNCHANGED <<arg, abci, nodeSubDomain, mempool, cache, decided, height,
                 recheck, busVars, lstVars>>

-----------------------------------------------------------------------------
(* The event bus and the client's two subscriptions.                       *)

StreamOf(e) == IF e.type = "NewBlock" THEN "NewBlock" ELSE "Tx"

\* An event that finds its subscription full is lost and ends it.
Publish ==
  /\ pc["consensus"] = "publish"
  /\ publish # <<>>
  /\ LET e == Head(publish)
         k == StreamOf(e)
     IN  IF open[k] /\ Len(sub[k]) < OutCap
         THEN sub' = [sub EXCEPT ![k] = Append(@, e)] /\ UNCHANGED open
         ELSE open' = [open EXCEPT ![k] = FALSE] /\ UNCHANGED sub
  /\ publish' = Tail(publish)
  /\ Goto("consensus", IF Len(publish) = 1 THEN "idle" ELSE "publish")
  /\ UNCHANGED <<arg, abci, nodeSubDomain, mempool, cache, decided, height,
                 block, recheck, outc, lstVars>>

\* eventsRoutine moves an event on, or drops it when the channel is full.
Forward(k) ==
  /\ sub[k] # <<>>
  /\ sub' = [sub EXCEPT ![k] = Tail(@)]
  /\ outc' = IF Len(outc[k]) < OutCap
             THEN [outc EXCEPT ![k] = Append(@, Head(sub[k]))]
             ELSE outc
  /\ UNCHANGED <<pc, arg, abci, nodeSubDomain, tmVars, open, lstVars>>

\* It subscribes again when its subscription was ended, without what was
\* left in the old one.
Resubscribe(k) ==
  /\ ~ open[k]
  /\ open' = [open EXCEPT ![k] = TRUE]
  /\ sub' = [sub EXCEPT ![k] = <<>>]
  /\ UNCHANGED <<pc, arg, abci, nodeSubDomain, tmVars, outc, lstVars>>

-----------------------------------------------------------------------------
(* The listener.                                                           *)

\* The subdomain this node last gave itself decides what it is to an order.
IsAssistPeer(o) == nodeSubDomain \in o.subs
IsRoutePeer == nodeSubDomain = Domain
Status(o) ==
  IF o.mode = "solo" THEN "solo_start"
  ELSE IF IsAssistPeer(o) /\ nodeSubDomain # Domain THEN "assist_ping"
  ELSE IF IsRoutePeer THEN "assist_route" ELSE "assist_start"

\* Variants: an event without a height clears it; the height is that of the
\* block that comes next.
HeightOrNone(e) == IF e.type = "NewBlock" THEN e.height ELSE None
HeightOfNext(e) == IF e.type = "NewBlock" THEN e.height + 1 ELSE instHeight

\* Only a NewBlock event moves the height of the instance.
HeightAfter(e) == IF e.type = "NewBlock" THEN e.height ELSE instHeight

TakeEvent(k) ==
  /\ listener = None
  /\ outc[k] # <<>>
  /\ listener' = Head(outc[k])
  /\ instHeight' = HeightAfter(Head(outc[k]))
  /\ outc' = [outc EXCEPT ![k] = Tail(@)]
  /\ UNCHANGED <<pc, arg, abci, nodeSubDomain, tmVars, open, sub, signals>>

TakeCheckTx(t) ==
  /\ listener = None
  /\ pc[t] = "send"
  /\ listener' = Start(arg[t], Status(arg[t]))
  /\ Goto(t, "sent")
  /\ UNCHANGED <<arg, abci, nodeSubDomain, tmVars, busVars, instHeight, signals>>

\* Variant: the callback asks the application something.
SignalAndQuery ==
  /\ listener # None
  /\ abci = None
  /\ signals' = Append(signals, listener)
  /\ listener' = None
  /\ UNCHANGED <<pc, arg, abci, nodeSubDomain, tmVars, busVars, instHeight>>

\* The callback runs on the listener and returns: it only writes a log line.
Signal ==
  /\ listener # None
  /\ signals' = Append(signals, listener)
  /\ listener' = None
  /\ UNCHANGED <<pc, arg, abci, nodeSubDomain, tmVars, busVars, instHeight>>

-----------------------------------------------------------------------------
Calling(t) == CheckTx(t) \/ Return(t)
Consensus ==
  \/ EndBlock \/ Commit \/ (\E o \in Order : Recheck(o)) \/ Return("consensus")
  \/ FireEvents \/ Publish
Bus(k) == Forward(k) \/ Resubscribe(k)
Listen ==
  \/ \E k \in Stream : TakeEvent(k)
  \/ \E t \in Thread : TakeCheckTx(t)
  \/ Signal

Next ==
  \/ \E o \in Order : SendOrder(o) \/ Receive(o)
  \/ \E t \in Caller : Calling(t)
  \/ \E b \in Blocks : Decide(b)
  \/ Consensus
  \/ \E k \in Stream : Bus(k)
  \/ Listen

Spec == Init /\ [][Next]_vars

\* Threads run; Go's mutex serves whoever has waited long, and its select
\* takes any ready channel with the same chance.  Nobody has to send an order
\* or to decide a block.
Fairness ==
  /\ WF_vars(Listen)
  /\ \A t \in Thread : SF_vars(TakeCheckTx(t))
  /\ \A t \in Caller : SF_vars(Calling(t))
  /\ SF_vars(Consensus)

FairSpec == Spec /\ Fairness
-----------------------------------------------------------------------------
Event ==
  [type : {"NewBlock"}, height : Nat] \cup [type : {"done"}, order : Order]
StartEvent ==
  [type : {"start"}, order : Order,
   status : {"solo_start", "assist_start", "assist_ping", "assist_route"}]

ASSUME NoneAssumption == None \notin Event \cup StartEvent

TypeOK ==
  /\ pc \in [Thread -> {"idle", "call", "send", "sent", "execute", "lock",
                        "recheck", "publish"}]
  /\ arg \in [Thread -> Order \cup {None}]
  /\ abci \in Thread \cup {None}
  /\ mempool \subseteq Order /\ cache \subseteq Order /\ decided \subseteq Order
  /\ height \in Nat
  /\ nodeSubDomain \in Nat \cup {NoSubDomain}
  /\ block \in Seq(Order)
  /\ recheck \subseteq Order
  /\ publish \in Seq(Event)
  /\ open \in [Stream -> BOOLEAN]
  /\ sub \in [Stream -> Seq(Event)]
  /\ outc \in [Stream -> Seq(Event)]
  /\ listener \in Event \cup StartEvent \cup {None}
  /\ instHeight \in Nat
  /\ signals \in Seq(Event \cup StartEvent)

\* The height of the instance trails that of the application, so the
\* comparison in createNodeSubDomain never holds: an order in assist mode is
\* signalled as assist_start even to the peers it names.
OnlyStartIsSignalled ==
  \A i \in DOMAIN signals :
    signals[i].type = "start"
      => signals[i].status \in {"solo_start", "assist_start"}

\* The callback sees the start of an order this node sent before its end, and
\* of no order a start after its end, though the two come by different
\* channels and the check after a commit repeats the start.
StartThenDone ==
  \A i \in DOMAIN signals :
    signals[i].type = "done" =>
      LET o == signals[i].order
          startAt(j) == signals[j].type = "start" /\ signals[j].order = o
      IN  /\ o.local => \E j \in 1..(i - 1) : startAt(j)
          /\ \A j \in i..Len(signals) : ~ startAt(j)

\* The heights signalled grow, and none is ahead of the application: events
\* may be lost, but none is repeated or overtaken.
HeightsGrow ==
  /\ instHeight <= height
  /\ \A i, j \in DOMAIN signals :
       /\ i < j
       /\ signals[i].type = "NewBlock"
       /\ signals[j].type = "NewBlock"
       => signals[i].height < signals[j].height

\* SendOrder returns to Python, and the reactor is not held up: CheckTx waits
\* for the listener with the mutex in hand, but the listener never waits.
CheckTxReturns == \A t \in Caller : pc[t] = "call" ~> pc[t] = "idle"

\* A decided block is committed and its events are published, though the
\* Commit waits for the checks under way and repeats others.
BlockFinishes == pc["consensus"] = "execute" ~> pc["consensus"] = "idle"
=============================================================================
