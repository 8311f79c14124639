------------------------ MODULE ConsensusEventsProofs ------------------------
(***************************************************************************)
(* Proofs about ConsensusEvents for any orders, capacities and heights.    *)
(* The argument: an event of a block is made after the block is committed, *)
(* so the height the listener learns from it is never ahead of the         *)
(* application's, and the height that EndBlock compares it with, two       *)
(* blocks on, is never reached: the node has no subdomain, is no assist    *)
(* peer of any order, and signals every assist order as assist_start.      *)
(* Second: at each stage from the block to the callback the heights are    *)
(* lower than at the stages behind it, so what is dropped on the way       *)
(* leaves gaps but no disorder.                                            *)
(***************************************************************************)
EXTENDS ConsensusEvents, TLAPS

\* The events that may be under way: those of the blocks committed so far.
Known == {e \in Event : e.type = "NewBlock" => e.height <= height}

\* The start events of a node without a subdomain.
PlainStart ==
  {e \in StartEvent : e.status \in {"solo_start", "assist_start"}}

\* A thread on its way through CheckTx has an order in hand.
ArgInHand == \A t \in Thread : pc[t] \in {"call", "send", "sent"} => arg[t] \in Order

\* What is under way between the application and the callback.
UnderWay ==
  /\ nodeSubDomain = NoSubDomain
  /\ instHeight \in Nat /\ height \in Nat
  /\ instHeight <= height
  /\ publish \in Seq(Known)
  /\ sub \in [Stream -> Seq(Known)]
  /\ outc \in [Stream -> Seq(Known)]
  /\ listener \in Event \cup PlainStart \cup {None}
  /\ signals \in Seq(Event \cup PlainStart)

\* The types of what the threads keep.
Threads ==
  /\ pc \in [Thread -> {"idle", "call", "send", "sent", "execute", "lock",
                        "recheck", "publish"}]
  /\ arg \in [Thread -> Order \cup {None}]
  /\ abci \in Thread \cup {None}
  /\ mempool \subseteq Order /\ cache \subseteq Order /\ decided \subseteq Order
  /\ block \in Seq(Order)
  /\ recheck \subseteq Order
  /\ open \in [Stream -> BOOLEAN]
  /\ ArgInHand

-----------------------------------------------------------------------------
\* Sequences over a set, appended to and taken from.
LEMMA SeqMonotone ==
  ASSUME NEW S, NEW T, S \subseteq T, NEW s \in Seq(S)
  PROVE  s \in Seq(T)
OBVIOUS

LEMMA AppendIn ==
  ASSUME NEW S, NEW s \in Seq(S), NEW e \in S
  PROVE  Append(s, e) \in Seq(S)
OBVIOUS

LEMMA HeadTail ==
  ASSUME NEW S, NEW s \in Seq(S), s # <<>>
  PROVE  Head(s) \in S /\ Tail(s) \in Seq(S)
OBVIOUS

LEMMA ConsIn ==
  ASSUME NEW S, NEW e \in S, NEW s \in Seq(S)
  PROVE  <<e>> \o s \in Seq(S)
OBVIOUS

\* A function of one argument changed at that argument.
LEMMA ExceptIn ==
  ASSUME NEW D, NEW R, NEW f \in [D -> R], NEW d \in D, NEW r \in R
  PROVE  [f EXCEPT ![d] = r] \in [D -> R]
OBVIOUS

\* Without a subdomain a node is no peer of an order.
LEMMA StatusPlain ==
  ASSUME nodeSubDomain = NoSubDomain, NEW o \in Order
  PROVE  Start(o, Status(o)) \in PlainStart
<1>1. o.subs \subseteq Nat
  BY ConstantsAssumption DEF OrderType
<1>2. ~ IsAssistPeer(o)
  BY <1>1, ConstantsAssumption DEF IsAssistPeer
<1>3. ~ IsRoutePeer
  BY ConstantsAssumption DEF IsRoutePeer
<1>4. Status(o) \in {"solo_start", "assist_start"}
  BY <1>2, <1>3 DEF Status
<1>. QED
  BY <1>4 DEF Start, PlainStart, StartEvent

\* Two blocks on is a height the instance has not reached.
LEMMA NoHeightAhead ==
  ASSUME instHeight \in Nat, height \in Nat, instHeight <= height
  PROVE  CreateNodeSubDomain(height + 1 + 1) = NoSubDomain
BY DEF CreateNodeSubDomain

\* What was known stays known when the chain grows.
LEMMA KnownGrows ==
  ASSUME height \in Nat, height' \in Nat, height <= height'
  PROVE  Known \subseteq Known'
BY DEF Known, Event

-----------------------------------------------------------------------------
(* What is under way.                                                      *)

LEMMA UnderWaySame ==
  ASSUME UnderWay, UNCHANGED <<nodeSubDomain, instHeight, height, publish, sub, outc,
                               listener, signals>>
  PROVE  UnderWay'
BY DEF UnderWay, Known

LEMMA EndBlockStep ==
  ASSUME UnderWay, EndBlock
  PROVE  UnderWay'
<1>1. nodeSubDomain' = NoSubDomain
  BY NoHeightAhead DEF UnderWay, EndBlock
<1>. QED
  BY <1>1 DEF EndBlock, UnderWay, Known, tmVars, busVars, lstVars

LEMMA CommitStep ==
  ASSUME UnderWay, Commit
  PROVE  UnderWay'
<1>1. height' = height + 1
      /\ UNCHANGED <<nodeSubDomain, instHeight, publish, sub, outc, listener, signals>>
  BY DEF Commit, busVars, lstVars
<1>2. height \in Nat /\ height' \in Nat /\ height <= height' /\ instHeight <= height'
  BY <1>1 DEF UnderWay
<1>3. Known \subseteq Known'
  BY <1>2, KnownGrows
<1>. HIDE DEF Known
<1>4. publish' \in Seq(Known')
  BY <1>1, <1>3, SeqMonotone DEF UnderWay
<1>5. sub' \in [Stream -> Seq(Known')] /\ outc' \in [Stream -> Seq(Known')]
  BY <1>1, <1>3, SeqMonotone DEF UnderWay
<1>. QED
  BY <1>1, <1>2, <1>4, <1>5 DEF UnderWay

LEMMA FireEventsStep ==
  ASSUME Threads, UnderWay, FireEvents
  PROVE  UnderWay'
<1>. DEFINE done == [i \in DOMAIN block |-> Done(block[i])]
<1>1. UNCHANGED <<nodeSubDomain, instHeight, height, sub, outc, listener, signals>>
  BY DEF FireEvents, busVars, lstVars
<1>2. NewBlock(height) \in Known
  BY DEF UnderWay, NewBlock, Known, Event
<1>3. \A i \in DOMAIN block : Done(block[i]) \in Known
  BY DEF Threads, Done, Known, Event
<1>4. done \in Seq(Known)
  <2>1. block \in Seq(Order)
    BY DEF Threads
  <2>. QED
    BY <1>3, <2>1
<1>5. publish' \in Seq(Known)
  <2>1. publish' = <<NewBlock(height)>> \o done
    BY DEF FireEvents
  <2>. HIDE DEF done
  <2>. QED
    BY <1>2, <1>4, <2>1, ConsIn
<1>. QED
  BY <1>1, <1>5 DEF UnderWay, Known

LEMMA PublishStep ==
  ASSUME UnderWay, Publish
  PROVE  UnderWay'
<1>. DEFINE k == StreamOf(Head(publish))
<1>1. UNCHANGED <<nodeSubDomain, instHeight, height, outc, listener, signals>>
  BY DEF Publish, lstVars
<1>2. Head(publish) \in Known /\ Tail(publish) \in Seq(Known)
  BY HeadTail DEF Publish, UnderWay
<1>3. k \in Stream
  BY DEF StreamOf, Stream
<1>4. sub' \in [Stream -> Seq(Known)]
  <2>1. sub' = [sub EXCEPT ![k] = Append(sub[k], Head(publish))] \/ sub' = sub
    BY DEF Publish
  <2>2. sub \in [Stream -> Seq(Known)]
    BY DEF UnderWay
  <2>. HIDE DEF k
  <2>3. Append(sub[k], Head(publish)) \in Seq(Known)
    BY <1>2, <1>3, <2>2, AppendIn
  <2>. QED
    BY <1>3, <2>1, <2>2, <2>3
<1>5. publish' \in Seq(Known)
  BY <1>2 DEF Publish
<1>. QED
  BY <1>1, <1>4, <1>5 DEF UnderWay, Known

LEMMA BusStep ==
  ASSUME UnderWay, NEW k \in Stream, Bus(k)
  PROVE  UnderWay'
<1>1. UNCHANGED <<nodeSubDomain, instHeight, height, publish, listener, signals>>
  BY DEF Bus, Forward, Resubscribe, tmVars, lstVars
<1>2. sub \in [Stream -> Seq(Known)] /\ outc \in [Stream -> Seq(Known)]
  BY DEF UnderWay
<1>3. CASE Forward(k)
  <2>1. Head(sub[k]) \in Known /\ Tail(sub[k]) \in Seq(Known)
    BY <1>2, <1>3, HeadTail DEF Forward
  <2>2. Append(outc[k], Head(sub[k])) \in Seq(Known)
    BY <1>2, <2>1, AppendIn
  <2>3. sub' \in [Stream -> Seq(Known)]
    BY <1>2, <1>3, <2>1 DEF Forward
  <2>4. outc' \in [Stream -> Seq(Known)]
    BY <1>2, <1>3, <2>2 DEF Forward
  <2>. QED
    BY <1>1, <2>3, <2>4 DEF UnderWay, Known
<1>4. CASE Resubscribe(k)
  <2>1. sub' \in [Stream -> Seq(Known)]
    BY <1>2, <1>4 DEF Resubscribe
  <2>2. outc' \in [Stream -> Seq(Known)]
    BY <1>2, <1>4 DEF Resubscribe
  <2>. QED
    BY <1>1, <2>1, <2>2 DEF UnderWay, Known
<1>. QED
  BY <1>3, <1>4 DEF Bus

LEMMA TakeEventStep ==
  ASSUME UnderWay, NEW k \in Stream, TakeEvent(k)
  PROVE  UnderWay'
<1>1. UNCHANGED <<nodeSubDomain, height, publish, sub, signals>>
  BY DEF TakeEvent, tmVars
<1>2. outc \in [Stream -> Seq(Known)] /\ outc[k] # <<>>
  BY DEF UnderWay, TakeEvent
<1>3. Head(outc[k]) \in Known /\ Tail(outc[k]) \in Seq(Known)
  BY <1>2, HeadTail
<1>4. outc' \in [Stream -> Seq(Known)]
  BY <1>2, <1>3 DEF TakeEvent
<1>5. listener' \in Event
  BY <1>3 DEF TakeEvent, Known
<1>6. instHeight' \in Nat /\ instHeight' <= height
  BY <1>3 DEF TakeEvent, HeightAfter, Known, Event, UnderWay
<1>. QED
  BY <1>1, <1>4, <1>5, <1>6 DEF UnderWay, Known

LEMMA TakeCheckTxStep ==
  ASSUME Threads, UnderWay, NEW t \in Thread, TakeCheckTx(t)
  PROVE  UnderWay'
<1>1. UNCHANGED <<nodeSubDomain, height, instHeight, publish, sub, outc, signals>>
  BY DEF TakeCheckTx, tmVars, busVars
<1>2. arg[t] \in Order
  BY DEF TakeCheckTx, Threads, ArgInHand
<1>3. listener' \in PlainStart
  BY <1>2, StatusPlain DEF TakeCheckTx, UnderWay
<1>. QED
  BY <1>1, <1>3 DEF UnderWay, Known

LEMMA SignalStep ==
  ASSUME UnderWay, Signal
  PROVE  UnderWay'
<1>1. UNCHANGED <<nodeSubDomain, height, instHeight, publish, sub, outc>>
      /\ listener' = None
  BY DEF Signal, tmVars, busVars
<1>2. listener \in Event \cup PlainStart
  BY DEF Signal, UnderWay
<1>3. signals' \in Seq(Event \cup PlainStart)
  BY <1>2, AppendIn DEF Signal, UnderWay
<1>. QED
  BY <1>1, <1>3 DEF UnderWay, Known

-----------------------------------------------------------------------------
(* The threads.                                                            *)

LEMMA EnterThreads ==
  ASSUME Threads, NEW t \in Caller, NEW o \in Order, Enter(t, o)
  PROVE  Threads'
<1>1. t \in Thread
  BY DEF Thread
<1>2. pc' = [pc EXCEPT ![t] = "call"] /\ arg' = [arg EXCEPT ![t] = o]
      /\ cache' = cache \cup {o}
  BY DEF Enter, Goto
<1>. QED
  BY <1>1, <1>2 DEF Enter, Threads, ArgInHand, busVars

LEMMA CheckTxThreads ==
  ASSUME Threads, NEW t \in Caller, CheckTx(t)
  PROVE  Threads'
<1>1. t \in Thread
  BY DEF Thread
<1>2. CASE arg[t].approved
  <2>1. pc' = [pc EXCEPT ![t] = "send"] /\ abci' = t /\ UNCHANGED <<arg, cache>>
    BY <1>2 DEF CheckTx, Goto
  <2>2. arg[t] \in Order
    BY <1>1 DEF CheckTx, Threads, ArgInHand
  <2>. QED
    BY <1>1, <2>1, <2>2 DEF CheckTx, Threads, ArgInHand, busVars
<1>3. CASE ~ arg[t].approved
  <2>1. /\ pc' = [pc EXCEPT ![t] = "idle"] /\ arg' = [arg EXCEPT ![t] = None]
        /\ cache' = cache \ {arg[t]} /\ abci' = abci
    BY <1>3 DEF CheckTx, Goto
  <2>. QED
    BY <1>1, <2>1 DEF CheckTx, Threads, ArgInHand, busVars
<1>. QED
  BY <1>2, <1>3

LEMMA ReturnThreads ==
  ASSUME Threads, NEW t \in Thread, Return(t)
  PROVE  Threads'
<1>1. arg[t] \in Order
  BY DEF Return, Handed, Threads, ArgInHand
<1>2. /\ abci' = None /\ arg' = [arg EXCEPT ![t] = None]
      /\ \E next \in {"recheck", "idle"} : pc' = [pc EXCEPT ![t] = next]
      /\ recheck' \subseteq recheck
      /\ mempool' \subseteq mempool \cup {arg[t]}
  BY DEF Return, Goto
<1>. QED
  BY <1>1, <1>2 DEF Return, Threads, ArgInHand, busVars

LEMMA DecideThreads ==
  ASSUME Threads, NEW b \in Blocks, Decide(b)
  PROVE  Threads'
<1>1. Candidates \subseteq Order
  BY DEF Candidates, Threads
<1>2. b \in Seq(Order)
  <2>1. PICK n \in 1..MaxBlock : b \in [1..n -> Candidates]
    BY DEF Blocks
  <2>. QED
    BY <1>1, <2>1
<1>3. {b[i] : i \in DOMAIN b} \subseteq Order
  BY <1>2
<1>4. pc' = [pc EXCEPT !["consensus"] = "execute"] /\ block' = b
      /\ decided' = decided \cup {b[i] : i \in DOMAIN b}
  BY DEF Decide, Goto
<1>. QED
  BY <1>2, <1>3, <1>4 DEF Decide, Threads, ArgInHand, Thread, busVars

LEMMA CommitThreads ==
  ASSUME Threads, Commit
  PROVE  Threads'
<1>1. {block[i] : i \in DOMAIN block} \subseteq Order
  <2>1. block \in Seq(Order)
    BY DEF Threads
  <2>. QED
    BY <2>1
<1>2. /\ pc' = [pc EXCEPT !["consensus"] = "recheck"]
      /\ mempool' \subseteq mempool /\ recheck' \subseteq mempool
      /\ cache' = cache \cup {block[i] : i \in DOMAIN block}
  BY DEF Commit, Goto
<1>. QED
  BY <1>1, <1>2 DEF Commit, Threads, ArgInHand, Thread, busVars

LEMMA ThreadsStep ==
  ASSUME Threads, Next
  PROVE  Threads'
<1>1. ASSUME NEW o \in Order, SendOrder(o) PROVE Threads'
  BY <1>1, EnterThreads DEF SendOrder, Caller
<1>2. ASSUME NEW o \in Order, Receive(o) PROVE Threads'
  BY <1>2, EnterThreads DEF Receive, Caller
<1>3. ASSUME NEW t \in Caller, Calling(t) PROVE Threads'
  BY <1>3, CheckTxThreads, ReturnThreads DEF Calling, Thread
<1>4. ASSUME NEW b \in Blocks, Decide(b) PROVE Threads'
  BY <1>4, DecideThreads
<1>5. CASE EndBlock
  <2>1. pc' = [pc EXCEPT !["consensus"] = "lock"]
    BY <1>5 DEF EndBlock, Goto
  <2>. QED
    BY <1>5, <2>1 DEF EndBlock, Threads, ArgInHand, Thread, tmVars, busVars
<1>6. CASE Commit
  BY <1>6, CommitThreads
<1>7. ASSUME NEW o \in Order, Recheck(o) PROVE Threads'
  <2>1. pc' = [pc EXCEPT !["consensus"] = "send"] /\ abci' = "consensus"
        /\ arg' = [arg EXCEPT !["consensus"] = o]
    BY <1>7 DEF Recheck, Goto
  <2>. QED
    BY <1>7, <2>1 DEF Recheck, Threads, ArgInHand, Thread, tmVars, busVars
<1>8. CASE Return("consensus")
  BY <1>8, ReturnThreads DEF Thread
<1>9. CASE FireEvents
  <2>1. pc' = [pc EXCEPT !["consensus"] = "publish"] /\ block' = <<>>
    BY <1>9 DEF FireEvents, Goto
  <2>2. block' \in Seq(Order)
    BY <2>1
  <2>. QED
    BY <1>9, <2>1, <2>2 DEF FireEvents, Threads, ArgInHand, Thread, busVars
<1>10. CASE Publish
  <2>1. \E next \in {"idle", "publish"} : pc' = [pc EXCEPT !["consensus"] = next]
    BY <1>10 DEF Publish, Goto
  <2>2. open' \in [Stream -> BOOLEAN]
    BY <1>10 DEF Publish, Threads
  <2>. QED
    BY <1>10, <2>1, <2>2 DEF Publish, Threads, ArgInHand, Thread
<1>11. ASSUME NEW k \in Stream, Bus(k) PROVE Threads'
  <2>1. open' \in [Stream -> BOOLEAN]
    BY <1>11 DEF Bus, Forward, Resubscribe, Threads
  <2>. QED
    BY <1>11, <2>1 DEF Bus, Forward, Resubscribe, Threads, ArgInHand, tmVars
<1>12. ASSUME NEW k \in Stream, TakeEvent(k) PROVE Threads'
  BY <1>12 DEF TakeEvent, Threads, ArgInHand, tmVars
<1>13. ASSUME NEW t \in Thread, TakeCheckTx(t) PROVE Threads'
  <2>1. pc' = [pc EXCEPT ![t] = "sent"] /\ arg[t] \in Order
    BY <1>13 DEF TakeCheckTx, Goto, Threads, ArgInHand
  <2>. QED
    BY <1>13, <2>1 DEF TakeCheckTx, Threads, ArgInHand, tmVars, busVars
<1>14. CASE Signal
  BY <1>14 DEF Signal, Threads, ArgInHand, tmVars, busVars
<1>. QED
  BY <1>1, <1>2, <1>3, <1>4, <1>5, <1>6, <1>7, <1>8, <1>9, <1>10, <1>11, <1>12,
     <1>13, <1>14 DEF Next, Consensus, Listen

LEMMA UnderWayStep ==
  ASSUME Threads, UnderWay, Next
  PROVE  UnderWay'
<1>1. ASSUME NEW o \in Order, SendOrder(o) \/ Receive(o) PROVE UnderWay'
  BY <1>1, UnderWaySame DEF SendOrder, Receive, Enter, busVars, lstVars
<1>2. ASSUME NEW t \in Thread, CheckTx(t) PROVE UnderWay'
  BY <1>2, UnderWaySame DEF CheckTx, busVars, lstVars
<1>3. ASSUME NEW t \in Thread, Return(t) PROVE UnderWay'
  BY <1>3, UnderWaySame DEF Return, busVars, lstVars
<1>4. ASSUME NEW b \in Blocks, Decide(b) PROVE UnderWay'
  BY <1>4, UnderWaySame DEF Decide, busVars, lstVars
<1>5. ASSUME NEW o \in Order, Recheck(o) PROVE UnderWay'
  BY <1>5, UnderWaySame DEF Recheck, tmVars, busVars, lstVars
<1>6. CASE Consensus
  BY <1>3, <1>5, <1>6, EndBlockStep, CommitStep, FireEventsStep, PublishStep
     DEF Consensus, Thread
<1>7. CASE Listen
  BY <1>7, TakeEventStep, TakeCheckTxStep, SignalStep DEF Listen
<1>. QED
  BY <1>1, <1>2, <1>3, <1>4, <1>6, <1>7, BusStep DEF Next, Calling, Caller, Thread

-----------------------------------------------------------------------------
(* The heights on their way: signalled, with the listener, in its channel, *)
(* in the subscription, and still to be published.                         *)

IsBlock(e) == e.type = "NewBlock"

\* The heights of the blocks among the events of a sequence.
Heights(s) == {s[i].height : i \in {j \in DOMAIN s : IsBlock(s[j])}}

Increasing(s) ==
  \A i, j \in DOMAIN s :
    i < j /\ IsBlock(s[i]) /\ IsBlock(s[j]) => s[i].height < s[j].height

Apart(A, B) == \A a \in A, b \in B : a < b

Taken == IF listener # None /\ IsBlock(listener) THEN {listener.height} ELSE {}
Queued == Heights(outc["NewBlock"])
Subscribed == Heights(sub["NewBlock"])
Unpublished == Heights(publish)
Signalled == Heights(signals)

\* A block is committed, and its event not yet made.
Committed == pc["consensus"] \in {"recheck", "send", "sent"}

\* No height overtakes another: what is further on its way is lower.
InOrder ==
  /\ Increasing(signals) /\ Increasing(outc["NewBlock"])
  /\ Increasing(sub["NewBlock"]) /\ Increasing(publish)
  /\ Apart(Signalled, Taken \cup Queued \cup Subscribed \cup Unpublished)
  /\ Apart(Taken, Queued \cup Subscribed \cup Unpublished)
  /\ Apart(Queued, Subscribed \cup Unpublished)
  /\ Apart(Subscribed, Unpublished)

\* The events of the delivered orders keep to their own channel.
TxApart == Heights(outc["Tx"]) = {} /\ Heights(sub["Tx"]) = {}

\* The block that is committed is higher than all of them.
NextHigher ==
  \A h \in Signalled \cup Taken \cup Queued \cup Subscribed \cup Unpublished :
    h \in Nat /\ h <= height /\ (Committed => h < height)

Flow == InOrder /\ TxApart /\ NextHigher

\* One event more, at the end, or one less, at the front.
LEMMA HeightsAppend ==
  ASSUME NEW S, NEW s \in Seq(S), NEW e \in S
  PROVE  Heights(Append(s, e)) = Heights(s) \cup (IF IsBlock(e) THEN {e.height} ELSE {})
<1>. DEFINE t == Append(s, e)
<1>1. /\ DOMAIN t = DOMAIN s \cup {Len(s) + 1} /\ Len(s) + 1 \notin DOMAIN s
      /\ \A i \in DOMAIN s : t[i] = s[i]
      /\ t[Len(s) + 1] = e
  OBVIOUS
<1>. HIDE DEF t
<1>2. \A h : h \in Heights(t) <=> \E i \in DOMAIN t : IsBlock(t[i]) /\ h = t[i].height
  BY DEF Heights
<1>3. \A h : h \in Heights(s) <=> \E i \in DOMAIN s : IsBlock(s[i]) /\ h = s[i].height
  BY DEF Heights
<1>4. \A h : h \in Heights(t) <=> h \in Heights(s) \/ (IsBlock(e) /\ h = e.height)
  BY <1>1, <1>2, <1>3
<1>5. Heights(t) = Heights(s) \cup (IF IsBlock(e) THEN {e.height} ELSE {})
  BY <1>4
<1>. QED
  BY <1>5 DEF t

LEMMA IncreasingAppend ==
  ASSUME NEW S, NEW s \in Seq(S), NEW e \in S, Increasing(s),
         IsBlock(e) => Apart(Heights(s), {e.height})
  PROVE  Increasing(Append(s, e))
<1>. DEFINE t == Append(s, e)
<1>1. /\ DOMAIN s = 1..Len(s) /\ DOMAIN t = 1..(Len(s) + 1)
      /\ \A i \in DOMAIN s : t[i] = s[i]
      /\ t[Len(s) + 1] = e
      /\ Len(s) \in Nat
  OBVIOUS
<1>. HIDE DEF t
<1>2. IsBlock(e) => \A i \in DOMAIN s : IsBlock(s[i]) => s[i].height < e.height
  BY DEF Apart, Heights
<1>3. Increasing(t)
  <2>. SUFFICES ASSUME NEW i \in DOMAIN t, NEW j \in DOMAIN t, i < j,
                       IsBlock(t[i]), IsBlock(t[j])
                PROVE  t[i].height < t[j].height
    BY DEF Increasing
  <2>1. i \in DOMAIN s /\ t[i] = s[i]
    BY <1>1
  <2>2. CASE j = Len(s) + 1
    BY <1>1, <1>2, <2>1, <2>2
  <2>3. CASE j # Len(s) + 1
    <3>1. j \in DOMAIN s /\ t[j] = s[j]
      BY <1>1, <2>3
    <3>. QED
      BY <2>1, <3>1 DEF Increasing
  <2>. QED
    BY <2>2, <2>3
<1>. QED
  BY <1>3 DEF t

LEMMA HeightsTail ==
  ASSUME NEW S, NEW s \in Seq(S), s # <<>>
  PROVE  /\ Heights(Tail(s)) \subseteq Heights(s)
         /\ IsBlock(Head(s)) => Head(s).height \in Heights(s)
         /\ Increasing(s) => Increasing(Tail(s))
         /\ Increasing(s) /\ IsBlock(Head(s))
              => Apart({Head(s).height}, Heights(Tail(s)))
<1>. DEFINE t == Tail(s)
<1>1. /\ Len(s) \in Nat /\ Len(s) > 0 /\ DOMAIN s = 1..Len(s)
      /\ DOMAIN t = 1..(Len(s) - 1)
      /\ \A i \in DOMAIN t : t[i] = s[i + 1]
      /\ Head(s) = s[1]
  OBVIOUS
<1>. HIDE DEF t
<1>2. \A i \in DOMAIN t : i \in Nat /\ i + 1 \in DOMAIN s /\ 1 < i + 1
  BY <1>1
<1>3. Heights(t) \subseteq Heights(s)
  BY <1>1, <1>2 DEF Heights
<1>4. IsBlock(Head(s)) => Head(s).height \in Heights(s)
  BY <1>1 DEF Heights
<1>5. Increasing(s) => Increasing(t)
  <2>. SUFFICES ASSUME Increasing(s), NEW i \in DOMAIN t, NEW j \in DOMAIN t, i < j,
                       IsBlock(t[i]), IsBlock(t[j])
                PROVE  t[i].height < t[j].height
    BY DEF Increasing
  <2>1. i + 1 < j + 1
    BY <1>2
  <2>. QED
    BY <1>1, <1>2, <2>1 DEF Increasing
<1>6. Increasing(s) /\ IsBlock(Head(s)) => Apart({Head(s).height}, Heights(t))
  <2>. SUFFICES ASSUME Increasing(s), IsBlock(s[1]), NEW i \in DOMAIN t, IsBlock(t[i])
                PROVE  s[1].height < t[i].height
    BY <1>1 DEF Apart, Heights
  <2>1. 1 \in DOMAIN s
    BY <1>1
  <2>. QED
    BY <1>1, <1>2, <2>1 DEF Increasing
<1>. QED
  BY <1>3, <1>4, <1>5, <1>6 DEF t

LEMMA NoHeights == Heights(<<>>) = {} /\ Increasing(<<>>)
BY DEF Heights, Increasing

\* A step that leaves the events alone, and does not commit.
LEMMA FlowSame ==
  ASSUME Flow, UNCHANGED <<height, publish, sub, outc, listener, signals>>,
         Committed' => Committed
  PROVE  Flow'
<1>1. /\ Signalled' = Signalled /\ Taken' = Taken /\ Queued' = Queued
      /\ Subscribed' = Subscribed /\ Unpublished' = Unpublished
  BY DEF Signalled, Taken, Queued, Subscribed, Unpublished, Heights, IsBlock
<1>2. InOrder'
  BY <1>1 DEF Flow, InOrder, Increasing, IsBlock, Apart
<1>3. TxApart'
  BY DEF Flow, TxApart, Heights, IsBlock
<1>4. NextHigher'
  BY <1>1 DEF Flow, NextHigher
<1>. QED
  BY <1>2, <1>3, <1>4 DEF Flow

LEMMA CommitFlow ==
  ASSUME Flow, UnderWay, Commit
  PROVE  Flow'
<1>1. UNCHANGED <<publish, sub, outc, listener, signals>> /\ height' = height + 1
  BY DEF Commit, busVars, lstVars
<1>2. /\ Signalled' = Signalled /\ Taken' = Taken /\ Queued' = Queued
      /\ Subscribed' = Subscribed /\ Unpublished' = Unpublished
  BY <1>1 DEF Signalled, Taken, Queued, Subscribed, Unpublished, Heights, IsBlock
<1>3. InOrder'
  BY <1>1, <1>2 DEF Flow, InOrder, Increasing, IsBlock, Apart
<1>4. TxApart'
  BY <1>1 DEF Flow, TxApart, Heights, IsBlock
<1>5. NextHigher'
  BY <1>1, <1>2 DEF Flow, NextHigher, UnderWay
<1>. QED
  BY <1>3, <1>4, <1>5 DEF Flow

LEMMA FireEventsFlow ==
  ASSUME Flow, Threads, UnderWay, FireEvents
  PROVE  Flow'
<1>. DEFINE rest == [i \in DOMAIN block |-> Done(block[i])]
<1>1. /\ UNCHANGED <<height, sub, outc, listener, signals>>
      /\ publish' = <<NewBlock(height)>> \o rest
      /\ pc'["consensus"] = "publish"
  BY DEF FireEvents, Goto, Threads, Thread, busVars, lstVars
<1>2. /\ Signalled' = Signalled /\ Taken' = Taken /\ Queued' = Queued
      /\ Subscribed' = Subscribed
  BY <1>1 DEF Signalled, Taken, Queued, Subscribed, Heights, IsBlock
<1>3. /\ publish'[1] = NewBlock(height)
      /\ \A i \in DOMAIN publish' : i \in Nat /\ (i = 1 \/ ~ IsBlock(publish'[i]))
      /\ 1 \in DOMAIN publish'
  <2>1. block \in Seq(Order)
    BY DEF Threads
  <2>2. /\ rest \in Seq({Done(o) : o \in Order}) /\ Len(rest) \in Nat
        /\ DOMAIN rest = 1..Len(rest)
        /\ \A i \in DOMAIN rest : ~ IsBlock(rest[i])
    BY <2>1 DEF Done, IsBlock
  <2>. HIDE DEF rest
  <2>. DEFINE all == <<NewBlock(height)>> \o rest
  <2>3. /\ DOMAIN all = 1..(Len(rest) + 1)
        /\ all[1] = NewBlock(height)
        /\ \A i \in DOMAIN all : i # 1 => i - 1 \in DOMAIN rest /\ all[i] = rest[i - 1]
    BY <2>2
  <2>4. \A i \in DOMAIN all : i \in Nat /\ (i = 1 \/ ~ IsBlock(all[i]))
    BY <2>2, <2>3
  <2>5. 1 \in DOMAIN all
    BY <2>2, <2>3
  <2>. HIDE DEF all
  <2>. QED
    BY <1>1, <2>3, <2>4, <2>5 DEF all
<1>4. Unpublished' = {height} /\ Increasing(publish')
  <2>1. IsBlock(NewBlock(height)) /\ NewBlock(height).height = height
    BY DEF IsBlock, NewBlock
  <2>2. \A h : h \in Heights(publish')
               <=> \E i \in DOMAIN publish' : IsBlock(publish'[i]) /\ h = publish'[i].height
    BY DEF Heights
  <2>3. Heights(publish') = {height}
    BY <1>3, <2>1, <2>2
  <2>4. Increasing(publish')
    BY <1>3 DEF Increasing
  <2>. QED
    BY <2>3, <2>4 DEF Unpublished, Heights, IsBlock
<1>5. \A h \in Signalled \cup Taken \cup Queued \cup Subscribed : h \in Nat /\ h < height
  BY DEF Flow, NextHigher, Committed, FireEvents
<1>6. InOrder'
  <2>1. Increasing(publish)'
    BY <1>4 DEF Increasing, IsBlock
  <2>2. Apart(Signalled, {height}) /\ Apart(Taken, {height}) /\ Apart(Queued, {height})
        /\ Apart(Subscribed, {height})
    BY <1>5 DEF Apart
  <2>3. Increasing(signals)' /\ Increasing(outc["NewBlock"])' /\ Increasing(sub["NewBlock"])'
    BY <1>1 DEF Flow, InOrder, Increasing, IsBlock
  <2>. QED
    BY <1>2, <1>4, <2>1, <2>2, <2>3 DEF Flow, InOrder, Apart
<1>7. TxApart'
  BY <1>1 DEF Flow, TxApart, Heights, IsBlock
<1>8. NextHigher'
  BY <1>1, <1>2, <1>4, <1>5 DEF NextHigher, Committed, UnderWay
<1>. QED
  BY <1>6, <1>7, <1>8 DEF Flow

LEMMA PublishFlow ==
  ASSUME Flow, Threads, UnderWay, Publish
  PROVE  Flow'
<1>. DEFINE e == Head(publish)
            k == StreamOf(e)
            more == IF IsBlock(e) THEN {e.height} ELSE {}
<1>1. UNCHANGED <<height, outc, listener, signals>> /\ publish' = Tail(publish)
      /\ ~ Committed'
  BY DEF Publish, Goto, Threads, Thread, lstVars, Committed
<1>2. /\ e \in Known /\ publish \in Seq(Known) /\ publish # <<>>
      /\ sub \in [Stream -> Seq(Known)]
  BY HeadTail DEF UnderWay, Publish
<1>3. k \in Stream /\ (IsBlock(e) <=> k = "NewBlock")
  BY DEF StreamOf, Stream, IsBlock
<1>4. /\ Unpublished' \subseteq Unpublished /\ Increasing(publish)'
      /\ more \subseteq Unpublished
      /\ Apart(more, Unpublished')
  <2>1. /\ Heights(Tail(publish)) \subseteq Heights(publish)
        /\ IsBlock(e) => e.height \in Heights(publish)
        /\ Increasing(Tail(publish))
        /\ IsBlock(e) => Apart({e.height}, Heights(Tail(publish)))
    BY <1>2, HeightsTail DEF Flow, InOrder
  <2>2. Unpublished' = Heights(Tail(publish))
    BY <1>1 DEF Unpublished, Heights, IsBlock
  <2>3. Increasing(publish)'
    BY <1>1, <2>1 DEF Increasing, IsBlock
  <2>. QED
    BY <2>1, <2>2, <2>3 DEF Unpublished, Apart
<1>5. /\ Signalled' = Signalled /\ Taken' = Taken /\ Queued' = Queued
  BY <1>1 DEF Signalled, Taken, Queued, Heights, IsBlock
<1>6. /\ Increasing(sub["NewBlock"])'
      /\ Subscribed' \subseteq Subscribed \cup more
      /\ Heights(sub["Tx"])' = {}
  <2>1. sub' = [sub EXCEPT ![k] = Append(sub[k], e)] \/ sub' = sub
    BY DEF Publish
  <2>2. CASE sub' = sub
    BY <2>2 DEF Flow, InOrder, TxApart, Subscribed, Increasing, Heights, IsBlock
  <2>3. CASE sub' = [sub EXCEPT ![k] = Append(sub[k], e)]
    <3>1. CASE k = "NewBlock"
      <4>1. sub'["NewBlock"] = Append(sub["NewBlock"], e) /\ sub'["Tx"] = sub["Tx"]
        BY <1>2, <1>3, <2>3, <3>1 DEF Stream
      <4>2. Heights(Append(sub["NewBlock"], e)) = Heights(sub["NewBlock"]) \cup more
        BY <1>2, HeightsAppend DEF Stream
      <4>3. Apart(Heights(sub["NewBlock"]), more)
        BY <1>4 DEF Flow, InOrder, Subscribed, Apart
      <4>4. Increasing(Append(sub["NewBlock"], e))
        BY <1>2, <4>3, IncreasingAppend DEF Stream, Flow, InOrder
      <4>5. Increasing(sub["NewBlock"])'
        BY <4>1, <4>4 DEF Increasing, IsBlock
      <4>6. Subscribed' = Heights(Append(sub["NewBlock"], e))
        BY <4>1 DEF Subscribed, Heights, IsBlock
      <4>7. Heights(sub["Tx"])' = {}
        BY <4>1 DEF Flow, TxApart, Heights, IsBlock
      <4>. QED
        BY <4>2, <4>5, <4>6, <4>7 DEF Subscribed
    <3>2. CASE k = "Tx"
      <4>1. sub'["Tx"] = Append(sub["Tx"], e) /\ sub'["NewBlock"] = sub["NewBlock"]
        BY <1>2, <1>3, <2>3, <3>2 DEF Stream
      <4>2. Heights(Append(sub["Tx"], e)) = {}
        BY <1>2, <1>3, <3>2, HeightsAppend DEF Stream, Flow, TxApart
      <4>. QED
        BY <4>1, <4>2 DEF Subscribed, Increasing, Heights, IsBlock, Flow, InOrder
    <3>. QED
      BY <1>3, <3>1, <3>2 DEF Stream
  <2>. QED
    BY <2>1, <2>2, <2>3
<1>7. InOrder'
  <2>. HIDE DEF more, e, k
  <2>1. Increasing(signals)' /\ Increasing(outc["NewBlock"])'
    BY <1>1 DEF Flow, InOrder, Increasing, IsBlock
  <2>. QED
    BY <1>4, <1>5, <1>6, <2>1 DEF Flow, InOrder, Apart
<1>8. TxApart'
  BY <1>1, <1>6 DEF Flow, TxApart, Heights, IsBlock
<1>9. NextHigher'
  <2>. HIDE DEF more, e, k
  <2>. QED
    BY <1>1, <1>4, <1>5, <1>6 DEF Flow, NextHigher
<1>. QED
  BY <1>7, <1>8, <1>9 DEF Flow

LEMMA ForwardFlow ==
  ASSUME Flow, UnderWay, NEW k \in Stream, Forward(k)
  PROVE  Flow'
<1>. DEFINE e == Head(sub[k])
<1>1. UNCHANGED <<pc, height, publish, listener, signals>>
  BY DEF Forward, tmVars, lstVars
<1>2. /\ sub \in [Stream -> Seq(Known)] /\ outc \in [Stream -> Seq(Known)]
      /\ sub[k] \in Seq(Known) /\ outc[k] \in Seq(Known) /\ sub[k] # <<>>
      /\ e \in Known
  BY HeadTail DEF UnderWay, Forward
<1>3. Signalled' = Signalled /\ Taken' = Taken /\ Unpublished' = Unpublished
  BY <1>1 DEF Signalled, Taken, Unpublished, Heights, IsBlock
<1>4. /\ Heights(Tail(sub[k])) \subseteq Heights(sub[k])
      /\ IsBlock(e) => e.height \in Heights(sub[k])
      /\ Increasing(sub[k]) => Increasing(Tail(sub[k]))
      /\ Increasing(sub[k]) /\ IsBlock(e)
           => Apart({e.height}, Heights(Tail(sub[k])))
  BY <1>2, HeightsTail
<1>5. /\ Increasing(signals)' /\ Increasing(publish)'
  BY <1>1 DEF Flow, InOrder, Increasing, IsBlock
<1>6. CASE k = "Tx"
  <2>1. /\ sub'["Tx"] = Tail(sub["Tx"]) /\ sub'["NewBlock"] = sub["NewBlock"]
        /\ outc'["NewBlock"] = outc["NewBlock"]
        /\ outc'["Tx"] = outc["Tx"] \/ outc'["Tx"] = Append(outc["Tx"], e)
    BY <1>2, <1>6 DEF Forward, Stream
  <2>2. ~ IsBlock(e) /\ Heights(Tail(sub["Tx"])) = {}
    BY <1>4, <1>6 DEF Flow, TxApart
  <2>3. Heights(Append(outc["Tx"], e)) = {}
    BY <1>2, <1>6, <2>2, HeightsAppend DEF Flow, TxApart
  <2>4. Heights(outc'["Tx"]) = {} /\ Heights(sub'["Tx"]) = {}
    BY <2>1, <2>2, <2>3 DEF Flow, TxApart
  <2>5. TxApart'
    BY <2>4 DEF TxApart, Heights, IsBlock
  <2>6. Queued' = Queued /\ Subscribed' = Subscribed
    BY <2>1 DEF Queued, Subscribed, Heights, IsBlock
  <2>7. Increasing(outc["NewBlock"])' /\ Increasing(sub["NewBlock"])'
    BY <2>1 DEF Flow, InOrder, Increasing, IsBlock
  <2>8. InOrder'
    BY <1>3, <1>5, <2>6, <2>7 DEF Flow, InOrder, Apart
  <2>9. NextHigher'
    BY <1>1, <1>3, <2>6 DEF Flow, NextHigher, Committed
  <2>. QED
    BY <2>5, <2>8, <2>9 DEF Flow
<1>7. CASE k = "NewBlock"
  <2>. DEFINE more == IF IsBlock(e) THEN {e.height} ELSE {}
  <2>1. /\ sub'["NewBlock"] = Tail(sub["NewBlock"]) /\ sub'["Tx"] = sub["Tx"]
        /\ outc'["Tx"] = outc["Tx"]
        /\ \/ outc'["NewBlock"] = outc["NewBlock"]
           \/ outc'["NewBlock"] = Append(outc["NewBlock"], e)
    BY <1>2, <1>7 DEF Forward, Stream
  <2>2. TxApart'
    BY <2>1 DEF Flow, TxApart, Heights, IsBlock
  <2>3. Increasing(sub["NewBlock"]) /\ Increasing(outc["NewBlock"])
    BY DEF Flow, InOrder
  <2>4. /\ Subscribed' = Heights(Tail(sub["NewBlock"]))
        /\ Increasing(sub["NewBlock"])'
    <3>1. Increasing(Tail(sub["NewBlock"]))
      BY <1>4, <1>7, <2>3
    <3>. QED
      BY <2>1, <3>1 DEF Subscribed, Heights, Increasing, IsBlock
  <2>5. Subscribed' \subseteq Subscribed /\ more \subseteq Subscribed
        /\ Apart(more, Subscribed')
    BY <1>4, <1>7, <2>3, <2>4 DEF Subscribed, Apart
  <2>6. Apart(Queued, more)
    BY <2>5 DEF Flow, InOrder, Apart
  <2>7. /\ Heights(Append(outc["NewBlock"], e)) = Queued \cup more
        /\ Increasing(Append(outc["NewBlock"], e))
    <3>1. IsBlock(e) => Apart(Heights(outc["NewBlock"]), {e.height})
      BY <2>6 DEF Queued, Apart
    <3>. QED
      BY <1>2, <1>7, <2>3, <3>1, HeightsAppend, IncreasingAppend DEF Queued
  <2>8. Heights(outc'["NewBlock"]) \subseteq Queued \cup more
        /\ Increasing(outc'["NewBlock"])
    BY <2>1, <2>3, <2>7 DEF Queued
  <2>9. Queued' \subseteq Queued \cup more /\ Increasing(outc["NewBlock"])'
    BY <2>8 DEF Queued, Heights, Increasing, IsBlock
  <2>. HIDE DEF more, e
  <2>10. InOrder'
    BY <1>3, <1>5, <2>4, <2>5, <2>9 DEF Flow, InOrder, Apart
  <2>11. NextHigher'
    BY <1>1, <1>3, <2>5, <2>9 DEF Flow, NextHigher, Committed
  <2>. QED
    BY <2>2, <2>10, <2>11 DEF Flow
<1>. QED
  BY <1>6, <1>7 DEF Stream

LEMMA ResubscribeFlow ==
  ASSUME Flow, UnderWay, NEW k \in Stream, Resubscribe(k)
  PROVE  Flow'
<1>1. /\ UNCHANGED <<pc, height, publish, outc, listener, signals>>
      /\ \A j \in Stream : sub'[j] = sub[j] \/ sub'[j] = <<>>
  BY DEF Resubscribe, tmVars, lstVars, UnderWay
<1>2. /\ Signalled' = Signalled /\ Taken' = Taken /\ Queued' = Queued
      /\ Unpublished' = Unpublished
  BY <1>1 DEF Signalled, Taken, Queued, Unpublished, Heights, IsBlock
<1>3. /\ Subscribed' \subseteq Subscribed /\ Increasing(sub["NewBlock"])'
      /\ Heights(sub["Tx"])' = {}
  <2>1. /\ Heights(sub'["NewBlock"]) \subseteq Subscribed /\ Increasing(sub'["NewBlock"])
        /\ Heights(sub'["Tx"]) = {}
    BY <1>1, NoHeights DEF Stream, Subscribed, Flow, InOrder, TxApart
  <2>. QED
    BY <2>1 DEF Subscribed, Heights, Increasing, IsBlock
<1>4. /\ Increasing(signals)' /\ Increasing(publish)' /\ Increasing(outc["NewBlock"])'
      /\ Heights(outc["Tx"])' = {}
  BY <1>1 DEF Flow, InOrder, TxApart, Increasing, Heights, IsBlock
<1>5. InOrder'
  BY <1>2, <1>3, <1>4 DEF Flow, InOrder, Apart
<1>6. NextHigher'
  BY <1>1, <1>2, <1>3 DEF Flow, NextHigher, Committed
<1>. QED
  BY <1>3, <1>4, <1>5, <1>6 DEF Flow, TxApart

LEMMA TakeEventFlow ==
  ASSUME Flow, UnderWay, NEW k \in Stream, TakeEvent(k)
  PROVE  Flow'
<1>. DEFINE e == Head(outc[k])
<1>1. /\ UNCHANGED <<pc, height, publish, sub, signals>>
      /\ listener = None /\ listener' = e
  BY DEF TakeEvent, tmVars
<1>2. /\ outc \in [Stream -> Seq(Known)] /\ outc[k] \in Seq(Known) /\ outc[k] # <<>>
      /\ outc' = [outc EXCEPT ![k] = Tail(outc[k])]
  BY DEF UnderWay, TakeEvent
<1>3. /\ Heights(Tail(outc[k])) \subseteq Heights(outc[k])
      /\ IsBlock(e) => e.height \in Heights(outc[k])
      /\ Increasing(outc[k]) => Increasing(Tail(outc[k]))
      /\ Increasing(outc[k]) /\ IsBlock(e)
           => Apart({e.height}, Heights(Tail(outc[k])))
  BY <1>2, HeightsTail
<1>4. /\ Signalled' = Signalled /\ Unpublished' = Unpublished
      /\ Subscribed' = Subscribed
  BY <1>1 DEF Signalled, Subscribed, Unpublished, Heights, IsBlock
<1>5. Taken' \subseteq (IF IsBlock(e) THEN {e.height} ELSE {})
  BY <1>1 DEF Taken, IsBlock
<1>6. /\ Increasing(signals)' /\ Increasing(publish)' /\ Increasing(sub["NewBlock"])'
      /\ Heights(sub["Tx"])' = {}
  BY <1>1 DEF Flow, InOrder, TxApart, Increasing, Heights, IsBlock
<1>7. /\ Queued' \subseteq Queued /\ Taken' \subseteq Queued /\ Apart(Taken', Queued')
      /\ Increasing(outc["NewBlock"])' /\ Heights(outc["Tx"])' = {}
  <2>1. CASE k = "Tx"
    <3>1. outc'["Tx"] = Tail(outc["Tx"]) /\ outc'["NewBlock"] = outc["NewBlock"]
      BY <1>2, <2>1 DEF Stream
    <3>2. Heights(outc'["Tx"]) = {} /\ ~ IsBlock(e)
      BY <1>3, <2>1, <3>1 DEF Flow, TxApart
    <3>3. Queued' = Queued /\ Increasing(outc["NewBlock"])' /\ Heights(outc["Tx"])' = {}
      BY <3>1, <3>2 DEF Queued, Increasing, Heights, IsBlock, Flow, InOrder
    <3>. QED
      BY <1>5, <3>2, <3>3 DEF Apart
  <2>2. CASE k = "NewBlock"
    <3>1. outc'["NewBlock"] = Tail(outc["NewBlock"]) /\ outc'["Tx"] = outc["Tx"]
      BY <1>2, <2>2 DEF Stream
    <3>2. Heights(outc'["NewBlock"]) \subseteq Queued /\ Increasing(outc'["NewBlock"])
          /\ (IsBlock(e) => e.height \in Queued
                            /\ Apart({e.height}, Heights(outc'["NewBlock"])))
      BY <1>3, <2>2, <3>1 DEF Queued, Flow, InOrder
    <3>3. Queued' = Heights(outc'["NewBlock"])
      BY DEF Queued, Heights, IsBlock
    <3>4. Increasing(outc["NewBlock"])'
      BY <3>2 DEF Increasing, IsBlock
    <3>5. Heights(outc["Tx"])' = {}
      BY <3>1 DEF Flow, TxApart, Heights, IsBlock
    <3>. QED
      BY <1>5, <3>2, <3>3, <3>4, <3>5 DEF Apart
  <2>. QED
    BY <2>1, <2>2 DEF Stream
<1>. HIDE DEF e
<1>8. InOrder'
  BY <1>4, <1>6, <1>7 DEF Flow, InOrder, Apart
<1>9. NextHigher'
  BY <1>1, <1>4, <1>7 DEF Flow, NextHigher, Committed
<1>. QED
  BY <1>6, <1>7, <1>8, <1>9 DEF Flow, TxApart

LEMMA TakeCheckTxFlow ==
  ASSUME Flow, Threads, NEW t \in Thread, TakeCheckTx(t)
  PROVE  Flow'
<1>1. /\ UNCHANGED <<height, publish, sub, outc, signals>>
      /\ listener' = Start(arg[t], Status(arg[t]))
      /\ pc[t] = "send" /\ pc' = [pc EXCEPT ![t] = "sent"]
  BY DEF TakeCheckTx, Goto, tmVars, busVars
<1>2. /\ Signalled' = Signalled /\ Queued' = Queued /\ Unpublished' = Unpublished
      /\ Subscribed' = Subscribed /\ Taken' = {}
  BY <1>1 DEF Signalled, Queued, Subscribed, Unpublished, Taken, Heights, IsBlock, Start
<1>3. Committed' => Committed
  BY <1>1 DEF Committed, Threads, Thread
<1>4. InOrder'
  BY <1>1, <1>2 DEF Flow, InOrder, Increasing, IsBlock, Apart
<1>5. TxApart'
  BY <1>1 DEF Flow, TxApart, Heights, IsBlock
<1>6. NextHigher'
  BY <1>1, <1>2, <1>3 DEF Flow, NextHigher
<1>. QED
  BY <1>4, <1>5, <1>6 DEF Flow

LEMMA SignalFlow ==
  ASSUME Flow, UnderWay, Signal
  PROVE  Flow'
<1>1. /\ UNCHANGED <<pc, height, publish, sub, outc>>
      /\ listener # None /\ listener' = None
      /\ signals' = Append(signals, listener)
  BY DEF Signal, tmVars, busVars
<1>2. listener \in Event \cup PlainStart /\ signals \in Seq(Event \cup PlainStart)
  BY <1>1 DEF UnderWay
<1>3. IsBlock(listener) => Taken = {listener.height}
  BY <1>1 DEF Taken
<1>4. Heights(Append(signals, listener)) = Signalled \cup Taken
  BY <1>1, <1>2, HeightsAppend DEF Signalled, Taken
<1>5. Increasing(Append(signals, listener))
  <2>1. IsBlock(listener) => Apart(Heights(signals), {listener.height})
    BY <1>3 DEF Flow, InOrder, Signalled, Apart
  <2>. QED
    BY <1>2, <2>1, IncreasingAppend DEF Flow, InOrder
<1>6. /\ Signalled' = Signalled \cup Taken /\ Increasing(signals)'
      /\ Taken' = {}
  BY <1>1, <1>4, <1>5 DEF Signalled, Taken, Heights, Increasing, IsBlock
<1>7. /\ Queued' = Queued /\ Unpublished' = Unpublished /\ Subscribed' = Subscribed
  BY <1>1 DEF Queued, Subscribed, Unpublished, Heights, IsBlock
<1>8. InOrder'
  BY <1>1, <1>6, <1>7 DEF Flow, InOrder, Increasing, IsBlock, Apart
<1>9. TxApart'
  BY <1>1 DEF Flow, TxApart, Heights, IsBlock
<1>10. NextHigher'
  BY <1>1, <1>6, <1>7 DEF Flow, NextHigher, Committed
<1>. QED
  BY <1>8, <1>9, <1>10 DEF Flow

LEMMA FlowStep ==
  ASSUME Threads, UnderWay, Flow, Next
  PROVE  Flow'
<1>1. ASSUME NEW t \in Caller, NEW o \in Order, Enter(t, o) PROVE Flow'
  <2>1. Committed' => Committed
    BY <1>1 DEF Enter, Goto, Committed, Threads, Thread, Caller
  <2>. QED
    BY <1>1, <2>1, FlowSame DEF Enter, busVars, lstVars
<1>2. ASSUME NEW t \in Caller, CheckTx(t) PROVE Flow'
  <2>1. Committed' => Committed
    BY <1>2 DEF CheckTx, Goto, Committed, Threads, Thread, Caller
  <2>. QED
    BY <1>2, <2>1, FlowSame DEF CheckTx, busVars, lstVars
<1>3. ASSUME NEW t \in Thread, Return(t) PROVE Flow'
  <2>1. Committed' => Committed
    BY <1>3 DEF Return, Handed, Goto, Committed, Threads, Thread, Caller
  <2>. QED
    BY <1>3, <2>1, FlowSame DEF Return, busVars, lstVars
<1>4. ASSUME NEW b \in Blocks, Decide(b) PROVE Flow'
  <2>1. Committed' => Committed
    BY <1>4 DEF Decide, Goto, Committed, Threads, Thread
  <2>. QED
    BY <1>4, <2>1, FlowSame DEF Decide, busVars, lstVars
<1>5. CASE EndBlock
  <2>1. Committed' => Committed
    BY <1>5 DEF EndBlock, Goto, Committed, Threads, Thread
  <2>. QED
    BY <1>5, <2>1, FlowSame DEF EndBlock, tmVars, busVars, lstVars
<1>6. ASSUME NEW o \in Order, Recheck(o) PROVE Flow'
  <2>1. Committed' => Committed
    BY <1>6 DEF Recheck, Committed
  <2>. QED
    BY <1>6, <2>1, FlowSame DEF Recheck, tmVars, busVars, lstVars
<1>7. CASE Consensus
  BY <1>3, <1>5, <1>6, <1>7, CommitFlow, FireEventsFlow, PublishFlow DEF Consensus, Thread
<1>8. CASE Listen
  BY <1>8, TakeEventFlow, TakeCheckTxFlow, SignalFlow DEF Listen
<1>9. ASSUME NEW k \in Stream, Bus(k) PROVE Flow'
  BY <1>9, ForwardFlow, ResubscribeFlow DEF Bus
<1>. QED
  BY <1>1, <1>2, <1>3, <1>4, <1>7, <1>8, <1>9
     DEF Next, SendOrder, Receive, Calling, Caller, Thread

LEMMA InitFlow == Init => Flow
<1>. SUFFICES ASSUME Init PROVE Flow
  OBVIOUS
<1>1. /\ sub["NewBlock"] = <<>> /\ sub["Tx"] = <<>> /\ outc["NewBlock"] = <<>>
      /\ outc["Tx"] = <<>> /\ publish = <<>> /\ signals = <<>> /\ listener = None
  BY DEF Init, Stream
<1>2. /\ Signalled = {} /\ Taken = {} /\ Queued = {} /\ Subscribed = {} /\ Unpublished = {}
  BY <1>1, NoHeights DEF Signalled, Taken, Queued, Subscribed, Unpublished
<1>3. InOrder
  BY <1>1, <1>2, NoHeights DEF InOrder, Apart
<1>4. TxApart
  BY <1>1, NoHeights DEF TxApart
<1>5. NextHigher
  BY <1>2 DEF NextHigher
<1>. QED
  BY <1>3, <1>4, <1>5 DEF Flow

-----------------------------------------------------------------------------
IInv == Threads /\ UnderWay /\ Flow

LEMMA InitIInv == Init => IInv
<1>. SUFFICES ASSUME Init PROVE IInv
  OBVIOUS
<1>1. Threads
  BY DEF Init, Threads, ArgInHand
<1>2. UnderWay
  <2>1. \A S : <<>> \in Seq(S)
    OBVIOUS
  <2>2. [k \in Stream |-> <<>>] \in [Stream -> Seq(Known)]
    BY <2>1
  <2>3. height \in Nat /\ 0 <= height
    BY ConstantsAssumption DEF Init
  <2>. QED
    BY <2>1, <2>2, <2>3 DEF Init, UnderWay
<1>. QED
  BY <1>1, <1>2, InitFlow DEF IInv

LEMMA NextIInv == IInv /\ [Next]_vars => IInv'
<1>. SUFFICES ASSUME IInv, [Next]_vars PROVE IInv'
  OBVIOUS
<1>1. CASE Next
  BY <1>1, ThreadsStep, UnderWayStep, FlowStep DEF IInv
<1>2. CASE UNCHANGED vars
  <2>1. UnderWay'
    BY <1>2, UnderWaySame DEF IInv, vars, tmVars, busVars, lstVars
  <2>2. Threads'
    BY <1>2 DEF IInv, Threads, ArgInHand, vars, tmVars, busVars, lstVars
  <2>3. Flow'
    BY <1>2, FlowSame DEF IInv, vars, tmVars, busVars, lstVars, Committed
  <2>. QED
    BY <2>1, <2>2, <2>3 DEF IInv
<1>. QED
  BY <1>1, <1>2

LEMMA Inductive == Spec => []IInv
<1>. QED
  BY InitIInv, NextIInv, PTL DEF Spec

\* The threads, the channels and the callback have their types.
THEOREM TypeCorrect == Spec => []TypeOK
<1>1. ASSUME IInv PROVE TypeOK
  <2>. DEFINE All == Event \cup StartEvent
  <2>1. Known \subseteq Event /\ Event \cup PlainStart \subseteq All
    BY DEF Known, PlainStart
  <2>. HIDE DEF All
  <2>2. publish \in Seq(Event)
    BY <1>1, <2>1, SeqMonotone DEF IInv, UnderWay
  <2>3. sub \in [Stream -> Seq(Event)] /\ outc \in [Stream -> Seq(Event)]
    BY <1>1, <2>1, SeqMonotone DEF IInv, UnderWay
  <2>4. signals \in Seq(All)
    BY <1>1, <2>1, SeqMonotone DEF IInv, UnderWay
  <2>5. listener \in All \cup {None}
    BY <1>1, <2>1 DEF IInv, UnderWay
  <2>. QED
    BY <1>1, <2>2, <2>3, <2>4, <2>5 DEF IInv, UnderWay, Threads, TypeOK, All
<1>. QED
  BY <1>1, Inductive, PTL

\* createNodeSubDomain compares the height of the instance with one it has
\* never reached: no order is ever signalled to this node as one to assist or
\* to route, whatever its peers are.
THEOREM AssistNeverPinged == Spec => []OnlyStartIsSignalled
<1>1. ASSUME IInv PROVE OnlyStartIsSignalled
  <2>1. signals \in Seq(Event \cup PlainStart)
    BY <1>1 DEF IInv, UnderWay
  <2>2. \A i \in DOMAIN signals : signals[i] \in Event \cup PlainStart
    BY <2>1
  <2>. QED
    BY <2>2 DEF OnlyStartIsSignalled, Event, PlainStart
<1>. QED
  BY <1>1, Inductive, PTL

\* The heights the callback is given grow, though subscriptions are overrun and
\* made again, and the instance is never ahead of the application.
THEOREM HeightsInOrder == Spec => []HeightsGrow
<1>1. IInv => HeightsGrow
  BY DEF IInv, UnderWay, Flow, InOrder, Increasing, IsBlock, HeightsGrow
<1>. QED
  BY <1>1, Inductive, PTL
-----------------------------------------------------------------------------
(* What the callback is told of one order, for any orders, capacities and  *)
(* heights.  The argument: the end of an order is told by its block, and   *)
(* only when that block is committed (Settled).  From then on the cache    *)
(* keeps the order from another CheckTx, and it is not in the mempool to   *)
(* be checked again (Left), so no start follows.  And whatever passed      *)
(* CheckTx of this node had its start taken by the listener first, which   *)
(* is busy with it until the callback returns (StartSeen).                 *)

\* The orders whose block is committed: the events of their end may be made.
InBlock == {block[i] : i \in DOMAIN block}
Settled == IF Committed THEN decided ELSE decided \ InBlock

\* An order that is settled is nowhere on its way to a CheckTx that sends its
\* start, and the cache keeps it from getting there again.
Left(o) ==
  /\ o \in cache /\ o \notin mempool \cup recheck
  /\ \A t \in Thread : pc[t] \in {"call", "send", "sent"} => arg[t] # o

Settlement ==
  /\ InBlock \subseteq decided
  /\ pc["consensus"] \in {"idle", "publish"} => block = <<>>
  /\ \A o \in Settled : Left(o)

\* Only the end of a settled order is told.
Fine == {e \in Event : e.type = "done" => e.order \in Settled}

Ends ==
  /\ publish \in Seq(Fine)
  /\ sub \in [Stream -> Seq(Fine)]
  /\ outc \in [Stream -> Seq(Fine)]
  /\ listener \in Fine \cup PlainStart \cup {None}
  /\ signals \in Seq(Fine \cup PlainStart)

\* The start of an order was told to the callback, or is with the listener.
IsStart(e, o) == e.type = "start" /\ e.order = o
Told(o) == \E i \in DOMAIN signals : IsStart(signals[i], o)
Seen ==
  {o \in Order : Told(o) \/ (listener # None /\ IsStart(listener, o))}

\* Whatever passed CheckTx here has had its start sent.
Starts ==
  /\ mempool \cup recheck \subseteq Seen
  /\ \A o \in decided : o.local => o \in Seen
  /\ \A t \in Thread : pc[t] = "sent" => arg[t] \in Seen

\* A start with the listener is of an order whose end was not told.
NoLateStart ==
  listener # None /\ listener.type = "start" =>
    \A i \in DOMAIN signals :
      signals[i].type = "done" => signals[i].order # listener.order

StoryInv == Settlement /\ Ends /\ Starts /\ NoLateStart /\ StartThenDone

-----------------------------------------------------------------------------
(* Settled orders.                                                         *)

\* Nothing that settles an order or brings one to CheckTx has happened.
LEMMA SettlementSame ==
  ASSUME Settlement, UNCHANGED <<mempool, recheck, decided, cache, block>>,
         Committed' = Committed,
         pc'["consensus"] \in {"idle", "publish"}
           => pc["consensus"] \in {"idle", "publish"},
         \A t \in Thread :
           pc'[t] \in {"call", "send", "sent"} =>
             pc[t] \in {"call", "send", "sent"} /\ arg'[t] = arg[t]
  PROVE  Settlement' /\ Settled' = Settled
<1>1. Settled' = Settled
  BY DEF Settled, InBlock
<1>2. ASSUME NEW o \in Settled PROVE Left(o)'
  <2>1. Left(o)
    BY DEF Settlement
  <2>. QED
    BY <2>1 DEF Left
<1>. QED
  BY <1>1, <1>2 DEF Settlement, InBlock

LEMMA EnterSettles ==
  ASSUME Threads, Settlement, NEW t \in Caller, NEW o \in Order, Enter(t, o)
  PROVE  Settlement' /\ Settled' = Settled
<1>1. /\ t \in Thread /\ t # "consensus"
      /\ pc' = [pc EXCEPT ![t] = "call"] /\ arg' = [arg EXCEPT ![t] = o]
      /\ cache' = cache \cup {o} /\ o \notin cache
      /\ UNCHANGED <<mempool, recheck, decided, block>>
  BY DEF Enter, Goto, Thread, Caller
<1>2. Settled' = Settled
  BY <1>1 DEF Settled, InBlock, Committed, Threads, Thread
<1>3. ASSUME NEW p \in Settled PROVE Left(p)'
  <2>1. Left(p)
    BY DEF Settlement
  <2>. QED
    BY <1>1, <2>1 DEF Left, Threads
<1>4. pc'["consensus"] = pc["consensus"]
  BY <1>1 DEF Threads, Thread
<1>. QED
  BY <1>1, <1>2, <1>3, <1>4 DEF Settlement, InBlock

LEMMA CheckTxSettles ==
  ASSUME Threads, Settlement, NEW t \in Caller, CheckTx(t)
  PROVE  Settlement' /\ Settled' = Settled
<1>1. /\ t \in Thread /\ t # "consensus" /\ pc[t] = "call"
      /\ UNCHANGED <<mempool, recheck, decided, block>>
  BY DEF CheckTx, Thread, Caller
<1>2. \/ /\ arg[t].approved /\ pc' = [pc EXCEPT ![t] = "send"]
         /\ UNCHANGED <<arg, cache>>
      \/ /\ pc' = [pc EXCEPT ![t] = "idle"] /\ arg' = [arg EXCEPT ![t] = None]
         /\ cache' = cache \ {arg[t]}
  BY DEF CheckTx, Goto
<1>3. pc'["consensus"] = pc["consensus"]
  BY <1>1, <1>2 DEF Threads, Thread
<1>4. Settled' = Settled
  BY <1>1, <1>3 DEF Settled, InBlock, Committed
<1>5. ASSUME NEW p \in Settled PROVE Left(p)'
  <2>1. Left(p)
    BY DEF Settlement
  <2>2. arg[t] # p
    BY <1>1, <2>1 DEF Left
  <2>. QED
    BY <1>1, <1>2, <2>1, <2>2 DEF Left, Threads
<1>. QED
  BY <1>1, <1>3, <1>4, <1>5 DEF Settlement, InBlock

LEMMA ReturnSettles ==
  ASSUME Threads, Settlement, NEW t \in Thread, Return(t)
  PROVE  Settlement' /\ Settled' = Settled
<1>1. /\ pc[t] = "sent" /\ UNCHANGED <<decided, block, cache>>
      /\ arg' = [arg EXCEPT ![t] = None]
      /\ mempool' \subseteq mempool \cup {arg[t]} /\ recheck' \subseteq recheck
      /\ \E next \in {"recheck", "idle"} :
           /\ pc' = [pc EXCEPT ![t] = next]
           /\ (t = "consensus") <=> (next = "recheck")
  BY DEF Return, Handed, Goto
<1>2. /\ Committed' = Committed
      /\ pc'["consensus"] \in {"idle", "publish"}
           => pc["consensus"] \in {"idle", "publish"}
  BY <1>1 DEF Committed, Threads, Thread
<1>3. Settled' = Settled
  BY <1>1, <1>2 DEF Settled, InBlock
<1>4. ASSUME NEW p \in Settled PROVE Left(p)'
  <2>1. Left(p)
    BY DEF Settlement
  <2>2. arg[t] # p
    BY <1>1, <2>1 DEF Left
  <2>. QED
    BY <1>1, <2>1, <2>2 DEF Left, Threads
<1>. QED
  BY <1>1, <1>2, <1>3, <1>4 DEF Settlement, InBlock

\* A block that is decided is not settled yet.
LEMMA DecideSettles ==
  ASSUME Threads, Settlement, NEW b \in Blocks, Decide(b)
  PROVE  Settlement' /\ Settled' = Settled
<1>. DEFINE orders == {b[i] : i \in DOMAIN b}
<1>1. /\ pc["consensus"] = "idle" /\ pc' = [pc EXCEPT !["consensus"] = "execute"]
      /\ block' = b /\ decided' = decided \cup orders
      /\ UNCHANGED <<mempool, recheck, cache, arg>>
  BY DEF Decide, Goto
<1>2. orders \subseteq Candidates
  <2>1. PICK n \in 1..MaxBlock : b \in [1..n -> Candidates]
    BY DEF Blocks
  <2>. QED
    BY <2>1
<1>3. orders \cap decided = {}
  BY <1>2 DEF Candidates
<1>4. InBlock' = orders
  BY <1>1 DEF InBlock
<1>5. InBlock = {} /\ ~ Committed /\ ~ Committed' /\ pc'["consensus"] = "execute"
  BY <1>1 DEF Settlement, InBlock, Committed, Threads, Thread
<1>. HIDE DEF orders
<1>6. Settled' = Settled
  BY <1>1, <1>3, <1>4, <1>5 DEF Settled
<1>7. ASSUME NEW p \in Settled PROVE Left(p)'
  <2>1. Left(p)
    BY DEF Settlement
  <2>. QED
    BY <1>1, <2>1 DEF Left, Threads
<1>. QED
  BY <1>1, <1>4, <1>5, <1>6, <1>7 DEF Settlement

\* The commit settles the orders of the block: they leave the mempool, the
\* cache has them, and nobody has one in hand.
LEMMA CommitSettles ==
  ASSUME Threads, Settlement, Commit
  PROVE  Settlement' /\ Settled \subseteq Settled'
<1>1. /\ pc["consensus"] = "lock" /\ pc' = [pc EXCEPT !["consensus"] = "recheck"]
      /\ \A t \in Caller : pc[t] = "idle"
      /\ mempool' = mempool \ InBlock /\ recheck' = mempool \ InBlock
      /\ cache' = cache \cup InBlock
      /\ UNCHANGED <<decided, block, arg>>
  BY DEF Commit, Goto, InBlock
<1>2. /\ InBlock' = InBlock /\ ~ Committed /\ Committed' /\ pc'["consensus"] = "recheck"
      /\ \A t \in Thread : pc'[t] \in {"idle", "recheck"}
  BY <1>1 DEF InBlock, Committed, Threads, Thread
<1>3. Settled = decided \ InBlock /\ Settled' = decided
  BY <1>1, <1>2 DEF Settled
<1>4. ASSUME NEW p \in decided PROVE Left(p)'
  <2>1. p \notin InBlock => Left(p)
    BY <1>3 DEF Settlement
  <2>. QED
    BY <1>1, <1>2, <2>1 DEF Left
<1>. QED
  BY <1>1, <1>2, <1>3, <1>4 DEF Settlement

LEMMA RecheckSettles ==
  ASSUME Threads, Settlement, NEW o \in Order, Recheck(o)
  PROVE  Settlement' /\ Settled' = Settled
<1>1. /\ pc["consensus"] = "recheck" /\ pc' = [pc EXCEPT !["consensus"] = "send"]
      /\ o \in recheck /\ arg' = [arg EXCEPT !["consensus"] = o]
      /\ UNCHANGED <<mempool, recheck, decided, cache, block>>
  BY DEF Recheck, Goto, tmVars
<1>2. Committed /\ Committed' /\ pc'["consensus"] = "send"
  BY <1>1 DEF Committed, Threads, Thread
<1>3. Settled' = Settled
  BY <1>1, <1>2 DEF Settled
<1>4. ASSUME NEW p \in Settled PROVE Left(p)'
  <2>1. Left(p)
    BY DEF Settlement
  <2>. QED
    BY <1>1, <2>1 DEF Left, Threads
<1>. QED
  BY <1>1, <1>2, <1>3, <1>4 DEF Settlement, InBlock

LEMMA FireEventsSettles ==
  ASSUME Threads, Settlement, FireEvents
  PROVE  Settlement' /\ Settled' = Settled /\ InBlock \subseteq Settled
<1>1. /\ pc["consensus"] = "recheck" /\ pc' = [pc EXCEPT !["consensus"] = "publish"]
      /\ block' = <<>>
      /\ UNCHANGED <<mempool, recheck, decided, cache, arg>>
  BY DEF FireEvents, Goto
<1>2. Committed /\ ~ Committed' /\ InBlock' = {}
  BY <1>1 DEF Committed, InBlock, Threads, Thread
<1>3. Settled' = Settled /\ Settled = decided
  BY <1>1, <1>2 DEF Settled
<1>4. ASSUME NEW p \in Settled PROVE Left(p)'
  <2>1. Left(p)
    BY DEF Settlement
  <2>. QED
    BY <1>1, <2>1 DEF Left, Threads
<1>. QED
  BY <1>1, <1>2, <1>3, <1>4 DEF Settlement

LEMMA PublishSettles ==
  ASSUME Threads, Settlement, Publish
  PROVE  Settlement' /\ Settled' = Settled
<1>1. /\ pc["consensus"] = "publish"
      /\ \E next \in {"idle", "publish"} : pc' = [pc EXCEPT !["consensus"] = next]
      /\ UNCHANGED <<mempool, recheck, decided, cache, block, arg>>
  BY DEF Publish, Goto
<1>. QED
  BY <1>1, SettlementSame DEF Committed, Threads, Thread

LEMMA TakeCheckTxSettles ==
  ASSUME Threads, Settlement, NEW t \in Thread, TakeCheckTx(t)
  PROVE  Settlement' /\ Settled' = Settled
<1>1. /\ pc[t] = "send" /\ pc' = [pc EXCEPT ![t] = "sent"]
      /\ UNCHANGED <<mempool, recheck, decided, cache, block, arg>>
  BY DEF TakeCheckTx, Goto, tmVars
<1>. QED
  BY <1>1, SettlementSame DEF Committed, Threads, Thread

LEMMA SettlementStep ==
  ASSUME Threads, Settlement, Next
  PROVE  Settlement' /\ Settled \subseteq Settled'
<1>. DEFINE Goal == Settlement' /\ Settled \subseteq Settled'
<1>1. ASSUME NEW t \in Caller, NEW o \in Order, Enter(t, o) PROVE Goal
  BY <1>1, EnterSettles
<1>2. ASSUME NEW t \in Caller, CheckTx(t) PROVE Goal
  BY <1>2, CheckTxSettles
<1>3. ASSUME NEW t \in Thread, Return(t) PROVE Goal
  BY <1>3, ReturnSettles
<1>4. ASSUME NEW b \in Blocks, Decide(b) PROVE Goal
  BY <1>4, DecideSettles
<1>5. CASE EndBlock
  <2>1. /\ pc["consensus"] = "execute" /\ pc' = [pc EXCEPT !["consensus"] = "lock"]
        /\ UNCHANGED <<mempool, recheck, decided, cache, block, arg>>
    BY <1>5 DEF EndBlock, Goto, tmVars
  <2>. QED
    BY <2>1, SettlementSame DEF Committed, Threads, Thread
<1>6. ASSUME NEW o \in Order, Recheck(o) PROVE Goal
  BY <1>6, RecheckSettles
<1>7. CASE Consensus
  BY <1>3, <1>5, <1>6, <1>7, CommitSettles, FireEventsSettles, PublishSettles
  DEF Consensus, Thread
<1>8. ASSUME NEW k \in Stream, Bus(k) PROVE Goal
  BY <1>8, SettlementSame DEF Bus, Forward, Resubscribe, tmVars, Committed
<1>9. CASE Listen
  <2>1. ASSUME NEW k \in Stream, TakeEvent(k) PROVE Goal
    BY <2>1, SettlementSame DEF TakeEvent, tmVars, Committed
  <2>2. ASSUME NEW t \in Thread, TakeCheckTx(t) PROVE Goal
    BY <2>2, TakeCheckTxSettles
  <2>3. CASE Signal
    BY <2>3, SettlementSame DEF Signal, tmVars, Committed
  <2>. QED
    BY <1>9, <2>1, <2>2, <2>3 DEF Listen
<1>10. Caller \subseteq Thread
  BY DEF Caller, Thread
<1>11. Consensus => Goal
  BY <1>7
<1>12. Listen => Goal
  BY <1>9
<1>. HIDE DEF Goal
<1>13. Goal
  BY <1>1, <1>2, <1>3, <1>4, <1>8, <1>10, <1>11, <1>12
  DEF Next, SendOrder, Receive, Calling, Caller
<1>. QED
  BY <1>13 DEF Goal

-----------------------------------------------------------------------------
(* The ends that are told.                                                 *)

LEMMA FineGrows ==
  ASSUME Settled \subseteq Settled'
  PROVE  Fine \subseteq Fine'
BY DEF Fine

LEMMA EndsSame ==
  ASSUME Ends, Settled \subseteq Settled',
         UNCHANGED <<publish, sub, outc, listener, signals>>
  PROVE  Ends'
<1>1. Fine \subseteq Fine'
  BY FineGrows
<1>. HIDE DEF Fine
<1>2. publish' \in Seq(Fine') /\ signals' \in Seq((Fine \cup PlainStart)')
  <2>1. Fine \cup PlainStart \subseteq Fine' \cup PlainStart
    BY <1>1
  <2>. QED
    BY <1>1, <2>1, SeqMonotone DEF Ends
<1>3. sub' \in [Stream -> Seq(Fine')] /\ outc' \in [Stream -> Seq(Fine')]
  BY <1>1, SeqMonotone DEF Ends
<1>. QED
  BY <1>1, <1>2, <1>3 DEF Ends

LEMMA FireEventsEnds ==
  ASSUME Threads, UnderWay, Settlement, Ends, FireEvents
  PROVE  Ends'
<1>. DEFINE done == [i \in DOMAIN block |-> Done(block[i])]
<1>1. UNCHANGED <<sub, outc, listener, signals>>
  BY DEF FireEvents, busVars, lstVars
<1>2. Fine' = Fine /\ InBlock \subseteq Settled
  BY FireEventsSettles DEF Fine
<1>3. NewBlock(height) \in Fine
  BY DEF UnderWay, NewBlock, Fine, Event
<1>4. \A i \in DOMAIN block : Done(block[i]) \in Fine
  <2>1. block \in Seq(Order)
    BY DEF Threads
  <2>. QED
    BY <1>2, <2>1 DEF Done, Fine, Event, InBlock
<1>5. done \in Seq(Fine)
  <2>1. block \in Seq(Order)
    BY DEF Threads
  <2>. QED
    BY <1>4, <2>1
<1>6. publish' \in Seq(Fine)
  <2>1. publish' = <<NewBlock(height)>> \o done
    BY DEF FireEvents
  <2>. HIDE DEF done
  <2>. QED
    BY <1>3, <1>5, <2>1, ConsIn
<1>. QED
  BY <1>1, <1>2, <1>6 DEF Ends

LEMMA PublishEnds ==
  ASSUME Threads, Settlement, Ends, Publish
  PROVE  Ends'
<1>. DEFINE k == StreamOf(Head(publish))
<1>1. UNCHANGED <<outc, listener, signals>>
  BY DEF Publish, lstVars
<1>2. Head(publish) \in Fine /\ Tail(publish) \in Seq(Fine)
  BY HeadTail DEF Publish, Ends
<1>3. k \in Stream
  BY DEF StreamOf, Stream
<1>4. sub' \in [Stream -> Seq(Fine)]
  <2>1. sub' = [sub EXCEPT ![k] = Append(sub[k], Head(publish))] \/ sub' = sub
    BY DEF Publish
  <2>2. sub \in [Stream -> Seq(Fine)]
    BY DEF Ends
  <2>. HIDE DEF k
  <2>3. Append(sub[k], Head(publish)) \in Seq(Fine)
    BY <1>2, <1>3, <2>2, AppendIn
  <2>. QED
    BY <1>3, <2>1, <2>2, <2>3
<1>5. publish' \in Seq(Fine)
  BY <1>2 DEF Publish
<1>6. Fine' = Fine
  BY PublishSettles DEF Fine
<1>. QED
  BY <1>1, <1>4, <1>5, <1>6 DEF Ends

\* The channels only pass on what they were given.
LEMMA BusEnds ==
  ASSUME Ends, Settled' = Settled, NEW k \in Stream, Bus(k)
  PROVE  Ends'
<1>1. UNCHANGED <<publish, listener, signals>> /\ Fine' = Fine
  BY DEF Bus, Forward, Resubscribe, tmVars, lstVars, Fine
<1>2. sub \in [Stream -> Seq(Fine)] /\ outc \in [Stream -> Seq(Fine)]
  BY DEF Ends
<1>3. CASE Forward(k)
  <2>1. Head(sub[k]) \in Fine /\ Tail(sub[k]) \in Seq(Fine)
    BY <1>2, <1>3, HeadTail DEF Forward
  <2>2. Append(outc[k], Head(sub[k])) \in Seq(Fine)
    BY <1>2, <2>1, AppendIn
  <2>3. sub' \in [Stream -> Seq(Fine)]
    BY <1>2, <1>3, <2>1 DEF Forward
  <2>4. outc' \in [Stream -> Seq(Fine)]
    BY <1>2, <1>3, <2>2 DEF Forward
  <2>. QED
    BY <1>1, <2>3, <2>4 DEF Ends
<1>4. CASE Resubscribe(k)
  <2>1. sub' \in [Stream -> Seq(Fine)]
    BY <1>2, <1>4 DEF Resubscribe
  <2>2. outc' \in [Stream -> Seq(Fine)]
    BY <1>2, <1>4 DEF Resubscribe
  <2>. QED
    BY <1>1, <2>1, <2>2 DEF Ends
<1>. QED
  BY <1>3, <1>4 DEF Bus

LEMMA TakeEventEnds ==
  ASSUME Ends, Settled' = Settled, NEW k \in Stream, TakeEvent(k)
  PROVE  Ends' /\ listener' \in Fine
<1>1. UNCHANGED <<publish, sub, signals>> /\ Fine' = Fine
  BY DEF TakeEvent, tmVars, Fine
<1>2. outc \in [Stream -> Seq(Fine)] /\ outc[k] # <<>>
  BY DEF Ends, TakeEvent
<1>3. Head(outc[k]) \in Fine /\ Tail(outc[k]) \in Seq(Fine)
  BY <1>2, HeadTail
<1>4. outc' \in [Stream -> Seq(Fine)]
  BY <1>2, <1>3 DEF TakeEvent
<1>5. listener' \in Fine
  BY <1>3 DEF TakeEvent
<1>. QED
  BY <1>1, <1>4, <1>5 DEF Ends

LEMMA TakeCheckTxEnds ==
  ASSUME Threads, UnderWay, Ends, Settled' = Settled, NEW t \in Thread, TakeCheckTx(t)
  PROVE  Ends' /\ listener' \in PlainStart /\ listener'.order = arg[t]
<1>1. UNCHANGED <<publish, sub, outc, signals>> /\ Fine' = Fine
  BY DEF TakeCheckTx, tmVars, busVars, Fine
<1>2. arg[t] \in Order
  BY DEF TakeCheckTx, Threads, ArgInHand
<1>3. listener' \in PlainStart /\ listener'.order = arg[t]
  BY <1>2, StatusPlain DEF TakeCheckTx, UnderWay, Start
<1>. QED
  BY <1>1, <1>3 DEF Ends

LEMMA SignalEnds ==
  ASSUME Ends, Settled' = Settled, Signal
  PROVE  Ends'
<1>1. UNCHANGED <<publish, sub, outc>> /\ listener' = None /\ Fine' = Fine
  BY DEF Signal, tmVars, busVars, Fine
<1>2. listener \in Fine \cup PlainStart
  BY DEF Signal, Ends
<1>3. signals' \in Seq(Fine \cup PlainStart)
  BY <1>2, AppendIn DEF Signal, Ends
<1>. QED
  BY <1>1, <1>3 DEF Ends

LEMMA ListenSettles ==
  ASSUME Threads, Settlement, Listen
  PROVE  Settled' = Settled
<1>1. ASSUME NEW k \in Stream, TakeEvent(k) PROVE Settled' = Settled
  BY <1>1 DEF TakeEvent, tmVars, Settled, Committed, InBlock
<1>2. CASE Signal
  BY <1>2 DEF Signal, tmVars, Settled, Committed, InBlock
<1>. QED
  BY <1>1, <1>2, TakeCheckTxSettles DEF Listen

LEMMA EndsStep ==
  ASSUME Threads, UnderWay, Settlement, Ends, Next
  PROVE  Ends'
<1>1. Settled \subseteq Settled'
  BY SettlementStep
<1>2. ASSUME NEW t \in Caller, NEW o \in Order, Enter(t, o) PROVE Ends'
  BY <1>1, <1>2, EndsSame DEF Enter, busVars, lstVars
<1>3. ASSUME NEW t \in Thread, CheckTx(t) PROVE Ends'
  BY <1>1, <1>3, EndsSame DEF CheckTx, busVars, lstVars
<1>4. ASSUME NEW t \in Thread, Return(t) PROVE Ends'
  BY <1>1, <1>4, EndsSame DEF Return, busVars, lstVars
<1>5. ASSUME NEW b \in Blocks, Decide(b) PROVE Ends'
  BY <1>1, <1>5, EndsSame DEF Decide, busVars, lstVars
<1>6. CASE EndBlock
  BY <1>1, <1>6, EndsSame DEF EndBlock, tmVars, busVars, lstVars
<1>7. CASE Commit
  BY <1>1, <1>7, EndsSame DEF Commit, busVars, lstVars
<1>8. ASSUME NEW o \in Order, Recheck(o) PROVE Ends'
  BY <1>1, <1>8, EndsSame DEF Recheck, tmVars, busVars, lstVars
<1>9. Consensus => Ends'
  BY <1>4, <1>6, <1>7, <1>8, FireEventsEnds, PublishEnds DEF Consensus, Thread
<1>10. ASSUME NEW k \in Stream, Bus(k) PROVE Ends'
  <2>1. UNCHANGED <<pc, block, decided>>
    BY <1>10 DEF Bus, Forward, Resubscribe, tmVars
  <2>2. Settled' = Settled
    BY <2>1 DEF Settled, Committed, InBlock
  <2>. QED
    BY <1>10, <2>2, BusEnds
<1>11. Listen => Ends'
  BY ListenSettles, TakeEventEnds, TakeCheckTxEnds, SignalEnds DEF Listen
<1>12. Caller \subseteq Thread
  BY DEF Caller, Thread
<1>. QED
  BY <1>2, <1>3, <1>4, <1>5, <1>9, <1>10, <1>11, <1>12
  DEF Next, SendOrder, Receive, Calling, Caller

-----------------------------------------------------------------------------
(* The starts that are told.                                               *)

\* What the listener does is the only way to the callback.
LEMMA SignalTold ==
  ASSUME Ends, Signal, NEW o
  PROVE  /\ Told(o) => Told(o)'
         /\ IsStart(listener, o) => Told(o)'
<1>. DEFINE s == Append(signals, listener)
<1>1. signals \in Seq(Fine \cup PlainStart) /\ listener \in Fine \cup PlainStart
  BY DEF Ends, Signal
<1>2. /\ \A i \in DOMAIN signals : i \in DOMAIN s /\ s[i] = signals[i]
      /\ Len(signals) + 1 \in DOMAIN s /\ s[Len(signals) + 1] = listener
  BY <1>1
<1>3. signals' = s
  BY DEF Signal
<1>. HIDE DEF s
<1>. QED
  BY <1>2, <1>3 DEF Told, IsStart

\* What was seen stays seen.
LEMMA SeenStays ==
  ASSUME Threads, Ends, Next
  PROVE  Seen \subseteq Seen'
<1>1. CASE Signal
  <2>. SUFFICES ASSUME NEW o \in Seen PROVE o \in Seen'
    OBVIOUS
  <2>1. Told(o) \/ IsStart(listener, o)
    BY DEF Seen
  <2>2. Told(o)'
    BY <1>1, <2>1, SignalTold
  <2>. QED
    BY <2>2 DEF Seen
<1>2. CASE signals' = signals /\ (listener' = listener \/ listener = None)
  BY <1>2 DEF Seen, Told, IsStart
<1>3. ~ Signal => signals' = signals /\ (listener' = listener \/ listener = None)
  <2>1. ASSUME NEW t \in Caller, NEW p \in Order, Enter(t, p)
        PROVE  signals' = signals /\ listener' = listener
    BY <2>1 DEF Enter, lstVars
  <2>2. ASSUME NEW t \in Caller, Calling(t)
        PROVE  signals' = signals /\ listener' = listener
    BY <2>2 DEF Calling, CheckTx, Return, lstVars
  <2>3. ASSUME NEW b \in Blocks, Decide(b)
        PROVE  signals' = signals /\ listener' = listener
    BY <2>3 DEF Decide, lstVars
  <2>4. Consensus => signals' = signals /\ listener' = listener
    BY DEF Consensus, EndBlock, Commit, Recheck, Return, FireEvents, Publish, lstVars
  <2>5. ASSUME NEW k \in Stream, Bus(k)
        PROVE  signals' = signals /\ listener' = listener
    BY <2>5 DEF Bus, Forward, Resubscribe, lstVars
  <2>6. Listen => Signal \/ (signals' = signals /\ listener = None)
    BY DEF Listen, TakeEvent, TakeCheckTx
  <2>. QED
    BY <2>1, <2>2, <2>3, <2>4, <2>5, <2>6 DEF Next, SendOrder, Receive, Caller
<1>. QED
  BY <1>1, <1>2, <1>3

\* Nothing new has passed CheckTx.
LEMMA StartsSame ==
  ASSUME Starts, Seen \subseteq Seen',
         mempool' \cup recheck' \subseteq mempool \cup recheck, decided' = decided,
         \A t \in Thread : pc'[t] = "sent" => pc[t] = "sent" /\ arg'[t] = arg[t]
  PROVE  Starts'
BY DEF Starts

LEMMA StartsStep ==
  ASSUME Threads, UnderWay, Ends, Starts, Next
  PROVE  Starts'
<1>1. Seen \subseteq Seen'
  BY SeenStays
<1>2. ASSUME NEW t \in Caller, NEW o \in Order, Enter(t, o) PROVE Starts'
  BY <1>1, <1>2, StartsSame DEF Enter, Goto, Threads
<1>3. ASSUME NEW t \in Caller, CheckTx(t) PROVE Starts'
  <2>1. /\ pc[t] = "call" /\ t \in Thread
        /\ \E next \in {"send", "idle"} : pc' = [pc EXCEPT ![t] = next]
        /\ \A q \in Thread : q # t => arg'[q] = arg[q]
        /\ UNCHANGED <<mempool, recheck, decided>>
    BY <1>3 DEF CheckTx, Goto, Threads, Thread
  <2>. QED
    BY <1>1, <2>1, StartsSame DEF Threads
<1>4. ASSUME NEW t \in Thread, Return(t) PROVE Starts'
  <2>1. /\ pc[t] = "sent" /\ decided' = decided
        /\ mempool' \subseteq mempool \cup {arg[t]} /\ recheck' \subseteq recheck
        /\ \E next \in {"recheck", "idle"} : pc' = [pc EXCEPT ![t] = next]
        /\ arg' = [arg EXCEPT ![t] = None]
    BY <1>4 DEF Return, Handed, Goto
  <2>2. arg[t] \in Seen'
    BY <1>1, <2>1 DEF Starts
  <2>3. mempool' \cup recheck' \subseteq Seen'
    BY <1>1, <2>1, <2>2 DEF Starts
  <2>4. \A q \in Thread : pc'[q] = "sent" => pc[q] = "sent" /\ arg'[q] = arg[q]
    BY <2>1 DEF Threads
  <2>. QED
    BY <1>1, <2>1, <2>3, <2>4 DEF Starts
<1>5. ASSUME NEW b \in Blocks, Decide(b) PROVE Starts'
  <2>. DEFINE orders == {b[i] : i \in DOMAIN b}
  <2>1. /\ decided' = decided \cup orders
        /\ UNCHANGED <<mempool, recheck, arg>>
        /\ \A q \in Thread : pc'[q] = "sent" => pc[q] = "sent"
    BY <1>5 DEF Decide, Goto, Threads
  <2>2. orders \subseteq Candidates
    <3>1. PICK n \in 1..MaxBlock : b \in [1..n -> Candidates]
      BY DEF Blocks
    <3>. QED
      BY <3>1
  <2>. HIDE DEF orders
  <2>3. ASSUME NEW o \in orders, o.local PROVE o \in mempool
    BY <2>2, <2>3 DEF Candidates
  <2>. QED
    BY <1>1, <2>1, <2>3 DEF Starts
<1>6. CASE EndBlock
  BY <1>1, <1>6, StartsSame DEF EndBlock, Goto, Threads, tmVars
<1>7. CASE Commit
  BY <1>1, <1>7, StartsSame DEF Commit, Goto, Threads
<1>8. ASSUME NEW o \in Order, Recheck(o) PROVE Starts'
  BY <1>1, <1>8, StartsSame DEF Recheck, Goto, Threads, tmVars
<1>9. CASE FireEvents
  BY <1>1, <1>9, StartsSame DEF FireEvents, Goto, Threads
<1>10. CASE Publish
  <2>1. \E next \in {"idle", "publish"} : pc' = [pc EXCEPT !["consensus"] = next]
    BY <1>10 DEF Publish, Goto
  <2>. QED
    BY <1>1, <1>10, <2>1, StartsSame DEF Publish, Threads
<1>11. ASSUME NEW k \in Stream, Bus(k) PROVE Starts'
  BY <1>1, <1>11, StartsSame DEF Bus, Forward, Resubscribe, tmVars
<1>12. ASSUME NEW k \in Stream, TakeEvent(k) PROVE Starts'
  BY <1>1, <1>12, StartsSame DEF TakeEvent, tmVars
<1>13. ASSUME NEW t \in Thread, TakeCheckTx(t) PROVE Starts'
  <2>1. /\ pc' = [pc EXCEPT ![t] = "sent"] /\ arg[t] \in Order
        /\ listener' = Start(arg[t], Status(arg[t]))
        /\ UNCHANGED <<mempool, recheck, decided, arg>>
    BY <1>13 DEF TakeCheckTx, Goto, tmVars, Threads, ArgInHand
  <2>2. Start(arg[t], Status(arg[t])) \in StartEvent
    BY <2>1, StatusPlain DEF UnderWay, PlainStart
  <2>3. listener' # None /\ listener'.type = "start" /\ listener'.order = arg[t]
    BY <2>1, <2>2, NoneAssumption DEF Start
  <2>4. arg[t] \in Seen'
    BY <2>1, <2>3 DEF Seen, IsStart
  <2>5. \A q \in Thread : q # t /\ pc'[q] = "sent" => pc[q] = "sent"
    BY <2>1 DEF Threads
  <2>. QED
    BY <1>1, <2>1, <2>4, <2>5 DEF Starts
<1>14. CASE Signal
  BY <1>1, <1>14, StartsSame DEF Signal, tmVars
<1>15. Caller \subseteq Thread /\ "consensus" \in Thread
  BY DEF Caller, Thread
<1>16. Consensus => Starts'
  BY <1>4, <1>6, <1>7, <1>8, <1>9, <1>10, <1>15 DEF Consensus
<1>17. Listen => Starts'
  BY <1>12, <1>13, <1>14 DEF Listen
<1>. QED
  BY <1>2, <1>3, <1>4, <1>5, <1>11, <1>15, <1>16, <1>17
  DEF Next, SendOrder, Receive, Calling, Caller

-----------------------------------------------------------------------------
(* Starts before ends.                                                     *)

\* The listener only takes a start of an order that is not settled.
LEMMA NoLateStartStep ==
  ASSUME Threads, UnderWay, Settlement, Ends, NoLateStart, Next
  PROVE  NoLateStart'
<1>1. CASE UNCHANGED <<listener, signals>>
  BY <1>1 DEF NoLateStart
<1>2. CASE Signal
  BY <1>2 DEF Signal, NoLateStart
<1>3. ASSUME NEW k \in Stream, TakeEvent(k) PROVE NoLateStart'
  <2>1. Settled' = Settled
    BY <1>3 DEF TakeEvent, tmVars, Settled, Committed, InBlock
  <2>2. listener' \in Fine
    BY <1>3, <2>1, TakeEventEnds
  <2>. QED
    BY <2>2 DEF Fine, Event, NoLateStart
<1>4. ASSUME NEW t \in Thread, TakeCheckTx(t) PROVE NoLateStart'
  <2>1. /\ Settled' = Settled /\ signals' = signals
        /\ pc[t] = "send" /\ signals \in Seq(Fine \cup PlainStart)
    BY <1>4, TakeCheckTxSettles DEF TakeCheckTx, Ends
  <2>2. listener'.order = arg[t]
    BY <1>4, <2>1, TakeCheckTxEnds
  <2>3. arg[t] \notin Settled
    BY <2>1 DEF Settlement, Left
  <2>4. ASSUME NEW i \in DOMAIN signals, signals[i].type = "done"
        PROVE  signals[i].order \in Settled
    <3>1. signals[i] \in Fine \cup PlainStart
      BY <2>1, <2>4
    <3>. QED
      BY <2>4, <3>1 DEF Fine, PlainStart, StartEvent
  <2>. QED
    BY <2>1, <2>2, <2>3, <2>4 DEF NoLateStart
<1>5. ~ Listen => UNCHANGED <<listener, signals>>
  <2>1. ASSUME NEW t \in Caller, NEW p \in Order, Enter(t, p)
        PROVE  UNCHANGED <<listener, signals>>
    BY <2>1 DEF Enter, lstVars
  <2>2. ASSUME NEW t \in Caller, Calling(t)
        PROVE  UNCHANGED <<listener, signals>>
    BY <2>2 DEF Calling, CheckTx, Return, lstVars
  <2>3. ASSUME NEW b \in Blocks, Decide(b)
        PROVE  UNCHANGED <<listener, signals>>
    BY <2>3 DEF Decide, lstVars
  <2>4. Consensus => UNCHANGED <<listener, signals>>
    BY DEF Consensus, EndBlock, Commit, Recheck, Return, FireEvents, Publish, lstVars
  <2>5. ASSUME NEW k \in Stream, Bus(k)
        PROVE  UNCHANGED <<listener, signals>>
    BY <2>5 DEF Bus, Forward, Resubscribe, lstVars
  <2>. QED
    BY <2>1, <2>2, <2>3, <2>4, <2>5 DEF Next, SendOrder, Receive, Caller
<1>. QED
  BY <1>1, <1>2, <1>3, <1>4, <1>5 DEF Listen

\* StartThenDone, in terms of what is at a place.
LEMMA StartThenDoneAt ==
  StartThenDone <=>
    \A i \in DOMAIN signals :
      signals[i].type = "done" =>
        /\ signals[i].order.local
             => \E j \in 1..(i - 1) : IsStart(signals[j], signals[i].order)
        /\ \A j \in i..Len(signals) : ~ IsStart(signals[j], signals[i].order)
BY DEF StartThenDone, IsStart

LEMMA SignalKeepsOrder ==
  ASSUME Threads, Settlement, Ends, Starts, NoLateStart, StartThenDone, Signal
  PROVE  StartThenDone'
<1>. DEFINE s == signals
            n == Len(signals)
            e == listener
            t == Append(signals, listener)
<1>1. s \in Seq(Fine \cup PlainStart) /\ e \in Fine \cup PlainStart /\ e # None
  BY DEF Ends, Signal
<1>2. /\ n \in Nat /\ DOMAIN s = 1..n /\ DOMAIN t = 1..(n + 1) /\ Len(t) = n + 1
      /\ \A i \in 1..n : t[i] = s[i]
      /\ t[n + 1] = e
  BY <1>1
<1>3. signals' = t
  BY DEF Signal
<1>4. ASSUME e.type = "done", e.order.local
      PROVE  \E j \in 1..n : IsStart(s[j], e.order)
  <2>1. e \in Fine
    BY <1>1, <1>4 DEF PlainStart, StartEvent
  <2>2. e.order \in decided
    BY <1>4, <2>1 DEF Fine, Settled
  <2>3. e.order \in Seen
    BY <1>4, <2>2 DEF Starts
  <2>4. Told(e.order)
    BY <1>4, <2>3 DEF Seen, IsStart
  <2>. QED
    BY <1>2, <2>4 DEF Told
<1>5. ASSUME NEW i \in 1..n, s[i].type = "done"
      PROVE  ~ IsStart(e, s[i].order)
  BY <1>1, <1>2, <1>5 DEF NoLateStart, IsStart
<1>. HIDE DEF s, n, e, t
<1>6. ASSUME NEW i \in 1..n, s[i].type = "done"
      PROVE  /\ s[i].order.local => \E j \in 1..(i - 1) : IsStart(s[j], s[i].order)
             /\ \A j \in i..n : ~ IsStart(s[j], s[i].order)
  BY <1>2, <1>6, StartThenDoneAt DEF s, n
<1>7. ASSUME NEW i \in 1..(n + 1), t[i].type = "done"
      PROVE  /\ t[i].order.local => \E j \in 1..(i - 1) : IsStart(t[j], t[i].order)
             /\ \A j \in i..(n + 1) : ~ IsStart(t[j], t[i].order)
  <2>1. CASE i = n + 1
    <3>1. t[i] = e /\ e.type = "done"
      BY <1>2, <1>7, <2>1
    <3>2. ~ IsStart(e, e.order)
      BY <3>1 DEF IsStart
    <3>3. ASSUME e.order.local
          PROVE  \E j \in 1..(i - 1) : IsStart(t[j], e.order)
      <4>1. PICK j \in 1..n : IsStart(s[j], e.order)
        BY <1>4, <3>1, <3>3
      <4>. QED
        BY <1>2, <2>1, <4>1
    <3>4. \A j \in i..(n + 1) : t[j] = e
      BY <1>2, <2>1
    <3>. QED
      BY <3>1, <3>2, <3>3, <3>4
  <2>2. CASE i # n + 1
    <3>1. i \in 1..n /\ t[i] = s[i] /\ s[i].type = "done"
      BY <1>2, <1>7, <2>2
    <3>2. \A j \in 1..(i - 1) : t[j] = s[j]
      BY <1>2, <3>1
    <3>3. \A j \in i..(n + 1) : j = n + 1 \/ (j \in i..n /\ t[j] = s[j])
      BY <1>2, <3>1
    <3>. QED
      BY <1>2, <1>5, <1>6, <3>1, <3>2, <3>3
  <2>. QED
    BY <2>1, <2>2
<1>8. \A i \in DOMAIN signals' :
        signals'[i].type = "done" =>
          /\ signals'[i].order.local
               => \E j \in 1..(i - 1) : IsStart(signals'[j], signals'[i].order)
          /\ \A j \in i..Len(signals') : ~ IsStart(signals'[j], signals'[i].order)
  BY <1>2, <1>3, <1>7
<1>. QED
  BY <1>8 DEF StartThenDone, IsStart

LEMMA StoryStep ==
  ASSUME IInv, StoryInv, Next
  PROVE  StoryInv'
<1>1. Threads /\ UnderWay /\ Settlement /\ Ends /\ Starts /\ NoLateStart /\ StartThenDone
  BY DEF IInv, StoryInv
<1>2. Settlement' /\ Ends' /\ Starts' /\ NoLateStart'
  BY <1>1, SettlementStep, EndsStep, StartsStep, NoLateStartStep
<1>3. StartThenDone'
  <2>1. CASE signals' = signals
    BY <1>1, <2>1 DEF StartThenDone
  <2>2. signals' = signals \/ Signal
    <3>1. ASSUME NEW t \in Caller, NEW p \in Order, Enter(t, p) PROVE signals' = signals
      BY <3>1 DEF Enter, lstVars
    <3>2. ASSUME NEW t \in Caller, Calling(t) PROVE signals' = signals
      BY <3>2 DEF Calling, CheckTx, Return, lstVars
    <3>3. ASSUME NEW b \in Blocks, Decide(b) PROVE signals' = signals
      BY <3>3 DEF Decide, lstVars
    <3>4. Consensus => signals' = signals
      BY DEF Consensus, EndBlock, Commit, Recheck, Return, FireEvents, Publish, lstVars
    <3>5. ASSUME NEW k \in Stream, Bus(k) PROVE signals' = signals
      BY <3>5 DEF Bus, Forward, Resubscribe, lstVars
    <3>6. Listen => Signal \/ signals' = signals
      BY DEF Listen, TakeEvent, TakeCheckTx
    <3>. QED
      BY <3>1, <3>2, <3>3, <3>4, <3>5, <3>6 DEF Next, SendOrder, Receive, Caller
  <2>. QED
    BY <1>1, <2>1, <2>2, SignalKeepsOrder
<1>. QED
  BY <1>2, <1>3 DEF StoryInv

\* Nothing happens, nothing changes.
LEMMA StoryStutter ==
  ASSUME StoryInv, UNCHANGED vars
  PROVE  StoryInv'
<1>1. UNCHANGED <<pc, arg, mempool, recheck, cache, decided, block, publish, sub, outc,
                  listener, signals>>
  BY DEF vars, tmVars, busVars, lstVars
<1>2. Settlement' /\ Settled' = Settled
  BY <1>1, SettlementSame DEF StoryInv, Committed
<1>3. Ends'
  BY <1>1, <1>2, EndsSame DEF StoryInv
<1>4. Starts'
  <2>1. Seen' = Seen
    BY <1>1 DEF Seen, Told, IsStart
  <2>. QED
    BY <1>1, <2>1, StartsSame DEF StoryInv
<1>5. NoLateStart' /\ StartThenDone'
  BY <1>1 DEF StoryInv, NoLateStart, StartThenDone
<1>. QED
  BY <1>2, <1>3, <1>4, <1>5 DEF StoryInv

LEMMA InitStory == Init => StoryInv
<1>. SUFFICES ASSUME Init PROVE StoryInv
  OBVIOUS
<1>1. /\ mempool = {} /\ recheck = {} /\ decided = {} /\ block = <<>> /\ publish = <<>>
      /\ signals = <<>> /\ listener = None
      /\ \A t \in Thread : pc[t] = "idle"
  BY DEF Init
<1>2. Settlement
  BY <1>1 DEF Settlement, Settled, InBlock
<1>3. Ends
  <2>1. \A S : <<>> \in Seq(S)
    OBVIOUS
  <2>2. [k \in Stream |-> <<>>] \in [Stream -> Seq(Fine)]
    BY <2>1
  <2>. QED
    BY <1>1, <2>1, <2>2 DEF Init, Ends
<1>4. Starts
  BY <1>1 DEF Starts
<1>5. NoLateStart /\ StartThenDone
  BY <1>1 DEF NoLateStart, StartThenDone
<1>. QED
  BY <1>2, <1>3, <1>4, <1>5 DEF StoryInv

\* The callback sees the start of an order of this node before its end, and of
\* no order a start after its end, though CheckTx sends the one directly and
\* the block the other through two channels that drop events.
THEOREM StartBeforeDone == Spec => []StartThenDone
<1>1. IInv /\ StoryInv /\ [Next]_vars => StoryInv'
  BY StoryStep, StoryStutter
<1>2. StoryInv => StartThenDone
  BY DEF StoryInv
<1>. QED
  BY Inductive, InitStory, <1>1, <1>2, PTL DEF Spec
=============================================================================
