------------------------------ MODULE OrderApp ------------------------------
(***************************************************************************)
(* The replicated order application (InferSyncApp, p2p/consensus/app.go)   *)
(* on every restaurant, and the part of Tendermint that drives it: the     *)
(* mempool with its cache, the agreed chain of blocks, the crash of a      *)
(* process and the handshake that replays the chain into the application.  *)
(*                                                                         *)
(* An order is the transaction SendOrder builds.  Hashes are ideal: the    *)
(* aggregated proof hash of a restaurant is the sequence of the proofs     *)
(* folded into it, and a subdomain stands for the one ENR it is the hash   *)
(* of, so the register store is the set of its keys.                       *)
(***************************************************************************)
EXTENDS Integers, Sequences, FiniteSets

CONSTANTS
  Node,       \* restaurants; each runs one replica of the application
  Proof,      \* order proofs
  Enr,        \* node records a restaurant may register
  NoEnr,      \* the empty ENR of an order sent without idle peers
  NoUrl,      \* the empty tree url of such an order
  NoPeers,    \* no entry in the peers store
  Order,      \* the orders that may be sent
  MaxHeight,  \* bound: blocks in the chain
  MaxCrash    \* bound: crashes and panics of one replica

Mode == {"solo", "assist"}

\* The hash of an ENR: another value, and a different one for every ENR.
CreatePeerSubDomain(enr) == <<"subdomain", enr>>
SubDomain == {CreatePeerSubDomain(e) : e \in Enr}

\* The url of a peer tree goes into an order with its subdomains only.
Url == Node \cup {NoUrl}

\* url names the restaurant whose key signed the peer tree, subs lists the
\* subdomains of the tree in its order, and signed is the set of those
\* whose approval signature verifies against the ENR they are the hash of.
OrderType ==
  [node : Node, proof : Proof, time : Nat, mode : Mode,
   enr : Enr \cup {NoEnr}, url : Url,
   subs : Seq(SubDomain), signed : SUBSET SubDomain]

ASSUME ConstantsAssumption ==
  /\ Order \subseteq OrderType
  /\ NoEnr \notin Enr
  /\ NoUrl \notin Node
  /\ MaxHeight \in Nat
  /\ MaxCrash \in Nat

VARIABLES
  chain,      \* the blocks the validators agreed on
  phase,      \* per replica: down, handshake (replaying) or live
  stored,     \* per replica: blocks in its block store
  mempool,    \* per replica: orders that passed CheckTx, not yet committed
  cache,      \* per replica: orders the mempool has seen since the start
  crashes,    \* per replica: how often it went down
  height,     \* per replica: blocks applied since the start
  stage,      \* per replica: between blocks, delivering, or after EndBlock
  pos,        \* per replica: orders delivered of the current block
  numOrders,  \* per replica: State.NumOrders, in memory
  appHash,    \* per replica: what the last Commit returned
  db,         \* per replica: the three badger stores
  txn         \* per replica: the three open transactions of the block

tmVars  == <<chain, phase, stored, mempool, cache, crashes>>
appVars == <<height, stage, pos, numOrders, appHash, db, txn>>
vars    == <<tmVars, appVars>>

Stores ==
  [orders : [Node -> Seq(Proof)], registers : SUBSET SubDomain,
   peers : [Node \X Mode -> Seq(SubDomain) \cup {NoPeers}]]

EmptyStores ==
  [orders |-> [n \in Node |-> <<>>], registers |-> {},
   peers |-> [k \in Node \X Mode |-> NoPeers]]

-----------------------------------------------------------------------------
(* What isTxValid decides of an order, given the registered subdomains.    *)

\* The key of the url is that of the sender's id.
CheckURL(o) == o.url = o.node

WellFormed(o) == o.enr # NoEnr /\ CheckURL(o)

\* The signature of the peer with this subdomain, by the key in its record.
VerifyPeerSignature(o, subdomain) == subdomain \in o.signed

\* The approval loop goes on past the i-th peer.
Passes(regs, o, i) == o.subs[i] \in regs /\ VerifyPeerSignature(o, o.subs[i])

\* Variant: an ENR may be registered once only.
ApprovedOnceRegistered(regs, o) ==
  /\ WellFormed(o)
  /\ CreatePeerSubDomain(o.enr) \notin regs
  /\ o.mode = "assist" => \A i \in DOMAIN o.subs : Passes(regs, o, i)

Approved(regs, o) ==
  /\ WellFormed(o)
  /\ o.mode = "assist" => \A i \in DOMAIN o.subs : Passes(regs, o, i)

\* The loop reaches a peer that is not registered: the key is read from the
\* record of a nil node.
Panics(regs, o) ==
  /\ WellFormed(o)
  /\ o.mode = "assist"
  /\ \E i \in DOMAIN o.subs :
       /\ o.subs[i] \notin regs
       /\ \A j \in 1..(i - 1) : Passes(regs, o, j)

(* What an approved order writes.                                          *)

\* The loop over the peers stops at the i-th: the first registered one.
StopsAt(regs, o, i) ==
  o.subs[i] \in regs /\ \A j \in 1..(i - 1) : o.subs[j] \notin regs

\* Variant: the registered peer ends up in the list too.
WithIdlePeersAndNext(peers, regs, o) ==
  LET stop == {i \in DOMAIN o.subs : StopsAt(regs, o, i)}
  IN  IF stop = {} THEN peers
      ELSE [peers EXCEPT ![<<o.url, o.mode>>] =
              SubSeq(o.subs, 1, CHOOSE i \in stop : TRUE)]

\* The peers before that one are listed under the url; with no registered
\* peer nothing is.
WithIdlePeers(peers, regs, o) ==
  LET stop == {i \in DOMAIN o.subs : StopsAt(regs, o, i)}
  IN  IF stop = {} THEN peers
      ELSE [peers EXCEPT ![<<o.url, o.mode>>] =
              SubSeq(o.subs, 1, (CHOOSE i \in stop : TRUE) - 1)]

\* The previous hash is read from the committed store, not the transaction.
PreviousHash(committed, o) == committed[o.node]

WithOrder(orders, committed, o) ==
  [orders EXCEPT ![o.node] = Append(PreviousHash(committed, o), o.proof)]

WithRegisterPeer(regs, o) == regs \cup {CreatePeerSubDomain(o.enr)}

\* Variant: the register store is keyed by the ENR, not by its hash.
WithApprovedByEnr(t, committed, o) ==
  LET regs == t.registers \cup {o.enr}
  IN  [orders    |-> WithOrder(t.orders, committed, o),
       registers |-> regs,
       peers     |-> WithIdlePeers(t.peers, regs, o)]

WithApproved(t, committed, o) ==
  LET regs == WithRegisterPeer(t.registers, o)
  IN  [orders    |-> WithOrder(t.orders, committed, o),
       registers |-> regs,
       peers     |-> WithIdlePeers(t.peers, regs, o)]

-----------------------------------------------------------------------------
Init ==
  /\ chain = <<>>
  /\ phase = [r \in Node |-> "down"]
  /\ stored = [r \in Node |-> 0]
  /\ mempool = [r \in Node |-> {}]
  /\ cache = [r \in Node |-> {}]
  /\ crashes = [r \in Node |-> 0]
  /\ height = [r \in Node |-> 0]
  /\ stage = [r \in Node |-> "idle"]
  /\ pos = [r \in Node |-> 0]
  /\ numOrders = [r \in Node |-> 0]
  /\ appHash = [r \in Node |-> 0]
  /\ db = [r \in Node |-> EmptyStores]
  /\ txn = [r \in Node |-> EmptyStores]

\* Everything that is not on disk is gone; the stores are left as "left".
GoDown(r, left) ==
  /\ phase' = [phase EXCEPT ![r] = "down"]
  /\ mempool' = [mempool EXCEPT ![r] = {}]
  /\ cache' = [cache EXCEPT ![r] = {}]
  /\ crashes' = [crashes EXCEPT ![r] = @ + 1]
  /\ height' = [height EXCEPT ![r] = 0]
  /\ stage' = [stage EXCEPT ![r] = "idle"]
  /\ pos' = [pos EXCEPT ![r] = 0]
  /\ numOrders' = [numOrders EXCEPT ![r] = 0]
  /\ appHash' = [appHash EXCEPT ![r] = 0]
  /\ db' = [db EXCEPT ![r] = left]
  /\ txn' = [txn EXCEPT ![r] = left]
  /\ UNCHANGED <<chain, stored>>

MayGoDown(r) == crashes[r] < MaxCrash

\* Variant: no handshake, the stores are taken to be at the last height.
StartLive(r) ==
  /\ phase[r] = "down"
  /\ phase' = [phase EXCEPT ![r] = "live"]
  /\ UNCHANGED <<chain, stored, mempool, cache, crashes, appVars>>

\* The process starts: badger keeps the stores, the state database is a new
\* one in memory, and Info reports height 0, so the handshake will replay
\* every stored block.
Start(r) ==
  /\ phase[r] = "down"
  /\ phase' = [phase EXCEPT ![r] = "handshake"]
  /\ UNCHANGED <<chain, stored, mempool, cache, crashes, appVars>>

\* Variant: the handshake waits for the blocks the others have.
GoLiveAtHead(r) ==
  /\ phase[r] = "handshake"
  /\ stage[r] = "idle"
  /\ height[r] = Len(chain)
  /\ phase' = [phase EXCEPT ![r] = "live"]
  /\ UNCHANGED <<chain, stored, mempool, cache, crashes, appVars>>

GoLive(r) ==
  /\ phase[r] = "handshake"
  /\ stage[r] = "idle"
  /\ height[r] = stored[r]
  /\ phase' = [phase EXCEPT ![r] = "live"]
  /\ UNCHANGED <<chain, stored, mempool, cache, crashes, appVars>>

Crash(r) ==
  /\ phase[r] # "down"
  /\ MayGoDown(r)
  /\ GoDown(r, db[r])

-----------------------------------------------------------------------------
(* The mempool connection.                                                 *)

\* Variant: the open transaction is read instead of the store.
CheckTxInTxn(r, o) ==
  /\ phase[r] = "live"
  /\ o \notin cache[r]
  /\ Approved(txn[r].registers, o)
  /\ mempool' = [mempool EXCEPT ![r] = @ \cup {o}]
  /\ cache' = [cache EXCEPT ![r] = @ \cup {o}]
  /\ UNCHANGED <<chain, phase, stored, crashes, appVars>>

CheckTx(r, o) ==
  /\ phase[r] = "live"
  /\ o \notin cache[r]
  /\ \/ /\ Approved(db[r].registers, o)
        /\ mempool' = [mempool EXCEPT ![r] = @ \cup {o}]
        /\ cache' = [cache EXCEPT ![r] = @ \cup {o}]
        /\ UNCHANGED <<chain, phase, stored, crashes, appVars>>
     \/ /\ Panics(db[r].registers, o)
        /\ MayGoDown(r)
        /\ GoDown(r, db[r])

\* BroadcastTxAsync on the restaurant that sends the order.
SendOrder(o) == CheckTx(o.node, o)

\* The mempool reactor offers every peer what it holds.
Gossip(s, r, o) ==
  /\ o \in mempool[s]
  /\ CheckTx(r, o)

-----------------------------------------------------------------------------
(* The consensus connection.                                               *)

\* The blocks a validator may reap from its mempool: some orders, each once.
Blocks(orders) ==
  {b \in UNION {[1..k -> orders] : k \in 1..Cardinality(orders)} :
     \A i, j \in DOMAIN b : b[i] = b[j] => i = j}

\* A validator at the head of the chain proposes a block, and it is decided.
Propose(r, block) ==
  /\ phase[r] = "live"
  /\ stage[r] = "idle"
  /\ height[r] = Len(chain)
  /\ Len(chain) < MaxHeight
  /\ chain' = Append(chain, block)
  /\ UNCHANGED <<phase, stored, mempool, cache, crashes, appVars>>

\* A live node saves the next decided block before it applies it; in the
\* handshake the application gets the stored blocks only.
BeginBlock(r) ==
  /\ stage[r] = "idle"
  /\ \/ /\ phase[r] = "live"
        /\ height[r] < Len(chain)
        /\ stored' = [stored EXCEPT ![r] = height[r] + 1]
     \/ /\ phase[r] = "handshake"
        /\ height[r] < stored[r]
        /\ UNCHANGED stored
  /\ stage' = [stage EXCEPT ![r] = "deliver"]
  /\ pos' = [pos EXCEPT ![r] = 0]
  /\ txn' = [txn EXCEPT ![r] = db[r]]
  /\ UNCHANGED <<chain, phase, mempool, cache, crashes, height, numOrders,
                 appHash, db>>

Block(r) == chain[height[r] + 1]

\* Variant: an order without a list of idle peers is not counted.
DeliverTxListed(r) ==
  /\ stage[r] = "deliver"
  /\ pos[r] < Len(Block(r))
  /\ LET o == Block(r)[pos[r] + 1]
     IN  /\ Approved(db[r].registers, o)
         /\ txn' = [txn EXCEPT ![r] = WithApproved(@, db[r].orders, o)]
         /\ numOrders' = [numOrders EXCEPT ![r] =
              IF txn'[r].peers = txn[r].peers THEN @ ELSE @ + 1]
  /\ pos' = [pos EXCEPT ![r] = @ + 1]
  /\ UNCHANGED <<tmVars, height, stage, appHash, db>>

\* Variant: a replica records the orders of its own restaurant only.
DeliverTxOwn(r) ==
  /\ stage[r] = "deliver"
  /\ pos[r] < Len(Block(r))
  /\ LET o == Block(r)[pos[r] + 1]
     IN  IF Approved(db[r].registers, o)
         THEN /\ txn' = [txn EXCEPT ![r] =
                           IF o.node = r THEN WithApproved(@, db[r].orders, o)
                           ELSE @]
              /\ numOrders' = [numOrders EXCEPT ![r] = @ + 1]
         ELSE UNCHANGED <<txn, numOrders>>
  /\ pos' = [pos EXCEPT ![r] = @ + 1]
  /\ UNCHANGED <<tmVars, height, stage, appHash, db>>

\* An order refused here gets code 3 and leaves no trace; an approved one is
\* counted whatever becomes of its list of idle peers.
DeliverTx(r) ==
  /\ stage[r] = "deliver"
  /\ pos[r] < Len(Block(r))
  /\ LET o == Block(r)[pos[r] + 1]
     IN  IF Panics(db[r].registers, o)
         THEN GoDown(r, db[r])
         ELSE /\ pos' = [pos EXCEPT ![r] = @ + 1]
              /\ IF Approved(db[r].registers, o)
                 THEN /\ txn' = [txn EXCEPT ![r] =
                                   WithApproved(@, db[r].orders, o)]
                      /\ numOrders' = [numOrders EXCEPT ![r] = @ + 1]
                 ELSE UNCHANGED <<txn, numOrders>>
              /\ UNCHANGED <<tmVars, height, stage, appHash, db>>

EndBlock(r) ==
  /\ stage[r] = "deliver"
  /\ pos[r] = Len(Block(r))
  /\ stage' = [stage EXCEPT ![r] = "ended"]
  /\ UNCHANGED <<tmVars, height, pos, numOrders, appHash, db, txn>>

\* Variants: the mempool keeps the block; the mempool is flushed.
DeliveredNothing(r) == {}
DeliveredAndPending(r) == {Block(r)[i] : i \in DOMAIN Block(r)} \cup mempool[r]

Delivered(r) == {Block(r)[i] : i \in DOMAIN Block(r)}

\* Commit answers with the number of orders and commits the transactions; a
\* live node then drops the block from its mempool and checks the rest again
\* (MempoolStaysApproved: that check never panics).
Commit(r) ==
  /\ stage[r] = "ended"
  /\ appHash' = [appHash EXCEPT ![r] = numOrders[r]]
  /\ db' = [db EXCEPT ![r] = txn[r]]
  /\ height' = [height EXCEPT ![r] = @ + 1]
  /\ stage' = [stage EXCEPT ![r] = "idle"]
  /\ pos' = [pos EXCEPT ![r] = 0]
  /\ IF phase[r] = "live"
     THEN /\ mempool' = [mempool EXCEPT ![r] =
                           {o \in @ \ Delivered(r) :
                              Approved(txn[r].registers, o)}]
          /\ cache' = [cache EXCEPT ![r] = @ \cup Delivered(r)]
     ELSE UNCHANGED <<mempool, cache>>
  /\ UNCHANGED <<chain, phase, stored, crashes, numOrders, txn>>

\* Stop has closed the order and register stores when the node goes on to the
\* end of its commit.
StoppedStores(r) == [db[r] EXCEPT !.peers = txn[r].peers]

\* The three transactions are committed one after the other and their errors
\* are ignored: a crash leaves the first, or the first two; Stop leaves the
\* second only.
CommitCut(r) ==
  /\ stage[r] = "ended"
  /\ MayGoDown(r)
  /\ \/ GoDown(r, [db[r] EXCEPT !.orders = txn[r].orders])
     \/ GoDown(r, [txn[r] EXCEPT !.registers = db[r].registers])
     \/ GoDown(r, StoppedStores(r))

-----------------------------------------------------------------------------
Step(r) ==
  \/ Start(r) \/ GoLive(r) \/ BeginBlock(r) \/ DeliverTx(r) \/ EndBlock(r)
  \/ Commit(r)

Next ==
  \/ \E o \in Order : SendOrder(o)
  \/ \E s, r \in Node, o \in Order : Gossip(s, r, o)
  \/ \E r \in Node : \E b \in Blocks(mempool[r]) : Propose(r, b)
  \/ \E r \in Node : Step(r) \/ Crash(r) \/ CommitCut(r)

Spec == Init /\ [][Next]_vars

\* The operator starts a stopped restaurant again, and Tendermint drives a
\* running one through the blocks and lets every validator propose.
Fairness ==
  \A r \in Node :
    /\ WF_vars(Step(r))
    /\ WF_vars(\E b \in Blocks(mempool[r]) : Propose(r, b))

FairSpec == Spec /\ Fairness
-----------------------------------------------------------------------------
(* What the chain says, whoever replays it.                                *)

\* The positions of the orders in the first h blocks.
Positions(h) == UNION {{<<b, i>> : i \in DOMAIN chain[b]} : b \in 1..h}
OrderAt(p) == chain[p[1]][p[2]]

\* The positions replica r has delivered since its start.
DeliveredBy(r) ==
  Positions(height[r]) \cup {<<height[r] + 1, i>> : i \in 1..pos[r]}

\* The subdomains the first h blocks register.
RegisteredBy(h) == {CreatePeerSubDomain(OrderAt(p).enr) : p \in Positions(h)}

\* The proofs of restaurant n the first h blocks fold into its order hash: of
\* several orders in one block only the last one survives.
LastProof(n, block) ==
  LET own == {i \in DOMAIN block : block[i].node = n}
  IN  IF own = {} THEN <<>>
      ELSE <<block[CHOOSE i \in own : \A j \in own : j <= i].proof>>
HashChain(n, h) ==
  LET folded[b \in 0..h] ==
        IF b = 0 THEN <<>> ELSE folded[b - 1] \o LastProof(n, chain[b])
  IN  folded[h]

EndsWith(s, t) ==
  /\ Len(t) <= Len(s)
  /\ SubSeq(s, Len(s) - Len(t) + 1, Len(s)) = t

-----------------------------------------------------------------------------
TypeOK ==
  /\ chain \in Seq(Seq(Order))
  /\ phase \in [Node -> {"down", "handshake", "live"}]
  /\ stored \in [Node -> Nat]
  /\ mempool \in [Node -> SUBSET Order]
  /\ cache \in [Node -> SUBSET Order]
  /\ crashes \in [Node -> Nat]
  /\ height \in [Node -> Nat]
  /\ stage \in [Node -> {"idle", "deliver", "ended"}]
  /\ pos \in [Node -> Nat]
  /\ numOrders \in [Node -> Nat]
  /\ appHash \in [Node -> Nat]
  /\ db \in [Node -> Stores]
  /\ txn \in [Node -> Stores]

\* Every order a replica is about to deliver is approved by it, in a replay
\* over stores that hold a later state too: DeliverTx neither panics nor
\* refuses what CheckTx let into a block elsewhere and earlier.
DecidedOrdersApproved ==
  \A r \in Node :
    stage[r] = "deliver" /\ pos[r] < Len(Block(r))
      => Approved(db[r].registers, Block(r)[pos[r] + 1])

\* NumOrders, which is lost in a crash and counted again by the replay, is
\* the number of orders of the blocks delivered since the start.
CountMatchesChain ==
  \A r \in Node : numOrders[r] = Cardinality(DeliveredBy(r))

\* Two replicas at the same height answered Commit with the same app hash,
\* whatever crashes either of them went through.
AppHashAgreement ==
  \A r, s \in Node : height[r] = height[s] => appHash[r] = appHash[s]

\* The register store follows the chain: what the applied blocks register is
\* there, nothing is there that no stored block registers, and a live
\* replica holds exactly the registrations up to its height.
RegistersFollowChain ==
  \A r \in Node :
    /\ RegisteredBy(height[r]) \subseteq db[r].registers
    /\ db[r].registers \subseteq RegisteredBy(stored[r])
    /\ phase[r] = "live" => db[r].registers = RegisteredBy(height[r])

\* An order in the mempool stays approved however the stores change under
\* it, and whatever the open transactions are about to commit: the check
\* after every Commit drops nothing and never panics.
MempoolStaysApproved ==
  \A r \in Node : \A o \in mempool[r] :
    /\ Approved(db[r].registers, o)
    /\ stage[r] # "idle" => Approved(txn[r].registers, o)

\* Both: an order that one replica let into its mempool, at any height, stays
\* approved there, and by everyone it is delivered to.
StaysApproved == DecidedOrdersApproved /\ MempoolStaysApproved

\* An order one replica holds can be offered to any replica at least as far
\* in the chain: only a replica that lags behind can meet a peer it does not
\* know and go down in CheckTx.
GossipSafeWhenCaughtUp ==
  \A r, s \in Node :
    phase[r] = "live" /\ height[r] >= height[s]
      => \A o \in mempool[s] : ~ Panics(db[r].registers, o)

\* The order hash of a restaurant ends with the chain the replayed blocks
\* give it, after whatever earlier runs left; without a crash it is exactly
\* that chain.
OrderHashFollowsChain ==
  \A r, n \in Node :
    /\ EndsWith(db[r].orders[n], HashChain(n, height[r]))
    /\ crashes[r] = 0 => db[r].orders[n] = HashChain(n, height[r])

\* A list of idle peers in the store of a live replica is that of a decided
\* order, cut right before a peer that is registered.
IdleListEndsAtRegistered ==
  \A r \in Node : \A k \in Node \X Mode :
    phase[r] = "live" /\ db[r].peers[k] # NoPeers
      => \E p \in Positions(height[r]) :
           LET o == OrderAt(p)
               n == Len(db[r].peers[k])
           IN  /\ k = <<o.url, o.mode>>
               /\ n < Len(o.subs)
               /\ db[r].peers[k] = SubSeq(o.subs, 1, n)
               /\ o.subs[n + 1] \in db[r].registers

\* What a replica keeps besides the registers follows the chain as far as a
\* replay over later stores, and commits cut short, let it.
StoresFollowChain == OrderHashFollowsChain /\ IdleListEndsAtRegistered

\* Replicas that never went down hold the same three stores at one height.
StoresAgreeWithoutCrash ==
  \A r, s \in Node :
    crashes[r] = 0 /\ crashes[s] = 0 /\ height[r] = height[s] => db[r] = db[s]

\* As long as nobody went down the mempool caches keep an order from being
\* decided twice; nothing else does.
DecidedOnceWithoutCrash ==
  (\A r \in Node : crashes[r] = 0)
    => \A p, q \in Positions(Len(chain)) : OrderAt(p) = OrderAt(q) => p = q

\* app.go:797-799: a duplicate need not be looked for, since the nullifier
\* in the proof verification already does that: a proof counts once.
EachProofCountedOnce ==
  \A r \in Node :
    numOrders[r] <= Cardinality({<<OrderAt(p).node, OrderAt(p).proof>> :
                                   p \in DeliveredBy(r)})

\* The agreed log of app hashes, one entry per block: every Commit of every
\* replica, replaying or not, gives the entry of its height.
HashLog == [h \in DOMAIN chain |-> Cardinality(Positions(h))]
Agreed == INSTANCE AppHashLog
            WITH Replica <- Node, log <- HashLog, at <- height, hash <- appHash
AgreedSpec == Agreed!Spec

\* A decided block reaches every replica, through the crashes on the way.
DecidedReachesEveryone ==
  \A h \in 1..MaxHeight :
    Len(chain) >= h ~> \A r \in Node : height[r] >= h

\* An order a mempool accepted is decided, unless the holder goes down.
AcceptedIsDecided ==
  \A r \in Node, o \in Order :
    o \in mempool[r]
      ~> \/ crashes[r] > 0
         \/ \E p \in Positions(Len(chain)) : OrderAt(p) = o
=============================================================================
