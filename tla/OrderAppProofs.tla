--------------------------- MODULE OrderAppProofs ---------------------------
(***************************************************************************)
(* Proofs about OrderApp for any number of restaurants, orders, blocks and *)
(* crashes.  The argument: a live replica registers exactly what the       *)
(* blocks up to its height register, so an assist order it accepts is      *)
(* backed by earlier blocks of the chain; every other replica has those    *)
(* registrations, and possibly more, when the order is delivered to it; so *)
(* no delivery refuses an order and all count alike.                       *)
(***************************************************************************)
EXTENDS OrderApp, FiniteSetTheorems, SequenceTheorems, TLAPS

\* Where a replica is on its way through the blocks.
InStep(r) ==
  /\ height[r] <= stored[r] /\ stored[r] <= Len(chain)
  /\ phase[r] = "down" => height[r] = 0 /\ stage[r] = "idle"
  /\ phase[r] # "live" => mempool[r] = {}
  /\ phase[r] = "live"
       => stored[r] = (IF stage[r] = "idle" THEN height[r] ELSE height[r] + 1)
  /\ stage[r] = "idle" => pos[r] = 0
  /\ stage[r] # "idle" => height[r] < stored[r] /\ pos[r] <= Len(Block(r))
  /\ stage[r] = "ended" => pos[r] = Len(Block(r))

Progress == \A r \in Node : InStep(r)

\* What the first n orders of a block register.
RegisteredIn(block, n) == {CreatePeerSubDomain(block[i].enr) : i \in 1..n}

\* The open register transaction is the store and the delivered orders.
TxnRegisters ==
  \A r \in Node :
    stage[r] # "idle"
      => txn[r].registers = db[r].registers \cup RegisteredIn(Block(r), pos[r])

\* Every order of a block is approved by what the earlier blocks register.
ChainApproved ==
  \A b \in DOMAIN chain : \A i \in DOMAIN chain[b] :
    Approved(RegisteredBy(b - 1), chain[b][i])

\* An order in the mempool is approved by the store.
MempoolApproved ==
  \A r \in Node : \A o \in mempool[r] : Approved(db[r].registers, o)

\* The counters, over sets that grow one position at a time.
Counts ==
  \A r \in Node :
    /\ IsFiniteSet(DeliveredBy(r)) /\ IsFiniteSet(Positions(height[r]))
    /\ numOrders[r] = Cardinality(DeliveredBy(r))
    /\ appHash[r] = Cardinality(Positions(height[r]))

IInv ==
  /\ TypeOK
  /\ Progress
  /\ RegistersFollowChain
  /\ TxnRegisters
  /\ ChainApproved
  /\ MempoolApproved
  /\ Counts
-----------------------------------------------------------------------------
\* Approval is kept when more subdomains are registered.
LEMMA ApprovedMonotone ==
  ASSUME NEW R, NEW S, R \subseteq S, NEW o, Approved(R, o)
  PROVE  Approved(S, o)
BY DEF Approved, Passes

\* The loop over an approved order meets no unregistered peer.
LEMMA ApprovedNoPanic ==
  ASSUME NEW R, NEW o, Approved(R, o)
  PROVE  ~ Panics(R, o)
BY DEF Approved, Panics, Passes

\* The blocks up to h + 1 are those up to h and one more.
LEMMA PositionsStep ==
  ASSUME NEW h \in Nat
  PROVE  Positions(h + 1) = Positions(h) \cup {<<h + 1, i>> : i \in DOMAIN chain[h + 1]}
<1>1. 1..(h + 1) = (1..h) \cup {h + 1}
  OBVIOUS
<1>. QED
  BY <1>1 DEF Positions

LEMMA PositionsZero == Positions(0) = {}
BY DEF Positions

\* An order at a position of the first h blocks is in one of them.
LEMMA InPositions ==
  ASSUME NEW h \in Nat, NEW p
  PROVE  p \in Positions(h)
           <=> \E b \in 1..h : \E i \in DOMAIN chain[b] : p = <<b, i>>
BY DEF Positions

\* The registrations of the blocks up to h, block by block.
LEMMA InRegistered ==
  ASSUME NEW h \in Nat, NEW d
  PROVE  d \in RegisteredBy(h)
           <=> \E b \in 1..h : \E i \in DOMAIN chain[b] :
                 d = CreatePeerSubDomain(chain[b][i].enr)
<1>1. \A p \in Positions(h) : \E b \in 1..h : \E i \in DOMAIN chain[b] :
        p = <<b, i>> /\ OrderAt(p) = chain[b][i]
  BY InPositions DEF OrderAt
<1>2. \A b \in 1..h : \A i \in DOMAIN chain[b] :
        <<b, i>> \in Positions(h) /\ OrderAt(<<b, i>>) = chain[b][i]
  BY InPositions DEF OrderAt
<1>. QED
  BY <1>1, <1>2 DEF RegisteredBy

LEMMA RegisteredMonotone ==
  ASSUME NEW g \in Nat, NEW h \in Nat, g <= h
  PROVE  RegisteredBy(g) \subseteq RegisteredBy(h)
BY InRegistered

\* The next block adds what its orders register.
LEMMA RegisteredStep ==
  ASSUME NEW h \in Nat, h + 1 \in DOMAIN chain, chain \in Seq(Seq(Order))
  PROVE  RegisteredBy(h + 1)
           = RegisteredBy(h) \cup RegisteredIn(chain[h + 1], Len(chain[h + 1]))
<1>1. chain[h + 1] \in Seq(Order)
  OBVIOUS
<1>2. DOMAIN chain[h + 1] = 1..Len(chain[h + 1])
  BY <1>1
<1>3. \A d : d \in RegisteredIn(chain[h + 1], Len(chain[h + 1]))
               <=> \E i \in DOMAIN chain[h + 1] :
                     d = CreatePeerSubDomain(chain[h + 1][i].enr)
  BY <1>2 DEF RegisteredIn
<1>4. \A b : b \in 1..(h + 1) <=> b \in 1..h \/ b = h + 1
  OBVIOUS
<1>5. ASSUME NEW d
      PROVE  d \in RegisteredBy(h + 1)
               <=> \/ d \in RegisteredBy(h)
                   \/ d \in RegisteredIn(chain[h + 1], Len(chain[h + 1]))
  <2>1. h + 1 \in Nat
    OBVIOUS
  <2>2. d \in RegisteredBy(h + 1)
          <=> \E b \in 1..(h + 1) : \E i \in DOMAIN chain[b] :
                d = CreatePeerSubDomain(chain[b][i].enr)
    BY <2>1, InRegistered
  <2>3. d \in RegisteredBy(h)
          <=> \E b \in 1..h : \E i \in DOMAIN chain[b] :
                d = CreatePeerSubDomain(chain[b][i].enr)
    BY InRegistered
  <2>. QED
    BY <1>3, <1>4, <2>2, <2>3
<1>. QED
  BY <1>5
-----------------------------------------------------------------------------
\* What comes before a position of a sequence is a sequence.
LEMMA PrefixType ==
  ASSUME NEW S, NEW s \in Seq(S), NEW i \in DOMAIN s
  PROVE  SubSeq(s, 1, i - 1) \in Seq(S)
<1>1. i - 1 \in Int /\ \A j \in 1..(i - 1) : s[j] \in S
  OBVIOUS
<1>. QED
  BY <1>1, SubSeqProperties, 1 \in Int

\* An approved order writes stores of the right kind.
LEMMA WithApprovedType ==
  ASSUME NEW t \in Stores, NEW committed \in [Node -> Seq(Proof)],
         NEW o \in Order, WellFormed(o)
  PROVE  WithApproved(t, committed, o) \in Stores
<1>1. o \in OrderType /\ o.enr \in Enr /\ o.url \in Node
  BY ConstantsAssumption DEF WellFormed, CheckURL, OrderType
<1>. DEFINE regs == t.registers \cup {CreatePeerSubDomain(o.enr)}
<1>2. regs \in SUBSET SubDomain
  BY <1>1 DEF Stores, SubDomain
<1>3. WithOrder(t.orders, committed, o) \in [Node -> Seq(Proof)]
  <2>1. Append(committed[o.node], o.proof) \in Seq(Proof)
    BY <1>1 DEF OrderType
  <2>. QED
    BY <2>1 DEF WithOrder, PreviousHash, Stores
<1>4. WithIdlePeers(t.peers, regs, o) \in [Node \X Mode -> Seq(SubDomain) \cup {NoPeers}]
  <2>. DEFINE stop == {i \in DOMAIN o.subs : StopsAt(regs, o, i)}
              cut == (CHOOSE i \in stop : TRUE) - 1
  <2>1. o.subs \in Seq(SubDomain)
    BY <1>1 DEF OrderType
  <2>2. ASSUME stop # {}
        PROVE  SubSeq(o.subs, 1, cut) \in Seq(SubDomain)
    <3>1. (CHOOSE i \in stop : TRUE) \in stop
      BY <2>2
    <3>2. (CHOOSE i \in stop : TRUE) \in DOMAIN o.subs
      BY <3>1
    <3>. HIDE DEF stop
    <3>. QED
      BY <3>2, <2>1, PrefixType
  <2>3. t.peers \in [Node \X Mode -> Seq(SubDomain) \cup {NoPeers}]
    BY DEF Stores
  <2>. HIDE DEF cut, regs
  <2>4. CASE stop = {}
    BY <2>3, <2>4 DEF WithIdlePeers
  <2>5. CASE stop # {}
    <3>1. WithIdlePeers(t.peers, regs, o)
            = [t.peers EXCEPT ![<<o.url, o.mode>>] = SubSeq(o.subs, 1, cut)]
      BY <2>5 DEF WithIdlePeers, cut
    <3>. QED
      BY <3>1, <2>2, <2>3, <2>5
  <2>. QED
    BY <2>4, <2>5
<1>. QED
  BY <1>2, <1>3, <1>4 DEF WithApproved, WithRegisterPeer, Stores

\* The initial state.
LEMMA InitIInv == Init => IInv
<1>. SUFFICES ASSUME Init PROVE IInv
  OBVIOUS
<1>1. TypeOK
  BY DEF Init, TypeOK, Stores, EmptyStores
<1>2. Progress
  BY DEF Init, Progress, InStep
<1>3. RegisteredBy(0) = {}
  BY PositionsZero DEF RegisteredBy
<1>4. RegistersFollowChain
  BY <1>3 DEF Init, RegistersFollowChain, EmptyStores
<1>5. TxnRegisters /\ ChainApproved /\ MempoolApproved
  BY DEF Init, TxnRegisters, ChainApproved, MempoolApproved
<1>6. Counts
  <2>1. \A r \in Node : DeliveredBy(r) = {} /\ Positions(height[r]) = {}
    BY PositionsZero DEF Init, DeliveredBy
  <2>. QED
    BY <2>1, FS_EmptySet DEF Init, Counts
<1>. QED
  BY <1>1, <1>2, <1>4, <1>5, <1>6 DEF IInv
-----------------------------------------------------------------------------
\* What is said of the chain alone does not change while the chain does not.
LEMMA ChainSame ==
  ASSUME chain' = chain
  PROVE  /\ \A h : Positions(h)' = Positions(h)
         /\ \A h : RegisteredBy(h)' = RegisteredBy(h)
         /\ ChainApproved => ChainApproved'
<1>1. \A h : Positions(h)' = Positions(h)
  BY DEF Positions
<1>2. \A h : RegisteredBy(h)' = RegisteredBy(h)
  BY <1>1 DEF RegisteredBy, OrderAt
<1>3. ChainApproved => ChainApproved'
  BY <1>2 DEF ChainApproved
<1>. QED
  BY <1>1, <1>2, <1>3

\* A replica that loses its memory keeps the invariant, if what is left on
\* disk has the registrations it had.
LEMMA GoDownIInv ==
  ASSUME IInv, NEW r \in Node, NEW left \in Stores,
         left.registers = db[r].registers, GoDown(r, left)
  PROVE  IInv'
<1>. USE DEF IInv
<1>1. TypeOK'
  BY DEF GoDown, TypeOK
<1>2. Progress'
  BY DEF GoDown, TypeOK, Progress, InStep, Block
<1>3. chain' = chain
  BY DEF GoDown
<1>4. RegisteredBy(0) = {}
  BY PositionsZero DEF RegisteredBy
<1>5. \A q \in Node : /\ height'[q] = (IF q = r THEN 0 ELSE height[q])
                      /\ db'[q].registers = db[q].registers
                      /\ stored'[q] = stored[q]
                      /\ phase'[q] = (IF q = r THEN "down" ELSE phase[q])
  BY DEF GoDown, TypeOK
<1>6. RegistersFollowChain'
  BY <1>3, <1>4, <1>5, ChainSame DEF RegistersFollowChain
<1>7. TxnRegisters'
  BY DEF GoDown, TypeOK, TxnRegisters, Block
<1>8. ChainApproved'
  BY <1>3, ChainSame
<1>9. MempoolApproved'
  BY <1>5 DEF GoDown, TypeOK, MempoolApproved
<1>10. Counts'
  <2>1. DeliveredBy(r)' = {} /\ Positions(height[r])' = {}
    <3>1. height'[r] = 0 /\ pos'[r] = 0
      BY DEF GoDown, TypeOK
    <3>. QED
      BY <1>3, <3>1, ChainSame, PositionsZero DEF DeliveredBy
  <2>2. numOrders'[r] = 0 /\ appHash'[r] = 0
    BY DEF GoDown, TypeOK
  <2>3. ASSUME NEW q \in Node, q # r
        PROVE  /\ numOrders'[q] = numOrders[q] /\ appHash'[q] = appHash[q]
               /\ DeliveredBy(q)' = DeliveredBy(q)
               /\ Positions(height[q])' = Positions(height[q])
    BY <1>3, <2>3, ChainSame DEF GoDown, TypeOK, DeliveredBy
  <2>. QED
    BY <2>1, <2>2, <2>3, FS_EmptySet DEF Counts
<1>. QED
  BY <1>1, <1>2, <1>6, <1>7, <1>8, <1>9, <1>10

\* A step that leaves the application and the chain alone.
LEMMA DriverIInv ==
  ASSUME IInv, TypeOK', Progress', MempoolApproved',
         RegistersFollowChain', chain' = chain, UNCHANGED appVars
  PROVE  IInv'
<1>1. TxnRegisters' /\ Counts'
  BY ChainSame DEF IInv, appVars, TxnRegisters, Counts, DeliveredBy, Block
<1>2. ChainApproved'
  BY ChainSame DEF IInv
<1>. QED
  BY <1>1, <1>2 DEF IInv

LEMMA StartIInv ==
  ASSUME IInv, NEW r \in Node, Start(r) \/ GoLive(r)
  PROVE  IInv'
<1>. USE DEF IInv
<1>1. TypeOK'
  BY DEF Start, GoLive, appVars, TypeOK
<1>2. Progress'
  BY DEF Start, GoLive, appVars, TypeOK, Progress, InStep, Block
<1>3. chain' = chain /\ UNCHANGED appVars /\ UNCHANGED <<stored, mempool>>
  BY DEF Start, GoLive
<1>4. RegistersFollowChain'
  <2>1. \A q \in Node : phase'[q] = "live" => phase[q] = "live" \/ height[q] = stored[q]
    BY DEF Start, GoLive, TypeOK
  <2>. QED
    BY <1>3, <2>1, ChainSame DEF RegistersFollowChain, appVars
<1>5. MempoolApproved'
  BY <1>3 DEF MempoolApproved, appVars
<1>. QED
  BY <1>1, <1>2, <1>3, <1>4, <1>5, DriverIInv

LEMMA CheckTxIInv ==
  ASSUME IInv, NEW r \in Node, NEW o \in Order, CheckTx(r, o)
  PROVE  IInv'
<1>. USE DEF IInv
<1>1. CASE GoDown(r, db[r])
  BY <1>1, GoDownIInv DEF TypeOK
<1>2. CASE /\ phase[r] = "live" /\ Approved(db[r].registers, o)
           /\ mempool' = [mempool EXCEPT ![r] = @ \cup {o}]
           /\ cache' = [cache EXCEPT ![r] = @ \cup {o}]
           /\ UNCHANGED <<chain, phase, stored, crashes, appVars>>
  <2>1. TypeOK'
    BY <1>2 DEF appVars, TypeOK
  <2>2. Progress'
    BY <1>2 DEF appVars, TypeOK, Progress, InStep, Block
  <2>3. RegistersFollowChain'
    BY <1>2, ChainSame DEF RegistersFollowChain, appVars
  <2>4. MempoolApproved'
    BY <1>2 DEF MempoolApproved, appVars, TypeOK
  <2>. QED
    BY <1>2, <2>1, <2>2, <2>3, <2>4, DriverIInv
<1>. QED
  BY <1>1, <1>2 DEF CheckTx

\* A new block leaves what is said of the earlier ones.
LEMMA ChainGrows ==
  ASSUME chain \in Seq(Seq(Order)), NEW blk \in Seq(Order),
         chain' = Append(chain, blk)
  PROVE  /\ Len(chain') = Len(chain) + 1
         /\ \A b \in 1..Len(chain) : chain'[b] = chain[b]
         /\ \A h \in 0..Len(chain) : Positions(h)' = Positions(h)
         /\ \A h \in 0..Len(chain) : RegisteredBy(h)' = RegisteredBy(h)
<1>1. /\ Len(chain') = Len(chain) + 1
      /\ \A b \in 1..Len(chain) : chain'[b] = chain[b]
  OBVIOUS
<1>2. ASSUME NEW h \in 0..Len(chain)
      PROVE  Positions(h)' = Positions(h)
  BY <1>1 DEF Positions
<1>3. ASSUME NEW h \in 0..Len(chain)
      PROVE  RegisteredBy(h)' = RegisteredBy(h)
  <2>1. \A p \in Positions(h) : OrderAt(p)' = OrderAt(p)
    <3>1. \A p \in Positions(h) : \E b \in 1..h : \E i \in DOMAIN chain[b] : p = <<b, i>>
      BY InPositions
    <3>. QED
      BY <1>1, <3>1 DEF OrderAt
  <2>. QED
    BY <1>2, <2>1 DEF RegisteredBy
<1>. QED
  BY <1>1, <1>2, <1>3

LEMMA ProposeIInv ==
  ASSUME IInv, NEW r \in Node, NEW b \in Blocks(mempool[r]), Propose(r, b)
  PROVE  IInv'
<1>. USE DEF IInv
<1>1. PICK k \in 1..Cardinality(mempool[r]) : b \in [1..k -> mempool[r]]
  BY DEF Blocks
<1>2. b \in Seq(mempool[r]) /\ Len(b) = k /\ DOMAIN b = 1..k
  <2>1. mempool[r] \subseteq Order
    BY DEF TypeOK
  <2>2. k \in Nat
    BY <1>1
  <2>. QED
    BY <1>1, <2>2, SeqDef
<1>3. b \in Seq(Order)
  BY <1>2, SeqMonotonic DEF TypeOK
<1>4. chain \in Seq(Seq(Order)) /\ chain' = Append(chain, b)
  BY DEF Propose, TypeOK
<1>5. /\ UNCHANGED <<phase, stored, mempool, cache, crashes, appVars>>
      /\ phase[r] = "live" /\ height[r] = Len(chain)
  BY DEF Propose
<1>6. /\ Len(chain') = Len(chain) + 1
      /\ \A c \in 1..Len(chain) : chain'[c] = chain[c]
      /\ chain'[Len(chain) + 1] = b
      /\ chain' \in Seq(Seq(Order))
  BY <1>3, <1>4
<1>7. /\ \A h \in 0..Len(chain) : Positions(h)' = Positions(h)
      /\ \A h \in 0..Len(chain) : RegisteredBy(h)' = RegisteredBy(h)
  BY <1>3, <1>4, ChainGrows
<1>8. \A q \in Node : height[q] \in 0..Len(chain) /\ stored[q] \in 0..Len(chain)
  BY DEF TypeOK, Progress, InStep
<1>9. ASSUME NEW q \in Node, stage[q] # "idle"
      PROVE  Block(q)' = Block(q)
  <2>1. height'[q] = height[q]
    BY <1>5 DEF appVars
  <2>2. height[q] + 1 \in 1..Len(chain)
    BY <1>4, <1>8, <1>9 DEF Progress, InStep
  <2>. QED
    BY <1>6, <2>1, <2>2 DEF Block
<1>10. TypeOK'
  BY <1>5, <1>6 DEF TypeOK, appVars
<1>11. Progress'
  BY <1>4, <1>5, <1>6, <1>9 DEF Progress, InStep, TypeOK, appVars
<1>12. RegistersFollowChain'
  BY <1>5, <1>7, <1>8 DEF RegistersFollowChain, appVars
<1>13. TxnRegisters'
  BY <1>5, <1>9 DEF TxnRegisters, appVars
<1>14. ChainApproved'
  <2>1. ASSUME NEW c \in 1..Len(chain), NEW i \in DOMAIN chain[c]
        PROVE  Approved(RegisteredBy(c - 1)', chain[c][i])
    <3>1. RegisteredBy(c - 1)' = RegisteredBy(c - 1)
      BY <1>4, <1>7
    <3>. QED
      BY <1>4, <3>1 DEF ChainApproved
  <2>2. ASSUME NEW c \in Nat, c = Len(chain) + 1, NEW i \in DOMAIN b
        PROVE  Approved(RegisteredBy(c - 1)', b[i])
    <3>1. b[i] \in mempool[r]
      BY <1>1, <1>2
    <3>2. RegisteredBy(c - 1)' = RegisteredBy(c - 1) /\ c - 1 = height[r]
      BY <1>4, <1>5, <1>7, <2>2
    <3>3. Approved(db[r].registers, b[i]) /\ db[r].registers = RegisteredBy(height[r])
      BY <1>5, <3>1 DEF MempoolApproved, RegistersFollowChain
    <3>. QED
      BY <3>2, <3>3
  <2>3. DOMAIN chain' = 1..(Len(chain) + 1) /\ Len(chain) \in Nat
    BY <1>4, <1>6
  <2>4. ASSUME NEW c \in DOMAIN chain', NEW i \in DOMAIN chain'[c]
        PROVE  Approved(RegisteredBy(c - 1)', chain'[c][i])
    <3>1. CASE c \in 1..Len(chain)
      BY <1>6, <2>1, <3>1
    <3>2. CASE c = Len(chain) + 1
      BY <1>6, <2>2, <2>3, <3>2
    <3>. QED
      BY <2>3, <3>1, <3>2
  <2>. QED
    BY <2>4 DEF ChainApproved
<1>15. MempoolApproved'
  BY <1>5 DEF MempoolApproved, appVars
<1>16. Counts'
  <2>1. ASSUME NEW q \in Node
        PROVE  /\ DeliveredBy(q)' = DeliveredBy(q)
               /\ Positions(height[q])' = Positions(height[q])
    BY <1>5, <1>7, <1>8 DEF DeliveredBy, appVars
  <2>. QED
    BY <1>5, <2>1 DEF Counts, appVars
<1>. QED
  BY <1>10, <1>11, <1>12, <1>13, <1>14, <1>15, <1>16
-----------------------------------------------------------------------------
\* Where a replica is, in numbers, and the block it is at.
LEMMA Bounds ==
  ASSUME TypeOK, Progress, NEW r \in Node
  PROVE  /\ height[r] \in Nat /\ stored[r] \in Nat /\ pos[r] \in Nat
         /\ Len(chain) \in Nat /\ height[r] <= stored[r] /\ stored[r] <= Len(chain)
<1>1. chain \in Seq(Seq(Order))
  BY DEF TypeOK
<1>2. Len(chain) \in Nat
  BY <1>1
<1>. QED
  BY <1>2 DEF TypeOK, Progress, InStep

LEMMA BlockType ==
  ASSUME TypeOK, Progress, NEW r \in Node, height[r] < Len(chain)
  PROVE  /\ height[r] + 1 \in DOMAIN chain /\ Block(r) \in Seq(Order)
         /\ Len(Block(r)) \in Nat /\ DOMAIN Block(r) = 1..Len(Block(r))
<1>1. chain \in Seq(Seq(Order))
  BY DEF TypeOK
<1>2. height[r] + 1 \in DOMAIN chain
  BY <1>1, Bounds
<1>3. Block(r) \in Seq(Order)
  BY <1>1, <1>2 DEF Block
<1>. QED
  BY <1>2, <1>3

\* The steps of one replica through a block.
LEMMA BeginBlockIInv ==
  ASSUME IInv, NEW r \in Node, BeginBlock(r)
  PROVE  IInv'
<1>. USE DEF IInv
<1>1. /\ chain' = chain /\ phase' = phase /\ height' = height /\ db' = db
      /\ UNCHANGED <<mempool, cache, crashes, numOrders, appHash>>
      /\ stage[r] = "idle" /\ pos[r] = 0
      /\ stage' = [stage EXCEPT ![r] = "deliver"]
      /\ pos' = [pos EXCEPT ![r] = 0]
      /\ txn' = [txn EXCEPT ![r] = db[r]]
  BY DEF BeginBlock, Progress, InStep
<1>2. PICK to \in Nat :
        /\ stored' = [stored EXCEPT ![r] = to]
        /\ stored[r] <= to /\ height[r] < to /\ to <= Len(chain)
        /\ phase[r] = "live" => to = height[r] + 1
        /\ phase[r] # "down"
  <2>1. CASE /\ phase[r] = "live" /\ height[r] < Len(chain)
             /\ stored' = [stored EXCEPT ![r] = height[r] + 1]
    <3>1. height[r] + 1 \in Nat /\ height[r] + 1 <= Len(chain) /\ stored[r] = height[r]
      BY <1>1, <2>1, Bounds DEF Progress, InStep
    <3>2. stored[r] <= height[r] + 1 /\ height[r] < height[r] + 1
      BY <3>1, Bounds
    <3>. USE <3>1, <3>2
    <3>. WITNESS height[r] + 1 \in Nat
    <3>. QED
      BY <2>1
  <2>2. CASE phase[r] = "handshake" /\ height[r] < stored[r] /\ stored' = stored
    <3>1. stored' = [stored EXCEPT ![r] = stored[r]]
      BY <2>2 DEF TypeOK
    <3>2. stored[r] \in Nat /\ stored[r] <= stored[r] /\ stored[r] <= Len(chain)
      BY Bounds
    <3>. USE <3>1, <3>2
    <3>. WITNESS stored[r] \in Nat
    <3>. QED
      BY <2>2
  <2>. QED
    BY <2>1, <2>2 DEF BeginBlock
<1>3. TypeOK'
  BY <1>1, <1>2 DEF TypeOK
<1>4. Progress'
  <2>1. \A q \in Node : Block(q)' = Block(q)
    BY <1>1 DEF Block
  <2>2. ASSUME NEW q \in Node, q # r
        PROVE  /\ stored'[q] = stored[q] /\ stage'[q] = stage[q] /\ pos'[q] = pos[q]
               /\ phase'[q] = phase[q] /\ height'[q] = height[q]
               /\ mempool'[q] = mempool[q] /\ Block(q)' = Block(q)
    BY <1>1, <1>2, <2>1, <2>2 DEF TypeOK
  <2>3. /\ stored'[r] = to /\ stage'[r] = "deliver" /\ pos'[r] = 0
        /\ phase'[r] = phase[r] /\ height'[r] = height[r]
        /\ mempool'[r] = mempool[r] /\ Block(r)' = Block(r)
    BY <1>1, <1>2, <2>1 DEF TypeOK
  <2>4. Len(Block(r)) \in Nat /\ 0 <= Len(Block(r))
    <3>1. height[r] < Len(chain)
      BY <1>2, Bounds
    <3>. QED
      BY <3>1, BlockType
  <2>5. height[r] <= to /\ mempool[r] = mempool'[r] /\ (phase[r] # "live" => mempool[r] = {})
    BY <1>2, <2>3, Bounds DEF Progress, InStep
  <2>6. ASSUME NEW q \in Node, q # r PROVE InStep(q)'
    BY <1>1, <2>2, <2>6 DEF Progress, InStep
  <2>7. InStep(r)'
    BY <1>1, <1>2, <2>3, <2>4, <2>5 DEF InStep
  <2>. QED
    BY <2>6, <2>7 DEF Progress, InStep
<1>5. \A q \in Node : stored[q] <= stored'[q]
  BY <1>1, <1>2 DEF Progress, InStep, TypeOK
<1>6. RegistersFollowChain'
  <2>1. \A q \in Node : RegisteredBy(stored[q]) \subseteq RegisteredBy(stored'[q])
    BY <1>3, <1>5, RegisteredMonotone DEF TypeOK
  <2>2. \A h : RegisteredBy(h)' = RegisteredBy(h)
    BY <1>1, ChainSame
  <2>. QED
    BY <1>1, <2>1, <2>2 DEF RegistersFollowChain
<1>7. TxnRegisters'
  <2>1. RegisteredIn(Block(r), 0) = {}
    BY DEF RegisteredIn
  <2>2. \A q \in Node : Block(q)' = Block(q)
    BY <1>1 DEF Block
  <2>. QED
    BY <1>1, <2>1, <2>2 DEF TxnRegisters, TypeOK
<1>8. ChainApproved'
  BY <1>1, ChainSame
<1>9. MempoolApproved'
  BY <1>1 DEF MempoolApproved
<1>10. Counts'
  <2>1. pos' = pos
    BY <1>1 DEF TypeOK
  <2>2. \A q \in Node : /\ DeliveredBy(q)' = DeliveredBy(q)
                        /\ Positions(height[q])' = Positions(height[q])
    BY <1>1, <2>1, ChainSame DEF DeliveredBy
  <2>. QED
    BY <1>1, <2>2 DEF Counts
<1>. QED
  BY <1>3, <1>4, <1>6, <1>7, <1>8, <1>9, <1>10

\* The order a replica delivers next is approved, in a replay too.
LEMMA NextApproved ==
  ASSUME IInv
  PROVE  DecidedOrdersApproved
<1>. USE DEF IInv
<1>. SUFFICES ASSUME NEW r \in Node, stage[r] = "deliver", pos[r] < Len(Block(r))
              PROVE  Approved(db[r].registers, Block(r)[pos[r] + 1])
  BY DEF DecidedOrdersApproved
<1>1. height[r] \in Nat /\ pos[r] \in Nat /\ height[r] < Len(chain)
  BY Bounds DEF Progress, InStep
<1>2. height[r] + 1 \in DOMAIN chain
  BY <1>1, BlockType
<1>3. pos[r] + 1 \in DOMAIN Block(r)
  BY <1>1, BlockType
<1>4. Approved(RegisteredBy((height[r] + 1) - 1), Block(r)[pos[r] + 1])
  BY <1>2, <1>3 DEF ChainApproved, Block
<1>5. (height[r] + 1) - 1 = height[r]
  BY <1>1
<1>. QED
  BY <1>4, <1>5, ApprovedMonotone DEF RegistersFollowChain

LEMMA DeliverTxIInv ==
  ASSUME IInv, NEW r \in Node, DeliverTx(r)
  PROVE  IInv'
<1>. USE DEF IInv
<1>. DEFINE o == Block(r)[pos[r] + 1]
<1>1. stage[r] = "deliver" /\ pos[r] < Len(Block(r))
  BY DEF DeliverTx
<1>2. /\ height[r] \in Nat /\ pos[r] \in Nat /\ Len(Block(r)) \in Nat
      /\ height[r] + 1 \in DOMAIN chain /\ Block(r) \in Seq(Order)
  <2>1. height[r] \in Nat /\ pos[r] \in Nat /\ height[r] < Len(chain)
    BY <1>1, Bounds DEF Progress, InStep
  <2>. QED
    BY <2>1, BlockType
<1>3. o \in Order /\ pos[r] + 1 \in DOMAIN Block(r)
  BY <1>1, <1>2
<1>4. Approved(db[r].registers, o) /\ ~ Panics(db[r].registers, o)
  BY <1>1, NextApproved, ApprovedNoPanic DEF DecidedOrdersApproved
<1>. HIDE DEF o
<1>5. /\ pos' = [pos EXCEPT ![r] = pos[r] + 1]
      /\ txn' = [txn EXCEPT ![r] = WithApproved(txn[r], db[r].orders, o)]
      /\ numOrders' = [numOrders EXCEPT ![r] = numOrders[r] + 1]
      /\ UNCHANGED <<tmVars, height, stage, appHash, db>>
  BY <1>4 DEF DeliverTx, o
<1>6. chain' = chain /\ \A q \in Node : Block(q)' = Block(q)
  BY <1>5 DEF tmVars, Block
<1>7. TypeOK'
  <2>1. WithApproved(txn[r], db[r].orders, o) \in Stores
    BY <1>3, <1>4, WithApprovedType DEF Approved, TypeOK, Stores
  <2>. QED
    BY <1>5, <2>1 DEF TypeOK, tmVars
<1>8. Progress'
  <2>1. /\ UNCHANGED <<chain, phase, stored, mempool, height, stage>>
        /\ pos'[r] = pos[r] + 1 /\ pos'[r] <= Len(Block(r))
        /\ \A q \in Node : q # r => pos'[q] = pos[q]
    BY <1>1, <1>2, <1>5 DEF tmVars, TypeOK
  <2>. QED
    BY <1>1, <1>6, <2>1 DEF Progress, InStep
<1>9. RegistersFollowChain'
  BY <1>5, <1>6, ChainSame DEF RegistersFollowChain, tmVars
<1>10. TxnRegisters'
  <2>1. RegisteredIn(Block(r), pos[r] + 1)
          = RegisteredIn(Block(r), pos[r]) \cup {CreatePeerSubDomain(o.enr)}
    <3>1. 1..(pos[r] + 1) = (1..pos[r]) \cup {pos[r] + 1}
      BY <1>2
    <3>. QED
      BY <3>1 DEF RegisteredIn, o
  <2>2. txn'[r].registers = txn[r].registers \cup {CreatePeerSubDomain(o.enr)}
    BY <1>5 DEF WithApproved, WithRegisterPeer, TypeOK
  <2>3. txn'[r].registers = db'[r].registers \cup RegisteredIn(Block(r)', pos'[r])
    BY <1>1, <1>5, <1>6, <2>1, <2>2 DEF TxnRegisters, TypeOK
  <2>. QED
    BY <1>5, <1>6, <2>3 DEF TxnRegisters, TypeOK
<1>11. ChainApproved'
  BY <1>6, ChainSame
<1>12. MempoolApproved'
  BY <1>5 DEF MempoolApproved, tmVars
<1>13. Counts'
  <2>. DEFINE new == <<height[r] + 1, pos[r] + 1>>
  <2>1. DeliveredBy(r)' = DeliveredBy(r) \cup {new}
    <3>1. 1..(pos[r] + 1) = (1..pos[r]) \cup {pos[r] + 1}
      BY <1>2
    <3>2. height'[r] = height[r] /\ pos'[r] = pos[r] + 1
      BY <1>5 DEF TypeOK
    <3>. QED
      BY <1>6, <3>1, <3>2, ChainSame DEF DeliveredBy
  <2>2. new \notin DeliveredBy(r)
    <3>1. new \notin Positions(height[r])
      BY <1>2, InPositions
    <3>. QED
      BY <1>2, <3>1 DEF DeliveredBy
  <2>3. /\ IsFiniteSet(DeliveredBy(r)')
        /\ Cardinality(DeliveredBy(r)') = Cardinality(DeliveredBy(r)) + 1
    BY <2>1, <2>2, FS_AddElement DEF Counts
  <2>4. \A q \in Node : /\ Positions(height[q])' = Positions(height[q])
                        /\ q # r => DeliveredBy(q)' = DeliveredBy(q)
    BY <1>5, <1>6, ChainSame DEF DeliveredBy, TypeOK
  <2>. QED
    BY <1>5, <2>3, <2>4 DEF Counts, TypeOK
<1>. QED
  BY <1>7, <1>8, <1>9, <1>10, <1>11, <1>12, <1>13

LEMMA EndBlockIInv ==
  ASSUME IInv, NEW r \in Node, EndBlock(r)
  PROVE  IInv'
<1>. USE DEF IInv
<1>1. /\ stage[r] = "deliver" /\ pos[r] = Len(Block(r))
      /\ stage' = [stage EXCEPT ![r] = "ended"]
      /\ UNCHANGED <<tmVars, height, pos, numOrders, appHash, db, txn>>
  BY DEF EndBlock
<1>2. chain' = chain /\ \A q \in Node : Block(q)' = Block(q)
  BY <1>1 DEF tmVars, Block
<1>3. TypeOK'
  BY <1>1 DEF TypeOK, tmVars
<1>4. Progress'
  BY <1>1, <1>2 DEF Progress, InStep, TypeOK, tmVars
<1>5. RegistersFollowChain' /\ ChainApproved'
  BY <1>1, <1>2, ChainSame DEF RegistersFollowChain, tmVars
<1>6. TxnRegisters' /\ MempoolApproved'
  BY <1>1, <1>2 DEF TxnRegisters, MempoolApproved, TypeOK, tmVars
<1>7. Counts'
  BY <1>1, <1>2, ChainSame DEF Counts, DeliveredBy
<1>. QED
  BY <1>3, <1>4, <1>5, <1>6, <1>7

LEMMA CommitIInv ==
  ASSUME IInv, NEW r \in Node, Commit(r)
  PROVE  IInv'
<1>. USE DEF IInv
<1>1. /\ stage[r] = "ended" /\ pos[r] = Len(Block(r))
      /\ appHash' = [appHash EXCEPT ![r] = numOrders[r]]
      /\ db' = [db EXCEPT ![r] = txn[r]]
      /\ height' = [height EXCEPT ![r] = height[r] + 1]
      /\ stage' = [stage EXCEPT ![r] = "idle"]
      /\ pos' = [pos EXCEPT ![r] = 0]
      /\ UNCHANGED <<chain, phase, stored, crashes, numOrders, txn>>
  BY DEF Commit, Progress, InStep
<1>2. /\ height[r] \in Nat /\ height[r] + 1 <= stored[r] /\ stored[r] \in Nat
      /\ height[r] + 1 \in DOMAIN chain /\ chain \in Seq(Seq(Order))
      /\ DOMAIN Block(r) = 1..Len(Block(r))
  <2>1. /\ height[r] \in Nat /\ stored[r] \in Nat /\ Len(chain) \in Nat
        /\ height[r] < stored[r] /\ stored[r] <= Len(chain)
    BY <1>1, Bounds DEF Progress, InStep
  <2>2. height[r] < Len(chain) /\ height[r] + 1 <= stored[r]
    BY <2>1
  <2>3. chain \in Seq(Seq(Order))
    BY DEF TypeOK
  <2>. QED
    BY <2>1, <2>2, <2>3, BlockType
<1>3. \A q \in Node : q # r => Block(q)' = Block(q)
  BY <1>1 DEF Block, TypeOK
<1>4. /\ \A q \in Node : q # r => mempool'[q] = mempool[q]
      /\ mempool'[r] \subseteq mempool[r] /\ mempool' \in [Node -> SUBSET Order]
      /\ \A o \in mempool'[r] : Approved(txn[r].registers, o)
  <2>1. CASE phase[r] = "live"
    <3>. DEFINE kept == {o \in mempool[r] \ Delivered(r) : Approved(txn[r].registers, o)}
    <3>1. mempool' = [mempool EXCEPT ![r] = kept]
      BY <2>1 DEF Commit
    <3>2. kept \subseteq mempool[r] /\ \A o \in kept : Approved(txn[r].registers, o)
      OBVIOUS
    <3>3. mempool \in [Node -> SUBSET Order]
      BY DEF TypeOK
    <3>. HIDE DEF kept
    <3>. QED
      BY <3>1, <3>2, <3>3
  <2>2. CASE phase[r] # "live"
    <3>1. mempool' = mempool /\ mempool[r] = {}
      BY <2>2 DEF Commit, Progress, InStep
    <3>2. mempool \in [Node -> SUBSET Order]
      BY DEF TypeOK
    <3>. QED
      BY <3>1, <3>2
  <2>. QED
    BY <2>1, <2>2
<1>5. TypeOK'
  <2>1. cache' \in [Node -> SUBSET Order]
    <3>1. Delivered(r) \subseteq Order
      <4>1. Block(r) \in Seq(Order)
        BY <1>2 DEF Block
      <4>. QED
        BY <4>1 DEF Delivered
    <3>2. cache \in [Node -> SUBSET Order]
      BY DEF TypeOK
    <3>3. cache' = [cache EXCEPT ![r] = @ \cup Delivered(r)] \/ cache' = cache
      BY DEF Commit
    <3>. QED
      BY <3>1, <3>2, <3>3
  <2>2. height[r] + 1 \in Nat
    BY <1>2
  <2>. QED
    BY <1>1, <1>4, <2>1, <2>2 DEF TypeOK
<1>6. Progress'
  <2>1. ASSUME NEW q \in Node, q # r PROVE InStep(q)'
    BY <1>1, <1>3, <1>4, <2>1 DEF Progress, InStep, TypeOK
  <2>2. /\ height'[r] = height[r] + 1 /\ stored'[r] = stored[r] /\ stage'[r] = "idle"
        /\ pos'[r] = 0 /\ phase'[r] = phase[r] /\ chain' = chain
    BY <1>1 DEF TypeOK
  <2>3. /\ stored[r] <= Len(chain) /\ phase[r] # "down"
        /\ phase[r] # "live" => mempool[r] = {}
        /\ phase[r] = "live" => stored[r] = height[r] + 1
    BY <1>1 DEF Progress, InStep
  <2>4. InStep(r)'
    BY <1>2, <1>4, <2>2, <2>3 DEF InStep
  <2>. QED
    BY <2>1, <2>4 DEF Progress
<1>7. txn[r].registers = db[r].registers \cup RegisteredIn(Block(r), Len(Block(r)))
  BY <1>1 DEF TxnRegisters
<1>8. /\ RegisteredBy(height[r] + 1)
           = RegisteredBy(height[r]) \cup RegisteredIn(Block(r), Len(Block(r)))
      /\ RegisteredBy(height[r] + 1) \subseteq RegisteredBy(stored[r])
  BY <1>2, RegisteredStep, RegisteredMonotone DEF Block
<1>9. RegistersFollowChain'
  <2>1. /\ RegisteredBy(height[r]) \subseteq db[r].registers
        /\ db[r].registers \subseteq RegisteredBy(stored[r])
        /\ phase[r] = "live" => db[r].registers = RegisteredBy(height[r])
    BY DEF RegistersFollowChain
  <2>2. /\ height'[r] = height[r] + 1 /\ stored'[r] = stored[r]
        /\ phase'[r] = phase[r] /\ db'[r] = txn[r]
    BY <1>1 DEF TypeOK
  <2>3. \A h : RegisteredBy(h)' = RegisteredBy(h)
    BY <1>1, ChainSame
  <2>4. /\ RegisteredBy(height[r])' \subseteq db'[r].registers
        /\ db'[r].registers \subseteq RegisteredBy(stored[r])'
        /\ phase'[r] = "live" => db'[r].registers = RegisteredBy(height[r])'
    BY <1>7, <1>8, <2>1, <2>2, <2>3
  <2>. QED
    BY <1>1, <2>3, <2>4 DEF RegistersFollowChain, TypeOK
<1>10. TxnRegisters'
  BY <1>1, <1>3 DEF TxnRegisters, TypeOK
<1>11. ChainApproved'
  BY <1>1, ChainSame
<1>12. MempoolApproved'
  BY <1>1, <1>4 DEF MempoolApproved, TypeOK
<1>13. Counts'
  <2>1. DeliveredBy(r) = Positions(height[r] + 1)
    BY <1>1, <1>2, PositionsStep DEF DeliveredBy, Block
  <2>2. /\ DeliveredBy(r)' = Positions(height[r] + 1)
        /\ Positions(height[r])' = Positions(height[r] + 1)
    <3>1. height'[r] = height[r] + 1 /\ pos'[r] = 0 /\ 1..0 = {}
      BY <1>1 DEF TypeOK
    <3>. QED
      BY <1>1, <3>1, ChainSame DEF DeliveredBy
  <2>3. \A q \in Node : q # r => /\ DeliveredBy(q)' = DeliveredBy(q)
                                /\ Positions(height[q])' = Positions(height[q])
    BY <1>1, ChainSame DEF DeliveredBy, TypeOK
  <2>. QED
    BY <1>1, <2>1, <2>2, <2>3 DEF Counts, TypeOK
<1>. QED
  BY <1>5, <1>6, <1>9, <1>10, <1>11, <1>12, <1>13

LEMMA CrashIInv ==
  ASSUME IInv, NEW r \in Node, Crash(r) \/ CommitCut(r)
  PROVE  IInv'
<1>1. db[r] \in Stores /\ txn[r] \in Stores
  BY DEF IInv, TypeOK
<1>2. PICK left \in Stores : left.registers = db[r].registers /\ GoDown(r, left)
  <2>1. CASE Crash(r)
    BY <1>1, <2>1 DEF Crash
  <2>2. CASE GoDown(r, [db[r] EXCEPT !.orders = txn[r].orders])
    BY <1>1, <2>2 DEF Stores
  <2>3. CASE GoDown(r, [txn[r] EXCEPT !.registers = db[r].registers])
    BY <1>1, <2>3 DEF Stores
  <2>4. CASE GoDown(r, [db[r] EXCEPT !.peers = txn[r].peers])
    BY <1>1, <2>4 DEF Stores
  <2>. QED
    BY <2>1, <2>2, <2>3, <2>4 DEF CommitCut, StoppedStores
<1>. QED
  BY <1>2, GoDownIInv

-----------------------------------------------------------------------------
\* No step of the system leaves the invariant.
LEMMA NextIInv == IInv /\ [Next]_vars => IInv'
<1>. SUFFICES ASSUME IInv, [Next]_vars PROVE IInv'
  OBVIOUS
<1>1. ASSUME NEW o \in Order, SendOrder(o) PROVE IInv'
  <2>1. o.node \in Node
    BY ConstantsAssumption DEF OrderType
  <2>. QED
    BY <1>1, <2>1, CheckTxIInv DEF SendOrder
<1>2. ASSUME NEW s \in Node, NEW r \in Node, NEW o \in Order, Gossip(s, r, o)
      PROVE  IInv'
  BY <1>2, CheckTxIInv DEF Gossip
<1>3. ASSUME NEW r \in Node, NEW b \in Blocks(mempool[r]), Propose(r, b)
      PROVE  IInv'
  BY <1>3, ProposeIInv
<1>4. ASSUME NEW r \in Node, Step(r) PROVE IInv'
  <2>1. CASE Start(r) \/ GoLive(r)
    BY <2>1, StartIInv
  <2>2. CASE BeginBlock(r)
    BY <2>2, BeginBlockIInv
  <2>3. CASE DeliverTx(r)
    BY <2>3, DeliverTxIInv
  <2>4. CASE EndBlock(r)
    BY <2>4, EndBlockIInv
  <2>5. CASE Commit(r)
    BY <2>5, CommitIInv
  <2>. QED
    BY <1>4, <2>1, <2>2, <2>3, <2>4, <2>5 DEF Step
<1>5. ASSUME NEW r \in Node, Crash(r) \/ CommitCut(r) PROVE IInv'
  BY <1>5, CrashIInv
<1>6. CASE UNCHANGED vars
  <2>1. chain' = chain /\ UNCHANGED <<phase, stored, mempool, cache, crashes>> /\ UNCHANGED appVars
    BY <1>6 DEF vars, tmVars
  <2>2. TypeOK'
    BY <2>1 DEF IInv, TypeOK, appVars
  <2>3. Progress'
    BY <2>1 DEF IInv, Progress, InStep, Block, appVars
  <2>4. MempoolApproved' /\ RegistersFollowChain'
    BY <2>1, ChainSame DEF IInv, MempoolApproved, RegistersFollowChain, appVars
  <2>. QED
    BY <2>1, <2>2, <2>3, <2>4, DriverIInv
<1>. QED
  BY <1>1, <1>2, <1>3, <1>4, <1>5, <1>6 DEF Next

\* The inductive invariant holds in every reachable state.
THEOREM Invariance == Spec => []IInv
BY InitIInv, NextIInv, PTL DEF Spec

\* The variables keep their types.
THEOREM TypeCorrect == Spec => []TypeOK
<1>1. IInv => TypeOK
  BY DEF IInv
<1>. QED
  BY <1>1, Invariance, PTL

\* NumOrders, lost in every crash, is what the delivered blocks count to.
THEOREM CountCorrect == Spec => []CountMatchesChain
<1>1. IInv => CountMatchesChain
  BY DEF IInv, Counts, CountMatchesChain
<1>. QED
  BY <1>1, Invariance, PTL

\* Replicas at one height answered the same app hash, whatever crashed.
THEOREM AppHashCorrect == Spec => []AppHashAgreement
<1>1. IInv => AppHashAgreement
  BY DEF IInv, Counts, AppHashAgreement
<1>. QED
  BY <1>1, Invariance, PTL

\* No order of a decided block is refused, or panics, when it is delivered,
\* the first time or in a replay.
THEOREM DeliveryCorrect == Spec => []DecidedOrdersApproved
BY NextApproved, Invariance, PTL

\* The register store of every replica follows the chain.
THEOREM RegistersCorrect == Spec => []RegistersFollowChain
<1>1. IInv => RegistersFollowChain
  BY DEF IInv
<1>. QED
  BY <1>1, Invariance, PTL

\* The check of the mempool after a Commit drops nothing.
THEOREM MempoolCorrect == Spec => []MempoolStaysApproved
<1>1. IInv => MempoolStaysApproved
  <2>. SUFFICES ASSUME IInv, NEW r \in Node, NEW o \in mempool[r]
                PROVE  /\ Approved(db[r].registers, o)
                       /\ stage[r] # "idle" => Approved(txn[r].registers, o)
    BY DEF MempoolStaysApproved
  <2>1. Approved(db[r].registers, o)
    BY DEF IInv, MempoolApproved
  <2>2. stage[r] # "idle" => db[r].registers \subseteq txn[r].registers
    BY DEF IInv, TxnRegisters
  <2>. QED
    BY <2>1, <2>2, ApprovedMonotone
<1>. QED
  BY <1>1, Invariance, PTL

\* What was approved once stays approved, in mempools and in blocks.
THEOREM ApprovalLasts == Spec => []StaysApproved
<1>1. DecidedOrdersApproved /\ MempoolStaysApproved => StaysApproved
  BY DEF StaysApproved
<1>. QED
  BY <1>1, DeliveryCorrect, MempoolCorrect, PTL

\* A live replica can be offered what any replica not ahead of it holds.
THEOREM GossipCorrect == Spec => []GossipSafeWhenCaughtUp
<1>1. IInv => GossipSafeWhenCaughtUp
  <2>. SUFFICES ASSUME IInv, NEW r \in Node, NEW s \in Node,
                       phase[r] = "live", height[r] >= height[s],
                       NEW o \in mempool[s]
                PROVE  ~ Panics(db[r].registers, o)
    BY DEF GossipSafeWhenCaughtUp
  <2>. USE DEF IInv
  <2>1. phase[s] = "live"
    BY DEF Progress, InStep, TypeOK
  <2>2. Approved(RegisteredBy(height[s]), o)
    BY <2>1 DEF MempoolApproved, RegistersFollowChain
  <2>3. RegisteredBy(height[s]) \subseteq RegisteredBy(height[r])
    BY Bounds, RegisteredMonotone
  <2>4. Approved(db[r].registers, o)
    BY <2>2, <2>3, ApprovedMonotone DEF RegistersFollowChain
  <2>. QED
    BY <2>4, ApprovedNoPanic
<1>. QED
  BY <1>1, Invariance, PTL

-----------------------------------------------------------------------------
(* As long as nobody goes down, an order is decided once.                  *)

NoCrash == \A r \in Node : crashes[r] = 0

\* The cache of r has what it holds and what it has seen decided.
InCache(r) ==
  /\ phase[r] # "live" => stored[r] = 0
  /\ mempool[r] \subseteq cache[r]
  /\ \A p \in Positions(height[r]) : OrderAt(p) \in cache[r] \ mempool[r]

Distinct(orders) == \A p, q \in orders : OrderAt(p) = OrderAt(q) => p = q

OnceInv ==
  NoCrash => (\A r \in Node : InCache(r)) /\ Distinct(Positions(Len(chain)))

\* Who goes down is counted.
LEMMA GoDownCounts ==
  ASSUME TypeOK, NEW r \in Node, NEW left, GoDown(r, left)
  PROVE  ~ NoCrash'
<1>1. crashes'[r] = crashes[r] + 1 /\ crashes[r] \in Nat
  BY DEF GoDown, TypeOK
<1>2. crashes'[r] # 0
  BY <1>1
<1>. QED
  BY <1>2 DEF NoCrash

\* A step that leaves the chain and the heights alone.
LEMMA CachesOnly ==
  ASSUME OnceInv, UNCHANGED <<chain, height, crashes>>,
         NoCrash => \A r \in Node :
           /\ phase'[r] # "live" => stored'[r] = 0
           /\ mempool'[r] \subseteq cache'[r]
           /\ \A o \in cache[r] \ mempool[r] : o \in cache'[r] \ mempool'[r]
  PROVE  OnceInv'
<1>1. NoCrash' = NoCrash
  BY DEF NoCrash
<1>2. \A h : Positions(h)' = Positions(h)
  BY ChainSame
<1>3. \A p : OrderAt(p)' = OrderAt(p)
  BY DEF OrderAt
<1>. SUFFICES ASSUME NoCrash PROVE (\A r \in Node : InCache(r)') /\ Distinct(Positions(Len(chain)))'
  BY <1>1 DEF OnceInv
<1>4. Distinct(Positions(Len(chain)))'
  BY <1>2, <1>3 DEF OnceInv, Distinct
<1>5. ASSUME NEW r \in Node PROVE InCache(r)'
  <2>1. InCache(r)
    BY DEF OnceInv
  <2>2. height'[r] = height[r] /\ Positions(height[r])' = Positions(height[r])
    BY <1>2
  <2>. QED
    BY <1>3, <2>1, <2>2 DEF InCache
<1>. QED
  BY <1>4, <1>5

\* An order met for the first time is not decided yet.
LEMMA CheckTxOnce ==
  ASSUME IInv, OnceInv, NEW r \in Node, NEW o \in Order, CheckTx(r, o)
  PROVE  OnceInv'
<1>1. CASE GoDown(r, db[r])
  BY <1>1, GoDownCounts DEF IInv, OnceInv
<1>2. CASE /\ o \notin cache[r]
           /\ mempool' = [mempool EXCEPT ![r] = @ \cup {o}]
           /\ cache' = [cache EXCEPT ![r] = @ \cup {o}]
           /\ UNCHANGED <<chain, phase, stored, crashes, appVars>>
  <2>1. UNCHANGED <<chain, height, crashes>> /\ UNCHANGED <<phase, stored>>
    BY <1>2 DEF appVars
  <2>2. ASSUME NoCrash, NEW q \in Node
        PROVE  /\ phase'[q] # "live" => stored'[q] = 0
               /\ mempool'[q] \subseteq cache'[q]
               /\ \A x \in cache[q] \ mempool[q] : x \in cache'[q] \ mempool'[q]
    <3>1. InCache(q)
      BY <2>2 DEF OnceInv
    <3>. QED
      BY <1>2, <2>1, <3>1 DEF InCache, IInv, TypeOK
  <2>. QED
    BY <2>1, <2>2, CachesOnly
<1>. QED
  BY <1>1, <1>2 DEF CheckTx

\* A block is made of orders that its proposer, at the head of the chain, has
\* not seen decided, each once.
LEMMA ProposeOnce ==
  ASSUME IInv, OnceInv, NEW r \in Node, NEW b \in Blocks(mempool[r]), Propose(r, b)
  PROVE  OnceInv'
<1>1. UNCHANGED <<phase, stored, mempool, cache, crashes, height>>
  BY DEF Propose, appVars
<1>. SUFFICES ASSUME NoCrash
              PROVE  (\A q \in Node : InCache(q)') /\ Distinct(Positions(Len(chain)))'
  BY <1>1 DEF OnceInv, NoCrash
<1>2. PICK k \in 1..Cardinality(mempool[r]) : b \in [1..k -> mempool[r]]
  BY DEF Blocks
<1>3. b \in Seq(Order) /\ Len(b) = k /\ DOMAIN b = 1..k
  <2>1. mempool[r] \subseteq Order
    BY DEF IInv, TypeOK
  <2>2. k \in Nat
    BY <1>2
  <2>3. b \in Seq(mempool[r]) /\ Len(b) = k /\ DOMAIN b = 1..k
    BY <1>2, <2>2, SeqDef
  <2>. QED
    BY <2>1, <2>3, SeqMonotonic
<1>4. chain \in Seq(Seq(Order)) /\ chain' = Append(chain, b) /\ height[r] = Len(chain)
  BY DEF Propose, IInv, TypeOK
<1>5. PICK n \in Nat : n = Len(chain)
  BY <1>4
<1>6. /\ Len(chain') = n + 1 /\ chain'[n + 1] = b
      /\ \A c \in 1..n : chain'[c] = chain[c]
  BY <1>3, <1>4, <1>5
<1>7. \A h \in 0..n : Positions(h)' = Positions(h)
  BY <1>3, <1>4, <1>5, ChainGrows
<1>8. \A h \in 0..n : \A p \in Positions(h) : OrderAt(p)' = OrderAt(p)
  <2>1. ASSUME NEW h \in 0..n, NEW p \in Positions(h)
        PROVE  OrderAt(p)' = OrderAt(p)
    <3>1. PICK c \in 1..h : \E i \in DOMAIN chain[c] : p = <<c, i>>
      BY <1>5, InPositions
    <3>2. c \in 1..n
      BY <1>5
    <3>. QED
      BY <1>6, <3>1, <3>2 DEF OrderAt
  <2>. QED
    BY <2>1
<1>9. Positions(n + 1)' = Positions(n) \cup {<<n + 1, i>> : i \in 1..k}
  <2>1. 1..(n + 1) = (1..n) \cup {n + 1}
    BY <1>5
  <2>2. Positions(n + 1)' = Positions(n)' \cup {<<n + 1, i>> : i \in DOMAIN b}
    BY <1>6, <2>1 DEF Positions
  <2>3. Positions(n)' = Positions(n)
    BY <1>5, <1>7
  <2>. QED
    BY <1>3, <2>2, <2>3
<1>10. \A q \in Node : height[q] \in 0..n
  <2>1. ASSUME NEW q \in Node PROVE height[q] \in 0..n
    BY <1>5, Bounds DEF IInv
  <2>. QED
    BY <2>1
<1>11. ASSUME NEW q \in Node PROVE InCache(q)'
  <2>1. InCache(q) /\ height'[q] = height[q]
    BY <1>1 DEF OnceInv
  <2>2. Positions(height[q])' = Positions(height[q])
    BY <1>7, <1>10, <2>1
  <2>3. \A p \in Positions(height[q]) : OrderAt(p)' = OrderAt(p)
    BY <1>8, <1>10
  <2>. QED
    BY <1>1, <2>1, <2>2, <2>3 DEF InCache
<1>12. \A i \in 1..k : OrderAt(<<n + 1, i>>)' = b[i] /\ b[i] \in mempool[r]
  BY <1>2, <1>6 DEF OrderAt
<1>13. \A p \in Positions(n) : OrderAt(p)' = OrderAt(p) /\ OrderAt(p) \notin mempool[r]
  <2>1. InCache(r)
    BY DEF OnceInv
  <2>2. \A p \in Positions(n) : OrderAt(p) \notin mempool[r]
    BY <1>4, <1>5, <2>1 DEF InCache
  <2>3. n \in 0..n
    BY <1>5
  <2>. QED
    BY <1>8, <2>2, <2>3
<1>14. \A i, j \in 1..k : b[i] = b[j] => i = j
  BY <1>3 DEF Blocks
<1>15. Distinct(Positions(n))
  BY <1>5 DEF OnceInv
<1>16. Distinct(Positions(n + 1))'
  <2>1. ASSUME NEW p \in Positions(n) \cup {<<n + 1, i>> : i \in 1..k},
               NEW q \in Positions(n) \cup {<<n + 1, i>> : i \in 1..k},
               OrderAt(p)' = OrderAt(q)'
        PROVE  p = q
    <3>1. CASE p \in Positions(n) /\ q \in Positions(n)
      BY <1>13, <1>15, <2>1, <3>1 DEF Distinct
    <3>2. CASE p \notin Positions(n) /\ q \notin Positions(n)
      <4>1. PICK i \in 1..k, j \in 1..k : p = <<n + 1, i>> /\ q = <<n + 1, j>>
        BY <3>2
      <4>. QED
        BY <1>12, <1>14, <2>1, <4>1
    <3>3. CASE p \in Positions(n) /\ q \notin Positions(n)
      BY <1>12, <1>13, <2>1, <3>3
    <3>4. CASE p \notin Positions(n) /\ q \in Positions(n)
      BY <1>12, <1>13, <2>1, <3>4
    <3>. QED
      BY <3>1, <3>2, <3>3, <3>4
  <2>. QED
    BY <1>9, <2>1 DEF Distinct
<1>17. Distinct(Positions(Len(chain)))'
  BY <1>6, <1>16
<1>. QED
  BY <1>11, <1>17

\* What a block decides is in the cache, and no longer in the mempool.
LEMMA CommitOnce ==
  ASSUME IInv, OnceInv, NEW r \in Node, Commit(r)
  PROVE  OnceInv'
<1>1. UNCHANGED <<chain, phase, stored, crashes>>
  BY DEF Commit
<1>2. \A h : Positions(h)' = Positions(h)
  BY <1>1, ChainSame
<1>3. \A p : OrderAt(p)' = OrderAt(p)
  BY <1>1 DEF OrderAt
<1>. SUFFICES ASSUME NoCrash
              PROVE  (\A q \in Node : InCache(q)') /\ Distinct(Positions(Len(chain)))'
  BY <1>1 DEF OnceInv, NoCrash
<1>4. Distinct(Positions(Len(chain)))'
  BY <1>1, <1>2, <1>3 DEF OnceInv, Distinct
<1>5. ASSUME NEW q \in Node, q # r PROVE InCache(q)'
  <2>1. InCache(q) /\ height'[q] = height[q] /\ mempool'[q] = mempool[q] /\ cache'[q] = cache[q]
    BY <1>5 DEF OnceInv, Commit, IInv, TypeOK
  <2>2. Positions(height[q])' = Positions(height[q])
    BY <1>2, <2>1
  <2>. QED
    BY <1>1, <1>3, <2>1, <2>2 DEF InCache
<1>6. InCache(r)'
  <2>1. InCache(r)
    BY DEF OnceInv
  <2>2. height[r] \in Nat /\ stage[r] = "ended" /\ height[r] < stored[r] /\ stored[r] \in Nat
    BY Bounds DEF IInv, Commit, Progress, InStep
  <2>3. phase[r] = "live"
    BY <2>1, <2>2 DEF InCache
  <2>4. /\ height'[r] = height[r] + 1
        /\ mempool'[r] \subseteq mempool[r] \ Delivered(r)
        /\ cache'[r] = cache[r] \cup Delivered(r)
    BY <2>3 DEF Commit, IInv, TypeOK
  <2>5. Positions(height[r] + 1)
          = Positions(height[r]) \cup {<<height[r] + 1, i>> : i \in DOMAIN Block(r)}
    BY <2>2, PositionsStep DEF Block
  <2>6. \A i \in DOMAIN Block(r) : OrderAt(<<height[r] + 1, i>>) \in Delivered(r)
    BY DEF OrderAt, Block, Delivered
  <2>7. \A p \in Positions(height[r] + 1) : OrderAt(p) \in cache'[r] \ mempool'[r]
    <3>1. \A p \in Positions(height[r]) : OrderAt(p) \in cache'[r] \ mempool'[r]
      BY <2>1, <2>4 DEF InCache
    <3>2. \A i \in DOMAIN Block(r) : OrderAt(<<height[r] + 1, i>>) \in cache'[r] \ mempool'[r]
      BY <2>4, <2>6
    <3>. QED
      BY <2>5, <3>1, <3>2
  <2>8. mempool'[r] \subseteq cache'[r]
    BY <2>1, <2>4 DEF InCache
  <2>9. Positions(height[r])' = Positions(height[r] + 1)
    BY <1>2, <2>4
  <2>. QED
    BY <1>1, <1>3, <2>3, <2>7, <2>8, <2>9 DEF InCache
<1>. QED
  BY <1>4, <1>5, <1>6

LEMMA NextOnce ==
  ASSUME IInv, OnceInv, [Next]_vars
  PROVE  OnceInv'
<1>1. ASSUME NEW r \in Node, NEW o \in Order, CheckTx(r, o) PROVE OnceInv'
  BY <1>1, CheckTxOnce
<1>2. ASSUME NEW r \in Node, NEW b \in Blocks(mempool[r]), Propose(r, b) PROVE OnceInv'
  BY <1>2, ProposeOnce
<1>3. ASSUME NEW r \in Node, Commit(r) PROVE OnceInv'
  BY <1>3, CommitOnce
<1>4. ASSUME NEW r \in Node, Crash(r) \/ CommitCut(r) PROVE OnceInv'
  <2>1. PICK left : GoDown(r, left)
    BY <1>4 DEF Crash, CommitCut
  <2>. QED
    BY <2>1, GoDownCounts DEF IInv, OnceInv
<1>5. ASSUME NEW r \in Node, Start(r) \/ GoLive(r) \/ BeginBlock(r) PROVE OnceInv'
  <2>1. UNCHANGED <<chain, height, crashes>> /\ UNCHANGED <<mempool, cache>>
    BY <1>5 DEF Start, GoLive, BeginBlock, appVars
  <2>2. ASSUME NoCrash, NEW q \in Node PROVE phase'[q] # "live" => stored'[q] = 0
    <3>1. InCache(q)
      BY <2>2 DEF OnceInv
    <3>2. CASE Start(r) \/ GoLive(r)
      BY <3>1, <3>2 DEF Start, GoLive, InCache, IInv, TypeOK
    <3>3. CASE BeginBlock(r)
      BY <3>1, <3>3 DEF BeginBlock, InCache, IInv, TypeOK
    <3>. QED
      BY <1>5, <3>2, <3>3
  <2>3. ASSUME NoCrash, NEW q \in Node PROVE mempool'[q] \subseteq cache'[q]
    BY <2>1, <2>3 DEF OnceInv, InCache
  <2>. QED
    BY <2>1, <2>2, <2>3, CachesOnly
<1>6. ASSUME UNCHANGED tmVars, UNCHANGED height PROVE OnceInv'
  <2>1. UNCHANGED <<chain, height, crashes>> /\ UNCHANGED <<phase, stored, mempool, cache>>
    BY <1>6 DEF tmVars
  <2>2. ASSUME NoCrash, NEW q \in Node
        PROVE  (phase'[q] # "live" => stored'[q] = 0) /\ mempool'[q] \subseteq cache'[q]
    BY <2>1, <2>2 DEF OnceInv, InCache
  <2>. QED
    BY <2>1, <2>2, CachesOnly
<1>7. ASSUME NEW r \in Node, DeliverTx(r) \/ EndBlock(r) PROVE OnceInv'
  <2>1. CASE GoDown(r, db[r])
    BY <2>1, GoDownCounts DEF IInv, OnceInv
  <2>2. CASE ~ GoDown(r, db[r])
    BY <1>6, <1>7, <2>2 DEF DeliverTx, EndBlock
  <2>. QED
    BY <2>1, <2>2
<1>8. CASE UNCHANGED vars
  BY <1>6, <1>8 DEF vars, tmVars, appVars
<1>9. CASE Next
  <2>1. ASSUME NEW r \in Node, Step(r) PROVE OnceInv'
    BY <1>3, <1>5, <1>7, <2>1 DEF Step
  <2>2. ASSUME NEW o \in Order, SendOrder(o) PROVE OnceInv'
    BY <1>1, <2>2, ConstantsAssumption DEF SendOrder, OrderType
  <2>. QED
    BY <1>1, <1>2, <1>4, <1>9, <2>1, <2>2 DEF Next, Gossip
<1>. QED
  BY <1>8, <1>9

\* As long as nobody goes down, the caches keep an order from being decided
\* twice.
THEOREM DecidedOnce == Spec => []DecidedOnceWithoutCrash
<1>1. Init => OnceInv
  <2>. SUFFICES ASSUME Init PROVE OnceInv
    OBVIOUS
  <2>1. ASSUME NEW r \in Node PROVE InCache(r)
    BY PositionsZero DEF Init, InCache
  <2>2. Positions(Len(chain)) = {}
    BY PositionsZero DEF Init
  <2>. QED
    BY <2>1, <2>2 DEF OnceInv, Distinct
<1>2. OnceInv => DecidedOnceWithoutCrash
  BY DEF OnceInv, NoCrash, Distinct, DecidedOnceWithoutCrash
<1>. QED
  BY <1>1, <1>2, NextOnce, Invariance, PTL DEF Spec

-----------------------------------------------------------------------------
(* OrderApp implements AppHashLog: the replicas walk along one log of app  *)
(* hashes, from the start again after every crash.  The log is the running *)
(* number of orders in the chain, so it has to be shown that this number   *)
(* exists (the blocks are finite) and grows with every block.              *)

\* The orders in the chain can be counted at every height.
ChainFinite == \A h \in 0..Len(chain) : IsFiniteSet(Positions(h))

\* The chain changes only when a block is proposed, and the block has orders.
LEMMA ChainChanges ==
  ASSUME IInv, [Next]_vars
  PROVE  \/ chain' = chain
         \/ /\ \E b \in Seq(Order) : Len(b) > 0 /\ chain' = Append(chain, b)
            /\ UNCHANGED <<height, appHash>>
<1>1. ASSUME NEW r \in Node, NEW b \in Blocks(mempool[r]), Propose(r, b)
      PROVE  /\ \E c \in Seq(Order) : Len(c) > 0 /\ chain' = Append(chain, c)
             /\ UNCHANGED <<height, appHash>>
  <2>1. PICK k \in 1..Cardinality(mempool[r]) : b \in [1..k -> mempool[r]]
    BY DEF Blocks
  <2>2. mempool[r] \subseteq Order
    BY DEF IInv, TypeOK
  <2>3. k \in Nat /\ k > 0 /\ b \in [1..k -> Order]
    BY <2>1, <2>2
  <2>4. b \in Seq(Order) /\ Len(b) > 0
    BY <2>3, SeqDef
  <2>. QED
    BY <1>1, <2>4 DEF Propose, appVars
<1>2. ASSUME NEW r \in Node, NEW o, CheckTx(r, o) PROVE chain' = chain
  BY <1>2 DEF CheckTx, GoDown
<1>3. ASSUME NEW r \in Node, Step(r) \/ Crash(r) \/ CommitCut(r) PROVE chain' = chain
  BY <1>3 DEF Step, Start, GoLive, BeginBlock, DeliverTx, EndBlock, Commit,
              Crash, CommitCut, GoDown, tmVars
<1>4. CASE UNCHANGED vars
  BY <1>4 DEF vars, tmVars
<1>5. ASSUME NEW o \in Order, SendOrder(o) PROVE chain' = chain
  BY <1>5 DEF SendOrder, CheckTx, GoDown
<1>. QED
  BY <1>1, <1>2, <1>3, <1>4, <1>5 DEF Next, Gossip

\* A block with orders makes the count finite and larger.
LEMMA CountGrows ==
  ASSUME IInv, ChainFinite, NEW b \in Seq(Order), Len(b) > 0,
         chain' = Append(chain, b), NEW n \in Nat, n = Len(chain)
  PROVE  /\ ChainFinite'
         /\ \A h \in 0..n : Positions(h)' = Positions(h)
         /\ \A h \in 0..n : Cardinality(Positions(h)) < Cardinality(Positions(n + 1)')
<1>1. /\ chain \in Seq(Seq(Order)) /\ Len(chain') = n + 1
      /\ chain'[n + 1] = b /\ DOMAIN b = 1..Len(b) /\ Len(b) \in Nat
  BY DEF IInv, TypeOK
<1>2. \A h \in 0..n : Positions(h)' = Positions(h)
  BY <1>1, ChainGrows
<1>3. Positions(n + 1)' = Positions(n) \cup ({n + 1} \X (1..Len(b)))
  <2>. DEFINE of(c) == {<<c, i>> : i \in DOMAIN chain'[c]}
  <2>1. of(n + 1) = {n + 1} \X (1..Len(b))
    BY <1>1
  <2>2. 1..(n + 1) = (1..n) \cup {n + 1}
    OBVIOUS
  <2>. HIDE DEF of
  <2>3. UNION {of(c) : c \in 1..(n + 1)} = (UNION {of(c) : c \in 1..n}) \cup of(n + 1)
    BY <2>2
  <2>4. /\ Positions(n + 1)' = UNION {of(c) : c \in 1..(n + 1)}
        /\ Positions(n)' = UNION {of(c) : c \in 1..n}
    BY DEF Positions, of
  <2>5. Positions(n)' = Positions(n)
    BY <1>2
  <2>. QED
    BY <2>1, <2>3, <2>4, <2>5
<1>4. IsFiniteSet(Positions(n + 1)')
  <2>1. IsFiniteSet({n + 1} \X (1..Len(b)))
    <3>1. IsFiniteSet({n + 1})
      BY FS_Singleton
    <3>2. IsFiniteSet(1..Len(b))
      BY <1>1, FS_Interval, 1 \in Int, Len(b) \in Int
    <3>. QED
      BY <3>1, <3>2, FS_Product
  <2>2. IsFiniteSet(Positions(n))
    <3>1. n \in 0..Len(chain)
      OBVIOUS
    <3>. QED
      BY <3>1 DEF ChainFinite
  <2>3. IsFiniteSet(Positions(n) \cup ({n + 1} \X (1..Len(b))))
    BY <2>1, <2>2, FS_Union
  <2>. QED
    BY <1>3, <2>3
<1>5. ChainFinite'
  <2>1. ASSUME NEW h \in 0..(n + 1) PROVE IsFiniteSet(Positions(h)')
    <3>1. CASE h \in 0..n
      BY <1>2, <3>1 DEF ChainFinite
    <3>2. CASE h = n + 1
      BY <1>4, <3>2
    <3>. QED
      BY <3>1, <3>2
  <2>. QED
    BY <1>1, <2>1 DEF ChainFinite
<1>6. ASSUME NEW h \in 0..n
      PROVE  Cardinality(Positions(h)) < Cardinality(Positions(n + 1)')
  <2>1. Positions(h) \subseteq Positions(n)
    BY InPositions
  <2>2. <<n + 1, 1>> \notin Positions(n) /\ <<n + 1, 1>> \in {n + 1} \X (1..Len(b))
    BY <1>1, InPositions
  <2>3. Positions(h) \in SUBSET Positions(n + 1)' /\ Positions(h) # Positions(n + 1)'
    BY <1>3, <2>1, <2>2
  <2>4. /\ IsFiniteSet(Positions(h))
        /\ Cardinality(Positions(h)) <= Cardinality(Positions(n + 1)')
        /\ Cardinality(Positions(h)) # Cardinality(Positions(n + 1)')
    BY <1>4, <2>3, FS_Subset
  <2>5. Cardinality(Positions(h)) \in Nat /\ Cardinality(Positions(n + 1)') \in Nat
    BY <1>4, <2>4, FS_CardinalityType
  <2>. QED
    BY <2>4, <2>5
<1>. QED
  BY <1>2, <1>5, <1>6

LEMMA ChainFiniteKept == IInv /\ ChainFinite /\ [Next]_vars => ChainFinite'
<1>. SUFFICES ASSUME IInv, ChainFinite, [Next]_vars PROVE ChainFinite'
  OBVIOUS
<1>1. CASE chain' = chain
  BY <1>1, ChainSame DEF ChainFinite
<1>2. CASE \E b \in Seq(Order) : Len(b) > 0 /\ chain' = Append(chain, b)
  <2>1. Len(chain) \in Nat
    BY DEF IInv, TypeOK
  <2>. QED
    BY <1>2, <2>1, CountGrows
<1>. QED
  BY <1>1, <1>2, ChainChanges

LEMMA ChainFiniteAlways == Spec => []ChainFinite
<1>1. Init => ChainFinite
  <2>1. Init => Len(chain) = 0
    BY DEF Init
  <2>2. \A h \in 0..0 : h = 0
    OBVIOUS
  <2>. QED
    BY <2>1, <2>2, PositionsZero, FS_EmptySet DEF ChainFinite
<1>. QED
  BY <1>1, ChainFiniteKept, Invariance, PTL DEF Spec
-----------------------------------------------------------------------------
\* The log is a sequence of numbers, as long as the chain.
LEMMA HashLogType ==
  ASSUME IInv, ChainFinite
  PROVE  /\ HashLog \in Seq(Nat) /\ Len(HashLog) = Len(chain)
         /\ \A h \in 1..Len(chain) : HashLog[h] = Cardinality(Positions(h))
<1>1. Len(chain) \in Nat /\ DOMAIN chain = 1..Len(chain)
  BY DEF IInv, TypeOK
<1>2. HashLog \in [1..Len(chain) -> Nat]
  BY <1>1, FS_CardinalityType DEF HashLog, ChainFinite
<1>3. HashLog \in Seq(Nat)
  BY <1>1, <1>2, SeqDef
<1>. QED
  BY <1>1, <1>2, <1>3 DEF HashLog

LEMMA RefineInit == Init => Agreed!Init
<1>. SUFFICES ASSUME Init PROVE Agreed!Init
  OBVIOUS
<1>1. HashLog = <<>>
  BY DEF Init, HashLog
<1>. QED
  BY <1>1 DEF Init, Agreed!Init

\* A proposed block is a decision.
LEMMA RefineDecide ==
  ASSUME IInv, ChainFinite, TypeOK', NEW b \in Seq(Order), Len(b) > 0,
         chain' = Append(chain, b), UNCHANGED <<height, appHash>>
  PROVE  Agreed!Decide
<1>1. PICK n \in Nat : n = Len(chain)
  BY DEF IInv, TypeOK
<1>2. /\ ChainFinite'
      /\ \A h \in 0..n : Positions(h)' = Positions(h)
      /\ \A h \in 0..n : Cardinality(Positions(h)) < Cardinality(Positions(n + 1)')
  BY <1>1, CountGrows
<1>3. DOMAIN chain' = 1..(n + 1) /\ DOMAIN chain = 1..n
  BY <1>1 DEF IInv, TypeOK
<1>. DEFINE next == Cardinality(Positions(n + 1)')
<1>4. next \in Nat
  <2>1. Len(chain') = n + 1
    BY <1>1 DEF IInv, TypeOK
  <2>. QED
    BY <1>2, <2>1, FS_CardinalityType DEF ChainFinite
<1>5. HashLog' = [h \in 1..(n + 1) |-> IF h = n + 1 THEN next ELSE HashLog[h]]
  <2>1. HashLog' = [h \in 1..(n + 1) |-> Cardinality(Positions(h)')]
    BY <1>3 DEF HashLog
  <2>2. \A h \in 1..n : HashLog[h] = Cardinality(Positions(h)')
    BY <1>2, <1>3 DEF HashLog
  <2>. QED
    BY <2>1, <2>2
<1>6. /\ HashLog \in Seq(Nat) /\ Len(HashLog) = n
      /\ \A h \in 1..n : HashLog[h] = Cardinality(Positions(h))
  BY <1>1, HashLogType
<1>. HIDE DEF next
<1>7. HashLog' = Append(HashLog, next)
  <2>. DEFINE grown == [h \in 1..(n + 1) |-> IF h = n + 1 THEN next ELSE HashLog[h]]
              more == Append(HashLog, next)
  <2>1. /\ more \in Seq(Nat) /\ Len(more) = n + 1 /\ more[n + 1] = next
        /\ \A h \in 1..n : more[h] = HashLog[h]
    BY <1>4, <1>6
  <2>2. grown \in [1..(n + 1) -> Nat]
    BY <1>4, <1>6
  <2>3. grown \in Seq(Nat) /\ Len(grown) = n + 1
    BY <2>2, SeqDef
  <2>4. \A h \in 1..(n + 1) : grown[h] = more[h]
    BY <2>1
  <2>. HIDE DEF grown, more
  <2>5. grown = more
    BY <2>1, <2>3, <2>4, SeqEqual
  <2>. QED
    BY <1>5, <2>5 DEF grown, more
<1>8. \A h \in DOMAIN HashLog : HashLog[h] < next
  BY <1>2, <1>6 DEF next
<1>. QED
  BY <1>4, <1>6, <1>7, <1>8 DEF Agreed!Decide

\* What a replica forgets takes it back to the start of the log.
LEMMA RefineGoDown ==
  ASSUME IInv, NEW r \in Node, NEW left, GoDown(r, left)
  PROVE  Agreed!Restart(r)
<1>1. HashLog' = HashLog
  BY ChainSame DEF GoDown, HashLog
<1>. QED
  BY <1>1 DEF GoDown, Agreed!Restart

\* A Commit answers the entry of its height.
LEMMA RefineCommit ==
  ASSUME IInv, ChainFinite, NEW r \in Node, Commit(r)
  PROVE  Agreed!Apply(r)
<1>. USE DEF IInv
<1>1. stage[r] = "ended" /\ pos[r] = Len(Block(r)) /\ chain' = chain
  BY DEF Commit, Progress, InStep
<1>2. height[r] \in Nat /\ height[r] < Len(chain) /\ Len(chain) \in Nat
  <2>1. height[r] < stored[r]
    BY <1>1 DEF Progress, InStep
  <2>. QED
    BY <2>1, Bounds
<1>3. DOMAIN Block(r) = 1..Len(Block(r))
  BY <1>2, BlockType
<1>4. DeliveredBy(r) = Positions(height[r] + 1)
  BY <1>1, <1>2, <1>3, PositionsStep DEF DeliveredBy, Block
<1>5. /\ Len(HashLog) = Len(chain)
      /\ HashLog[height[r] + 1] = Cardinality(Positions(height[r] + 1))
  <2>1. height[r] + 1 \in 1..Len(chain)
    BY <1>2
  <2>. QED
    BY <2>1, HashLogType
<1>6. numOrders[r] = HashLog[height[r] + 1]
  BY <1>4, <1>5 DEF Counts
<1>7. HashLog' = HashLog
  BY <1>1, ChainSame DEF HashLog
<1>. QED
  BY <1>2, <1>5, <1>6, <1>7 DEF Commit, Agreed!Apply

LEMMA RefineNext ==
  ASSUME IInv, ChainFinite, [Next]_vars, TypeOK'
  PROVE  [Agreed!Next]_(Agreed!vars)
<1>1. ASSUME chain' = chain, UNCHANGED <<height, appHash>>
      PROVE  UNCHANGED Agreed!vars
  <2>1. HashLog' = HashLog
    BY <1>1, ChainSame DEF HashLog
  <2>. QED
    BY <1>1, <2>1 DEF Agreed!vars
<1>2. ASSUME NEW r \in Node, NEW left, GoDown(r, left)
      PROVE  Agreed!Next
  BY <1>2, RefineGoDown DEF Agreed!Next
<1>3. ASSUME NEW r \in Node, NEW o, CheckTx(r, o)
      PROVE  [Agreed!Next]_(Agreed!vars)
  BY <1>1, <1>2, <1>3 DEF CheckTx, appVars
<1>4. ASSUME NEW o \in Order, SendOrder(o)
      PROVE  [Agreed!Next]_(Agreed!vars)
  <2>1. o.node \in Node
    BY ConstantsAssumption DEF OrderType
  <2>. QED
    BY <1>3, <1>4, <2>1 DEF SendOrder
<1>5. ASSUME NEW r \in Node, NEW b \in Blocks(mempool[r]), Propose(r, b)
      PROVE  [Agreed!Next]_(Agreed!vars)
  <2>1. CASE chain' = chain
    BY <1>1, <1>5, <2>1 DEF Propose, appVars
  <2>2. CASE \E c \in Seq(Order) : Len(c) > 0 /\ chain' = Append(chain, c)
    BY <1>5, <2>2, RefineDecide DEF Propose, appVars, Agreed!Next
  <2>. QED
    BY <2>1, <2>2, ChainChanges
<1>6. ASSUME NEW r \in Node, Step(r)
      PROVE  [Agreed!Next]_(Agreed!vars)
  <2>1. CASE Start(r) \/ GoLive(r) \/ BeginBlock(r) \/ EndBlock(r)
    BY <1>1, <2>1 DEF Start, GoLive, BeginBlock, EndBlock, appVars, tmVars
  <2>2. CASE DeliverTx(r)
    <3>1. CASE GoDown(r, db[r])
      BY <1>2, <3>1
    <3>2. CASE UNCHANGED <<tmVars, height, stage, appHash, db>>
      BY <1>1, <3>2 DEF tmVars
    <3>. QED
      BY <2>2, <3>1, <3>2 DEF DeliverTx
  <2>3. CASE Commit(r)
    BY <2>3, RefineCommit DEF Agreed!Next
  <2>. QED
    BY <1>6, <2>1, <2>2, <2>3 DEF Step
<1>7. ASSUME NEW r \in Node, Crash(r) \/ CommitCut(r)
      PROVE  [Agreed!Next]_(Agreed!vars)
  BY <1>2, <1>7 DEF Crash, CommitCut
<1>8. CASE UNCHANGED vars
  BY <1>1, <1>8 DEF vars, tmVars, appVars
<1>. QED
  BY <1>3, <1>4, <1>5, <1>6, <1>7, <1>8 DEF Next, Gossip

\* Every behaviour of the replicas is one of the agreed log of app hashes.
THEOREM Refinement == Spec => AgreedSpec
<1>1. IInv => TypeOK
  BY DEF IInv
<1>. QED
  BY <1>1, RefineInit, RefineNext, Invariance, ChainFiniteAlways, PTL
     DEF Spec, AgreedSpec, Agreed!Spec
=============================================================================
