-------------------------- MODULE OrderStoresProofs --------------------------
(***************************************************************************)
(* What the three stores of a replica hold, for any number of restaurants, *)
(* orders, blocks and crashes, on top of OrderAppProofs.  A replica that   *)
(* never went down has what its blocks give, whoever it is (StoresAgree).  *)
(* After crashes the order hashes still end with what the replayed blocks  *)
(* fold into them, and the lists of idle peers are still lists of decided  *)
(* orders (StoresCorrect).                                                 *)
(***************************************************************************)
EXTENDS OrderAppProofs, DataProofs
-----------------------------------------------------------------------------
(* What the stores of a replica that never went down hold depends on how   *)
(* far it is in the chain alone.  The stores others have left behind are   *)
(* no part of the state, so the invariant says that there is a table of    *)
(* them: T[<<h, i>>] is what h blocks and i orders of the next one leave.  *)

\* A replica that never went down is, or was, behind the i-th order of the
\* block after h.
Past(r, h, i) ==
  crashes[r] = 0 /\ (h < height[r] \/ (h = height[r] /\ i <= pos[r]))

OnTrace(T, r) ==
  crashes[r] = 0 =>
    /\ db[r] = T[<<height[r], 0>>]
    /\ stage[r] # "idle" => txn[r] = T[<<height[r], pos[r]>>]

\* The entry after an order, and the one after a block.
OrderEntry(T, h, i) ==
  T[<<h, i + 1>>]
    = WithApproved(T[<<h, i>>], T[<<h, 0>>].orders, chain[h + 1][i + 1])
BlockEntry(T, h) == T[<<h + 1, 0>>] = T[<<h, Len(chain[h + 1])>>]

Trace(T) ==
  /\ T \in [Nat \X Nat -> Stores]
  /\ \A r \in Node : OnTrace(T, r)
  /\ \A r \in Node : \A h, i \in Nat :
       Past(r, h, i + 1) /\ i < Len(chain[h + 1]) => OrderEntry(T, h, i)
  /\ \A r \in Node : \A h \in Nat :
       crashes[r] = 0 /\ h < height[r] => BlockEntry(T, h)
  /\ T[<<0, 0>>] = EmptyStores

\* A step that leaves the blocks, the places and the stores of those that
\* never went down as they are.
LEMMA TraceSame ==
  ASSUME IInv, NEW T, Trace(T),
         \A h \in Nat : h < Len(chain) => chain'[h + 1] = chain[h + 1],
         \A r \in Node : crashes'[r] = 0 =>
           /\ crashes[r] = 0 /\ height'[r] = height[r] /\ pos'[r] = pos[r]
           /\ db'[r] = db[r]
           /\ stage'[r] # "idle" => txn'[r] = T[<<height[r], pos[r]>>]
  PROVE  Trace(T)'
<1>1. ASSUME NEW r \in Node PROVE OnTrace(T, r)'
  BY DEF Trace, OnTrace
<1>2. ASSUME NEW r \in Node, NEW h \in Nat, NEW i \in Nat,
             Past(r, h, i + 1)', i < Len(chain'[h + 1])
      PROVE  OrderEntry(T, h, i)'
  <2>1. Past(r, h, i + 1)
    BY <1>2 DEF Past
  <2>2. h < Len(chain)
    <3>1. height[r] \in Nat /\ pos[r] \in Nat /\ height[r] <= Len(chain) /\ Len(chain) \in Nat
      BY Bounds DEF IInv
    <3>2. pos[r] # 0 => height[r] < Len(chain)
      BY <3>1, Bounds DEF IInv, Progress, InStep
    <3>. QED
      BY <2>1, <3>1, <3>2 DEF Past
  <2>3. chain'[h + 1] = chain[h + 1]
    BY <2>2
  <2>4. OrderEntry(T, h, i)
    BY <1>2, <2>1, <2>3 DEF Trace
  <2>. QED
    BY <2>3, <2>4 DEF OrderEntry
<1>3. ASSUME NEW r \in Node, NEW h \in Nat, crashes'[r] = 0, h < height'[r]
      PROVE  BlockEntry(T, h)'
  <2>1. crashes[r] = 0 /\ h < height[r]
    BY <1>3
  <2>2. h < Len(chain)
    BY <2>1, Bounds DEF IInv
  <2>3. chain'[h + 1] = chain[h + 1] /\ BlockEntry(T, h)
    BY <2>1, <2>2 DEF Trace
  <2>. QED
    BY <2>3 DEF BlockEntry
<1>. QED
  BY <1>1, <1>2, <1>3 DEF Trace

\* A delivery fills in the entry behind its order, unless another replica did.
LEMMA DeliverTrace ==
  ASSUME IInv, NEW T, Trace(T), NEW r \in Node, DeliverTx(r), ~ GoDown(r, db[r])
  PROVE  \E U : Trace(U)'
<1>1. /\ UNCHANGED <<tmVars, height, stage, appHash, db>>
      /\ pos' = [pos EXCEPT ![r] = @ + 1]
      /\ stage[r] = "deliver" /\ pos[r] < Len(Block(r))
  BY DEF DeliverTx
<1>2. chain' = chain /\ crashes' = crashes
  BY <1>1 DEF tmVars
<1>3. PICK h \in Nat : h = height[r]
  BY Bounds DEF IInv
<1>4. PICK i \in Nat : i = pos[r]
  BY Bounds DEF IInv
<1>5. Approved(db[r].registers, chain[h + 1][i + 1])
  BY <1>1, <1>3, <1>4, NextApproved DEF DecidedOrdersApproved, Block
<1>. DEFINE v == WithApproved(txn[r], db[r].orders, chain[h + 1][i + 1])
<1>6. txn' = [txn EXCEPT ![r] = v]
  BY <1>1, <1>3, <1>4, <1>5, ApprovedNoPanic DEF DeliverTx, Block
<1>7. /\ pos'[r] = i + 1 /\ txn'[r] = v
      /\ \A q \in Node \ {r} : pos'[q] = pos[q] /\ txn'[q] = txn[q]
      /\ i < Len(chain[h + 1])
  BY <1>1, <1>3, <1>4, <1>6 DEF IInv, TypeOK, Block
<1>8. v \in Stores
  <2>1. TypeOK'
    BY NextIInv DEF Next, Step, IInv
  <2>. QED
    BY <1>7, <2>1 DEF TypeOK
<1>9. crashes[r] = 0 => v = WithApproved(T[<<h, i>>], T[<<h, 0>>].orders, chain[h + 1][i + 1])
  BY <1>1, <1>3, <1>4 DEF Trace, OnTrace
<1>. HIDE DEF v
<1>10. CASE crashes[r] # 0
  <2>1. \A q \in Node : crashes'[q] = 0 =>
          /\ crashes[q] = 0 /\ height'[q] = height[q] /\ pos'[q] = pos[q]
          /\ db'[q] = db[q]
          /\ stage'[q] # "idle" => txn'[q] = T[<<height[q], pos[q]>>]
    BY <1>1, <1>2, <1>7, <1>10 DEF Trace, OnTrace
  <2>. QED
    BY <1>2, <2>1, TraceSame
<1>11. CASE crashes[r] = 0
  <2>1. PICK U :
          /\ U \in [Nat \X Nat -> Stores] /\ U[<<h, i + 1>>] = v
          /\ \A g, j \in Nat : <<g, j>> # <<h, i + 1>> => U[<<g, j>>] = T[<<g, j>>]
          /\ (\E s \in Node : Past(s, h, i + 1)) => U = T
    <3>1. CASE \E s \in Node : Past(s, h, i + 1)
      <4>1. OrderEntry(T, h, i)
        BY <1>7, <3>1 DEF Trace
      <4>2. T[<<h, i + 1>>] = v
        BY <1>9, <1>11, <4>1 DEF OrderEntry
      <4>. QED
        BY <4>2 DEF Trace
    <3>2. CASE ~ \E s \in Node : Past(s, h, i + 1)
      <4>. DEFINE U == [T EXCEPT ![<<h, i + 1>>] = v]
      <4>1. U \in [Nat \X Nat -> Stores] /\ U[<<h, i + 1>>] = v
        BY <1>8 DEF Trace
      <4>2. \A g, j \in Nat : <<g, j>> # <<h, i + 1>> => U[<<g, j>>] = T[<<g, j>>]
        BY DEF Trace
      <4>. HIDE DEF U
      <4>. QED
        BY <3>2, <4>1, <4>2
    <3>. QED
      BY <3>1, <3>2
  \* An entry of a replica that was there before is an old one.
  <2>2. ASSUME NEW g \in Nat, NEW j \in Nat, NEW s \in Node, Past(s, g, j)
        PROVE  U[<<g, j>>] = T[<<g, j>>]
    BY <2>1, <2>2
  <2>3. \A g \in Nat : U[<<g, 0>>] = T[<<g, 0>>]
    BY <2>1
  <2>4. \A q \in Node : height[q] \in Nat /\ pos[q] \in Nat
    BY Bounds DEF IInv
  <2>5. ASSUME NEW q \in Node PROVE OnTrace(U, q)'
    <3>1. CASE q = r
      BY <1>1, <1>2, <1>3, <1>7, <2>1, <2>3, <3>1 DEF Trace, OnTrace
    <3>2. CASE q # r
      <4>1. crashes[q] = 0 => Past(q, height[q], pos[q])
        BY <2>4 DEF Past
      <4>2. crashes[q] = 0 => U[<<height[q], pos[q]>>] = T[<<height[q], pos[q]>>]
        BY <2>2, <2>4, <4>1
      <4>. QED
        BY <1>1, <1>2, <1>7, <2>3, <2>4, <3>2, <4>2 DEF Trace, OnTrace
    <3>. QED
      BY <3>1, <3>2
  <2>6. ASSUME NEW q \in Node, NEW g \in Nat, NEW j \in Nat,
               Past(q, g, j + 1)', j < Len(chain[g + 1])
        PROVE  OrderEntry(U, g, j)'
    <3>1. CASE Past(q, g, j + 1)
      <4>1. Past(q, g, j)
        BY <2>4, <3>1 DEF Past
      <4>2. U[<<g, j + 1>>] = T[<<g, j + 1>>] /\ U[<<g, j>>] = T[<<g, j>>]
        BY <2>2, <3>1, <4>1
      <4>3. OrderEntry(T, g, j)
        BY <2>6, <3>1 DEF Trace
      <4>. QED
        BY <1>2, <2>3, <4>2, <4>3 DEF OrderEntry
    <3>2. CASE ~ Past(q, g, j + 1)
      <4>1. q = r /\ g = h /\ j = i
        BY <1>1, <1>2, <1>3, <1>4, <1>7, <2>4, <2>6, <3>2 DEF Past
      <4>2. U[<<h, i>>] = T[<<h, i>>]
        BY <2>1
      <4>. QED
        BY <1>2, <1>9, <1>11, <2>1, <2>3, <4>1, <4>2 DEF OrderEntry
    <3>. QED
      BY <3>1, <3>2
  <2>7. ASSUME NEW q \in Node, NEW g \in Nat, crashes[q] = 0, g < height[q]
        PROVE  BlockEntry(U, g)'
    <3>1. PICK j \in Nat : j = Len(chain[g + 1])
      <4>a. g + 1 \in 1..Len(chain)
        BY <2>7, <2>4, Bounds DEF IInv
      <4>1. g + 1 \in DOMAIN chain /\ chain \in Seq(Seq(Order))
        BY <4>a DEF IInv, TypeOK
      <4>2. chain[g + 1] \in Seq(Order)
        BY <4>1
      <4>. QED
        BY <4>2
    <3>2. U[<<g, j>>] = T[<<g, j>>]
      BY <2>2, <2>7 DEF Past
    <3>. QED
      BY <1>2, <2>3, <2>7, <3>1, <3>2 DEF Trace, BlockEntry
  <2>8. U[<<0, 0>>] = EmptyStores
    BY <2>3 DEF Trace
  <2>. QED
    BY <1>1, <1>2, <2>1, <2>5, <2>6, <2>7, <2>8 DEF Trace
<1>. QED
  BY <1>10, <1>11

\* A commit fills in the entry behind its block, unless another replica did.
LEMMA CommitTrace ==
  ASSUME IInv, NEW T, Trace(T), NEW r \in Node, Commit(r)
  PROVE  \E U : Trace(U)'
<1>1. chain' = chain /\ crashes' = crashes /\ txn' = txn /\ stage[r] = "ended"
  BY DEF Commit
<1>2. PICK h \in Nat : h = height[r]
  BY Bounds DEF IInv
<1>3. /\ height'[r] = h + 1 /\ pos'[r] = 0 /\ stage'[r] = "idle" /\ db'[r] = txn[r]
      /\ \A q \in Node \ {r} : /\ height'[q] = height[q] /\ pos'[q] = pos[q]
                               /\ stage'[q] = stage[q] /\ db'[q] = db[q]
  BY <1>2 DEF Commit, IInv, TypeOK
<1>4. PICK n \in Nat : n = pos[r] /\ n = Len(chain[h + 1])
  BY <1>1, <1>2, Bounds DEF IInv, Progress, InStep, Block
<1>5. \A q \in Node : height[q] \in Nat /\ pos[q] \in Nat
  BY Bounds DEF IInv
<1>6. CASE crashes[r] # 0
  <2>1. \A q \in Node : crashes'[q] = 0 =>
          /\ crashes[q] = 0 /\ height'[q] = height[q] /\ pos'[q] = pos[q]
          /\ db'[q] = db[q]
          /\ stage'[q] # "idle" => txn'[q] = T[<<height[q], pos[q]>>]
    BY <1>1, <1>3, <1>6 DEF Trace, OnTrace
  <2>. QED
    BY <1>1, <2>1, TraceSame
<1>7. CASE crashes[r] = 0
  <2>1. txn[r] = T[<<h, n>>] /\ txn[r] \in Stores
    BY <1>1, <1>2, <1>4, <1>7 DEF Trace, OnTrace, IInv, TypeOK
  <2>2. PICK U :
          /\ U \in [Nat \X Nat -> Stores] /\ U[<<h + 1, 0>>] = txn[r]
          /\ \A g, j \in Nat : <<g, j>> # <<h + 1, 0>> => U[<<g, j>>] = T[<<g, j>>]
          /\ (\E s \in Node : crashes[s] = 0 /\ h < height[s]) => U = T
    <3>1. CASE \E s \in Node : crashes[s] = 0 /\ h < height[s]
      <4>1. BlockEntry(T, h)
        BY <3>1 DEF Trace
      <4>. QED
        BY <1>4, <2>1, <4>1 DEF BlockEntry, Trace
    <3>2. CASE ~ \E s \in Node : crashes[s] = 0 /\ h < height[s]
      <4>. DEFINE U == [T EXCEPT ![<<h + 1, 0>>] = txn[r]]
      <4>1. U \in [Nat \X Nat -> Stores] /\ U[<<h + 1, 0>>] = txn[r]
        BY <2>1 DEF Trace
      <4>2. \A g, j \in Nat : <<g, j>> # <<h + 1, 0>> => U[<<g, j>>] = T[<<g, j>>]
        BY DEF Trace
      <4>. HIDE DEF U
      <4>. QED
        BY <3>2, <4>1, <4>2
    <3>. QED
      BY <3>1, <3>2
  \* The entries of a replica up to its height are old ones.
  <2>3. ASSUME NEW s \in Node, crashes[s] = 0, NEW g \in Nat, NEW j \in Nat, g <= height[s]
        PROVE  U[<<g, j>>] = T[<<g, j>>]
    <3>1. g # h + 1 \/ h < height[s]
      BY <1>5, <2>3
    <3>. QED
      BY <2>2, <2>3, <3>1
  <2>4. ASSUME NEW q \in Node PROVE OnTrace(U, q)'
    <3>1. CASE q = r
      BY <1>3, <2>2, <3>1 DEF OnTrace
    <3>2. CASE q # r
      <4>1. crashes[q] = 0 => /\ U[<<height[q], 0>>] = T[<<height[q], 0>>]
                              /\ U[<<height[q], pos[q]>>] = T[<<height[q], pos[q]>>]
        BY <1>5, <2>3
      <4>. QED
        BY <1>1, <1>3, <3>2, <4>1 DEF Trace, OnTrace
    <3>. QED
      BY <3>1, <3>2
  <2>5. ASSUME NEW q \in Node, NEW g \in Nat, NEW j \in Nat,
               Past(q, g, j + 1)', j < Len(chain[g + 1])
        PROVE  OrderEntry(U, g, j)'
    <3>1. Past(q, g, j + 1)
      <4>1. CASE q = r
        <5>a. g < h + 1 \/ (g = h + 1 /\ j + 1 <= 0)
          BY <1>1, <1>3, <2>5, <4>1 DEF Past
        <5>b. g = h => j < n
          BY <1>4, <2>5
        <5>1. crashes[r] = 0 /\ g <= h /\ (g = h => j + 1 <= n)
          BY <1>7, <5>a, <5>b
        <5>2. g < h \/ (g = h /\ j + 1 <= n)
          BY <5>1
        <5>3. Past(r, g, j + 1)
          BY <1>2, <1>4, <5>1, <5>2 DEF Past
        <5>. QED
          BY <4>1, <5>3
      <4>2. CASE q # r
        BY <1>1, <1>3, <2>5, <4>2 DEF Past
      <4>. QED
        BY <4>1, <4>2
    <3>2. crashes[q] = 0 /\ g <= height[q]
      BY <1>5, <3>1 DEF Past
    <3>3. /\ U[<<g, j + 1>>] = T[<<g, j + 1>>] /\ U[<<g, j>>] = T[<<g, j>>]
          /\ U[<<g, 0>>] = T[<<g, 0>>]
      BY <2>3, <3>2
    <3>4. OrderEntry(T, g, j)
      BY <2>5, <3>1 DEF Trace
    <3>. QED
      BY <1>1, <3>3, <3>4 DEF OrderEntry
  <2>6. ASSUME NEW q \in Node, NEW g \in Nat, crashes[q] = 0, g < height'[q]
        PROVE  BlockEntry(U, g)'
    <3>1. CASE g < height[q]
      <4>1. PICK j \in Nat : j = Len(chain[g + 1])
        <5>a. g + 1 \in 1..Len(chain)
          BY <3>1, <1>5, Bounds DEF IInv
        <5>1. g + 1 \in DOMAIN chain /\ chain \in Seq(Seq(Order))
          BY <5>a DEF IInv, TypeOK
        <5>2. chain[g + 1] \in Seq(Order)
          BY <5>1
        <5>. QED
          BY <5>2
      <4>2. U[<<g + 1, 0>>] = T[<<g + 1, 0>>] /\ U[<<g, j>>] = T[<<g, j>>]
        BY <1>5, <2>3, <2>6, <3>1
      <4>3. BlockEntry(T, g)
        BY <2>6, <3>1 DEF Trace
      <4>. QED
        BY <1>1, <4>1, <4>2, <4>3 DEF BlockEntry
    <3>2. CASE ~ (g < height[q])
      <4>1. q = r /\ g = h
        BY <1>2, <1>3, <1>5, <2>6, <3>2
      <4>2. U[<<h, n>>] = T[<<h, n>>]
        BY <2>2
      <4>. QED
        BY <1>1, <1>4, <2>1, <2>2, <4>1, <4>2 DEF BlockEntry
    <3>. QED
      BY <3>1, <3>2
  <2>7. U[<<0, 0>>] = EmptyStores
    BY <2>2 DEF Trace
  <2>. QED
    BY <1>1, <2>2, <2>4, <2>5, <2>6, <2>7 DEF Trace
<1>. QED
  BY <1>6, <1>7

TraceInv == \E T : Trace(T)

LEMMA InitTrace == Init => TraceInv
<1>. SUFFICES ASSUME Init PROVE TraceInv
  OBVIOUS
<1>. DEFINE T == [p \in Nat \X Nat |-> EmptyStores]
<1>1. T \in [Nat \X Nat -> Stores]
  BY DEF EmptyStores, Stores
<1>2. \A h, i \in Nat : T[<<h, i>>] = EmptyStores
  OBVIOUS
<1>. HIDE DEF T
<1>3. \A r \in Node : OnTrace(T, r)
  BY <1>2 DEF Init, OnTrace
<1>4. \A r \in Node : height[r] = 0 /\ pos[r] = 0
  BY DEF Init
<1>5. Trace(T)
  BY <1>1, <1>2, <1>3, <1>4 DEF Trace, Past
<1>. QED
  BY <1>5 DEF TraceInv

LEMMA NextTrace ==
  ASSUME IInv, TraceInv, [Next]_vars
  PROVE  TraceInv'
<1>. PICK T : Trace(T)
  BY DEF TraceInv
<1>. SUFFICES \E U : Trace(U)'
  BY DEF TraceInv
<1>1. \A q \in Node : crashes[q] = 0 /\ stage[q] # "idle"
                        => txn[q] = T[<<height[q], pos[q]>>]
  BY DEF Trace, OnTrace
<1>2. ASSUME NEW r \in Node, NEW left, GoDown(r, left) PROVE Trace(T)'
  <2>1. /\ chain' = chain /\ crashes'[r] # 0
        /\ \A q \in Node \ {r} :
             /\ crashes'[q] = crashes[q] /\ height'[q] = height[q] /\ pos'[q] = pos[q]
             /\ db'[q] = db[q] /\ stage'[q] = stage[q] /\ txn'[q] = txn[q]
    BY <1>2 DEF GoDown, IInv, TypeOK
  <2>. QED
    BY <1>1, <2>1, TraceSame
<1>3. ASSUME UNCHANGED <<crashes, height, pos, db, stage, txn>>,
             \A h \in Nat : h < Len(chain) => chain'[h + 1] = chain[h + 1]
      PROVE  Trace(T)'
  BY <1>1, <1>3, TraceSame
<1>4. ASSUME NEW r \in Node, NEW o \in Order, CheckTx(r, o) PROVE Trace(T)'
  BY <1>2, <1>3, <1>4 DEF CheckTx, appVars
<1>5. ASSUME NEW r \in Node, NEW b \in Blocks(mempool[r]), Propose(r, b) PROVE Trace(T)'
  <2>1. chain' = Append(chain, b) /\ UNCHANGED <<crashes, appVars>>
    BY <1>5 DEF Propose
  <2>2. chain \in Seq(Seq(Order))
    BY DEF IInv, TypeOK
  <2>3. \A h \in Nat : h < Len(chain) => chain'[h + 1] = chain[h + 1]
    BY <2>1, <2>2
  <2>. QED
    BY <1>3, <2>1, <2>3 DEF appVars
<1>6. ASSUME NEW r \in Node, BeginBlock(r) PROVE Trace(T)'
  <2>1. /\ chain' = chain /\ UNCHANGED <<crashes, height, db>>
        /\ pos[r] = 0 /\ pos'[r] = 0 /\ txn'[r] = db[r]
        /\ \A q \in Node \ {r} :
             pos'[q] = pos[q] /\ stage'[q] = stage[q] /\ txn'[q] = txn[q]
    BY <1>6 DEF BeginBlock, IInv, TypeOK, Progress, InStep
  <2>2. crashes[r] = 0 => db[r] = T[<<height[r], 0>>]
    BY DEF Trace, OnTrace
  <2>. QED
    BY <1>1, <2>1, <2>2, TraceSame
<1>7. ASSUME NEW r \in Node, EndBlock(r) PROVE Trace(T)'
  <2>1. /\ chain' = chain /\ UNCHANGED <<crashes, height, pos, db, txn>>
        /\ stage[r] # "idle"
        /\ \A q \in Node \ {r} : stage'[q] = stage[q]
    BY <1>7 DEF EndBlock, tmVars, IInv, TypeOK
  <2>. QED
    BY <1>1, <2>1, TraceSame
<1>8. ASSUME NEW r \in Node, Step(r) PROVE \E U : Trace(U)'
  <2>1. CASE Start(r) \/ GoLive(r)
    BY <1>3, <2>1 DEF Start, GoLive, appVars
  <2>2. CASE DeliverTx(r)
    <3>1. CASE GoDown(r, db[r])
      BY <1>2, <3>1
    <3>2. CASE ~ GoDown(r, db[r])
      BY <2>2, <3>2, DeliverTrace
    <3>. QED
      BY <3>1, <3>2
  <2>3. CASE Commit(r)
    BY <2>3, CommitTrace
  <2>. QED
    BY <1>6, <1>7, <1>8, <2>1, <2>2, <2>3 DEF Step
<1>9. CASE UNCHANGED vars
  BY <1>3, <1>9 DEF vars, tmVars, appVars
<1>10. CASE Next
  <2>1. ASSUME NEW o \in Order, SendOrder(o) PROVE Trace(T)'
    BY <1>4, <2>1, ConstantsAssumption DEF SendOrder, OrderType
  <2>2. ASSUME NEW r \in Node, Crash(r) \/ CommitCut(r) PROVE Trace(T)'
    BY <1>2, <2>2 DEF Crash, CommitCut
  <2>. QED
    BY <1>4, <1>5, <1>8, <1>10, <2>1, <2>2 DEF Next, Gossip
<1>. QED
  BY <1>9, <1>10

\* Replicas that never went down hold the same stores at the same height.
THEOREM StoresAgree == Spec => []StoresAgreeWithoutCrash
<1>1. TraceInv => StoresAgreeWithoutCrash
  BY DEF TraceInv, Trace, OnTrace, StoresAgreeWithoutCrash
<1>. QED
  BY <1>1, InitTrace, NextTrace, Invariance, PTL DEF Spec
-----------------------------------------------------------------------------
(* The order hashes.  HashChain is a recursion over the chain; that it is  *)
(* a function at all, goes on by one block at a time and depends on the    *)
(* blocks below only is what DataProofs says of sequences joined.          *)

\* The first n delivered orders of a block have left the last proof of
\* restaurant q behind s, or nothing.
Extended(block, n, q, s, t) ==
  \/ /\ \A i \in 1..n : block[i].node # q
     /\ t = s
  \/ \E i \in 1..n :
       /\ block[i].node = q
       /\ \A j \in (i + 1)..n : block[j].node # q
       /\ t = Append(s, block[i].proof)

\* The order store of replica r, with the open order transaction.
OrdersOf(r) ==
  \A q \in Node :
    /\ stage[r] # "idle"
         => Extended(Block(r), pos[r], q, db[r].orders[q], txn[r].orders[q])
    /\ HashChain(q, height[r]) \in Seq(Proof)
    /\ EndsWith(db[r].orders[q], HashChain(q, height[r]))
    /\ crashes[r] = 0 => db[r].orders[q] = HashChain(q, height[r])

OrdersInv == \A r \in Node : OrdersOf(r)

\* The chain of hashes, of any sequence of blocks.
HashChainOf(c, q, h) ==
  LET folded[b \in 0..h] ==
        IF b = 0 THEN <<>> ELSE folded[b - 1] \o LastProof(q, c[b])
  IN  folded[h]

LEMMA HashChainNow == \A q, h : HashChain(q, h) = HashChainOf(chain, q, h)
BY DEF HashChain, HashChainOf

LEMMA HashChainNext ==
  ASSUME NEW r
  PROVE  \A q : HashChain(q, height[r])' = HashChainOf(chain', q, height'[r])
BY DEF HashChain, HashChainOf

\* The recursion gives a function of the kind JoinsExists speaks of.
LEMMA HashChainJoins ==
  ASSUME NEW c, NEW q, NEW h \in Nat
  PROVE  \E f : /\ Joins(f, [b \in 1..h |-> LastProof(q, c[b])], h)
                /\ HashChainOf(c, q, h) = f[h]
<1>. DEFINE g == [b \in 1..h |-> LastProof(q, c[b])]
            IsFold(f) == f = [b \in 0..h |-> IF b = 0 THEN <<>>
                                           ELSE f[b - 1] \o LastProof(q, c[b])]
            F == CHOOSE f : IsFold(f)
<1>1. ASSUME NEW f PROVE Joins(f, g, h) <=> IsFold(f)
  <2>1. \A b \in 0..h : b # 0 => g[b] = LastProof(q, c[b])
    OBVIOUS
  <2>2. [b \in 0..h |-> IF b = 0 THEN <<>> ELSE f[b - 1] \o g[b]]
          = [b \in 0..h |-> IF b = 0 THEN <<>> ELSE f[b - 1] \o LastProof(q, c[b])]
    <3>. HIDE DEF g
    <3>. QED
      BY <2>1
  <2>. QED
    BY <2>2 DEF Joins
<1>2. IsFold(F)
  <2>1. \E f : Joins(f, g, h)
    <3>. HIDE DEF g
    <3>. QED
      BY JoinsExists
  <2>2. PICK f : IsFold(f)
    BY <1>1, <2>1
  <2>. HIDE DEF IsFold
  <2>. QED
    BY <2>2
<1>3. HashChainOf(c, q, h) = F[h]
  BY DEF HashChainOf
<1>. HIDE DEF F, IsFold, g
<1>4. Joins(F, g, h)
  BY <1>1, <1>2
<1>. QED
  BY <1>3, <1>4 DEF g

LEMMA HashChainZero == ASSUME NEW c, NEW q PROVE HashChainOf(c, q, 0) = <<>>
<1>1. PICK f : /\ Joins(f, [b \in 1..0 |-> LastProof(q, c[b])], 0)
               /\ HashChainOf(c, q, 0) = f[0]
  BY HashChainJoins
<1>. QED
  BY <1>1 DEF Joins

\* It depends on the blocks up to its height only.
LEMMA HashChainAgree ==
  ASSUME NEW c, NEW d, NEW q, NEW h \in Nat, \A b \in 1..h : c[b] = d[b]
  PROVE  HashChainOf(c, q, h) = HashChainOf(d, q, h)
<1>. DEFINE g1 == [b \in 1..h |-> LastProof(q, c[b])]
            g2 == [b \in 1..h |-> LastProof(q, d[b])]
<1>1. PICK f1 : Joins(f1, g1, h) /\ HashChainOf(c, q, h) = f1[h]
  BY HashChainJoins
<1>2. PICK f2 : Joins(f2, g2, h) /\ HashChainOf(d, q, h) = f2[h]
  BY HashChainJoins
<1>3. \A b \in 1..h : g1[b] = g2[b]
  OBVIOUS
<1>. HIDE DEF g1, g2
<1>4. f1[h] = f2[h]
  BY <1>1, <1>2, <1>3, JoinsAgree
<1>. QED
  BY <1>1, <1>2, <1>4

\* A block adds the last proof of the restaurant in it.
LEMMA HashChainStep ==
  ASSUME NEW c, NEW q, NEW h \in Nat
  PROVE  HashChainOf(c, q, h + 1) = HashChainOf(c, q, h) \o LastProof(q, c[h + 1])
<1>. DEFINE g1 == [b \in 1..h |-> LastProof(q, c[b])]
            g2 == [b \in 1..(h + 1) |-> LastProof(q, c[b])]
<1>1. PICK f1 : Joins(f1, g1, h) /\ HashChainOf(c, q, h) = f1[h]
  BY HashChainJoins
<1>2. PICK f2 : Joins(f2, g2, h + 1) /\ HashChainOf(c, q, h + 1) = f2[h + 1]
  BY HashChainJoins
<1>3. \A b \in 1..h : g1[b] = g2[b]
  OBVIOUS
<1>4. g2[h + 1] = LastProof(q, c[h + 1])
  OBVIOUS
<1>. HIDE DEF g1, g2
<1>5. f1[h] = f2[h]
  <2>1. PICK k \in Nat : k = h + 1 /\ h <= k /\ h <= h
    OBVIOUS
  <2>2. Joins(f1, g1, h) /\ Joins(f2, g2, k)
    BY <1>1, <1>2, <2>1
  <2>3. \A i \in Nat : i <= h /\ i <= k /\ (\A b \in 1..i : g1[b] = g2[b]) => f1[i] = f2[i]
    BY <2>2, JoinsAgree
  <2>. QED
    BY <1>3, <2>1, <2>3
<1>6. f2[h + 1] = f2[h] \o g2[h + 1]
  <2>1. h + 1 \in 0..(h + 1) /\ h + 1 # 0 /\ (h + 1) - 1 = h
    OBVIOUS
  <2>. QED
    BY <1>2, <2>1 DEF Joins
<1>. QED
  BY <1>1, <1>2, <1>4, <1>5, <1>6

\* What a whole block leaves behind s is the last proof in it.
LEMMA ExtendedIs ==
  ASSUME NEW block \in Seq(Order), NEW q, NEW s \in Seq(Proof), NEW t,
         Extended(block, Len(block), q, s, t)
  PROVE  /\ t = s \o LastProof(q, block)
         /\ LastProof(q, block) \in Seq(Proof) /\ Len(LastProof(q, block)) \in 0..1
<1>. DEFINE own == {i \in DOMAIN block : block[i].node = q}
<1>1. DOMAIN block = 1..Len(block) /\ Len(block) \in Nat
  OBVIOUS
<1>2. CASE own = {}
  <2>1. t = s /\ LastProof(q, block) = <<>>
    BY <1>1, <1>2 DEF Extended, LastProof
  <2>. QED
    BY <2>1
<1>3. CASE own # {}
  <2>1. PICK i \in 1..Len(block) :
          /\ block[i].node = q
          /\ \A j \in (i + 1)..Len(block) : block[j].node # q
          /\ t = Append(s, block[i].proof)
    BY <1>1, <1>3 DEF Extended
  <2>2. i \in own /\ \A j \in own : j <= i
    BY <1>1, <2>1
  <2>3. (CHOOSE k \in own : \A j \in own : j <= k) = i
    <3>1. \A k \in own : (\A j \in own : j <= k) => k = i
      BY <1>1, <2>2
    <3>. HIDE DEF own
    <3>. QED
      BY <2>2, <3>1
  <2>4. LastProof(q, block) = <<block[i].proof>>
    BY <1>3, <2>3 DEF LastProof
  <2>5. block[i].proof \in Proof
    <3>1. block[i] \in OrderType
      BY <1>1, ConstantsAssumption
    <3>. QED
      BY <3>1 DEF OrderType
  <2>6. Append(s, block[i].proof) = s \o <<block[i].proof>>
    BY <2>5
  <2>. QED
    BY <2>1, <2>4, <2>5, <2>6
<1>. QED
  BY <1>2, <1>3

\* What is put behind both sequences keeps the one at the end of the other.
LEMMA EndsWithBoth ==
  ASSUME NEW S, NEW s \in Seq(S), NEW t \in Seq(S), NEW u \in Seq(S), EndsWith(s, t)
  PROVE  EndsWith(s \o u, t \o u)
<1>1. Len(t) <= Len(s) /\ SubSeq(s, Len(s) - Len(t) + 1, Len(s)) = t
  BY DEF EndsWith
<1>2. PICK m \in Nat : m = Len(s) - Len(t)
  <2>1. Len(s) \in Nat /\ Len(t) \in Nat
    OBVIOUS
  <2>. QED
    BY <1>1, <2>1
<1>3. \A i \in 1..Len(t) : s[m + i] = t[i]
  <2>1. Len(t) = Len(s) - m /\ m + 1 \in 1..(Len(s) + 1)
    BY <1>1, <1>2
  <2>2. SubSeq(s, m + 1, Len(s)) = t
    BY <1>1, <1>2
  <2>. QED
    BY <2>1, <2>2
<1>4. s \o u \in Seq(S) /\ t \o u \in Seq(S)
  OBVIOUS
<1>5. Len(s \o u) = Len(s) + Len(u) /\ Len(t \o u) = Len(t) + Len(u)
  OBVIOUS
<1>6. Len(s \o u) - Len(t \o u) + 1 = m + 1 /\ Len(t \o u) <= Len(s \o u)
  BY <1>1, <1>2, <1>5
<1>7. \A i \in 1..Len(t \o u) : (s \o u)[m + i] = (t \o u)[i]
  <2>. SUFFICES ASSUME NEW i \in 1..Len(t \o u)
                PROVE  (s \o u)[m + i] = (t \o u)[i]
    OBVIOUS
  <2>1. CASE i <= Len(t)
    <3>1. i \in 1..Len(t) /\ m + i \in 1..Len(s)
      BY <1>1, <1>2, <2>1
    <3>. QED
      BY <1>3, <3>1
  <2>2. CASE i > Len(t)
    <3>1. i - Len(t) \in 1..Len(u) /\ (m + i) - Len(s) = i - Len(t)
      BY <1>1, <1>2, <1>5, <2>2
    <3>2. (t \o u)[i] = u[i - Len(t)]
      BY <1>5, <2>2, <3>1
    <3>3. (s \o u)[m + i] = u[(m + i) - Len(s)]
      BY <1>1, <1>2, <1>5, <2>2, <3>1
    <3>. QED
      BY <3>1, <3>2, <3>3
  <2>3. i <= Len(t) \/ i > Len(t)
    BY <1>5
  <2>. QED
    BY <2>1, <2>2, <2>3
<1>8. SubSeq(s \o u, m + 1, Len(s \o u)) = t \o u
  <2>. DEFINE v == s \o u
              w == t \o u
  <2>1. v \in Seq(S) /\ w \in Seq(S) /\ Len(v) = m + Len(w)
    BY <1>1, <1>2, <1>4, <1>5
  <2>2. \A i \in 1..Len(w) : v[m + i] = w[i]
    BY <1>7
  <2>. HIDE DEF v, w
  <2>3. SubSeq(v, m + 1, Len(v)) = w
    BY <2>1, <2>2
  <2>. QED
    BY <2>3 DEF v, w
<1>. QED
  BY <1>6, <1>8 DEF EndsWith

LEMMA EndsWithNothing ==
  ASSUME NEW S, NEW s \in Seq(S)
  PROVE  EndsWith(s, <<>>)
<1>1. Len(s) - Len(<<>>) + 1 = Len(s) + 1 /\ Len(<<>>) <= Len(s)
  OBVIOUS
<1>2. SubSeq(s, Len(s) + 1, Len(s)) = <<>>
  OBVIOUS
<1>. QED
  BY <1>1, <1>2 DEF EndsWith
\* A replica that a step does not touch.
LEMMA OrdersKept ==
  ASSUME IInv, NEW r \in Node, OrdersOf(r),
         \A b \in 1..Len(chain) : chain'[b] = chain[b],
         height'[r] = height[r], pos'[r] = pos[r], stage'[r] = stage[r],
         crashes'[r] = crashes[r], db'[r] = db[r], txn'[r] = txn[r]
  PROVE  OrdersOf(r)'
<1>1. /\ height[r] \in Nat /\ Len(chain) \in Nat /\ height[r] <= Len(chain)
      /\ stage[r] # "idle" => height[r] + 1 <= Len(chain)
  BY Bounds DEF IInv, Progress, InStep
<1>2. stage[r] # "idle" => Block(r)' = Block(r)
  BY <1>1 DEF Block
<1>3. \A q : HashChain(q, height[r])' = HashChain(q, height[r])
  <2>1. \A b \in 1..height[r] : chain'[b] = chain[b]
    BY <1>1
  <2>2. \A q : HashChainOf(chain', q, height[r]) = HashChainOf(chain, q, height[r])
    BY <1>1, <2>1, HashChainAgree
  <2>. QED
    BY <2>2, HashChainNow, HashChainNext
<1>. QED
  BY <1>2, <1>3 DEF OrdersOf

\* Going down leaves any order store behind, and the height is 0.
LEMMA OrdersGoDown ==
  ASSUME IInv, NEW r \in Node, NEW left \in Stores, GoDown(r, left)
  PROVE  OrdersOf(r)'
<1>1. height'[r] = 0 /\ stage'[r] = "idle" /\ crashes'[r] # 0 /\ db'[r] = left
  BY DEF GoDown, IInv, TypeOK
<1>2. \A q : HashChain(q, height[r])' = <<>>
  BY <1>1, HashChainZero, HashChainNext
<1>3. \A q \in Node : EndsWith(left.orders[q], <<>>)
  <2>1. \A q \in Node : left.orders[q] \in Seq(Proof)
    BY DEF Stores
  <2>. QED
    BY <2>1, EndsWithNothing
<1>4. <<>> \in Seq(Proof)
  OBVIOUS
<1>. QED
  BY <1>1, <1>2, <1>3, <1>4 DEF OrdersOf

\* A delivered order puts its proof behind what the store has.
LEMMA OrdersDeliver ==
  ASSUME IInv, NEW r \in Node, OrdersOf(r), DeliverTx(r), ~ GoDown(r, db[r])
  PROVE  OrdersOf(r)'
<1>. DEFINE o == Block(r)[pos[r] + 1]
<1>1. stage[r] = "deliver" /\ pos[r] < Len(Block(r)) /\ pos[r] \in Nat
  BY Bounds DEF DeliverTx, IInv
<1>2. Approved(db[r].registers, o) /\ ~ Panics(db[r].registers, o)
  BY <1>1, NextApproved, ApprovedNoPanic DEF DecidedOrdersApproved
<1>. HIDE DEF o
<1>3. /\ pos' = [pos EXCEPT ![r] = pos[r] + 1]
      /\ txn' = [txn EXCEPT ![r] = WithApproved(txn[r], db[r].orders, o)]
      /\ UNCHANGED <<tmVars, height, stage, appHash, db>>
  BY <1>2 DEF DeliverTx, o
<1>4. /\ pos'[r] = pos[r] + 1
      /\ txn'[r].orders = WithOrder(txn[r].orders, db[r].orders, o)
      /\ Block(r)' = Block(r) /\ \A q : HashChain(q, height[r])' = HashChain(q, height[r])
  BY <1>3 DEF IInv, TypeOK, WithApproved, tmVars, Block, HashChain
<1>5. ASSUME NEW q \in Node
      PROVE  Extended(Block(r), pos[r] + 1, q, db[r].orders[q], txn'[r].orders[q])
  <2>1. Extended(Block(r), pos[r], q, db[r].orders[q], txn[r].orders[q])
    BY <1>1 DEF OrdersOf
  <2>2. txn[r].orders \in [Node -> Seq(Proof)]
    BY DEF IInv, TypeOK, Stores
  <2>3. CASE o.node = q
    <3>1. txn'[r].orders[q] = Append(db[r].orders[q], o.proof)
      BY <1>4, <2>2, <2>3 DEF WithOrder, PreviousHash
    <3>2. pos[r] + 1 \in 1..(pos[r] + 1) /\ ((pos[r] + 1) + 1)..(pos[r] + 1) = {}
      BY <1>1
    <3>. QED
      BY <2>3, <3>1, <3>2 DEF Extended, o
  <2>4. CASE o.node # q
    <3>1. txn'[r].orders[q] = txn[r].orders[q]
      BY <1>4, <2>2, <2>4 DEF WithOrder
    <3>2. \A i \in 1..(pos[r] + 1) : i \in 1..pos[r] \/ i = pos[r] + 1
      BY <1>1
    <3>3. \A i \in 1..pos[r] : \A j \in (i + 1)..(pos[r] + 1) :
            j \in (i + 1)..pos[r] \/ j = pos[r] + 1
      BY <1>1
    <3>4. 1..pos[r] \subseteq 1..(pos[r] + 1)
      BY <1>1
    <3>5. Block(r)[pos[r] + 1].node # q
      BY <2>4 DEF o
    <3>. QED
      BY <2>1, <3>1, <3>2, <3>3, <3>4, <3>5 DEF Extended
  <2>. QED
    BY <2>3, <2>4
<1>. QED
  BY <1>3, <1>4, <1>5 DEF OrdersOf, tmVars

\* A commit puts the last proof of the block behind both.
LEMMA OrdersCommit ==
  ASSUME IInv, NEW r \in Node, OrdersOf(r), Commit(r)
  PROVE  OrdersOf(r)'
<1>1. /\ stage[r] = "ended" /\ height[r] \in Nat /\ height[r] < Len(chain)
      /\ pos[r] = Len(Block(r)) /\ Block(r) \in Seq(Order)
  <2>1. stage[r] = "ended" /\ height[r] \in Nat /\ height[r] < Len(chain)
    BY Bounds DEF Commit, IInv, Progress, InStep
  <2>. QED
    BY <2>1, BlockType DEF IInv, Progress, InStep
<1>2. /\ height'[r] = height[r] + 1 /\ stage'[r] = "idle" /\ db'[r] = txn[r]
      /\ crashes'[r] = crashes[r] /\ chain' = chain
  BY DEF Commit, IInv, TypeOK
<1>3. ASSUME NEW q \in Node
      PROVE  /\ HashChain(q, height[r])' \in Seq(Proof)
             /\ EndsWith(txn[r].orders[q], HashChain(q, height[r])')
             /\ crashes[r] = 0 => txn[r].orders[q] = HashChain(q, height[r])'
  <2>. DEFINE s == db[r].orders[q]
              t == HashChain(q, height[r])
              u == LastProof(q, Block(r))
  <2>1. HashChain(q, height[r])' = t \o u
    <3>1. HashChainOf(chain, q, height[r] + 1)
            = HashChainOf(chain, q, height[r]) \o LastProof(q, chain[height[r] + 1])
      BY <1>1, HashChainStep
    <3>. QED
      BY <1>2, <3>1, HashChainNow, HashChainNext DEF Block
  <2>2. s \in Seq(Proof)
    BY DEF IInv, TypeOK, Stores
  <2>3. Extended(Block(r), Len(Block(r)), q, s, txn[r].orders[q])
    BY <1>1 DEF OrdersOf
  <2>4. txn[r].orders[q] = s \o u /\ u \in Seq(Proof)
    BY <1>1, <2>2, <2>3, ExtendedIs
  <2>5. EndsWith(s, t) /\ (crashes[r] = 0 => s = t)
    BY DEF OrdersOf
  <2>6. t \in Seq(Proof)
    BY DEF OrdersOf
  <2>. HIDE DEF s, t, u
  <2>7. EndsWith(s \o u, t \o u)
    BY <2>2, <2>4, <2>5, <2>6, EndsWithBoth
  <2>. QED
    <3>1. t \o u \in Seq(Proof)
      BY <2>4, <2>6
    <3>2. crashes[r] = 0 => txn[r].orders[q] = t \o u
      BY <2>4, <2>5
    <3>3. EndsWith(txn[r].orders[q], t \o u)
      BY <2>4, <2>7
    <3>. QED
      BY <2>1, <3>1, <3>2, <3>3
<1>. QED
  BY <1>2, <1>3 DEF OrdersOf
-----------------------------------------------------------------------------
(* The lists of idle peers.                                                *)

\* The list is that of an order of the first h blocks, cut right before a peer
\* that these blocks register; k is where it is stored.
ListFrom(list, k, h) ==
  \E p \in Positions(h) :
    LET o == OrderAt(p)
        n == Len(list)
    IN  /\ k = <<o.url, o.mode>>
        /\ n < Len(o.subs)
        /\ list = SubSeq(o.subs, 1, n)
        /\ o.subs[n + 1] \in RegisteredBy(h)

ListsFrom(peers, h) ==
  \A k \in Node \X Mode : peers[k] # NoPeers => ListFrom(peers[k], k, h)

\* How far the blocks go that the store of a replica has lists from.
Reach(r) == IF phase[r] = "live" THEN height[r] ELSE stored[r]

\* The lists of a replica come from the blocks it has stored, those in the
\* store of a live replica from the blocks it has applied.
ListsOf(r) ==
  /\ ListsFrom(db[r].peers, Reach(r))
  /\ stage[r] # "idle" => ListsFrom(txn[r].peers, stored[r])

ListsInv == \A r \in Node : ListsOf(r)

\* More blocks have more lists.
LEMMA ListsMonotone ==
  ASSUME NEW peers, NEW g \in Nat, NEW h \in Nat, g <= h, ListsFrom(peers, g)
  PROVE  ListsFrom(peers, h)
<1>1. RegisteredBy(g) \subseteq RegisteredBy(h)
  BY RegisteredMonotone
<1>2. Positions(g) \subseteq Positions(h)
  <2>1. 1..g \subseteq 1..h
    OBVIOUS
  <2>. QED
    BY <2>1 DEF Positions
<1>. QED
  BY <1>1, <1>2 DEF ListsFrom, ListFrom

\* What the first blocks say stays when there are more.
LEMMA ListsStay ==
  ASSUME NEW peers, NEW h \in Nat, ListsFrom(peers, h),
         \A b \in 1..h : chain'[b] = chain[b]
  PROVE  ListsFrom(peers, h)'
<1>1. Positions(h)' = Positions(h)
  BY DEF Positions
<1>2. \A p \in Positions(h) : OrderAt(p)' = OrderAt(p)
  <2>1. \A p \in Positions(h) : \E b \in 1..h : \E i \in DOMAIN chain[b] : p = <<b, i>>
    BY InPositions
  <2>. QED
    BY <2>1 DEF OrderAt
<1>3. RegisteredBy(h)' = RegisteredBy(h)
  BY <1>1, <1>2 DEF RegisteredBy
<1>. QED
  BY <1>1, <1>2, <1>3 DEF ListsFrom, ListFrom

\* The lists of some blocks are lists of more blocks, after more were decided.
LEMMA ListsCarry ==
  ASSUME NEW peers, NEW g \in Nat, NEW h \in Nat, g <= h, ListsFrom(peers, g),
         \A b \in 1..h : chain'[b] = chain[b]
  PROVE  ListsFrom(peers, h)'
BY ListsMonotone, ListsStay

\* A replica whose store stays as it is, and that goes on to no fewer blocks.
LEMMA ListsKept ==
  ASSUME IInv, NEW r \in Node, ListsOf(r),
         \A b \in 1..Len(chain) : chain'[b] = chain[b],
         Reach(r)' \in Nat, Reach(r) <= Reach(r)', Reach(r)' <= stored'[r],
         stored'[r] \in Nat, stored[r] <= stored'[r], stored'[r] <= Len(chain),
         db'[r] = db[r],
         stage'[r] # "idle"
           => txn'[r] = db[r] \/ (stage[r] # "idle" /\ txn'[r] = txn[r])
  PROVE  ListsOf(r)'
<1>1. PICK g \in Nat, s \in Nat : g = Reach(r) /\ s = stored[r]
  BY Bounds DEF IInv, Reach
<1>2. PICK h \in Nat, t \in Nat : h = Reach(r)' /\ t = stored'[r]
  OBVIOUS
<1>3. /\ g <= h /\ g <= t /\ s <= t
      /\ \A b \in 1..h : chain'[b] = chain[b]
      /\ \A b \in 1..t : chain'[b] = chain[b]
  BY <1>1, <1>2, Bounds DEF IInv
<1>4. PICK peers : peers = db[r].peers
  OBVIOUS
<1>5. PICK open : open = txn[r].peers
  OBVIOUS
<1>6. ListsFrom(peers, h)' /\ ListsFrom(peers, t)'
  <2>1. ListsFrom(peers, g)
    BY <1>1, <1>4 DEF ListsOf, Reach
  <2>. QED
    BY <1>3, <2>1, ListsCarry
<1>7. stage[r] # "idle" => ListsFrom(open, t)'
  <2>1. stage[r] # "idle" => ListsFrom(open, s)
    BY <1>1, <1>5 DEF ListsOf
  <2>. QED
    BY <1>3, <2>1, ListsCarry
<1>8. ListsFrom(db[r].peers, Reach(r))'
  BY <1>2, <1>4, <1>6 DEF ListsFrom
<1>9. stage'[r] # "idle" => ListsFrom(txn[r].peers, stored[r])'
  BY <1>2, <1>4, <1>5, <1>6, <1>7 DEF ListsFrom
<1>. QED
  BY <1>8, <1>9 DEF ListsOf, Reach

\* Going down leaves the lists of the store, or those about to be committed.
LEMMA ListsGoDown ==
  ASSUME IInv, NEW r \in Node, ListsOf(r), NEW left, GoDown(r, left),
         left.peers = db[r].peers \/ (stage[r] # "idle" /\ left.peers = txn[r].peers)
  PROVE  ListsOf(r)'
<1>1. /\ chain' = chain /\ stored'[r] = stored[r] /\ phase'[r] = "down"
      /\ stage'[r] = "idle" /\ db'[r] = left
  BY DEF GoDown, IInv, TypeOK
<1>2. PICK g \in Nat, s \in Nat : g = Reach(r) /\ s = stored[r] /\ g <= s
  BY Bounds DEF IInv, Reach
<1>3. PICK peers : peers = left.peers
  OBVIOUS
<1>4. ListsFrom(peers, s)
  <2>1. CASE peers = db[r].peers
    BY <1>2, <2>1, ListsMonotone DEF ListsOf
  <2>2. CASE stage[r] # "idle" /\ peers = txn[r].peers
    BY <1>2, <2>2 DEF ListsOf
  <2>. QED
    BY <1>3, <2>1, <2>2
<1>5. ListsFrom(peers, s)'
  BY <1>1, <1>4, ListsStay
<1>6. Reach(r)' = s
  BY <1>1, <1>2 DEF Reach
<1>7. ListsFrom(db[r].peers, Reach(r))'
  BY <1>1, <1>3, <1>5, <1>6 DEF ListsFrom
<1>. QED
  BY <1>1, <1>7 DEF ListsOf

\* The list an approved order of a stored block writes is cut before a peer
\* that a stored block registers.
LEMMA NewList ==
  ASSUME IInv, NEW h \in Nat, NEW p \in Positions(h), OrderAt(p) \in Order,
         CheckURL(OrderAt(p)), NEW peers \in [Node \X Mode -> Seq(SubDomain) \cup {NoPeers}],
         NEW regs, regs \subseteq RegisteredBy(h), ListsFrom(peers, h)
  PROVE  ListsFrom(WithIdlePeers(peers, regs, OrderAt(p)), h)
<1>. DEFINE o == OrderAt(p)
            stop == {i \in DOMAIN o.subs : StopsAt(regs, o, i)}
            cut == CHOOSE i \in stop : TRUE
            list == SubSeq(o.subs, 1, cut - 1)
<1>1. o.subs \in Seq(SubDomain) /\ o.url \in Node /\ o.mode \in Mode
  BY ConstantsAssumption DEF OrderType, CheckURL
<1>2. CASE stop = {}
  BY <1>2 DEF WithIdlePeers
<1>3. CASE stop # {}
  <2>1. cut \in stop
    BY <1>3
  <2>2. /\ cut \in 1..Len(o.subs) /\ o.subs[cut] \in regs
    BY <1>1, <2>1 DEF StopsAt
  <2>. HIDE DEF o, stop, cut
  <2>3. /\ cut - 1 \in Nat /\ cut - 1 < Len(o.subs)
        /\ Len(list) = cut - 1 /\ (cut - 1) + 1 = cut
    BY <1>1, <2>2
  <2>4. ListFrom(list, <<o.url, o.mode>>, h)
    <3>1. list = SubSeq(o.subs, 1, Len(list))
      BY <2>3
    <3>2. o.subs[Len(list) + 1] \in RegisteredBy(h)
      BY <2>2, <2>3
    <3>. HIDE DEF list
    <3>. QED
      BY <2>3, <3>1, <3>2 DEF ListFrom, o
  <2>5. WithIdlePeers(peers, regs, o) = [peers EXCEPT ![<<o.url, o.mode>>] = list]
    BY <1>3 DEF WithIdlePeers, stop, cut
  <2>. HIDE DEF list
  <2>6. ASSUME NEW k \in Node \X Mode, WithIdlePeers(peers, regs, o)[k] # NoPeers
        PROVE  ListFrom(WithIdlePeers(peers, regs, o)[k], k, h)
    BY <2>4, <2>5, <2>6 DEF ListsFrom
  <2>. QED
    BY <2>6 DEF ListsFrom, o
<1>. QED
  BY <1>2, <1>3

LEMMA ListsDeliver ==
  ASSUME IInv, NEW r \in Node, ListsOf(r), DeliverTx(r), ~ GoDown(r, db[r])
  PROVE  ListsOf(r)'
<1>. DEFINE o == Block(r)[pos[r] + 1]
            p == <<height[r] + 1, pos[r] + 1>>
<1>1. /\ stage[r] = "deliver" /\ pos[r] < Len(Block(r)) /\ pos[r] \in Nat
      /\ height[r] \in Nat /\ stored[r] \in Nat
      /\ height[r] < stored[r] /\ height[r] < Len(chain)
  BY Bounds DEF DeliverTx, IInv, Progress, InStep
<1>2. pos[r] + 1 \in DOMAIN Block(r) /\ Block(r) \in Seq(Order)
  BY <1>1, BlockType DEF IInv
<1>3. Approved(db[r].registers, o) /\ ~ Panics(db[r].registers, o)
  BY <1>1, NextApproved, ApprovedNoPanic DEF DecidedOrdersApproved
<1>4. OrderAt(p) = o /\ p \in Positions(stored[r]) /\ o \in Order
  <2>1. height[r] + 1 \in 1..stored[r]
    BY <1>1
  <2>. QED
    BY <1>2, <2>1, InPositions, <1>1 DEF OrderAt, Block
<1>. HIDE DEF o, p
<1>5. /\ txn' = [txn EXCEPT ![r] = WithApproved(txn[r], db[r].orders, o)]
      /\ UNCHANGED <<tmVars, height, stage, appHash, db>>
  BY <1>3 DEF DeliverTx, o
<1>. DEFINE regs == txn[r].registers \cup {CreatePeerSubDomain(o.enr)}
<1>6. regs \subseteq RegisteredBy(stored[r])
  <2>1. CreatePeerSubDomain(o.enr) \in RegisteredBy(stored[r])
    BY <1>4 DEF RegisteredBy
  <2>2. RegisteredIn(Block(r), pos[r]) \subseteq RegisteredBy(stored[r])
    <3>1. 1..pos[r] \subseteq DOMAIN Block(r) /\ height[r] + 1 \in 1..stored[r]
      BY <1>1, <1>2, BlockType DEF IInv
    <3>. QED
      BY <1>1, <3>1, InRegistered DEF RegisteredIn, Block
  <2>. QED
    BY <1>1, <2>1, <2>2 DEF IInv, TxnRegisters, RegistersFollowChain
<1>7. txn'[r].peers = WithIdlePeers(txn[r].peers, regs, o)
  BY <1>5 DEF IInv, TypeOK, WithApproved, WithRegisterPeer
<1>. HIDE DEF regs
<1>8. ListsFrom(txn'[r].peers, stored[r])
  <2>1. ListsFrom(txn[r].peers, stored[r])
    BY <1>1 DEF ListsOf
  <2>2. txn[r].peers \in [Node \X Mode -> Seq(SubDomain) \cup {NoPeers}]
    BY DEF IInv, TypeOK, Stores
  <2>3. CheckURL(o)
    BY <1>3 DEF Approved, WellFormed
  <2>. QED
    BY <1>1, <1>4, <1>6, <1>7, <2>1, <2>2, <2>3, NewList
<1>9. /\ chain' = chain /\ stored' = stored /\ phase' = phase /\ height' = height
      /\ db' = db
  BY <1>5 DEF tmVars
<1>a. PICK peers : peers = db[r].peers
  OBVIOUS
<1>b. PICK open : open = txn'[r].peers
  OBVIOUS
<1>10. PICK g \in Nat, s \in Nat : g = Reach(r) /\ s = stored[r]
  BY Bounds DEF IInv, Reach
<1>11. ListsFrom(peers, g)' /\ ListsFrom(open, s)'
  BY <1>a, <1>b, <1>8, <1>9, <1>10, ListsStay DEF ListsOf
<1>12. Reach(r)' = g
  BY <1>9, <1>10 DEF Reach
<1>. QED
  BY <1>a, <1>b, <1>9, <1>10, <1>11, <1>12 DEF ListsOf, ListsFrom

LEMMA ListsCommit ==
  ASSUME IInv, NEW r \in Node, ListsOf(r), Commit(r)
  PROVE  ListsOf(r)'
<1>1. /\ chain' = chain /\ stored' = stored /\ phase' = phase
      /\ stage[r] = "ended" /\ height[r] \in Nat /\ stored[r] \in Nat
      /\ height'[r] = height[r] + 1 /\ stage'[r] = "idle" /\ db'[r] = txn[r]
  BY Bounds DEF Commit, IInv, TypeOK
<1>2. Reach(r)' = stored[r]
  BY <1>1 DEF Reach, IInv, Progress, InStep
<1>a. PICK open : open = txn[r].peers
  OBVIOUS
<1>3. PICK s \in Nat : s = stored[r]
  BY <1>1
<1>4. ListsFrom(open, s)'
  BY <1>a, <1>1, <1>3, ListsStay DEF ListsOf
<1>. QED
  BY <1>a, <1>1, <1>2, <1>3, <1>4 DEF ListsOf, ListsFrom
-----------------------------------------------------------------------------
(* Both, through every step.                                               *)

StoresInv == \A r \in Node : OrdersOf(r) /\ ListsOf(r)

LEMMA InitStores == Init => StoresInv
<1>. SUFFICES ASSUME Init, NEW r \in Node PROVE OrdersOf(r) /\ ListsOf(r)
  BY DEF StoresInv
<1>1. /\ stage[r] = "idle" /\ height[r] = 0 /\ db[r] = EmptyStores
  BY DEF Init
<1>2. ASSUME NEW q \in Node
      PROVE  /\ HashChain(q, height[r]) = <<>> /\ db[r].orders[q] = <<>>
             /\ EndsWith(<<>>, <<>>)
  <2>1. HashChain(q, height[r]) = <<>>
    BY <1>1, HashChainZero, HashChainNow
  <2>2. EndsWith(<<>>, <<>>)
    <3>1. <<>> \in Seq(Proof)
      OBVIOUS
    <3>. QED
      BY <3>1, EndsWithNothing
  <2>3. db[r].orders[q] = <<>>
    BY <1>1 DEF EmptyStores
  <2>. QED
    BY <2>1, <2>2, <2>3
<1>3. OrdersOf(r)
  <2>1. <<>> \in Seq(Proof)
    OBVIOUS
  <2>. QED
    BY <1>1, <1>2, <2>1 DEF OrdersOf
<1>4. ListsOf(r)
  BY <1>1 DEF ListsOf, ListsFrom, EmptyStores
<1>. QED
  BY <1>3, <1>4

\* A step keeps what is said of the stores.
LEMMA NextStores ==
  ASSUME IInv, StoresInv, [Next]_vars
  PROVE  StoresInv'
<1>. DEFINE Ok(r) == OrdersOf(r) /\ ListsOf(r)
<1>a. chain \in Seq(Seq(Order)) /\ IInv'
  BY NextIInv DEF IInv, TypeOK
<1>b. \A q \in Node :
        /\ height[q] \in Nat /\ stored[q] \in Nat /\ height[q] <= stored[q]
        /\ stored[q] <= Len(chain) /\ Len(chain) \in Nat
  BY Bounds DEF IInv
<1>c. \A q \in Node : Reach(q) \in Nat /\ Reach(q) <= stored[q]
  BY <1>b DEF Reach
\* A replica the step does not touch, or takes from one phase to the next.
<1>1. ASSUME NEW q \in Node, \A b \in 1..Len(chain) : chain'[b] = chain[b],
             height'[q] = height[q], pos'[q] = pos[q], stage'[q] = stage[q],
             crashes'[q] = crashes[q], db'[q] = db[q], txn'[q] = txn[q],
             stored'[q] = stored[q],
             phase'[q] = "live" /\ phase[q] # "live" => height[q] = stored[q],
             phase[q] = "live" => phase'[q] = "live"
      PROVE  Ok(q)'
  <2>1. OrdersOf(q)'
    BY <1>1, OrdersKept DEF StoresInv
  <2>2. Reach(q)' = Reach(q)
    BY <1>1 DEF Reach
  <2>3. ListsOf(q)'
    BY <1>1, <1>b, <1>c, <2>2, ListsKept DEF StoresInv
  <2>. QED
    BY <2>1, <2>3
<1>2. ASSUME NEW r \in Node, NEW left \in Stores, GoDown(r, left),
             left.peers = db[r].peers \/ (stage[r] # "idle" /\ left.peers = txn[r].peers),
             NEW q \in Node
      PROVE  Ok(q)'
  <2>1. CASE q = r
    BY <1>2, <2>1, OrdersGoDown, ListsGoDown DEF StoresInv
  <2>2. CASE q # r
    <3>1. /\ chain' = chain /\ height'[q] = height[q] /\ pos'[q] = pos[q]
          /\ stage'[q] = stage[q] /\ crashes'[q] = crashes[q] /\ db'[q] = db[q]
          /\ txn'[q] = txn[q] /\ stored'[q] = stored[q] /\ phase'[q] = phase[q]
      BY <1>2, <2>2 DEF GoDown, IInv, TypeOK
    <3>. QED
      BY <1>1, <3>1
  <2>. QED
    BY <2>1, <2>2
<1>. HIDE DEF Ok
<1>3. ASSUME NEW q \in Node, UNCHANGED <<chain, phase, stored, crashes, appVars>>
      PROVE  Ok(q)'
  BY <1>1, <1>3 DEF appVars
<1>4. ASSUME NEW r \in Node, NEW o \in Order, CheckTx(r, o), NEW q \in Node
      PROVE  Ok(q)'
  <2>1. db[r] \in Stores
    BY DEF IInv, TypeOK
  <2>. QED
    BY <1>2, <1>3, <1>4, <2>1 DEF CheckTx
<1>5. ASSUME NEW r \in Node, NEW blk \in Blocks(mempool[r]), Propose(r, blk), NEW q \in Node
      PROVE  Ok(q)'
  <2>1. /\ chain' = Append(chain, blk)
        /\ UNCHANGED <<phase, stored, mempool, cache, crashes, appVars>>
    BY <1>5 DEF Propose
  <2>2. \A b \in 1..Len(chain) : chain'[b] = chain[b]
    BY <1>a, <2>1
  <2>. QED
    BY <1>1, <2>1, <2>2 DEF appVars
<1>6. ASSUME NEW r \in Node, Start(r) \/ GoLive(r), NEW q \in Node
      PROVE  Ok(q)'
  <2>1. /\ UNCHANGED <<chain, stored, mempool, cache, crashes, appVars>>
        /\ phase'[q] = "live" /\ phase[q] # "live" => height[q] = stored[q]
        /\ phase[q] = "live" => phase'[q] = "live"
    BY <1>6 DEF Start, GoLive, IInv, TypeOK
  <2>. QED
    BY <1>1, <2>1 DEF appVars
<1>7. ASSUME NEW r \in Node, BeginBlock(r), NEW q \in Node
      PROVE  Ok(q)'
  <2>1. /\ chain' = chain /\ phase' = phase /\ UNCHANGED <<crashes, height, db>>
        /\ pos[r] = 0 /\ pos'[r] = 0 /\ txn'[r] = db[r]
        /\ q # r => /\ pos'[q] = pos[q] /\ stage'[q] = stage[q] /\ txn'[q] = txn[q]
                    /\ stored'[q] = stored[q]
    BY <1>7 DEF BeginBlock, IInv, TypeOK, Progress, InStep
  <2>2. CASE q # r
    BY <1>1, <2>1, <2>2
  <2>3. CASE q = r
    <3>1. /\ stored'[r] \in Nat /\ stored[r] <= stored'[r] /\ stored'[r] <= Len(chain)
          /\ height[r] <= stored'[r]
      <4>1. phase[r] = "live" => stored[r] = height[r]
        BY <1>7 DEF BeginBlock, IInv, Progress, InStep
      <4>2. stored'[r] = stored[r] \/ (stored'[r] = height[r] + 1 /\ height[r] < Len(chain)
                                         /\ phase[r] = "live")
        BY <1>7 DEF BeginBlock, IInv, TypeOK
      <4>. QED
        BY <1>b, <4>1, <4>2
    <3>2. Reach(r)' \in Nat /\ Reach(r) <= Reach(r)' /\ Reach(r)' <= stored'[r]
      BY <1>b, <2>1, <3>1 DEF Reach
    <3>3. ListsOf(r)'
      BY <2>1, <3>1, <3>2, ListsKept DEF StoresInv
    <3>4. OrdersOf(r)'
      <4>1. \A s \in Node : HashChain(s, height[r])' = HashChain(s, height[r])
        BY <2>1 DEF HashChain
      <4>2. \A i \in 1..0 : FALSE
        OBVIOUS
      <4>3. \A s \in Node : Extended(Block(r), pos[r], s, db[r].orders[s], txn[r].orders[s])'
        BY <2>1, <4>2 DEF Extended
      <4>. QED
        BY <2>1, <4>1, <4>3 DEF StoresInv, OrdersOf
    <3>. QED
      BY <2>3, <3>3, <3>4 DEF Ok
  <2>. QED
    BY <2>2, <2>3
<1>8. ASSUME NEW r \in Node, DeliverTx(r), NEW q \in Node
      PROVE  Ok(q)'
  <2>1. CASE GoDown(r, db[r])
    BY <1>2, <2>1 DEF IInv, TypeOK
  <2>2. CASE ~ GoDown(r, db[r])
    <3>1. q = r => Ok(q)'
      BY <1>8, <2>2, OrdersDeliver, ListsDeliver DEF StoresInv, Ok
    <3>2. q # r => /\ UNCHANGED <<tmVars, height, stage, db>>
                   /\ pos'[q] = pos[q] /\ txn'[q] = txn[q]
      BY <1>8, <2>2 DEF DeliverTx, IInv, TypeOK
    <3>3. q # r => Ok(q)'
      BY <1>1, <3>2 DEF tmVars
    <3>. QED
      BY <3>1, <3>3
  <2>. QED
    BY <2>1, <2>2
<1>9. ASSUME NEW r \in Node, EndBlock(r), NEW q \in Node
      PROVE  Ok(q)'
  <2>1. /\ UNCHANGED <<tmVars, height, pos, db, txn>>
        /\ stage[r] # "idle" /\ (q # r => stage'[q] = stage[q])
    BY <1>9 DEF EndBlock, IInv, TypeOK
  <2>2. q # r => Ok(q)'
    BY <1>1, <2>1 DEF tmVars
  <2>3. OrdersOf(r)'
    <3>1. /\ Block(r)' = Block(r)
          /\ \A s \in Node : HashChain(s, height[r])' = HashChain(s, height[r])
      BY <2>1 DEF Block, HashChain, tmVars
    <3>. QED
      BY <2>1, <3>1 DEF StoresInv, OrdersOf, tmVars
  <2>4. ListsOf(r)'
    BY <1>b, <1>c, <2>1, ListsKept DEF StoresInv, Reach, tmVars
  <2>. QED
    BY <2>2, <2>3, <2>4 DEF Ok
<1>10. ASSUME NEW r \in Node, Commit(r), NEW q \in Node
       PROVE  Ok(q)'
  <2>1. q = r => Ok(q)'
    BY <1>10, OrdersCommit, ListsCommit DEF StoresInv, Ok
  <2>2. q # r => /\ UNCHANGED <<chain, phase, stored, crashes, txn>>
                 /\ height'[q] = height[q] /\ pos'[q] = pos[q] /\ stage'[q] = stage[q]
                 /\ db'[q] = db[q]
    BY <1>10 DEF Commit, IInv, TypeOK
  <2>3. q # r => Ok(q)'
    BY <1>1, <2>2
  <2>. QED
    BY <2>1, <2>3
<1>11. ASSUME NEW r \in Node, CommitCut(r), NEW q \in Node
       PROVE  Ok(q)'
  <2>1. db[r] \in Stores /\ txn[r] \in Stores /\ stage[r] # "idle"
    BY <1>11 DEF CommitCut, IInv, TypeOK
  <2>2. ASSUME NEW left \in Stores, GoDown(r, left),
               left.peers = db[r].peers \/ left.peers = txn[r].peers
        PROVE  Ok(q)'
    BY <1>2, <2>1, <2>2
  <2>3. /\ [db[r] EXCEPT !.orders = txn[r].orders] \in Stores
        /\ [txn[r] EXCEPT !.registers = db[r].registers] \in Stores
        /\ StoppedStores(r) \in Stores
    BY <2>1 DEF Stores, StoppedStores
  <2>4. /\ [db[r] EXCEPT !.orders = txn[r].orders].peers = db[r].peers
        /\ [txn[r] EXCEPT !.registers = db[r].registers].peers = txn[r].peers
        /\ StoppedStores(r).peers = txn[r].peers
    BY <2>1 DEF Stores, StoppedStores
  <2>. QED
    BY <1>11, <2>2, <2>3, <2>4 DEF CommitCut
<1>. SUFFICES ASSUME NEW q \in Node PROVE Ok(q)'
  BY DEF StoresInv, Ok
<1>12. CASE UNCHANGED vars
  BY <1>1, <1>12 DEF vars, tmVars, appVars
<1>13. CASE Next
  <2>1. ASSUME NEW o \in Order, SendOrder(o) PROVE Ok(q)'
    BY <1>4, <2>1, ConstantsAssumption DEF SendOrder, OrderType
  <2>2. ASSUME NEW r \in Node, Crash(r) PROVE Ok(q)'
    BY <1>2, <2>2 DEF Crash, IInv, TypeOK
  <2>3. ASSUME NEW r \in Node, Step(r) PROVE Ok(q)'
    BY <1>6, <1>7, <1>8, <1>9, <1>10, <2>3 DEF Step
  <2>. QED
    BY <1>4, <1>5, <1>11, <1>13, <2>1, <2>2, <2>3 DEF Next, Gossip
<1>. QED
  BY <1>12, <1>13

\* What every replica keeps besides the registers follows the chain: its order
\* hashes end with what the blocks it replayed fold into them, and every list
\* of idle peers is that of a decided order, cut before a registered peer.
THEOREM StoresCorrect == Spec => []StoresFollowChain
<1>1. IInv /\ StoresInv => StoresFollowChain
  <2>. SUFFICES ASSUME IInv, StoresInv PROVE StoresFollowChain
    OBVIOUS
  <2>1. OrderHashFollowsChain
    BY DEF StoresInv, OrdersOf, OrderHashFollowsChain
  <2>2. ASSUME NEW r \in Node, NEW k \in Node \X Mode,
               phase[r] = "live", db[r].peers[k] # NoPeers
        PROVE  ListFrom(db[r].peers[k], k, height[r])
    BY <2>2 DEF StoresInv, ListsOf, ListsFrom, Reach
  <2>3. \A r \in Node : phase[r] = "live" => db[r].registers = RegisteredBy(height[r])
    BY DEF IInv, RegistersFollowChain
  <2>4. IdleListEndsAtRegistered
    BY <2>2, <2>3 DEF IdleListEndsAtRegistered, ListFrom
  <2>. QED
    BY <2>1, <2>4 DEF StoresFollowChain
<1>. QED
  BY <1>1, InitStores, NextStores, Invariance, PTL DEF Spec
=============================================================================
