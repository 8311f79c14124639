----------------------------- MODULE DataProofs -----------------------------
(***************************************************************************)
(* What the proofs of the components need to know of numbers and of finite *)
(* sets listed in an order.                                                *)
(***************************************************************************)
EXTENDS Ordering, FiniteSetTheorems, TLAPS

\* Induction over the natural numbers, for a set instead of a predicate: a
\* number that S lacks would have below it a finite part of S that the
\* successor maps into itself without reaching 0.
LEMMA NatSetInduction ==
  ASSUME NEW S, 0 \in S, \A n \in Nat : n \in S => n + 1 \in S
  PROVE  Nat \subseteq S
<1>. SUFFICES ASSUME NEW m \in Nat, m \notin S PROVE FALSE
  OBVIOUS
<1>. DEFINE T == {n \in 0..m : n \in S}
            f == [n \in T |-> n + 1]
<1>1. IsFiniteSet(T) /\ Cardinality(T) \in Nat
  <2>1. IsFiniteSet(0..m)
    BY FS_Interval
  <2>2. T \in SUBSET (0..m)
    OBVIOUS
  <2>3. IsFiniteSet(T)
    BY <2>1, <2>2, FS_Subset
  <2>. QED
    BY <2>3, FS_CardinalityType
<1>2. 0 \in T
  OBVIOUS
<1>3. IsFiniteSet(T \ {0}) /\ Cardinality(T \ {0}) < Cardinality(T)
  <2>. HIDE DEF T
  <2>1. IsFiniteSet(T \ {0}) /\ Cardinality(T \ {0}) = Cardinality(T) - 1
    BY <1>1, <1>2, FS_RemoveElement
  <2>. QED
    BY <1>1, <2>1
<1>4. f \in [T -> T \ {0}]
  <2>1. ASSUME NEW n \in T PROVE n + 1 \in T \ {0}
    <3>1. n \in Nat /\ n <= m /\ n \in S /\ n # m
      OBVIOUS
    <3>2. n + 1 \in S /\ n + 1 \in 0..m /\ n + 1 # 0
      BY <3>1
    <3>. QED
      BY <3>2
  <2>. QED
    BY <2>1
<1>5. PICK x \in T, y \in T : x # y /\ f[x] = f[y]
  <2>. HIDE DEF T, f
  <2>. QED
    BY <1>1, <1>3, <1>4, FS_PigeonHole
<1>. QED
  BY <1>5
-----------------------------------------------------------------------------
\* R orders the members of S, strictly.
Orders(R, S) ==
  /\ \A e \in S : <<e, e>> \notin R
  /\ \A e, f, g \in S : <<e, f>> \in R /\ <<f, g>> \in R => <<e, g>> \in R
  /\ \A e, f \in S : e = f \/ <<e, f>> \in R \/ <<f, e>> \in R

\* Two members of an ordered set have different ranks, below its size.
LEMMA RankProperties ==
  ASSUME NEW S, IsFiniteSet(S), NEW R, Orders(R, S)
  PROVE  /\ \A e \in S : Rank(S, R, e) \in 0..(Cardinality(S) - 1)
         /\ \A e, f \in S : <<e, f>> \in R => Rank(S, R, e) < Rank(S, R, f)
         /\ \A e, f \in S : Rank(S, R, e) = Rank(S, R, f) => e = f
<1>. DEFINE Before(e) == {f \in S : <<f, e>> \in R}
<1>1. \A e \in S : IsFiniteSet(Before(e)) /\ Cardinality(Before(e)) \in Nat
  <2>. SUFFICES ASSUME NEW e \in S
                PROVE  IsFiniteSet(Before(e)) /\ Cardinality(Before(e)) \in Nat
    OBVIOUS
  <2>1. Before(e) \in SUBSET S
    OBVIOUS
  <2>2. IsFiniteSet(Before(e))
    BY <2>1, FS_Subset
  <2>. QED
    BY <2>2, FS_CardinalityType
\* A part of a finite set that lacks a member is smaller.
<1>2. ASSUME NEW T, NEW U, IsFiniteSet(U), T \subseteq U, NEW x \in U, x \notin T
      PROVE  Cardinality(T) < Cardinality(U)
  <2>1. /\ Cardinality(T) <= Cardinality(U)
        /\ Cardinality(T) # Cardinality(U)
        /\ IsFiniteSet(T)
    BY <1>2, FS_Subset
  <2>2. Cardinality(T) \in Nat /\ Cardinality(U) \in Nat
    BY <1>2, <2>1, FS_CardinalityType
  <2>. QED
    BY <2>1, <2>2
<1>3. ASSUME NEW e \in S PROVE Rank(S, R, e) \in 0..(Cardinality(S) - 1)
  <2>1. Before(e) \subseteq S /\ e \notin Before(e)
    BY DEF Orders
  <2>2. Cardinality(Before(e)) < Cardinality(S)
    BY <1>2, <2>1
  <2>3. Cardinality(S) \in Nat
    BY FS_CardinalityType
  <2>. QED
    BY <1>1, <2>2, <2>3 DEF Rank
<1>4. ASSUME NEW e \in S, NEW f \in S, <<e, f>> \in R
      PROVE  Rank(S, R, e) < Rank(S, R, f)
  <2>1. Before(e) \subseteq Before(f) /\ e \in Before(f) /\ e \notin Before(e)
    BY <1>4 DEF Orders
  <2>2. IsFiniteSet(Before(f))
    BY <1>1
  <2>3. Cardinality(Before(e)) < Cardinality(Before(f))
    BY <1>2, <2>1, <2>2
  <2>. QED
    BY <2>3 DEF Rank
<1>5. ASSUME NEW e \in S, NEW f \in S, Rank(S, R, e) = Rank(S, R, f)
      PROVE  e = f
  <2>1. Rank(S, R, e) \in Int
    BY <1>3, FS_CardinalityType
  <2>2. <<e, f>> \notin R /\ <<f, e>> \notin R
    BY <1>4, <1>5, <2>1
  <2>. QED
    BY <2>2 DEF Orders
<1>. QED
  BY <1>3, <1>4, <1>5

\* The list of an ordered finite set has each member once, where its rank says.
LEMMA ListedProperties ==
  ASSUME NEW S, IsFiniteSet(S), NEW R, Orders(R, S)
  PROVE  /\ Cardinality(S) \in Nat
         /\ DOMAIN Listed(S, R) = 1..Cardinality(S)
         /\ \A i \in 1..Cardinality(S) :
              Listed(S, R)[i] \in S /\ Rank(S, R, Listed(S, R)[i]) = i - 1
         /\ \A e \in S : /\ Rank(S, R, e) + 1 \in 1..Cardinality(S)
                         /\ Listed(S, R)[Rank(S, R, e) + 1] = e
<1>. DEFINE n == Cardinality(S)
            at == [e \in S |-> Rank(S, R, e) + 1]
<1>1. n \in Nat
  BY FS_CardinalityType
<1>. HIDE DEF n
<1>2. \A e \in S : Rank(S, R, e) \in 0..(n - 1)
  BY RankProperties DEF n
<1>3. at \in [S -> 1..n] /\ \A e, f \in S : at[e] = at[f] => e = f
  <2>1. \A e \in S : Rank(S, R, e) + 1 \in 1..n
    BY <1>1, <1>2
  <2>2. ASSUME NEW e \in S, NEW f \in S, at[e] = at[f] PROVE e = f
    <3>1. Rank(S, R, e) = Rank(S, R, f)
      BY <1>1, <1>2, <2>2
    <3>. QED
      BY <3>1, RankProperties
  <2>. QED
    BY <2>1, <2>2
<1>4. IsFiniteSet(1..n) /\ Cardinality(1..n) = n
  BY <1>1, FS_Interval
<1>5. \A i \in 1..n : \E e \in S : at[e] = i
  <2>. HIDE DEF at
  <2>1. at \in Injection(S, 1..n)
    BY <1>3 DEF Injection, IsInjective
  <2>2. at \in Surjection(S, 1..n)
    BY <1>4, <2>1, FS_Injection DEF n
  <2>. QED
    BY <2>2 DEF Surjection
<1>6. ASSUME NEW i \in 1..n
      PROVE  Listed(S, R)[i] \in S /\ Rank(S, R, Listed(S, R)[i]) = i - 1
  <2>1. PICK e \in S : Rank(S, R, e) + 1 = i
    BY <1>5
  <2>2. Rank(S, R, e) = i - 1
    BY <1>2, <2>1
  <2>3. Listed(S, R)[i] = CHOOSE f \in S : Rank(S, R, f) = i - 1
    BY DEF Listed, n
  <2>. QED
    BY <2>2, <2>3
<1>7. ASSUME NEW e \in S
      PROVE  Rank(S, R, e) + 1 \in 1..n /\ Listed(S, R)[Rank(S, R, e) + 1] = e
  <2>1. Rank(S, R, e) \in 0..(n - 1) /\ Rank(S, R, e) + 1 \in 1..n
    BY <1>1, <1>2
  <2>2. PICK f \in S : /\ f = Listed(S, R)[Rank(S, R, e) + 1]
                       /\ Rank(S, R, f) = (Rank(S, R, e) + 1) - 1
    BY <1>6, <2>1
  <2>3. Rank(S, R, f) = Rank(S, R, e)
    BY <1>1, <2>1, <2>2
  <2>. QED
    BY <2>1, <2>2, <2>3, RankProperties
<1>8. DOMAIN Listed(S, R) = 1..n
  BY DEF Listed, n
<1>. QED
  BY <1>1, <1>6, <1>7, <1>8 DEF n

\* The same for numbers.
LEMMA AscendingProperties ==
  ASSUME NEW S \in SUBSET Int, IsFiniteSet(S)
  PROVE  /\ Cardinality(S) \in Nat
         /\ DOMAIN Ascending(S) = 1..Cardinality(S)
         /\ \A i \in 1..Cardinality(S) : Ascending(S)[i] \in S
         /\ \A e \in S : \A i \in Int :
              Cardinality({f \in S : f < e}) = i - 1
                => i \in 1..Cardinality(S) /\ Ascending(S)[i] = e
         /\ \A e \in S : \E i \in 1..Cardinality(S) : Ascending(S)[i] = e
<1>1. Orders(Less(S), S)
  BY DEF Orders, Less
<1>2. \A e \in S : Rank(S, Less(S), e) = Cardinality({f \in S : f < e})
  <2>1. \A e \in S : {f \in S : <<f, e>> \in Less(S)} = {f \in S : f < e}
    BY DEF Less
  <2>. QED
    BY <2>1 DEF Rank
<1>3. /\ Cardinality(S) \in Nat
      /\ DOMAIN Ascending(S) = 1..Cardinality(S)
      /\ \A i \in 1..Cardinality(S) : Ascending(S)[i] \in S
      /\ \A e \in S : /\ Rank(S, Less(S), e) + 1 \in 1..Cardinality(S)
                      /\ Ascending(S)[Rank(S, Less(S), e) + 1] = e
  BY <1>1, ListedProperties DEF Ascending
<1>4. ASSUME NEW e \in S, NEW i \in Int, Cardinality({f \in S : f < e}) = i - 1
      PROVE  i \in 1..Cardinality(S) /\ Ascending(S)[i] = e
  <2>1. Rank(S, Less(S), e) + 1 = i
    BY <1>2, <1>4
  <2>. QED
    BY <1>3, <2>1
<1>. QED
  BY <1>3, <1>4

\* An interval is listed as it is.
LEMMA AscendingInterval ==
  ASSUME NEW n \in Nat
  PROVE  Ascending(1..n) = [i \in 1..n |-> i]
<1>1. 1..n \in SUBSET Int /\ IsFiniteSet(1..n) /\ Cardinality(1..n) = n
  BY FS_Interval
<1>2. ASSUME NEW e \in 1..n PROVE Ascending(1..n)[e] = e
  <2>1. {f \in 1..n : f < e} = 1..(e - 1)
    OBVIOUS
  <2>2. Cardinality(1..(e - 1)) = e - 1
    BY FS_Interval
  <2>. QED
    BY <1>1, <2>1, <2>2, AscendingProperties
<1>3. Ascending(1..n) = [i \in 1..n |-> Ascending(1..n)[i]]
  <2>1. Ascending(1..n)
          = [i \in 1..n |-> CHOOSE e \in 1..n : Rank(1..n, Less(1..n), e) = i - 1]
    BY <1>1 DEF Ascending, Listed
  <2>. DEFINE F == [i \in 1..n |-> CHOOSE e \in 1..n : Rank(1..n, Less(1..n), e) = i - 1]
  <2>2. F = [i \in 1..n |-> F[i]]
    OBVIOUS
  <2>. HIDE DEF F
  <2>. QED
    BY <2>1, <2>2 DEF F
<1>. QED
  BY <1>2, <1>3
-----------------------------------------------------------------------------
\* g maps S onto E, and the order of the one to that of the other.
Maps(g, S, R, E, Q) ==
  /\ \A e \in S : g[e] \in E
  /\ \A y \in E : \E e \in S : y = g[e]
  /\ \A e, f \in S : <<g[e], g[f]>> \in Q <=> <<e, f>> \in R

\* Then the images are listed as the members are.
LEMMA ListedImage ==
  ASSUME NEW S, IsFiniteSet(S), NEW R, Orders(R, S),
         NEW g, NEW E, NEW Q, Maps(g, S, R, E, Q)
  PROVE  /\ Cardinality(E) = Cardinality(S)
         /\ Listed(E, Q) = [i \in 1..Cardinality(S) |-> g[Listed(S, R)[i]]]
<1>. DEFINE n == Cardinality(S)
            s == Listed(S, R)
<1>. USE DEF Maps
<1>1. \A e, f \in S : g[e] = g[f] => e = f
  <2>. SUFFICES ASSUME NEW e \in S, NEW f \in S, g[e] = g[f], e # f PROVE FALSE
    OBVIOUS
  <2>1. <<e, f>> \in R \/ <<f, e>> \in R
    BY DEF Orders
  <2>2. <<g[e], g[f]>> \notin Q /\ <<g[f], g[e]>> \notin Q
    <3>1. <<g[e], g[e]>> \notin Q
      BY DEF Orders
    <3>. QED
      BY <3>1
  <2>. QED
    BY <2>1, <2>2
\* The images of a part of S are as many.
<1>2. ASSUME NEW T \in SUBSET S
      PROVE  IsFiniteSet({g[e] : e \in T}) /\ Cardinality({g[e] : e \in T}) = Cardinality(T)
  <2>. DEFINE U == {g[e] : e \in T}
              h == [e \in T |-> g[e]]
  <2>1. IsFiniteSet(T)
    BY FS_Subset
  <2>2. h \in Surjection(T, U)
    BY DEF Surjection
  <2>3. h \in Injection(T, U)
    BY <1>1 DEF Injection, IsInjective
  <2>. HIDE DEF h, U
  <2>4. IsFiniteSet(U) /\ Cardinality(U) = Cardinality(T)
    BY <2>1, <2>2, <2>3, FS_Surjection
  <2>. QED
    BY <2>4 DEF U
<1>a. E = {g[e] : e \in S}
  OBVIOUS
<1>3. IsFiniteSet(E) /\ Cardinality(E) = n
  BY <1>2, <1>a
<1>4. \A e \in S : Rank(E, Q, g[e]) = Rank(S, R, e)
  <2>. SUFFICES ASSUME NEW e \in S PROVE Rank(E, Q, g[e]) = Rank(S, R, e)
    OBVIOUS
  <2>. DEFINE T == {f \in S : <<f, e>> \in R}
  <2>1. {y \in E : <<y, g[e]>> \in Q} = {g[f] : f \in T}
    BY <1>a
  <2>2. T \in SUBSET S
    OBVIOUS
  <2>3. Cardinality({g[f] : f \in T}) = Cardinality(T)
    BY <1>2, <2>2
  <2>. QED
    BY <2>1, <2>3 DEF Rank
<1>5. Orders(Q, E)
  <2>1. \A e \in S : <<g[e], g[e]>> \notin Q
    BY DEF Orders
  <2>2. \A e, f, h \in S : <<g[e], g[f]>> \in Q /\ <<g[f], g[h]>> \in Q => <<g[e], g[h]>> \in Q
    BY DEF Orders
  <2>3. \A e, f \in S : g[e] = g[f] \/ <<g[e], g[f]>> \in Q \/ <<g[f], g[e]>> \in Q
    BY DEF Orders
  <2>. QED
    BY <2>1, <2>2, <2>3 DEF Orders
<1>6. /\ \A i \in 1..n : s[i] \in S /\ Rank(S, R, s[i]) = i - 1
      /\ n \in Nat
  BY ListedProperties
<1>7. /\ DOMAIN Listed(E, Q) = 1..n
      /\ \A y \in E : Listed(E, Q)[Rank(E, Q, y) + 1] = y
  BY <1>3, <1>5, ListedProperties
<1>8. \A i \in 1..n : Listed(E, Q)[i] = g[s[i]]
  <2>. SUFFICES ASSUME NEW i \in 1..n PROVE Listed(E, Q)[i] = g[s[i]]
    OBVIOUS
  <2>1. s[i] \in S /\ Rank(S, R, s[i]) + 1 = i
    BY <1>6
  <2>2. g[s[i]] \in E /\ Rank(E, Q, g[s[i]]) + 1 = i
    BY <1>4, <2>1
  <2>. QED
    BY <1>7, <2>2
<1>9. Listed(E, Q) = [i \in 1..n |-> Listed(E, Q)[i]]
  <2>. DEFINE At(i) == CHOOSE e \in E : Rank(E, Q, e) = i - 1
  <2>1. Listed(E, Q) = [i \in 1..n |-> At(i)]
    BY <1>3 DEF Listed
  <2>. HIDE DEF At, n
  <2>. QED
    BY <2>1
<1>. HIDE DEF n, s
<1>10. Listed(E, Q) = [i \in 1..n |-> g[s[i]]]
  BY <1>8, <1>9
<1>. QED
  BY <1>3, <1>10 DEF n, s
-----------------------------------------------------------------------------
\* f joins the sequences g[1], g[2], ... up to every number of 0..h.
Joins(f, g, h) == f = [b \in 0..h |-> IF b = 0 THEN <<>> ELSE f[b - 1] \o g[b]]

\* Such a function exists for every h: one for h goes on to one for h + 1.
LEMMA JoinsExists ==
  ASSUME NEW g, NEW h \in Nat
  PROVE  \E f : Joins(f, g, h)
<1>. DEFINE S == {k \in Nat : \E f : Joins(f, g, k)}
<1>1. 0 \in S
  <2>. DEFINE f == [b \in 0..0 |-> <<>>]
  <2>1. f = [b \in 0..0 |-> IF b = 0 THEN <<>> ELSE f[b - 1] \o g[b]]
    OBVIOUS
  <2>. QED
    BY <2>1 DEF Joins
<1>2. ASSUME NEW k \in Nat, k \in S PROVE k + 1 \in S
  <2>1. PICK f : Joins(f, g, k)
    BY <1>2
  <2>. DEFINE e == [b \in 0..(k + 1) |-> IF b = k + 1 THEN f[k] \o g[k + 1] ELSE f[b]]
  <2>2. ASSUME NEW b \in 0..(k + 1)
        PROVE  e[b] = IF b = 0 THEN <<>> ELSE e[b - 1] \o g[b]
    <3>1. CASE b = k + 1
      <4>1. e[b - 1] = f[k] /\ b # 0
        BY <3>1
      <4>. QED
        BY <3>1, <4>1
    <3>2. CASE b # k + 1
      <4>1. b \in 0..k
        BY <3>2
      <4>2. f[b] = IF b = 0 THEN <<>> ELSE f[b - 1] \o g[b]
        BY <2>1, <4>1 DEF Joins
      <4>3. b # 0 => e[b - 1] = f[b - 1]
        BY <4>1
      <4>4. e[b] = f[b]
        BY <4>1
      <4>. HIDE DEF e
      <4>. QED
        BY <4>2, <4>3, <4>4
    <3>. QED
      BY <3>1, <3>2
  <2>3. e = [b \in 0..(k + 1) |-> e[b]]
    OBVIOUS
  <2>. HIDE DEF e
  <2>4. Joins(e, g, k + 1)
    BY <2>2, <2>3 DEF Joins
  <2>. QED
    BY <2>4
<1>. HIDE DEF S
<1>3. Nat \subseteq S
  BY <1>1, <1>2, NatSetInduction
<1>. QED
  BY <1>3 DEF S

\* Up to k it depends on the first k sequences only.
LEMMA JoinsAgree ==
  ASSUME NEW g1, NEW h1 \in Nat, NEW f1, Joins(f1, g1, h1),
         NEW g2, NEW h2 \in Nat, NEW f2, Joins(f2, g2, h2),
         NEW k \in Nat, k <= h1, k <= h2, \A b \in 1..k : g1[b] = g2[b]
  PROVE  f1[k] = f2[k]
<1>. DEFINE S == {b \in Nat : b <= k => f1[b] = f2[b]}
<1>a. \A b \in 0..h1 : f1[b] = IF b = 0 THEN <<>> ELSE f1[b - 1] \o g1[b]
  BY DEF Joins
<1>b. \A b \in 0..h2 : f2[b] = IF b = 0 THEN <<>> ELSE f2[b - 1] \o g2[b]
  BY DEF Joins
<1>1. 0 \in S
  <2>1. f1[0] = <<>> /\ f2[0] = <<>>
    BY <1>a, <1>b
  <2>. QED
    BY <2>1
<1>2. ASSUME NEW b \in Nat, b \in S PROVE b + 1 \in S
  <2>. SUFFICES ASSUME b + 1 <= k PROVE f1[b + 1] = f2[b + 1]
    OBVIOUS
  <2>1. f1[b] = f2[b] /\ g1[b + 1] = g2[b + 1]
    BY <1>2
  <2>2. /\ b + 1 \in 0..h1 /\ b + 1 \in 0..h2 /\ b + 1 # 0
        /\ (b + 1) - 1 = b
    OBVIOUS
  <2>3. f1[b + 1] = f1[b] \o g1[b + 1]
    BY <1>a, <2>2
  <2>4. f2[b + 1] = f2[b] \o g2[b + 1]
    BY <1>b, <2>2
  <2>. QED
    BY <2>1, <2>3, <2>4
<1>. HIDE DEF S
<1>3. Nat \subseteq S
  BY <1>1, <1>2, NatSetInduction
<1>. QED
  BY <1>3 DEF S
=============================================================================
