------------------------------ MODULE NatLemmas ------------------------------
EXTENDS Integers, TLAPS, WellFoundedInduction

LessOnNat == {p \in Nat \X Nat : p[1] < p[2]}

(* Induction in the form the provers can use: a set of naturals has a least *)
(* element.                                                                 *)
LEMMA LeastNatural ==
  ASSUME NEW T \in SUBSET Nat, T # {}
  PROVE  \E x \in T : \A y \in T : x <= y
<1>1. IsWellFoundedOn(LessOnNat, Nat)
  BY NatLessThanWellFounded DEF OpToRel, LessOnNat
<1>2. PICK x \in T : \A y \in T : ~ (<<y, x>> \in LessOnNat)
  BY <1>1, WFMin
<1>3. ASSUME NEW y \in T
      PROVE  x <= y
  <2>1. x \in Nat /\ y \in Nat
    OBVIOUS
  <2>2. ~ (y < x)
    BY <1>2, <2>1 DEF LessOnNat
  <2>3. QED
    BY <2>1, <2>2
<1>4. QED
  BY <1>3
(* S gives the value at x of a function defined by recursion, from the      *)
(* function itself; it asks the function only at points of lower rank.      *)
Descends(D, V, S, rank) ==
  \A x \in D : \A g, h \in [D -> V] :
    (\A y \in D : rank[y] < rank[x] => g[y] = h[y]) => S[<<g, x>>] = S[<<h, x>>]

Solvable(D, V, S) == \E f \in [D -> V] : \A x \in D : f[x] = S[<<f, x>>]

(* Such a function exists. *)
LEMMA Recursion ==
  ASSUME NEW D, NEW V, V # {}, NEW rank \in [D -> Nat], NEW S \in [[D -> V] \X D -> V],
         Descends(D, V, S, rank)
  PROVE  Solvable(D, V, S)
<1> USE DEF Descends
<1> DEFINE Right(g, n) == \A x \in D : rank[x] < n => g[x] = S[<<g, x>>]
           Some(n) == \E g \in [D -> V] : Right(g, n)
<1>1. Some(0)
  <2>1. PICK v \in V : TRUE
    OBVIOUS
  <2>2. [x \in D |-> v] \in [D -> V]
    OBVIOUS
  <2>3. Right([x \in D |-> v], 0)
    OBVIOUS
  <2>4. QED
    BY <2>2, <2>3
<1>2. ASSUME NEW n \in Nat, Some(n)
      PROVE  Some(n + 1)
  <2>1. PICK g \in [D -> V] : Right(g, n)
    BY <1>2
  <2> DEFINE h == [x \in D |-> IF rank[x] = n THEN S[<<g, x>>] ELSE g[x]]
  <2>2. h \in [D -> V]
    OBVIOUS
  <2>3. ASSUME NEW x \in D, rank[x] < n + 1
        PROVE  h[x] = S[<<h, x>>]
    <3>1. \A y \in D : rank[y] < rank[x] => g[y] = h[y]
      BY <2>3
    <3>2. S[<<g, x>>] = S[<<h, x>>]
      BY <2>2, <3>1
    <3>3. h[x] = S[<<g, x>>]
      BY <2>1, <2>3
    <3>4. QED
      BY <3>2, <3>3
  <2>4. QED
    BY <2>2, <2>3
<1>3. \A n \in Nat : Some(n)
  <2> DEFINE T == {n \in Nat : ~Some(n)}
  <2>1. SUFFICES ASSUME T # {} PROVE FALSE
    OBVIOUS
  <2>2. T \in SUBSET Nat
    OBVIOUS
  <2> HIDE DEF Some
  <2>3. PICK n \in T : \A m \in T : n <= m
    <3> HIDE DEF T
    <3>1. QED
      BY <2>1, <2>2, LeastNatural
  <2>4. n # 0 /\ n \in Nat /\ ~Some(n)
    BY <1>1
  <2>5. n - 1 \in Nat /\ ~ (n <= n - 1)
    BY <2>4
  <2>6. Some(n - 1)
    BY <2>3, <2>5
  <2>7. Some((n - 1) + 1)
    BY <1>2, <2>5, <2>6
  <2>8. QED
    BY <2>4, <2>7
<1>4. ASSUME NEW g \in [D -> V], NEW h \in [D -> V], NEW n \in Nat, Right(g, n), Right(h, n),
             NEW x \in D, rank[x] < n
      PROVE  g[x] = h[x]
  <2> DEFINE T == {rank[y] : y \in {z \in D : rank[z] < n /\ g[z] # h[z]}}
  <2>1. SUFFICES ASSUME g[x] # h[x] PROVE FALSE
    OBVIOUS
  <2>2. T \in SUBSET Nat /\ rank[x] \in T
    BY <1>4, <2>1
  <2>3. PICK r \in T : \A s \in T : r <= s
    <3> HIDE DEF T
    <3>1. QED
      BY <2>2, LeastNatural
  <2>4. PICK y \in D : r = rank[y] /\ rank[y] < n /\ g[y] # h[y]
    OBVIOUS
  <2>5. \A z \in D : rank[z] < rank[y] => g[z] = h[z]
    <3>1. SUFFICES ASSUME NEW z \in D, rank[z] < rank[y], g[z] # h[z] PROVE FALSE
      OBVIOUS
    <3>2. rank[z] < n
      BY <2>4, <3>1
    <3>3. rank[z] \in T
      BY <3>1, <3>2
    <3>4. r <= rank[z]
      BY <2>3, <3>3
    <3>5. QED
      BY <2>4, <3>1, <3>4
  <2>6. S[<<g, y>>] = S[<<h, y>>]
    BY <2>5
  <2>7. QED
    BY <1>4, <2>4, <2>6
<1> DEFINE At(n) == CHOOSE g \in [D -> V] : Right(g, n)
           f == [x \in D |-> At(rank[x] + 1)[x]]
<1>5. \A n \in Nat : At(n) \in [D -> V] /\ Right(At(n), n)
  BY <1>3
<1> HIDE DEF At
<1>6. f \in [D -> V]
  BY <1>5
<1>7. ASSUME NEW x \in D
      PROVE  f[x] = S[<<f, x>>]
  <2>1. PICK g \in [D -> V] : g = At(rank[x] + 1) /\ Right(g, rank[x] + 1)
    <3> HIDE DEF Right
    <3>1. rank[x] + 1 \in Nat
      OBVIOUS
    <3>2. QED
      BY <1>5, <3>1
  <2>2. ASSUME NEW y \in D, rank[y] < rank[x]
        PROVE  g[y] = f[y]
    <3>2. Right(g, rank[y] + 1)
      <4>1. ASSUME NEW z \in D, rank[z] < rank[y] + 1
            PROVE  rank[z] < rank[x] + 1
        BY <2>2, <4>1
      <4>2. QED
        BY <2>1, <4>1
    <3>3. rank[y] + 1 \in Nat /\ rank[y] < rank[y] + 1
      OBVIOUS
    <3> HIDE DEF Right
    <3>1. PICK h \in [D -> V] : h = At(rank[y] + 1) /\ Right(h, rank[y] + 1)
      BY <1>5, <3>3
    <3>4. g[y] = h[y]
      BY <1>4, <3>1, <3>2, <3>3
    <3>5. QED
      BY <3>1, <3>4
  <2>3. S[<<g, x>>] = S[<<f, x>>]
    <3> HIDE DEF f
    <3>1. QED
      BY <1>6, <2>2
  <2>4. g[x] = S[<<g, x>>]
    <3>1. rank[x] \in Nat /\ rank[x] < rank[x] + 1
      OBVIOUS
    <3>2. Right(g, rank[x] + 1)
      BY <2>1
    <3> HIDE DEF f
    <3>3. QED
      BY <3>1, <3>2
  <2>6. f[x] = g[x]
    <3> HIDE DEF Right
    <3>1. QED
      BY <2>1
  <2>5. QED
    BY <2>3, <2>4, <2>6
<1>8. QED
  <2> HIDE DEF f
  <2>1. QED
    BY <1>6, <1>7 DEF Solvable

AgreeUpwards(D, rank, f, g) ==
  \A x \in D : (\A y \in D : rank[y] < rank[x] => f[y] = g[y]) => f[x] = g[x]

(* And only one. *)
LEMMA Agreement ==
  ASSUME NEW D, NEW rank \in [D -> Nat], NEW f, NEW g, AgreeUpwards(D, rank, f, g)
  PROVE  \A x \in D : f[x] = g[x]
<1> DEFINE T == {rank[y] : y \in {z \in D : f[z] # g[z]}}
<1>1. SUFFICES ASSUME NEW x \in D, f[x] # g[x] PROVE FALSE
  OBVIOUS
<1>2. T \in SUBSET Nat /\ rank[x] \in T
  BY <1>1
<1>3. PICK r \in T : \A s \in T : r <= s
  <2> HIDE DEF T
  <2>1. QED
    BY <1>2, LeastNatural
<1>4. PICK y \in D : r = rank[y] /\ f[y] # g[y]
  OBVIOUS
<1>5. ASSUME NEW z \in D, rank[z] < rank[y], f[z] # g[z]
      PROVE  FALSE
  <2>1. rank[z] \in T
    BY <1>5
  <2>2. r <= rank[z]
    BY <1>3, <2>1
  <2>3. QED
    BY <1>4, <1>5, <2>2
<1>6. QED
  BY <1>4, <1>5 DEF AgreeUpwards

(* Division with remainder is unique.                                       *)
LEMMA Division ==
  ASSUME NEW x, x \in Nat, NEW y, y \in Nat, NEW q, q \in Nat, NEW r, r \in Nat,
         x = q * y + r, r < y
  PROVE  x \div y = q /\ x % y = r
<1>1. PICK p \in Nat, s \in 0 .. y - 1 : x = p * y + s /\ x \div y = p /\ x % y = s
  OBVIOUS
<1>2. CASE p < q
  <2>1. PICK k \in Nat : q = p + 1 + k
    <3>1. q - p - 1 \in Nat /\ q = p + 1 + (q - p - 1)
      BY <1>2
    <3>2. QED
      BY <3>1
  <2>2. q * y = p * y + y + k * y /\ k * y >= 0
    BY <2>1
  <2>3. QED
    BY <1>1, <2>2
<1>3. CASE q < p
  <2>1. PICK k \in Nat : p = q + 1 + k
    <3>1. p - q - 1 \in Nat /\ p = q + 1 + (p - q - 1)
      BY <1>3
    <3>2. QED
      BY <3>1
  <2>2. p * y = q * y + y + k * y /\ k * y >= 0
    BY <2>1
  <2>3. QED
    BY <1>1, <2>2
<1>4. CASE p = q
  BY <1>1, <1>4
<1>5. QED
  BY <1>2, <1>3, <1>4

(* What the provers need of products, to cite one at a time.                *)
LEMMA Multiplying ==
  /\ \A a, b \in Nat : a * b \in Nat
  /\ \A a, b \in Nat : a * b = b * a
  /\ \A a, b, c \in Nat : (a * b) * c = a * (b * c)
  /\ \A a, b, c \in Nat : a * (b + c) = a * b + a * c
  /\ \A a, b \in Nat : a > 0 /\ b > 0 => a * b > 0
OBVIOUS

(* Strong induction, over a set rather than a predicate.                    *)
LEMMA Strongly ==
  ASSUME NEW T, \A n \in Nat : (\A m \in Nat : m < n => m \in T) => n \in T
  PROVE  \A n \in Nat : n \in T
<1>1. SUFFICES ASSUME Nat \ T # {} PROVE FALSE
  OBVIOUS
<1>2. PICK n \in Nat \ T : \A m \in Nat \ T : n <= m
  BY <1>1, LeastNatural
<1>3. \A m \in Nat : m < n => m \in T
  BY <1>2
<1>4. QED
  BY <1>2, <1>3
==============================================================================
