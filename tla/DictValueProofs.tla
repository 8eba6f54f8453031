---------------------------- MODULE DictValueProofs ---------------------------
(***************************************************************************)
(* What the functions of dictionary.c do to a dictionary, for every        *)
(* dictionary: the searches find what there is, sorting sorts, and every   *)
(* change keeps the layout: each variable has a segment of its own with    *)
(* different values in it, var_sorted tells the truth, and val_deleted is  *)
(* not below the number of holes.                                          *)
(*                                                                         *)
(* Recursive functions (the searches, the sort, the sums, the packing) are *)
(* first shown to exist and to satisfy their equations (Recursion and      *)
(* Agreement of NatLemmas).                                                *)
(*                                                                         *)
(* The last part is about a call of modify_dictionary (DictCall).  A merge *)
(* has no call in it: DictMergeProofs uses the lemmas on operators only.   *)
(***************************************************************************)
EXTENDS DictCall, NatLemmas, FiniteSetTheorems, SequenceTheorems

(* g is the function search of Bsearch. *)
Searches(g, vs, name) ==
  /\ g \in [(1 .. Len(vs) + 1) \X (0 .. Len(vs)) -> 0 .. Len(vs)]
  /\ \A l \in 1 .. Len(vs) + 1, r \in 0 .. Len(vs) :
       LET mid == l + (r - l) \div 2
       IN  g[<<l, r>>] = IF r < l THEN 0
                         ELSE IF vs[mid].name = name THEN mid
                         ELSE IF vs[mid].name > name THEN g[<<l, mid - 1>>]
                         ELSE g[<<mid + 1, r>>]

LEMMA SearchUnfolds ==
  ASSUME NEW vs \in Seq(Variable), NEW name
  PROVE  \E g : Searches(g, vs, name) /\ Bsearch(vs, name) = g[<<1, Len(vs)>>]
<1> DEFINE n == Len(vs)
           V == 0 .. n
           D == (1 .. n + 1) \X (0 .. n)
           mid(x) == x[1] + (x[2] - x[1]) \div 2
           step(g, x) == IF x[2] < x[1] THEN 0
                         ELSE IF vs[mid(x)].name = name THEN mid(x)
                         ELSE IF vs[mid(x)].name > name THEN g[<<x[1], mid(x) - 1>>]
                         ELSE g[<<mid(x) + 1, x[2]>>]
           width(l, r) == IF r < l THEN 0 ELSE r - l + 1
           rank == [x \in D |-> width(x[1], x[2])]
           S == [q \in [D -> V] \X D |-> step(q[1], q[2])]
<1>1. n \in Nat
  OBVIOUS
<1>2. ASSUME NEW x \in D, ~ (x[2] < x[1])
      PROVE  /\ mid(x) \in V
             /\ <<x[1], mid(x) - 1>> \in D /\ rank[<<x[1], mid(x) - 1>>] < rank[x]
             /\ <<mid(x) + 1, x[2]>> \in D /\ rank[<<mid(x) + 1, x[2]>>] < rank[x]
  <2>1. PICK l \in 1 .. n + 1, r \in 0 .. n : x = <<l, r>> /\ l <= r
    BY <1>1, <1>2
  <2>2. PICK m \in l .. r : m = mid(x)
    <3>1. (r - l) \div 2 \in 0 .. r - l
      BY <2>1, <1>1
    <3>2. QED
      BY <2>1, <3>1, <1>1
  <2>3. rank[x] = width(l, r)
    BY <2>1
  <2>4. \A a \in 1 .. n + 1, b \in 0 .. n : <<a, b>> \in D /\ rank[<<a, b>>] = width(a, b)
    OBVIOUS
  <2>5. m - 1 \in 0 .. n /\ m + 1 \in 1 .. n + 1 /\ m \in V
    BY <1>1, <2>1
  <2>6. width(l, m - 1) < width(l, r) /\ width(m + 1, r) < width(l, r)
    BY <1>1, <2>1
  <2> HIDE DEF D, rank, width, mid, V
  <2>7. QED
    BY <2>1, <2>2, <2>3, <2>4, <2>5, <2>6
<1>3. rank \in [D -> Nat]
  BY <1>1
<1>4. S \in [[D -> V] \X D -> V]
  <2>1. ASSUME NEW g \in [D -> V], NEW x \in D
        PROVE  step(g, x) \in V
    <3>1. 0 \in V
      BY <1>1
    <3> HIDE DEF D, V, mid, rank
    <3>2. QED
      BY <1>2, <3>1
  <2> HIDE DEF D, V, step
  <2>2. QED
    BY <2>1
<1>5. ASSUME NEW x \in D, NEW g, NEW h, \A y \in D : rank[y] < rank[x] => g[y] = h[y]
      PROVE  step(g, x) = step(h, x)
  <2> HIDE DEF D, V, mid, rank
  <2>1. QED
    BY <1>2, <1>5
<1>13. Descends(D, V, S, rank)
  <2> HIDE DEF D, V, step, rank
  <2>1. QED
    BY <1>5 DEF Descends
<1>6. V # {}
  BY <1>1
<1>7. PICK f \in [D -> V] : \A x \in D : f[x] = S[<<f, x>>]
  <2> HIDE DEF D, S, rank, V
  <2>1. Solvable(D, V, S)
    BY <1>3, <1>4, <1>13, <1>6, Recursion
  <2>2. QED
    BY <2>1 DEF Solvable
<1>8. f = [x \in D |-> step(f, x)]
  <2> HIDE DEF D, V, step
  <2>1. QED
    BY <1>7
<1>9. PICK g : g = [x \in D |-> step(g, x)] /\ Bsearch(vs, name) = g[<<1, n>>]
  BY <1>8 DEF Bsearch
<1>10. \A x \in D : g[x] = step(g, x)
  <2> HIDE DEF step, D
  <2>1. QED
    BY <1>9
<1>11. \A x \in D : f[x] = g[x]
  <2> HIDE DEF step, D, rank
  <2>1. AgreeUpwards(D, rank, f, g)
    BY <1>5, <1>8, <1>10 DEF AgreeUpwards
  <2>2. QED
    BY <1>3, <2>1, Agreement
<1>12. g = f
  <2> HIDE DEF step, D
  <2>1. QED
    BY <1>9, <1>11
<1>14. \A x \in D : f[x] = step(f, x)
  BY <1>10, <1>12
<1>15. Bsearch(vs, name) = f[<<1, n>>]
  BY <1>9, <1>12
<1>16. ASSUME NEW l \in 1 .. n + 1, NEW r \in 0 .. n
       PROVE  f[<<l, r>>] = IF r < l THEN 0
                            ELSE IF vs[l + (r - l) \div 2].name = name THEN l + (r - l) \div 2
                            ELSE IF vs[l + (r - l) \div 2].name > name
                            THEN f[<<l, l + (r - l) \div 2 - 1>>]
                            ELSE f[<<l + (r - l) \div 2 + 1, r>>]
  <2>1. <<l, r>> \in D
    OBVIOUS
  <2>2. f[<<l, r>>] = step(f, <<l, r>>)
    BY <1>14, <2>1
  <2>3. QED
    BY <2>2
<1>17. Searches(f, vs, name)
  BY <1>16 DEF Searches
<1>18. QED
  BY <1>15, <1>17

(* i is where the variable is, 0 if there is none. *)
IsPlaceOf(i, vs, name) ==
  /\ i \in 0 .. Len(vs)
  /\ i # 0 => vs[i].name = name
  /\ i = 0 => \A k \in DOMAIN vs : vs[k].name # name

(* Binary search finds the variable in a vector sorted by names. *)
LEMMA SearchFinds ==
  ASSUME NEW vs \in Seq(Variable), NEW name \in Nat, IncreasingNames(vs)
  PROVE  IsPlaceOf(Bsearch(vs, name), vs, name)
<1> DEFINE n == Len(vs)
           mid(l, r) == l + (r - l) \div 2
<1>1. /\ n \in Nat /\ DOMAIN vs = 1 .. n
      /\ \A k \in 1 .. n : vs[k].name \in Nat
  <2>1. \A k \in 1 .. n : vs[k] \in Variable
    BY ElementOfSeq
  <2>2. QED
    BY <2>1 DEF Variable
<1>2. PICK g : Searches(g, vs, name) /\ Bsearch(vs, name) = g[<<1, n>>]
  BY SearchUnfolds
<1> DEFINE Confined(l, r) == \A k \in 1 .. n : vs[k].name = name => l <= k /\ k <= r
           Good(l, r) == Confined(l, r) => IsPlaceOf(g[<<l, r>>], vs, name)
           width(l, r) == IF r < l THEN 0 ELSE r - l + 1
           T == {w \in Nat : \E l \in 1 .. n + 1, r \in 0 .. n : w = width(l, r) /\ ~Good(l, r)}
<1>3. ASSUME NEW l \in 1 .. n + 1, NEW r \in 0 .. n,
             \A a \in 1 .. n + 1, b \in 0 .. n : width(a, b) < width(l, r) => Good(a, b),
             Confined(l, r)
      PROVE  IsPlaceOf(g[<<l, r>>], vs, name)
  <2>1. CASE r < l
    <3>1. g[<<l, r>>] = 0
      BY <1>2, <2>1 DEF Searches
    <3>2. \A k \in 1 .. n : vs[k].name # name
      BY <1>3, <1>1, <2>1
    <3>3. QED
      BY <1>1, <3>1, <3>2 DEF IsPlaceOf
  <2>2. CASE l <= r
    <3>1. PICK m \in l .. r : m = mid(l, r)
      <4>1. (r - l) \div 2 \in 0 .. r - l
        <5>1. \A d \in Nat : d \div 2 \in 0 .. d
          OBVIOUS
        <5>2. r - l \in Nat
          BY <2>2, <1>1
        <5>3. QED
          BY <5>1, <5>2
      <4>2. mid(l, r) \in l .. r
        BY <2>2, <4>1, <1>1
      <4>3. QED
        BY <4>2
    <3>2. m \in 1 .. n /\ vs[m].name \in Nat
      BY <1>1, <3>1
    <3>3. g[<<l, r>>] = IF vs[m].name = name THEN m
                        ELSE IF vs[m].name > name THEN g[<<l, m - 1>>]
                        ELSE g[<<m + 1, r>>]
      <4>1. g[<<l, r>>] = IF r < l THEN 0
                          ELSE IF vs[mid(l, r)].name = name THEN mid(l, r)
                          ELSE IF vs[mid(l, r)].name > name THEN g[<<l, mid(l, r) - 1>>]
                          ELSE g[<<mid(l, r) + 1, r>>]
        BY <1>2 DEF Searches
      <4>2. ~ (r < l)
        BY <2>2, <1>1
      <4> HIDE DEF mid
      <4>3. QED
        BY <4>1, <4>2, <3>1
    <3>4. CASE vs[m].name = name
      BY <1>1, <3>2, <3>3, <3>4 DEF IsPlaceOf
    <3>5. CASE vs[m].name > name
      <4>1. Confined(l, m - 1)
        <5>1. ASSUME NEW k \in 1 .. n, vs[k].name = name PROVE k <= m - 1
          <6>1. k # m
            BY <3>5, <3>2, <5>1
          <6>2. ~ (m < k)
            BY <3>5, <1>1, <3>2, <5>1 DEF IncreasingNames
          <6>3. QED
            BY <6>1, <6>2, <3>2
        <5>2. QED
          BY <5>1, <1>3
      <4>2. m - 1 \in 0 .. n /\ width(l, m - 1) < width(l, r)
        BY <1>1, <2>2, <3>1
      <4>3. Good(l, m - 1)
        <5> HIDE DEF Good, width
        <5>1. QED
          BY <1>3, <4>2
      <4>4. g[<<l, r>>] = g[<<l, m - 1>>]
        BY <3>2, <3>3, <3>5
      <4>5. QED
        <5> HIDE DEF Confined
        <5>1. QED
          BY <4>1, <4>3, <4>4
    <3>6. CASE vs[m].name < name
      <4>1. Confined(m + 1, r)
        <5>1. ASSUME NEW k \in 1 .. n, vs[k].name = name PROVE m + 1 <= k
          <6>1. k # m
            BY <3>6, <3>2, <5>1
          <6>2. ~ (k < m)
            BY <3>6, <1>1, <3>2, <5>1 DEF IncreasingNames
          <6>3. QED
            BY <6>1, <6>2, <3>2
        <5>2. QED
          BY <5>1, <1>3
      <4>2. m + 1 \in 1 .. n + 1 /\ width(m + 1, r) < width(l, r)
        BY <1>1, <2>2, <3>1
      <4>3. Good(m + 1, r)
        <5> HIDE DEF Good, width
        <5>1. QED
          BY <1>3, <4>2
      <4>4. g[<<l, r>>] = g[<<m + 1, r>>]
        BY <3>2, <3>3, <3>6
      <4>5. QED
        <5> HIDE DEF Confined
        <5>1. QED
          BY <4>1, <4>3, <4>4
    <3>7. QED
      BY <3>2, <3>4, <3>5, <3>6
  <2>3. QED
    BY <1>1, <2>1, <2>2
<1>4. T = {}
  <2>1. SUFFICES ASSUME T # {} PROVE FALSE
    OBVIOUS
  <2>2. T \in SUBSET Nat
    OBVIOUS
  <2>3. PICK w \in T : \A x \in T : w <= x
    <3> HIDE DEF T
    <3>1. QED
      BY <2>1, <2>2, LeastNatural
  <2>4. PICK l \in 1 .. n + 1, r \in 0 .. n : w = width(l, r) /\ ~Good(l, r)
    OBVIOUS
  <2>5. ASSUME NEW a \in 1 .. n + 1, NEW b \in 0 .. n, width(a, b) < width(l, r)
        PROVE  Good(a, b)
    <3>1. width(a, b) \in Nat
      BY <1>1
    <3> HIDE DEF Good, width
    <3>2. width(a, b) \in T => width(l, r) <= width(a, b)
      BY <2>3, <2>4
    <3>3. QED
      BY <2>5, <2>4, <3>1, <3>2
  <2>6. QED
    <3> HIDE DEF width, Confined
    <3>1. QED
      BY <1>3, <2>4, <2>5
<1>5. Good(1, n)
  <2>1. 1 \in 1 .. n + 1 /\ n \in 0 .. n /\ width(1, n) \in Nat
    BY <1>1
  <2> HIDE DEF Good, width
  <2>2. QED
    BY <1>4, <2>1
<1>6. Confined(1, n)
  BY <1>1
<1>7. QED
  BY <1>2, <1>5, <1>6

(* The first variable of the name. *)
LEMMA FindFinds ==
  ASSUME NEW vs \in Seq(Variable), NEW name \in Nat
  PROVE  IsPlaceOf(SelectInSeq(vs, LAMBDA v : v.name = name), vs, name)
<1> DEFINE I == {i \in 1 .. Len(vs) : vs[i].name = name}
<1>1. SelectInSeq(vs, LAMBDA v : v.name = name) = IF I # {} THEN Min(I) ELSE 0
  BY DEF SelectInSeq
<1>2. Len(vs) \in Nat /\ DOMAIN vs = 1 .. Len(vs)
  OBVIOUS
<1>3. I # {} => Min(I) \in I
  <2>1. SUFFICES ASSUME I # {} PROVE Min(I) \in I
    OBVIOUS
  <2>2. I \in SUBSET Nat
    BY <1>2
  <2> HIDE DEF I
  <2>3. QED
    BY <2>1, <2>2, LeastNatural DEF Min
<1>4. QED
  BY <1>1, <1>2, <1>3 DEF IsPlaceOf

(* lookup_var_index finds a variable whichever search it chooses, provided  *)
(* that var_sorted tells the truth.                                         *)
LEMMA VarIndexFinds ==
  ASSUME NEW d, d.vars \in Seq(Variable), NEW name \in Nat, d.sorted => IncreasingNames(d.vars)
  PROVE  IsPlaceOf(VarIndex(d, name), d.vars, name)
BY SearchFinds, FindFinds DEF VarIndex

-----------------------------------------------------------------------------
LEMMA DictFields ==
  ASSUME NEW P, NEW d, d \in DictOver(P)
  PROVE  /\ d.vars \in Seq(Variable) /\ d.vals \in Seq([value: Nat, prob: P])
         /\ Len(d.vars) \in Nat /\ DOMAIN d.vars = 1 .. Len(d.vars)
         /\ Len(d.vals) \in Nat /\ DOMAIN d.vals = 1 .. Len(d.vals)
         /\ \A i \in 1 .. Len(d.vars) :
              /\ d.vars[i] \in Variable
              /\ d.vars[i].name \in Nat /\ d.vars[i].offset \in Nat /\ d.vars[i].card \in Nat
         /\ \A j \in 1 .. Len(d.vals) :
              d.vals[j] \in [value: Nat, prob: P] /\ d.vals[j].value \in Nat /\ d.vals[j].prob \in P
         /\ d.deleted \in Nat /\ d.sorted \in BOOLEAN
<1>1. d.vars \in Seq(Variable) /\ d.vals \in Seq([value: Nat, prob: P])
  BY DEF DictOver
<1>2. \A i \in 1 .. Len(d.vars) : d.vars[i] \in Variable
  BY <1>1, ElementOfSeq
<1>3. \A j \in 1 .. Len(d.vals) : d.vals[j] \in [value: Nat, prob: P]
  BY <1>1, ElementOfSeq
<1>4. /\ Len(d.vars) \in Nat /\ DOMAIN d.vars = 1 .. Len(d.vars)
      /\ Len(d.vals) \in Nat /\ DOMAIN d.vals = 1 .. Len(d.vals)
  BY <1>1, LenProperties
<1>5. d.deleted \in Nat /\ d.sorted \in BOOLEAN
  BY DEF DictOver
<1>6. QED
  BY <1>1, <1>2, <1>3, <1>4, <1>5 DEF Variable

(* The values of a segment. *)
Slice(s, o, c) == SubSeq(s, o + 1, o + c)

LEMMA SliceIs ==
  ASSUME NEW S, NEW s, NEW o, NEW c, s \in Seq(S), o \in Nat, c \in Nat, o + c <= Len(s)
  PROVE  /\ Slice(s, o, c) \in Seq(S)
         /\ Len(Slice(s, o, c)) = c
         /\ \A j \in 1 .. c : Slice(s, o, c)[j] = s[o + j]
<1>1. \A j \in o + 1 .. o + c : s[j] \in S
  <2>1. \A j \in o + 1 .. o + c : j \in 1 .. Len(s)
    OBVIOUS
  <2>2. QED
    BY <2>1, ElementOfSeq
<1>2. /\ SubSeq(s, o + 1, o + c) \in Seq(S)
      /\ Len(SubSeq(s, o + 1, o + c)) = IF o + 1 <= o + c THEN (o + c) - (o + 1) + 1 ELSE 0
      /\ \A j \in 1 .. (o + c) - (o + 1) + 1 : SubSeq(s, o + 1, o + c)[j] = s[(o + 1) + j - 1]
  <2>1. o + 1 \in Int /\ o + c \in Int
    OBVIOUS
  <2>2. QED
    BY <1>1, <2>1, SubSeqProperties
<1>3. ASSUME NEW j \in 1 .. c
      PROVE  j \in 1 .. (o + c) - (o + 1) + 1 /\ (o + 1) + j - 1 = o + j
  OBVIOUS
<1>4. (IF o + 1 <= o + c THEN (o + c) - (o + 1) + 1 ELSE 0) = c
  OBVIOUS
<1>5. QED
  BY <1>2, <1>3, <1>4 DEF Slice

LEMMA VariableFields ==
  ASSUME NEW v \in Variable, NEW n \in Nat
  PROVE  /\ v = [name |-> v.name, offset |-> v.offset, card |-> v.card]
         /\ v.name \in Nat /\ v.offset \in Nat /\ v.card \in Nat
         /\ [v EXCEPT !.offset = n] = [name |-> v.name, offset |-> n, card |-> v.card]
         /\ [v EXCEPT !.card = n] = [name |-> v.name, offset |-> v.offset, card |-> n]
         /\ [name |-> v.name, offset |-> n, card |-> v.card] \in Variable
         /\ [name |-> v.name, offset |-> v.offset, card |-> n] \in Variable
<1>1. v = [name |-> v.name, offset |-> v.offset, card |-> v.card]
  BY DEF Variable
<1>2. v.name \in Nat /\ v.offset \in Nat /\ v.card \in Nat
  BY DEF Variable
<1>3. /\ [v EXCEPT !.offset = n] = [name |-> v.name, offset |-> n, card |-> v.card]
      /\ [v EXCEPT !.card = n] = [name |-> v.name, offset |-> v.offset, card |-> n]
  BY <1>1
<1>4. /\ [name |-> v.name, offset |-> n, card |-> v.card] \in Variable
      /\ [name |-> v.name, offset |-> v.offset, card |-> n] \in Variable
  BY <1>2 DEF Variable
<1>5. QED
  BY <1>1, <1>2, <1>3, <1>4

(* add_variable appends a variable without values. *)
LEMMA AddVariableIs ==
  ASSUME NEW P, NEW d, NEW name, NEW e, d \in DictOver(P), name \in Nat, e = AddVariable(d, name)
  PROVE  /\ e \in DictOver(P)
         /\ Len(e.vars) = Len(d.vars) + 1
         /\ \A k \in 1 .. Len(d.vars) : e.vars[k] = d.vars[k]
         /\ e.vars[Len(d.vars) + 1].name = name
         /\ e.vars[Len(d.vars) + 1].offset = Len(d.vals) /\ e.vars[Len(d.vars) + 1].card = 0
         /\ e.vals = d.vals /\ e.deleted = d.deleted /\ ~e.sorted
<1> DEFINE v == [name |-> name, offset |-> Len(d.vals), card |-> 0]
           vs == Append(d.vars, v)
<1>1. v \in Variable
  BY DictFields DEF Variable
<1>2. e = [vars |-> vs, vals |-> d.vals, deleted |-> d.deleted, sorted |-> FALSE]
  BY DEF AddVariable, DictOver
<1>3. /\ vs \in Seq(Variable)
      /\ Len(vs) = Len(d.vars) + 1
      /\ \A k \in 1 .. Len(d.vars) : vs[k] = d.vars[k]
      /\ vs[Len(d.vars) + 1] = v
  <2>1. d.vars \in Seq(Variable)
    BY DictFields
  <2> HIDE DEF v
  <2>2. QED
    BY <1>1, <2>1, AppendProperties
<1>4. e \in DictOver(P) /\ e.vars = vs /\ e.vals = d.vals /\ e.deleted = d.deleted /\ ~e.sorted
  <2>1. d.vals \in Seq([value: Nat, prob: P]) /\ d.deleted \in Nat /\ FALSE \in BOOLEAN
    BY DictFields
  <2> HIDE DEF vs
  <2>2. QED
    BY <1>2, <1>3, <2>1 DEF DictOver
<1>5. QED
  BY <1>3, <1>4

(* The segment is at the tail afterwards, with the values it had. *)
LEMMA MoveToTailIs ==
  ASSUME NEW P, NEW d, NEW i, NEW v, NEW e, d \in DictOver(P), i \in 1 .. Len(d.vars),
         v = d.vars[i], v.offset + v.card < Len(d.vals), e = MoveToTail(d, i)
  PROVE  /\ e \in DictOver(P)
         /\ Len(e.vars) = Len(d.vars)
         /\ \A k \in 1 .. Len(d.vars) : k # i => e.vars[k] = d.vars[k]
         /\ e.vars[i].name = v.name /\ e.vars[i].offset = Len(d.vals) /\ e.vars[i].card = v.card
         /\ Len(e.vals) = Len(d.vals) + v.card
         /\ \A j \in 1 .. Len(d.vals) : e.vals[j] = d.vals[j]
         /\ \A j \in 1 .. v.card : e.vals[Len(d.vals) + j] = d.vals[v.offset + j]
         /\ e.deleted = d.deleted + v.card /\ e.sorted = d.sorted
<1> DEFINE V == [value: Nat, prob: P]
           w == [name |-> v.name, offset |-> Len(d.vals), card |-> v.card]
           seg == Slice(d.vals, v.offset, v.card)
           vs == [d.vars EXCEPT ![i] = w]
           xs == d.vals \o seg
<1>1. /\ d.vars \in Seq(Variable) /\ d.vals \in Seq(V) /\ v \in Variable
      /\ d.deleted \in Nat /\ d.sorted \in BOOLEAN /\ Len(d.vals) \in Nat
      /\ v.offset \in Nat /\ v.card \in Nat
  BY DictFields
<1>2. w \in Variable /\ w = [v EXCEPT !.offset = Len(d.vals)]
  <2>1. Len(d.vals) \in Nat /\ v \in Variable
    BY <1>1
  <2>2. QED
    BY <2>1, VariableFields
<1>3. e = [vars |-> vs, vals |-> xs, deleted |-> d.deleted + v.card, sorted |-> d.sorted]
  <2>1. e = [d EXCEPT !.vals = d.vals \o seg, !.vars = [d.vars EXCEPT ![i] = [v EXCEPT !.offset = Len(d.vals)]],
                      !.deleted = d.deleted + v.card]
    BY <1>1 DEF MoveToTail, DictOver, Slice
  <2> HIDE DEF w, seg
  <2>2. QED
    BY <1>2, <2>1 DEF DictOver
<1>4. /\ seg \in Seq(V) /\ Len(seg) = v.card
      /\ \A j \in 1 .. v.card : seg[j] = d.vals[v.offset + j]
  <2>1. v.offset + v.card <= Len(d.vals) /\ d.vals \in Seq(V) /\ v.offset \in Nat /\ v.card \in Nat
    BY <1>1
  <2> HIDE DEF V
  <2>2. QED
    BY <2>1, SliceIs, SMTT(20)
<1>5. /\ xs \in Seq(V)
      /\ Len(xs) = Len(d.vals) + v.card
      /\ \A j \in 1 .. Len(d.vals) + v.card :
           xs[j] = IF j <= Len(d.vals) THEN d.vals[j] ELSE seg[j - Len(d.vals)]
  <2> HIDE DEF seg, V
  <2>1. /\ xs \in Seq(V)
        /\ Len(xs) = Len(d.vals) + Len(seg)
        /\ \A j \in 1 .. Len(d.vals) + Len(seg) :
             xs[j] = IF j <= Len(d.vals) THEN d.vals[j] ELSE seg[j - Len(d.vals)]
    BY <1>1, <1>4, ConcatProperties
  <2> HIDE DEF xs
  <2>2. QED
    BY <1>4, <2>1
<1>6. /\ vs \in Seq(Variable)
      /\ Len(vs) = Len(d.vars)
      /\ \A k \in 1 .. Len(d.vars) : vs[k] = IF k = i THEN w ELSE d.vars[k]
  <2> HIDE DEF w
  <2>1. QED
    BY <1>1, <1>2, ExceptSeq
<1>7. e \in DictOver(P) /\ e.vars = vs /\ e.vals = xs /\ e.deleted = d.deleted + v.card /\ e.sorted = d.sorted
  <2>1. d.deleted + v.card \in Nat
    BY <1>1
  <2> HIDE DEF vs, xs
  <2>2. QED
    BY <1>1, <1>3, <1>5, <1>6, <2>1 DEF DictOver
<1>8. \A j \in 1 .. v.card : e.vals[Len(d.vals) + j] = d.vals[v.offset + j]
  <2>1. ASSUME NEW j \in 1 .. v.card PROVE e.vals[Len(d.vals) + j] = d.vals[v.offset + j]
    <3>1. /\ Len(d.vals) + j \in 1 .. Len(d.vals) + v.card /\ ~ (Len(d.vals) + j <= Len(d.vals))
          /\ (Len(d.vals) + j) - Len(d.vals) = j
      BY <1>1
    <3> HIDE DEF xs, seg
    <3>2. xs[Len(d.vals) + j] = seg[(Len(d.vals) + j) - Len(d.vals)]
      BY <1>5, <3>1
    <3>3. seg[(Len(d.vals) + j) - Len(d.vals)] = d.vals[v.offset + j]
      BY <1>4, <3>1
    <3>4. QED
      BY <1>7, <3>2, <3>3
  <2>2. QED
    BY <2>1
<1>9. \A j \in 1 .. Len(d.vals) : e.vals[j] = d.vals[j]
  <2>1. \A j \in 1 .. Len(d.vals) : j \in 1 .. Len(d.vals) + v.card /\ j <= Len(d.vals)
    BY <1>1
  <2> HIDE DEF seg, xs
  <2>2. QED
    BY <1>5, <1>7, <2>1
<1>10. QED
  <2> HIDE DEF vs, xs
  <2>1. QED
    BY <1>5, <1>6, <1>7, <1>8, <1>9

(* A value is appended to the segment of variable i, which is at the tail. *)
Appended(d, i, x) == [d EXCEPT !.vals = Append(@, x), !.vars[i].card = @ + 1]

LEMMA AppendedIs ==
  ASSUME NEW P, NEW d, NEW i, NEW v, NEW x, NEW e, d \in DictOver(P), i \in 1 .. Len(d.vars),
         v = d.vars[i], x \in [value: Nat, prob: P], e = Appended(d, i, x)
  PROVE  /\ e \in DictOver(P)
         /\ Len(e.vars) = Len(d.vars)
         /\ \A k \in 1 .. Len(d.vars) : k # i => e.vars[k] = d.vars[k]
         /\ e.vars[i].name = v.name /\ e.vars[i].offset = v.offset /\ e.vars[i].card = v.card + 1
         /\ Len(e.vals) = Len(d.vals) + 1
         /\ \A j \in 1 .. Len(d.vals) : e.vals[j] = d.vals[j]
         /\ e.vals[Len(d.vals) + 1] = x
         /\ e.deleted = d.deleted /\ e.sorted = d.sorted
<1> DEFINE V == [value: Nat, prob: P]
           w == [name |-> v.name, offset |-> v.offset, card |-> v.card + 1]
           vs == [d.vars EXCEPT ![i] = w]
           xs == Append(d.vals, x)
<1>1. /\ d.vars \in Seq(Variable) /\ d.vals \in Seq(V) /\ v \in Variable
      /\ d.deleted \in Nat /\ d.sorted \in BOOLEAN /\ Len(d.vals) \in Nat
      /\ v.offset \in Nat /\ v.card \in Nat
  BY DictFields
<1>2. w \in Variable /\ w = [v EXCEPT !.card = v.card + 1]
  <2>1. v.card + 1 \in Nat /\ v \in Variable
    BY <1>1
  <2>2. QED
    BY <2>1, VariableFields
<1>3. e = [vars |-> vs, vals |-> xs, deleted |-> d.deleted, sorted |-> d.sorted]
  <2>1. e = [d EXCEPT !.vals = Append(d.vals, x), !.vars = [d.vars EXCEPT ![i] = [v EXCEPT !.card = v.card + 1]]]
    BY <1>1 DEF Appended, DictOver
  <2> HIDE DEF w
  <2>2. QED
    BY <1>2, <2>1 DEF DictOver
<1>4. /\ xs \in Seq(V) /\ Len(xs) = Len(d.vals) + 1 /\ xs[Len(d.vals) + 1] = x
      /\ \A j \in 1 .. Len(d.vals) : xs[j] = d.vals[j]
  <2>1. x \in V
    OBVIOUS
  <2> HIDE DEF V
  <2>2. QED
    BY <1>1, <2>1, AppendProperties
<1>5. /\ vs \in Seq(Variable)
      /\ Len(vs) = Len(d.vars)
      /\ \A k \in 1 .. Len(d.vars) : vs[k] = IF k = i THEN w ELSE d.vars[k]
  <2> HIDE DEF w
  <2>1. QED
    BY <1>1, <1>2, ExceptSeq
<1>6. e \in DictOver(P) /\ e.vars = vs /\ e.vals = xs /\ e.deleted = d.deleted /\ e.sorted = d.sorted
  <2> HIDE DEF vs, xs
  <2>2. QED
    BY <1>1, <1>3, <1>4, <1>5 DEF DictOver
<1>7. QED
  <2> HIDE DEF vs, xs
  <2>1. QED
    BY <1>4, <1>5, <1>6

-----------------------------------------------------------------------------
LEMMA HolesAre ==
  ASSUME NEW P, NEW d, d \in DictOver(P)
  PROVE  /\ IsFiniteSet(Holes(d)) /\ Cardinality(Holes(d)) \in Nat
         /\ \A j : j \in Holes(d) <=>
              j \in 1 .. Len(d.vals) /\ \A i \in 1 .. Len(d.vars) : j \notin Segment(d.vars[i])
<1>1. \A j : j \in Holes(d) <=>
        j \in 1 .. Len(d.vals) /\ \A i \in 1 .. Len(d.vars) : j \notin Segment(d.vars[i])
  <2>1. DOMAIN d.vals = 1 .. Len(d.vals) /\ DOMAIN d.vars = 1 .. Len(d.vars)
    BY DictFields
  <2>2. QED
    BY <2>1 DEF Holes, Owned
<1>2. Len(d.vals) \in Nat
  BY DictFields
<1>3. IsFiniteSet(1 .. Len(d.vals))
  BY <1>2, FS_Interval
<1>4. Holes(d) \in SUBSET (1 .. Len(d.vals))
  BY <1>1
<1>5. IsFiniteSet(Holes(d))
  BY <1>3, <1>4, FS_Subset
<1>6. Cardinality(Holes(d)) \in Nat
  BY <1>5, FS_CardinalityType
<1>7. QED
  BY <1>1, <1>5, <1>6

(* A change that makes new holes in a .. b at most. *)
LEMMA HolesAfter ==
  ASSUME NEW P, NEW d, NEW e, NEW Q, d \in DictOver(P), e \in DictOver(Q), HolesCounted(d),
         NEW a, NEW b, NEW c, a \in Int, b \in Int, c \in Nat, b <= a + c - 1,
         Holes(e) \subseteq Holes(d) \cup (a .. b), e.deleted = d.deleted + c
  PROVE  HolesCounted(e)
<1>1. /\ IsFiniteSet(Holes(d)) /\ Cardinality(Holes(d)) \in Nat
      /\ IsFiniteSet(Holes(e)) /\ Cardinality(Holes(e)) \in Nat
  BY HolesAre
<1>2. IsFiniteSet(a .. b) /\ Cardinality(a .. b) = IF a > b THEN 0 ELSE b - a + 1
  BY FS_Interval
<1>3. Cardinality(a .. b) \in Nat /\ Cardinality(a .. b) <= c
  BY <1>2
<1>4. /\ IsFiniteSet(Holes(d) \cup (a .. b))
      /\ Cardinality(Holes(d) \cup (a .. b)) =
           Cardinality(Holes(d)) + Cardinality(a .. b) - Cardinality(Holes(d) \cap (a .. b))
  BY <1>1, <1>2, FS_Union
<1>5. Cardinality(Holes(d) \cap (a .. b)) \in Nat
  <2>1. IsFiniteSet(Holes(d) \cap (a .. b))
    BY <1>1, FS_Intersection
  <2>2. QED
    BY <2>1, FS_CardinalityType
<1>6. Cardinality(Holes(e)) <= Cardinality(Holes(d) \cup (a .. b))
  <2>1. Holes(e) \in SUBSET (Holes(d) \cup (a .. b))
    OBVIOUS
  <2>2. QED
    BY <2>1, <1>4, FS_Subset
<1>7. d.deleted \in Nat /\ Cardinality(Holes(d)) <= d.deleted
  BY DictFields DEF HolesCounted
<1>8. Cardinality(Holes(d) \cup (a .. b)) <= d.deleted + c
  BY <1>1, <1>3, <1>4, <1>5, <1>7
<1>9. Cardinality(Holes(d) \cup (a .. b)) \in Nat
  BY <1>4, FS_CardinalityType
<1>10. QED
  BY <1>1, <1>6, <1>7, <1>8, <1>9 DEF HolesCounted

LEMMA HolesSame ==
  ASSUME NEW P, NEW d, NEW e, NEW Q, d \in DictOver(P), e \in DictOver(Q), HolesCounted(d),
         Holes(e) \subseteq Holes(d), e.deleted = d.deleted
  PROVE  HolesCounted(e)
<1>1. /\ IsFiniteSet(Holes(d)) /\ Cardinality(Holes(d)) \in Nat
      /\ IsFiniteSet(Holes(e)) /\ Cardinality(Holes(e)) \in Nat
  BY HolesAre
<1>2. Cardinality(Holes(e)) <= Cardinality(Holes(d))
  <2>1. Holes(e) \in SUBSET Holes(d)
    OBVIOUS
  <2>2. QED
    BY <2>1, <1>1, FS_Subset
<1>3. d.deleted \in Nat /\ Cardinality(Holes(d)) <= d.deleted
  BY DictFields DEF HolesCounted
<1>4. Cardinality(Holes(e)) <= d.deleted
  BY <1>1, <1>2, <1>3
<1>5. QED
  BY <1>4 DEF HolesCounted

LEMMA AddVariableKeeps ==
  ASSUME NEW P, NEW d, NEW name, d \in DictOver(P), name \in Nat, Layout(d),
         \A k \in DOMAIN d.vars : d.vars[k].name # name,
         NEW e, e = AddVariable(d, name)
  PROVE  Layout(e)
<1>1. /\ e \in DictOver(P)
      /\ Len(e.vars) = Len(d.vars) + 1
      /\ \A k \in 1 .. Len(d.vars) : e.vars[k] = d.vars[k]
      /\ e.vars[Len(d.vars) + 1].name = name
      /\ e.vars[Len(d.vars) + 1].offset = Len(d.vals) /\ e.vars[Len(d.vars) + 1].card = 0
      /\ e.vals = d.vals /\ e.deleted = d.deleted /\ ~e.sorted
  BY AddVariableIs
<1>2. PICK n \in Nat : Len(d.vars) = n /\ DOMAIN d.vars = 1 .. n /\ DOMAIN e.vars = 1 .. n + 1
  BY <1>1, DictFields
<1>3. /\ e.vars[n + 1].name = name /\ e.vars[n + 1].offset = Len(d.vals) /\ e.vars[n + 1].card = 0
      /\ \A k \in 1 .. n : e.vars[k] = d.vars[k]
  BY <1>1, <1>2
<1>4. Len(d.vals) \in Nat /\ \A k \in 1 .. n : d.vars[k].offset \in Nat /\ d.vars[k].card \in Nat
  BY <1>2, DictFields
<1>5. \A k \in 1 .. n + 1 : k = n + 1 \/ k \in 1 .. n
  OBVIOUS
<1>6. NamesDiffer(e.vars)
  BY <1>2, <1>3, <1>5 DEF NamesDiffer, Layout
<1>7. Inside(e)
  BY <1>1, <1>2, <1>3, <1>4, <1>5 DEF Inside, Layout
<1>8. Apart(e)
  <2>1. \A k \in 1 .. n : Before(e.vars[k], e.vars[n + 1])
    BY <1>2, <1>3, <1>4 DEF Inside, Before, Layout
  <2>2. QED
    BY <2>1, <1>2, <1>3, <1>5 DEF Apart, Layout
<1>9. Segment(e.vars[n + 1]) = {}
  BY <1>3, <1>4 DEF Segment
<1>10. ValuesDiffer(e)
  <2>1. ASSUME NEW k \in 1 .. n + 1, NEW j \in Segment(e.vars[k]), NEW m \in Segment(e.vars[k]), j # m
        PROVE  d.vals[j].value # d.vals[m].value
    <3>1. k \in 1 .. n /\ e.vars[k] = d.vars[k]
      BY <1>3, <1>5, <1>9, <2>1
    <3>2. QED
      BY <1>2, <2>1, <3>1 DEF ValuesDiffer, Layout
  <2>2. QED
    BY <1>1, <1>2, <2>1 DEF ValuesDiffer
<1>11. Holes(e) \subseteq Holes(d)
  BY <1>1, <1>2, <1>3, HolesAre
<1>12. HolesCounted(e)
  BY <1>1, <1>11, HolesSame DEF Layout
<1>13. QED
  BY <1>1, <1>6, <1>7, <1>8, <1>10, <1>12 DEF Layout

LEMMA MoveToTailKeeps ==
  ASSUME NEW P, NEW d, NEW i, NEW e, d \in DictOver(P), i \in 1 .. Len(d.vars), Layout(d),
         d.vars[i].offset + d.vars[i].card < Len(d.vals), e = MoveToTail(d, i)
  PROVE  /\ Layout(e)
         /\ \A j \in Segment(e.vars[i]) : \E h \in Segment(d.vars[i]) : e.vals[j] = d.vals[h]
<1>1. PICK v : v = d.vars[i]
  OBVIOUS
<1>2. /\ e \in DictOver(P)
      /\ Len(e.vars) = Len(d.vars)
      /\ \A k \in 1 .. Len(d.vars) : k # i => e.vars[k] = d.vars[k]
      /\ e.vars[i].name = v.name /\ e.vars[i].offset = Len(d.vals) /\ e.vars[i].card = v.card
      /\ Len(e.vals) = Len(d.vals) + v.card
      /\ \A j \in 1 .. Len(d.vals) : e.vals[j] = d.vals[j]
      /\ \A j \in 1 .. v.card : e.vals[Len(d.vals) + j] = d.vals[v.offset + j]
      /\ e.deleted = d.deleted + v.card /\ e.sorted = d.sorted
  BY <1>1, MoveToTailIs
<1>3. PICK m \in Nat, o \in Nat, c \in Nat : Len(d.vals) = m /\ v.offset = o /\ v.card = c
  BY <1>1, DictFields
<1>4. /\ DOMAIN d.vars = 1 .. Len(d.vars) /\ DOMAIN e.vars = 1 .. Len(d.vars)
      /\ \A k \in 1 .. Len(d.vars) : d.vars[k].offset \in Nat /\ d.vars[k].card \in Nat
  BY <1>2, DictFields
<1>5. /\ e.vars[i].offset = m /\ e.vars[i].card = c /\ Len(e.vals) = m + c
      /\ \A j \in 1 .. m : e.vals[j] = d.vals[j]
      /\ \A j \in 1 .. c : e.vals[m + j] = d.vals[o + j]
      /\ e.deleted = d.deleted + c
  BY <1>2, <1>3
<1>6. Segment(e.vars[i]) = m + 1 .. m + c /\ Segment(v) = o + 1 .. o + c
  BY <1>3, <1>5 DEF Segment
<1>7. \A k \in 1 .. Len(d.vars) : e.vars[k].name = d.vars[k].name
  BY <1>1, <1>2
<1>8. NamesDiffer(e.vars)
  BY <1>4, <1>7 DEF NamesDiffer, Layout
<1>9. e.sorted => IncreasingNames(e.vars)
  BY <1>2, <1>4, <1>7 DEF IncreasingNames, Layout
<1>10. \A k \in 1 .. Len(d.vars) : d.vars[k].offset + d.vars[k].card <= m
  BY <1>3, <1>4 DEF Inside, Layout
<1>11. Inside(e)
  <2>1. ASSUME NEW k \in 1 .. Len(d.vars)
        PROVE  e.vars[k].offset + e.vars[k].card <= m + c
    <3>1. CASE k = i
      BY <1>5, <3>1
    <3>2. CASE k # i
      BY <1>2, <1>4, <1>10, <3>2
    <3>3. QED
      BY <3>1, <3>2
  <2>2. QED
    BY <1>4, <1>5, <2>1 DEF Inside
<1>12. Apart(e)
  <2>1. \A k \in 1 .. Len(d.vars) : k # i => Before(e.vars[k], e.vars[i])
    BY <1>2, <1>3, <1>10 DEF Before
  <2>2. QED
    BY <1>2, <1>4, <2>1 DEF Apart, Layout
<1>13. \A j \in m + 1 .. m + c : e.vals[j] = d.vals[o + (j - m)] /\ o + (j - m) \in Segment(v)
  <2>1. ASSUME NEW j \in m + 1 .. m + c
        PROVE  e.vals[j] = d.vals[o + (j - m)] /\ o + (j - m) \in Segment(v)
    <3>1. j - m \in 1 .. c /\ m + (j - m) = j /\ o + (j - m) \in o + 1 .. o + c
      OBVIOUS
    <3>2. QED
      BY <1>5, <1>6, <3>1
  <2>2. QED
    BY <2>1
<1>14. ValuesDiffer(e)
  <2>1. ASSUME NEW k \in 1 .. Len(d.vars), NEW x \in Segment(e.vars[k]), NEW y \in Segment(e.vars[k]), x # y
        PROVE  e.vals[x].value # e.vals[y].value
    <3>1. CASE k = i
      <4>1. x \in m + 1 .. m + c /\ y \in m + 1 .. m + c
        BY <1>6, <2>1, <3>1
      <4>2. o + (x - m) # o + (y - m)
        BY <2>1, <4>1
      <4>3. QED
        BY <1>1, <1>4, <1>13, <4>1, <4>2 DEF ValuesDiffer, Layout
    <3>2. CASE k # i
      <4>1. x \in Segment(d.vars[k]) /\ y \in Segment(d.vars[k])
        BY <1>2, <2>1, <3>2
      <4>2. x \in 1 .. m /\ y \in 1 .. m
        BY <1>4, <1>10, <4>1 DEF Segment
      <4>3. d.vals[x].value # d.vals[y].value
        BY <1>4, <2>1, <4>1 DEF ValuesDiffer, Layout
      <4>4. e.vals[x] = d.vals[x] /\ e.vals[y] = d.vals[y]
        BY <1>5, <4>2
      <4>5. QED
        BY <4>3, <4>4
    <3>3. QED
      BY <3>1, <3>2
  <2>2. QED
    BY <1>4, <2>1 DEF ValuesDiffer
<1>15. HolesCounted(e)
  <2>1. ASSUME NEW j \in Holes(e)
        PROVE  j \in Holes(d) \cup (o + 1 .. o + c)
    <3>1. j \in 1 .. m + c /\ \A k \in 1 .. Len(d.vars) : j \notin Segment(e.vars[k])
      BY <1>2, <1>5, HolesAre
    <3>2. j \in 1 .. m
      BY <1>6, <3>1
    <3>3. ASSUME j \notin o + 1 .. o + c, NEW k \in 1 .. Len(d.vars)
          PROVE  j \notin Segment(d.vars[k])
      BY <1>1, <1>2, <1>6, <3>1, <3>3
    <3>4. QED
      BY <1>3, <3>2, <3>3, HolesAre
  <2>2. PICK a, b : a = o + 1 /\ b = o + c
    OBVIOUS
  <2>3. a \in Int /\ b \in Int /\ c \in Nat /\ b <= a + c - 1
    BY <2>2
  <2>4. Holes(e) \subseteq Holes(d) \cup (a .. b) /\ HolesCounted(d)
    BY <2>1, <2>2 DEF Layout
  <2>5. e.deleted = d.deleted + c
    BY <1>5
  <2>6. QED
    BY <1>2, <2>3, <2>4, <2>5, HolesAfter
<1>16. \A j \in Segment(e.vars[i]) : \E h \in Segment(d.vars[i]) : e.vals[j] = d.vals[h]
  BY <1>1, <1>6, <1>13
<1>17. QED
  BY <1>8, <1>9, <1>11, <1>12, <1>14, <1>15, <1>16 DEF Layout

LEMMA AppendedKeeps ==
  ASSUME NEW P, NEW d, NEW i, NEW x, NEW e, d \in DictOver(P), i \in 1 .. Len(d.vars), Layout(d),
         x \in [value: Nat, prob: P], e = Appended(d, i, x),
         d.vars[i].offset + d.vars[i].card = Len(d.vals),
         \A j \in Segment(d.vars[i]) : d.vals[j].value # x.value,
         \A k \in 1 .. Len(d.vars) : k # i => d.vars[k].card > 0
  PROVE  /\ Layout(e)
         /\ Len(e.vars) = Len(d.vars)
         /\ \A k \in 1 .. Len(d.vars) : e.vars[k].card > 0
<1>1. PICK v : v = d.vars[i]
  OBVIOUS
<1>2. /\ e \in DictOver(P)
      /\ Len(e.vars) = Len(d.vars)
      /\ \A k \in 1 .. Len(d.vars) : k # i => e.vars[k] = d.vars[k]
      /\ e.vars[i].name = v.name /\ e.vars[i].offset = v.offset /\ e.vars[i].card = v.card + 1
      /\ Len(e.vals) = Len(d.vals) + 1
      /\ \A j \in 1 .. Len(d.vals) : e.vals[j] = d.vals[j]
      /\ e.vals[Len(d.vals) + 1] = x
      /\ e.deleted = d.deleted /\ e.sorted = d.sorted
  BY <1>1, AppendedIs, SMTT(30)
<1>3. PICK m \in Nat, o \in Nat, c \in Nat : Len(d.vals) = m /\ v.offset = o /\ v.card = c /\ o + c = m
  BY <1>1, DictFields
<1>4. /\ DOMAIN d.vars = 1 .. Len(d.vars) /\ DOMAIN e.vars = 1 .. Len(d.vars)
      /\ \A k \in 1 .. Len(d.vars) : d.vars[k].offset \in Nat /\ d.vars[k].card \in Nat
  <2>1. /\ DOMAIN d.vars = 1 .. Len(d.vars)
        /\ \A k \in 1 .. Len(d.vars) : d.vars[k].offset \in Nat /\ d.vars[k].card \in Nat
    BY DictFields
  <2>2. DOMAIN e.vars = 1 .. Len(e.vars)
    BY <1>2, DictFields
  <2>3. QED
    BY <1>2, <2>1, <2>2
<1>5. /\ e.vars[i].offset = o /\ e.vars[i].card = c + 1 /\ Len(e.vals) = m + 1
      /\ \A j \in 1 .. m : e.vals[j] = d.vals[j]
      /\ e.vals[m + 1] = x
  BY <1>2, <1>3
<1>6. Segment(e.vars[i]) = o + 1 .. m + 1 /\ Segment(v) = o + 1 .. m
  BY <1>3, <1>5 DEF Segment
<1>7. \A k \in 1 .. Len(d.vars) : e.vars[k].name = d.vars[k].name
  BY <1>1, <1>2
<1>8. NamesDiffer(e.vars)
  BY <1>4, <1>7 DEF NamesDiffer, Layout
<1>9. e.sorted => IncreasingNames(e.vars)
  BY <1>2, <1>4, <1>7 DEF IncreasingNames, Layout
<1>10. \A k \in 1 .. Len(d.vars) : d.vars[k].offset + d.vars[k].card <= m
  BY <1>3, <1>4 DEF Inside, Layout
<1>11. Inside(e)
  <2>1. ASSUME NEW k \in 1 .. Len(d.vars)
        PROVE  e.vars[k].offset + e.vars[k].card <= m + 1
    <3>1. CASE k = i
      BY <1>3, <1>5, <3>1
    <3>2. CASE k # i
      BY <1>2, <1>4, <1>10, <3>2
    <3>3. QED
      BY <3>1, <3>2
  <2>2. QED
    BY <1>4, <1>5, <2>1 DEF Inside
<1>12. Apart(e)
  <2>1. \A k \in 1 .. Len(d.vars) : k # i => Before(e.vars[k], e.vars[i])
    <3>1. ASSUME NEW k \in 1 .. Len(d.vars), k # i PROVE Before(d.vars[k], v)
      <4>1. Before(d.vars[k], v) \/ Before(v, d.vars[k])
        BY <1>1, <1>4, <3>1 DEF Apart, Layout
      <4>2. d.vars[k].card > 0 /\ d.vars[k].offset + d.vars[k].card <= m
        BY <1>10, <3>1
      <4>3. ~Before(v, d.vars[k])
        BY <1>3, <1>4, <4>2 DEF Before
      <4>4. QED
        BY <4>1, <4>3
    <3>2. QED
      BY <1>2, <3>1 DEF Before
  <2>2. \A k, l \in 1 .. Len(d.vars) :
          k # l => Before(d.vars[k], d.vars[l]) \/ Before(d.vars[l], d.vars[k])
    BY <1>4 DEF Apart, Layout
  <2>3. ASSUME NEW k \in 1 .. Len(d.vars), NEW l \in 1 .. Len(d.vars), k # l
        PROVE  Before(e.vars[k], e.vars[l]) \/ Before(e.vars[l], e.vars[k])
    <3>1. CASE k = i \/ l = i
      BY <2>1, <2>3, <3>1
    <3>2. CASE k # i /\ l # i
      BY <1>2, <2>2, <2>3, <3>2
    <3>3. QED
      BY <3>1, <3>2
  <2>4. QED
    BY <1>4, <2>3 DEF Apart
<1>14. ValuesDiffer(e)
  <2>1. ASSUME NEW k \in 1 .. Len(d.vars), NEW z \in Segment(e.vars[k]), NEW y \in Segment(e.vars[k]), z # y
        PROVE  e.vals[z].value # e.vals[y].value
    <3>1. CASE k = i
      <4>1. z \in o + 1 .. m + 1 /\ y \in o + 1 .. m + 1
        BY <1>6, <2>1, <3>1
      <4>2. CASE z = m + 1
        <5>1. y \in Segment(v) /\ y \in 1 .. m
          BY <1>6, <2>1, <4>1, <4>2
        <5>2. QED
          BY <1>1, <1>5, <4>2, <5>1
      <4>3. CASE y = m + 1
        <5>1. z \in Segment(v) /\ z \in 1 .. m
          BY <1>6, <2>1, <4>1, <4>3
        <5>2. QED
          BY <1>1, <1>5, <4>3, <5>1
      <4>4. CASE z # m + 1 /\ y # m + 1
        <5>1. z \in Segment(v) /\ z \in 1 .. m /\ y \in Segment(v) /\ y \in 1 .. m
          BY <1>6, <4>1, <4>4
        <5>2. d.vals[z].value # d.vals[y].value
          BY <1>1, <1>4, <2>1, <5>1 DEF ValuesDiffer, Layout
        <5>3. QED
          BY <1>5, <5>1, <5>2
      <4>5. QED
        BY <4>2, <4>3, <4>4
    <3>2. CASE k # i
      <4>1. z \in Segment(d.vars[k]) /\ y \in Segment(d.vars[k])
        BY <1>2, <2>1, <3>2
      <4>2. z \in 1 .. m /\ y \in 1 .. m
        <5>1. PICK a \in Nat, b \in Nat : d.vars[k].offset = a /\ d.vars[k].card = b
          BY <1>4
        <5>2. a + b <= m
          BY <1>10, <5>1
        <5>3. z \in a + 1 .. a + b /\ y \in a + 1 .. a + b
          BY <4>1, <5>1 DEF Segment
        <5>4. QED
          BY <5>2, <5>3
      <4>3. d.vals[z].value # d.vals[y].value
        BY <1>4, <2>1, <4>1 DEF ValuesDiffer, Layout
      <4>4. QED
        BY <1>5, <4>2, <4>3
    <3>3. QED
      BY <3>1, <3>2
  <2>2. QED
    BY <1>4, <2>1 DEF ValuesDiffer
<1>15. HolesCounted(e)
  <2>1. ASSUME NEW j \in Holes(e)
        PROVE  j \in Holes(d)
    <3>1. j \in 1 .. m + 1 /\ \A k \in 1 .. Len(d.vars) : j \notin Segment(e.vars[k])
      BY <1>2, <1>5, HolesAre
    <3>2. j \in 1 .. m /\ j \notin Segment(v)
      BY <1>3, <1>6, <3>1
    <3>3. ASSUME NEW k \in 1 .. Len(d.vars)
          PROVE  j \notin Segment(d.vars[k])
      BY <1>1, <1>2, <3>1, <3>2, <3>3
    <3>4. QED
      BY <1>3, <3>2, <3>3, HolesAre
  <2>2. Holes(e) \subseteq Holes(d) /\ HolesCounted(d)
    BY <2>1 DEF Layout
  <2>3. QED
    BY <1>2, <2>2, HolesSame
<1>16. \A k \in 1 .. Len(d.vars) : e.vars[k].card > 0
  BY <1>2, <1>5
<1>17. QED
  BY <1>2, <1>8, <1>9, <1>11, <1>12, <1>14, <1>15, <1>16 DEF Layout

(* The code of modify_dictionary for a value that is not there yet. *)
LEMMA AddValueKeeps ==
  ASSUME NEW P, NEW d, NEW i, NEW val, NEW prob, NEW e,
         d \in DictOver(P), i \in 1 .. Len(d.vars), Layout(d), val \in Nat, prob \in P,
         e = AddValue(d, i, val, prob),
         \A j \in Segment(d.vars[i]) : d.vals[j].value # val,
         \A k \in 1 .. Len(d.vars) : k # i => d.vars[k].card > 0
  PROVE  /\ e \in DictOver(P) /\ Layout(e)
         /\ Len(e.vars) = Len(d.vars)
         /\ \A k \in 1 .. Len(d.vars) : e.vars[k].card > 0
<1>1. PICK x : x = [value |-> val, prob |-> prob]
  OBVIOUS
<1>2. x \in [value: Nat, prob: P] /\ x.value = val
  BY <1>1
<1>3. PICK m : m = MoveToTail(d, i)
  OBVIOUS
<1>4. e = Appended(m, i, x)
  BY <1>1, <1>3 DEF AddValue, Appended
<1>5. /\ Len(d.vals) \in Nat /\ Len(d.vars) \in Nat
      /\ d.vars[i].offset \in Nat /\ d.vars[i].card \in Nat
      /\ \A k \in DOMAIN d.vars : d.vars[k].offset + d.vars[k].card <= Len(d.vals)
      /\ DOMAIN d.vars = 1 .. Len(d.vars)
  BY DictFields DEF Layout, Inside
<1>6. /\ m \in DictOver(P) /\ Layout(m) /\ Len(m.vars) = Len(d.vars)
      /\ m.vars[i].offset + m.vars[i].card = Len(m.vals)
      /\ \A j \in Segment(m.vars[i]) : m.vals[j].value # val
      /\ \A k \in 1 .. Len(d.vars) : k # i => m.vars[k] = d.vars[k]
  <2>1. CASE d.vars[i].offset + d.vars[i].card = Len(d.vals)
    <3>1. m = d
      BY <1>3, <2>1 DEF MoveToTail
    <3>2. QED
      BY <3>1, <2>1
  <2>2. CASE d.vars[i].offset + d.vars[i].card # Len(d.vals)
    <3>1. d.vars[i].offset + d.vars[i].card < Len(d.vals)
      <4>1. PICK a \in Nat, b \in Nat, n \in Nat :
              d.vars[i].offset = a /\ d.vars[i].card = b /\ Len(d.vals) = n
        BY <1>5
      <4>2. a + b <= n /\ a + b # n
        BY <1>5, <2>2, <4>1
      <4>3. a + b < n
        BY <4>2
      <4>4. QED
        BY <4>1, <4>3
    <3>2. PICK v : v = d.vars[i]
      OBVIOUS
    <3>3. v.offset + v.card < Len(d.vals)
      BY <3>1, <3>2
    <3>4. /\ m \in DictOver(P)
          /\ Len(m.vars) = Len(d.vars)
          /\ \A k \in 1 .. Len(d.vars) : k # i => m.vars[k] = d.vars[k]
          /\ m.vars[i].offset = Len(d.vals) /\ m.vars[i].card = v.card
          /\ Len(m.vals) = Len(d.vals) + v.card
      BY <1>3, <3>2, <3>3, MoveToTailIs
    <3>5. /\ Layout(m)
          /\ \A j \in Segment(m.vars[i]) : \E h \in Segment(d.vars[i]) : m.vals[j] = d.vals[h]
      <4>1. d \in DictOver(P) /\ i \in 1 .. Len(d.vars) /\ Layout(d)
        OBVIOUS
      <4>2. QED
        BY <4>1, <1>3, <3>1, MoveToTailKeeps, SMTT(30)
    <3>6. QED
      BY <3>4, <3>5
  <2>3. QED
    BY <2>1, <2>2
<1>7. i \in 1 .. Len(m.vars) /\ \A k \in 1 .. Len(m.vars) : k # i => m.vars[k].card > 0
  BY <1>6
<1>8. \A j \in Segment(m.vars[i]) : m.vals[j].value # x.value
  BY <1>2, <1>6
<1>9. /\ Layout(e) /\ Len(e.vars) = Len(m.vars)
      /\ \A k \in 1 .. Len(m.vars) : e.vars[k].card > 0
  BY <1>2, <1>4, <1>6, <1>7, <1>8, AppendedKeeps
<1>10. e \in DictOver(P)
  <2>1. PICK w : w = m.vars[i]
    OBVIOUS
  <2>2. QED
    BY <1>2, <1>4, <1>6, <1>7, <2>1, AppendedIs
<1>11. QED
  BY <1>6, <1>9, <1>10

-----------------------------------------------------------------------------
(* get_var_value_index finds the value in the segment if it is there.       *)
LEMMA ValIndexFinds ==
  ASSUME NEW d, NEW v, NEW val, v \in Variable
  PROVE  /\ ValIndex(d, v, val) \in Nat
         /\ ValIndex(d, v, val) # 0 =>
              ValIndex(d, v, val) \in Segment(v) /\ d.vals[ValIndex(d, v, val)].value = val
         /\ ValIndex(d, v, val) = 0 => \A j \in Segment(v) : d.vals[j].value # val
<1> DEFINE I == {j \in v.offset + 1 .. v.offset + v.card : d.vals[j].value = val}
<1>1. ValIndex(d, v, val) = IF I # {} THEN Min(I) ELSE 0
  BY DEF ValIndex, SelectInSubSeq
<1>2. v.offset \in Nat /\ v.card \in Nat
  BY DEF Variable
<1>3. I \in SUBSET Nat /\ 0 \notin I
  BY <1>2
<1>4. I # {} => Min(I) \in I
  <2> HIDE DEF I
  <2>1. QED
    BY <1>3, LeastNatural DEF Min
<1>5. \A j : j \in I <=> j \in Segment(v) /\ d.vals[j].value = val
  BY DEF Segment
<1> HIDE DEF I
<1>6. CASE I = {}
  <2>1. ValIndex(d, v, val) = 0
    BY <1>1, <1>6
  <2>2. QED
    BY <1>5, <1>6, <2>1
<1>7. CASE I # {}
  <2>1. ValIndex(d, v, val) \in I
    BY <1>1, <1>4, <1>7
  <2>2. QED
    BY <1>3, <1>5, <2>1
<1>8. QED
  BY <1>6, <1>7

LEMMA SequenceOf ==
  ASSUME NEW S, NEW n \in Nat, NEW f \in [1 .. n -> S]
  PROVE  f \in Seq(S) /\ Len(f) = n /\ DOMAIN f = 1 .. n
<1>1. f \in Seq(S)
  BY SeqDef
<1>2. DOMAIN f = 1 .. Len(f) /\ DOMAIN f = 1 .. n /\ Len(f) \in Nat
  BY <1>1, LenProperties
<1>3. Len(f) = n
  BY <1>2
<1>4. QED
  BY <1>1, <1>2, <1>3

(* Only probabilities change. *)
LEMMA ReweighedKeeps ==
  ASSUME NEW P, NEW d, NEW Q, NEW e, d \in DictOver(P), e \in DictOver(Q), Layout(d),
         e.vars = d.vars, Len(e.vals) = Len(d.vals), e.deleted = d.deleted, e.sorted = d.sorted,
         \A j \in 1 .. Len(d.vals) : e.vals[j].value = d.vals[j].value
  PROVE  Layout(e)
<1>1. /\ DOMAIN d.vars = 1 .. Len(d.vars)
      /\ \A i \in 1 .. Len(d.vars) : d.vars[i].offset \in Nat /\ d.vars[i].card \in Nat
      /\ DOMAIN e.vals = DOMAIN d.vals
  <2>1. DOMAIN e.vals = 1 .. Len(e.vals) /\ DOMAIN d.vals = 1 .. Len(d.vals)
    BY DictFields
  <2>2. QED
    BY <2>1, DictFields
<1>2. \A i \in DOMAIN d.vars : Segment(d.vars[i]) \subseteq 1 .. Len(d.vals)
  <2>1. ASSUME NEW i \in DOMAIN d.vars PROVE Segment(d.vars[i]) \subseteq 1 .. Len(d.vals)
    <3>1. PICK a \in Nat, b \in Nat, n \in Nat : d.vars[i].offset = a /\ d.vars[i].card = b /\ Len(d.vals) = n
      BY <1>1, DictFields
    <3>2. a + b <= n
      BY <3>1 DEF Layout, Inside
    <3>3. QED
      BY <3>1, <3>2 DEF Segment
  <2>2. QED
    BY <2>1
<1>3. ValuesDiffer(e)
  <2>1. ASSUME NEW i \in DOMAIN d.vars, NEW j \in Segment(d.vars[i]), NEW k \in Segment(d.vars[i]), j # k
        PROVE  e.vals[j].value # e.vals[k].value
    <3>1. d.vals[j].value # d.vals[k].value
      BY <2>1 DEF ValuesDiffer, Layout
    <3>2. j \in 1 .. Len(d.vals) /\ k \in 1 .. Len(d.vals)
      BY <1>2
    <3>3. QED
      BY <3>1, <3>2
  <2>2. QED
    BY <2>1 DEF ValuesDiffer
<1>4. Inside(e) /\ Apart(e) /\ NamesDiffer(e.vars) /\ (e.sorted => IncreasingNames(e.vars))
  BY DEF Layout, Inside, Apart
<1>5. Holes(e) \subseteq Holes(d) /\ HolesCounted(d)
  BY <1>1 DEF Holes, Owned, Layout
<1>6. HolesCounted(e)
  BY <1>5, HolesSame
<1>7. QED
  BY <1>3, <1>4, <1>6 DEF Layout

(* SetProb and normalize_var change probabilities only. *)
LEMMA SetProbKeeps ==
  ASSUME NEW P, NEW d, NEW j, NEW prob, NEW e, d \in DictOver(P), Layout(d), j \in 1 .. Len(d.vals),
         prob \in P, e = SetProb(d, j, prob)
  PROVE  e \in DictOver(P) /\ Layout(e) /\ e.vars = d.vars
<1> DEFINE V == [value: Nat, prob: P]
           x == [value |-> d.vals[j].value, prob |-> prob]
           xs == [d.vals EXCEPT ![j] = x]
<1>1. d.vals \in Seq(V) /\ d.vals[j] \in V /\ d.vals[j].value \in Nat
  BY DictFields
<1>2. x \in V /\ x = [d.vals[j] EXCEPT !.prob = prob]
  <2>1. PICK y \in V : y = d.vals[j]
    BY <1>1
  <2>2. y = [value |-> y.value, prob |-> y.prob] /\ y.value \in Nat
    OBVIOUS
  <2>3. QED
    BY <2>1, <2>2
<1>3. xs \in Seq(V) /\ Len(xs) = Len(d.vals) /\ \A k \in 1 .. Len(d.vals) : xs[k] = IF k = j THEN x ELSE d.vals[k]
  <2> HIDE DEF x, V
  <2>1. QED
    BY <1>1, <1>2, ExceptSeq
<1>4. e = [vars |-> d.vars, vals |-> xs, deleted |-> d.deleted, sorted |-> d.sorted]
  <2>1. e = [d EXCEPT !.vals = [d.vals EXCEPT ![j] = [d.vals[j] EXCEPT !.prob = prob]]]
    BY DEF SetProb
  <2> HIDE DEF x
  <2>2. QED
    BY <1>2, <2>1 DEF DictOver
<1>5. e \in DictOver(P) /\ e.vars = d.vars /\ e.vals = xs /\ e.deleted = d.deleted /\ e.sorted = d.sorted
  <2>1. d.vars \in Seq(Variable) /\ d.deleted \in Nat /\ d.sorted \in BOOLEAN
    BY DictFields
  <2> HIDE DEF xs
  <2>2. QED
    BY <1>3, <1>4, <2>1 DEF DictOver
<1>6. \A k \in 1 .. Len(d.vals) : e.vals[k].value = d.vals[k].value
  <2>1. x.value = d.vals[j].value
    OBVIOUS
  <2> HIDE DEF x, xs
  <2>2. QED
    BY <1>3, <1>5, <2>1
<1>7. Len(e.vals) = Len(d.vals)
  <2> HIDE DEF x, xs
  <2>1. QED
    BY <1>3, <1>5
<1>8. Layout(e)
  BY <1>5, <1>6, <1>7, ReweighedKeeps
<1>9. QED
  BY <1>5, <1>8

(* One value of several is deleted. *)
LEMMA DropValueIs ==
  ASSUME NEW P, NEW d, NEW i, NEW v, NEW j, NEW e, d \in DictOver(P), i \in 1 .. Len(d.vars),
         v = d.vars[i], v.card > 0, j \in Segment(v), v.offset + v.card <= Len(d.vals),
         e = DropValue(d, i, j)
  PROVE  /\ e \in DictOver(P)
         /\ Len(e.vars) = Len(d.vars)
         /\ \A k \in 1 .. Len(d.vars) : k # i => e.vars[k] = d.vars[k]
         /\ e.vars[i].name = v.name /\ e.vars[i].offset = v.offset /\ e.vars[i].card = v.card - 1
         /\ Len(e.vals) = Len(d.vals)
         /\ \A k \in 1 .. Len(d.vals) :
              e.vals[k] = IF k \in j .. v.offset + v.card - 1 THEN d.vals[k + 1] ELSE d.vals[k]
         /\ e.deleted = d.deleted + 1 /\ e.sorted = d.sorted
<1> DEFINE V == [value: Nat, prob: P]
           w == [name |-> v.name, offset |-> v.offset, card |-> v.card - 1]
           vs == [d.vars EXCEPT ![i] = w]
           xs == [k \in DOMAIN d.vals |->
                    IF k \in j .. v.offset + v.card - 1 THEN d.vals[k + 1] ELSE d.vals[k]]
<1>1. /\ d.vars \in Seq(Variable) /\ d.vals \in Seq(V) /\ v \in Variable
      /\ d.deleted \in Nat /\ d.sorted \in BOOLEAN /\ Len(d.vals) \in Nat
      /\ v.offset \in Nat /\ v.card \in Nat
      /\ DOMAIN d.vals = 1 .. Len(d.vals) /\ \A k \in 1 .. Len(d.vals) : d.vals[k] \in V
  BY DictFields
<1>2. w \in Variable /\ w = [v EXCEPT !.card = v.card - 1]
  <2>1. v.card - 1 \in Nat /\ v \in Variable
    BY <1>1
  <2>2. QED
    BY <2>1, VariableFields
<1>3. e = [vars |-> vs, vals |-> xs, deleted |-> d.deleted + 1, sorted |-> d.sorted]
  <2>1. e = [d EXCEPT !.vals = xs, !.vars = [d.vars EXCEPT ![i] = [v EXCEPT !.card = v.card - 1]],
                      !.deleted = d.deleted + 1]
    BY <1>1 DEF DropValue, DictOver
  <2> HIDE DEF w, xs
  <2>2. QED
    BY <1>2, <2>1 DEF DictOver
<1>4. xs \in Seq(V) /\ Len(xs) = Len(d.vals)
      /\ \A k \in 1 .. Len(d.vals) :
           xs[k] = IF k \in j .. v.offset + v.card - 1 THEN d.vals[k + 1] ELSE d.vals[k]
  <2>1. ASSUME NEW k \in 1 .. Len(d.vals), k \in j .. v.offset + v.card - 1
        PROVE  k + 1 \in 1 .. Len(d.vals)
    <3>1. PICK o \in Nat, c \in Nat, n \in Nat : o = v.offset /\ c = v.card /\ n = Len(d.vals)
      BY <1>1
    <3>2. o + c <= n /\ j \in o + 1 .. o + c
      BY <3>1 DEF Segment
    <3>3. k \in j .. o + c - 1
      BY <2>1, <3>1
    <3>4. k + 1 \in 1 .. n
      BY <3>2, <3>3
    <3>5. QED
      BY <3>1, <3>4
  <2>2. xs \in [1 .. Len(d.vals) -> V]
    <3> HIDE DEF V
    <3>1. QED
      BY <1>1, <2>1
  <2>3. \A k \in 1 .. Len(d.vals) :
           xs[k] = IF k \in j .. v.offset + v.card - 1 THEN d.vals[k + 1] ELSE d.vals[k]
    BY <1>1
  <2> HIDE DEF xs, V
  <2>4. QED
    BY <1>1, <2>2, <2>3, SequenceOf
<1>5. /\ vs \in Seq(Variable)
      /\ Len(vs) = Len(d.vars)
      /\ \A k \in 1 .. Len(d.vars) : vs[k] = IF k = i THEN w ELSE d.vars[k]
  <2> HIDE DEF w
  <2>1. QED
    BY <1>1, <1>2, ExceptSeq
<1>6. e \in DictOver(P) /\ e.vars = vs /\ e.vals = xs /\ e.deleted = d.deleted + 1 /\ e.sorted = d.sorted
  <2>1. d.deleted + 1 \in Nat
    BY <1>1
  <2> HIDE DEF vs, xs
  <2>2. QED
    BY <1>1, <1>3, <1>4, <1>5, <2>1 DEF DictOver
<1>7. w.name = v.name /\ w.offset = v.offset /\ w.card = v.card - 1
  OBVIOUS
<1>8. Len(e.vars) = Len(d.vars) /\ (\A k \in 1 .. Len(d.vars) : k # i => e.vars[k] = d.vars[k]) /\ e.vars[i] = w
  <2> HIDE DEF vs, xs, w
  <2>1. QED
    BY <1>5, <1>6
<1>9. /\ Len(e.vals) = Len(d.vals)
      /\ \A k \in 1 .. Len(d.vals) :
           e.vals[k] = IF k \in j .. v.offset + v.card - 1 THEN d.vals[k + 1] ELSE d.vals[k]
  <2> HIDE DEF vs, xs, w
  <2>1. QED
    BY <1>4, <1>6
<1>10. QED
  <2> HIDE DEF vs, xs, w
  <2>1. QED
    BY <1>6, <1>7, <1>8, <1>9

LEMMA DropValueKeeps ==
  ASSUME NEW P, NEW d, NEW i, NEW j, NEW e, d \in DictOver(P), i \in 1 .. Len(d.vars), Layout(d),
         j \in Segment(d.vars[i]), d.vars[i].card > 0, e = DropValue(d, i, j)
  PROVE  /\ e \in DictOver(P) /\ Layout(e)
         /\ Len(e.vars) = Len(d.vars)
         /\ \A k \in 1 .. Len(d.vars) : k # i => e.vars[k] = d.vars[k]
         /\ e.vars[i].card = d.vars[i].card - 1
<1>1. PICK v : v = d.vars[i]
  OBVIOUS
<1>2. PICK m \in Nat, o \in Nat, c \in Nat : Len(d.vals) = m /\ v.offset = o /\ v.card = c
  BY <1>1, DictFields
<1>3. /\ DOMAIN d.vars = 1 .. Len(d.vars)
      /\ \A k \in 1 .. Len(d.vars) : d.vars[k].offset \in Nat /\ d.vars[k].card \in Nat
  BY DictFields
<1>4. \A k \in 1 .. Len(d.vars) : d.vars[k].offset + d.vars[k].card <= m
  BY <1>2, <1>3 DEF Inside, Layout
<1>5. c > 0 /\ o + c <= m /\ v.offset + v.card <= Len(d.vals) /\ j \in Segment(v) /\ v.card > 0
  BY <1>1, <1>2, <1>4
<1>6. /\ e \in DictOver(P)
      /\ Len(e.vars) = Len(d.vars)
      /\ \A k \in 1 .. Len(d.vars) : k # i => e.vars[k] = d.vars[k]
      /\ e.vars[i].name = v.name /\ e.vars[i].offset = v.offset /\ e.vars[i].card = v.card - 1
      /\ Len(e.vals) = Len(d.vals)
      /\ \A k \in 1 .. Len(d.vals) :
           e.vals[k] = IF k \in j .. v.offset + v.card - 1 THEN d.vals[k + 1] ELSE d.vals[k]
      /\ e.deleted = d.deleted + 1 /\ e.sorted = d.sorted
  BY <1>1, <1>5, DropValueIs
<1>7. /\ e.vars[i].offset = o /\ e.vars[i].card = c - 1 /\ Len(e.vals) = m
      /\ \A k \in 1 .. m : e.vals[k] = IF k \in j .. o + c - 1 THEN d.vals[k + 1] ELSE d.vals[k]
  BY <1>2, <1>6
<1>8. Segment(e.vars[i]) = o + 1 .. o + c - 1 /\ Segment(v) = o + 1 .. o + c
  <2>1. o + (c - 1) = o + c - 1
    OBVIOUS
  <2>2. QED
    BY <1>2, <1>7, <2>1 DEF Segment
<1>9. DOMAIN e.vars = 1 .. Len(d.vars)
  BY <1>6, DictFields
<1>10. \A k \in 1 .. Len(d.vars) : e.vars[k].name = d.vars[k].name
  BY <1>1, <1>6
<1>11. NamesDiffer(e.vars)
  BY <1>3, <1>9, <1>10 DEF NamesDiffer, Layout
<1>12. e.sorted => IncreasingNames(e.vars)
  BY <1>3, <1>6, <1>9, <1>10 DEF IncreasingNames, Layout
<1>13. Inside(e)
  <2>1. ASSUME NEW k \in 1 .. Len(d.vars)
        PROVE  e.vars[k].offset + e.vars[k].card <= m
    <3>1. CASE k = i
      BY <1>5, <1>7, <3>1
    <3>2. CASE k # i
      BY <1>4, <1>6, <3>2
    <3>3. QED
      BY <3>1, <3>2
  <2>2. QED
    BY <1>7, <1>9, <2>1 DEF Inside
<1>14. \A k, l \in 1 .. Len(d.vars) : k # l => Before(d.vars[k], d.vars[l]) \/ Before(d.vars[l], d.vars[k])
  BY <1>3 DEF Apart, Layout
<1>15. Apart(e)
  <2>1. ASSUME NEW w \in Variable
        PROVE  /\ Before(w, v) => Before(w, e.vars[i])
               /\ Before(v, w) => Before(e.vars[i], w)
    BY <1>2, <1>7 DEF Before, Variable
  <2>2. \A k \in 1 .. Len(d.vars) : d.vars[k] \in Variable
    BY DictFields
  <2>3. ASSUME NEW k \in 1 .. Len(d.vars), NEW l \in 1 .. Len(d.vars), k # l
        PROVE  Before(e.vars[k], e.vars[l]) \/ Before(e.vars[l], e.vars[k])
    <3>1. CASE k = i
      BY <1>1, <1>6, <1>14, <2>1, <2>2, <2>3, <3>1
    <3>2. CASE l = i
      BY <1>1, <1>6, <1>14, <2>1, <2>2, <2>3, <3>2
    <3>3. CASE k # i /\ l # i
      BY <1>6, <1>14, <2>3, <3>3
    <3>4. QED
      BY <3>1, <3>2, <3>3
  <2>4. QED
    BY <1>9, <2>3 DEF Apart
<1>16. ASSUME NEW k \in 1 .. Len(d.vars), k # i, NEW x \in Segment(d.vars[k])
       PROVE  x \in 1 .. m /\ x \notin o + 1 .. o + c
  <2>1. PICK a \in Nat, b \in Nat : d.vars[k].offset = a /\ d.vars[k].card = b
    BY <1>3
  <2>2. a + b <= o \/ o + c <= a
    BY <1>1, <1>2, <1>14, <1>16, <2>1 DEF Before
  <2>3. a + b <= m /\ x \in a + 1 .. a + b
    BY <1>4, <2>1 DEF Segment
  <2>4. QED
    BY <2>2, <2>3
<1>17. ValuesDiffer(e)
  <2>1. ASSUME NEW k \in 1 .. Len(d.vars), NEW x \in Segment(e.vars[k]), NEW y \in Segment(e.vars[k]), x # y
        PROVE  e.vals[x].value # e.vals[y].value
    <3>1. CASE k = i
      <4> DEFINE from(z) == IF z \in j .. o + c - 1 THEN z + 1 ELSE z
      <4>1. x \in o + 1 .. o + c - 1 /\ y \in o + 1 .. o + c - 1 /\ j \in o + 1 .. o + c
        BY <1>5, <1>8, <2>1, <3>1
      <4>2. from(x) \in o + 1 .. o + c /\ from(y) \in o + 1 .. o + c /\ from(x) # from(y)
        BY <2>1, <4>1
      <4>3. x \in 1 .. m /\ y \in 1 .. m
        BY <1>5, <4>1
      <4>4. e.vals[x] = d.vals[from(x)] /\ e.vals[y] = d.vals[from(y)]
        BY <1>7, <4>3
      <4> HIDE DEF from
      <4>5. d.vals[from(x)].value # d.vals[from(y)].value
        BY <1>1, <1>3, <1>8, <4>2 DEF ValuesDiffer, Layout
      <4>6. QED
        BY <4>4, <4>5
    <3>2. CASE k # i
      <4>1. x \in Segment(d.vars[k]) /\ y \in Segment(d.vars[k])
        BY <1>6, <2>1, <3>2
      <4>2. x \in 1 .. m /\ x \notin o + 1 .. o + c /\ y \in 1 .. m /\ y \notin o + 1 .. o + c
        BY <1>16, <3>2, <4>1
      <4>3. x \notin j .. o + c - 1 /\ y \notin j .. o + c - 1
        BY <1>5, <1>8, <4>2
      <4>4. e.vals[x] = d.vals[x] /\ e.vals[y] = d.vals[y]
        BY <1>7, <4>2, <4>3
      <4>5. d.vals[x].value # d.vals[y].value
        BY <1>3, <2>1, <4>1 DEF ValuesDiffer, Layout
      <4>6. QED
        BY <4>4, <4>5
    <3>3. QED
      BY <3>1, <3>2
  <2>2. QED
    BY <1>9, <2>1 DEF ValuesDiffer
<1>18. HolesCounted(e)
  <2>1. PICK a : a = o + c
    OBVIOUS
  <2>2. ASSUME NEW x \in Holes(e)
        PROVE  x \in Holes(d) \cup (a .. a)
    <3>1. x \in 1 .. m /\ \A k \in 1 .. Len(d.vars) : x \notin Segment(e.vars[k])
      BY <1>6, <1>7, HolesAre
    <3>2. ASSUME x \notin a .. a, NEW k \in 1 .. Len(d.vars)
          PROVE  x \notin Segment(d.vars[k])
      <4>1. CASE k = i
        BY <1>1, <1>8, <2>1, <3>1, <3>2, <4>1
      <4>2. CASE k # i
        BY <1>6, <3>1, <4>2
      <4>3. QED
        BY <4>1, <4>2
    <3>3. QED
      BY <1>2, <3>1, <3>2, HolesAre
  <2>3. PICK u : u = 1
    OBVIOUS
  <2>4. a \in Int /\ u \in Nat /\ a <= a + u - 1 /\ e.deleted = d.deleted + u
    BY <1>6, <2>1, <2>3
  <2>5. Holes(e) \subseteq Holes(d) \cup (a .. a) /\ HolesCounted(d)
    BY <2>2 DEF Layout
  <2>6. QED
    BY <1>6, <2>4, <2>5, HolesAfter
<1>19. QED
  BY <1>1, <1>6, <1>11, <1>12, <1>13, <1>15, <1>17, <1>18 DEF Layout

-----------------------------------------------------------------------------
(* RemoveAt leaves out one element. *)
LEMMA RemoveAtIs ==
  ASSUME NEW S, NEW s, NEW i, NEW w, s \in Seq(S), i \in 1 .. Len(s), w = RemoveAt(s, i)
  PROVE  /\ w \in Seq(S)
         /\ Len(w) = Len(s) - 1
         /\ \A k \in 1 .. Len(s) - 1 : w[k] = IF k < i THEN s[k] ELSE s[k + 1]
<1>1. PICK n \in Nat : Len(s) = n /\ i \in 1 .. n
  BY LenProperties
<1>2. PICK a, b, z : a = i - 1 /\ b = n - i /\ z = 0
  OBVIOUS
<1>3. a \in Nat /\ b \in Nat /\ z \in Nat /\ i \in Nat /\ z + a <= n /\ i + b <= n
  BY <1>1, <1>2
<1>4. SubSeq(s, 1, i - 1) = Slice(s, z, a)
  <2>1. z + 1 = 1 /\ z + a = i - 1
    BY <1>1, <1>2
  <2>2. QED
    BY <2>1 DEF Slice
<1>5. SubSeq(s, i + 1, Len(s)) = Slice(s, i, b)
  <2>1. i + b = Len(s)
    BY <1>1, <1>2
  <2>2. QED
    BY <2>1 DEF Slice
<1>6. /\ Slice(s, z, a) \in Seq(S) /\ Len(Slice(s, z, a)) = a
      /\ \A k \in 1 .. a : Slice(s, z, a)[k] = s[z + k]
  <2>1. z \in Nat /\ a \in Nat /\ z + a <= Len(s)
    BY <1>1, <1>3
  <2>2. QED
    BY <2>1, SliceIs, SMTT(20)
<1>7. /\ Slice(s, i, b) \in Seq(S) /\ Len(Slice(s, i, b)) = b
      /\ \A k \in 1 .. b : Slice(s, i, b)[k] = s[i + k]
  <2>1. PICK h : h = i
    OBVIOUS
  <2>2. h \in Nat /\ b \in Nat /\ h + b <= Len(s)
    BY <1>1, <1>3, <2>1
  <2>3. /\ Slice(s, h, b) \in Seq(S) /\ Len(Slice(s, h, b)) = b
        /\ \A k \in 1 .. b : Slice(s, h, b)[k] = s[h + k]
    BY <2>2, SliceIs, SMTT(20)
  <2>4. QED
    BY <2>1, <2>3
<1>8. PICK x, y : x = Slice(s, z, a) /\ y = Slice(s, i, b)
  OBVIOUS
<1>9. /\ x \in Seq(S) /\ Len(x) = a /\ y \in Seq(S) /\ Len(y) = b
      /\ \A k \in 1 .. a : x[k] = s[k]
      /\ \A k \in 1 .. b : y[k] = s[i + k]
  <2>1. \A k \in 1 .. a : z + k = k
    BY <1>2, <1>3
  <2>2. QED
    BY <1>6, <1>7, <1>8, <2>1
<1>10. w = x \o y
  BY <1>4, <1>5, <1>8 DEF RemoveAt
<1>11. /\ w \in Seq(S) /\ Len(w) = a + b
       /\ \A k \in 1 .. a + b : w[k] = IF k <= a THEN x[k] ELSE y[k - a]
  <2>1. /\ x \o y \in Seq(S) /\ Len(x \o y) = Len(x) + Len(y)
        /\ \A k \in 1 .. Len(x) + Len(y) : (x \o y)[k] = IF k <= Len(x) THEN x[k] ELSE y[k - Len(x)]
    BY <1>9, ConcatProperties
  <2>2. QED
    BY <1>9, <1>10, <2>1
<1>12. a + b = n - 1
  BY <1>1, <1>2
<1>13. ASSUME NEW k \in 1 .. n - 1 PROVE w[k] = IF k < i THEN s[k] ELSE s[k + 1]
  <2>1. CASE k < i
    <3>1. k \in 1 .. a /\ k <= a /\ k \in 1 .. a + b
      BY <1>1, <1>2, <2>1
    <3>2. QED
      BY <1>9, <1>11, <2>1, <3>1
  <2>2. CASE i <= k
    <3>1. ~ (k <= a) /\ k \in 1 .. a + b /\ k - a \in 1 .. b /\ i + (k - a) = k + 1 /\ ~ (k < i)
      BY <1>1, <1>2, <2>2
    <3>2. w[k] = y[k - a] /\ y[k - a] = s[i + (k - a)]
      BY <1>9, <1>11, <3>1
    <3>3. QED
      BY <3>1, <3>2
  <2>3. QED
    BY <1>1, <2>1, <2>2
<1>14. QED
  BY <1>1, <1>11, <1>12, <1>13

(* The variables of e are variables of d, the values the same. *)
LEMMA Rearranged ==
  ASSUME NEW P, NEW d, NEW e, NEW p, d \in DictOver(P), e \in DictOver(P), Layout(d), e.vals = d.vals,
         p \in [1 .. Len(e.vars) -> 1 .. Len(d.vars)],
         \A k, l \in 1 .. Len(e.vars) : k # l => p[k] # p[l],
         \A k \in 1 .. Len(e.vars) : e.vars[k] = d.vars[p[k]]
  PROVE  NamesDiffer(e.vars) /\ Inside(e) /\ Apart(e) /\ ValuesDiffer(e)
<1>1. DOMAIN d.vars = 1 .. Len(d.vars) /\ DOMAIN e.vars = 1 .. Len(e.vars)
  BY DictFields
<1>2. NamesDiffer(d.vars) /\ Inside(d) /\ Apart(d) /\ ValuesDiffer(d)
  BY DEF Layout
<1>3. NamesDiffer(e.vars)
  BY <1>1, <1>2 DEF NamesDiffer
<1>4. Inside(e)
  BY <1>1, <1>2 DEF Inside
<1>5. Apart(e)
  <2>1. ASSUME NEW k \in DOMAIN e.vars, NEW l \in DOMAIN e.vars, k # l
        PROVE  Before(e.vars[k], e.vars[l]) \/ Before(e.vars[l], e.vars[k])
    <3>1. p[k] \in DOMAIN d.vars /\ p[l] \in DOMAIN d.vars /\ p[k] # p[l]
      BY <1>1, <2>1
    <3>2. e.vars[k] = d.vars[p[k]] /\ e.vars[l] = d.vars[p[l]]
      BY <1>1
    <3>3. QED
      BY <1>2, <3>1, <3>2 DEF Apart
  <2>2. QED
    BY <2>1 DEF Apart
<1>6. ValuesDiffer(e)
  BY <1>1, <1>2 DEF ValuesDiffer
<1>7. QED
  BY <1>3, <1>4, <1>5, <1>6

VariablesFrom(d, e) == \A k \in 1 .. Len(e.vars) : \E l \in 1 .. Len(d.vars) : e.vars[k] = d.vars[l]

(* del_variable: what the variable owned is counted as deleted. *)
LEMMA DropVariableKeeps ==
  ASSUME NEW P, NEW d, NEW i, NEW e, d \in DictOver(P), i \in 1 .. Len(d.vars), Layout(d),
         e = DropVariable(d, i)
  PROVE  /\ e \in DictOver(P) /\ Layout(e)
         /\ VariablesFrom(d, e)
<1>1. PICK vs : vs = RemoveAt(d.vars, i)
  OBVIOUS
<1>2. PICK v : v = d.vars[i]
  OBVIOUS
<1>3. PICK n \in Nat, m \in Nat, o \in Nat, c \in Nat :
        Len(d.vars) = n /\ Len(d.vals) = m /\ v.offset = o /\ v.card = c
  BY <1>2, DictFields
<1>4. /\ vs \in Seq(Variable) /\ Len(vs) = n - 1
      /\ \A k \in 1 .. n - 1 : vs[k] = IF k < i THEN d.vars[k] ELSE d.vars[k + 1]
  <2>1. d.vars \in Seq(Variable)
    BY DictFields
  <2>2. /\ vs \in Seq(Variable)
        /\ Len(vs) = Len(d.vars) - 1
        /\ \A k \in 1 .. Len(d.vars) - 1 : vs[k] = IF k < i THEN d.vars[k] ELSE d.vars[k + 1]
    BY <1>1, <2>1, RemoveAtIs
  <2>3. QED
    BY <1>3, <2>2
<1>5. e = [vars |-> vs, vals |-> d.vals, deleted |-> d.deleted + c, sorted |-> d.sorted]
  BY <1>1, <1>2, <1>3 DEF DropVariable, DictOver
<1>6. e \in DictOver(P) /\ e.vars = vs /\ e.vals = d.vals /\ e.deleted = d.deleted + c /\ e.sorted = d.sorted
  <2>1. d.vals \in Seq([value: Nat, prob: P]) /\ d.deleted \in Nat /\ d.sorted \in BOOLEAN
    BY DictFields
  <2>2. d.deleted + c \in Nat
    BY <2>1
  <2>3. QED
    BY <1>4, <1>5, <2>1, <2>2 DEF DictOver
<1>7. DEFINE p == [k \in 1 .. Len(e.vars) |-> IF k < i THEN k ELSE k + 1]
<1>8. i \in 1 .. n /\ Len(e.vars) = n - 1 /\ DOMAIN e.vars = 1 .. n - 1 /\ DOMAIN d.vars = 1 .. n
  BY <1>3, <1>4, <1>6, DictFields
<1>9. \A k \in 1 .. n - 1 : p[k] = IF k < i THEN k ELSE k + 1
  BY <1>8
<1>10. \A k \in 1 .. n - 1 : p[k] \in 1 .. n /\ p[k] # i /\ e.vars[k] = d.vars[p[k]]
  BY <1>4, <1>6, <1>8, <1>9
<1>11. \A k, l \in 1 .. n - 1 : k < l => p[k] < p[l]
  BY <1>8, <1>9
<1>12. \A k, l \in 1 .. n - 1 : k # l => p[k] # p[l]
  BY <1>8, <1>9
<1>13. p \in [1 .. Len(e.vars) -> 1 .. Len(d.vars)]
  BY <1>3, <1>8, <1>10
<1>14. NamesDiffer(e.vars) /\ Inside(e) /\ Apart(e) /\ ValuesDiffer(e)
  <2> HIDE DEF p
  <2>1. /\ \A k, l \in 1 .. Len(e.vars) : k # l => p[k] # p[l]
        /\ \A k \in 1 .. Len(e.vars) : e.vars[k] = d.vars[p[k]]
    BY <1>8, <1>10, <1>12
  <2>2. e \in DictOver(P) /\ e.vals = d.vals
    BY <1>6
  <2>3. QED
    BY <1>13, <2>1, <2>2, Rearranged
<1>15. e.sorted => IncreasingNames(e.vars)
  <2> HIDE DEF p
  <2>1. QED
    BY <1>6, <1>8, <1>10, <1>11 DEF IncreasingNames, Layout
<1>16. ASSUME NEW l \in 1 .. n, l # i PROVE \E k \in 1 .. n - 1 : e.vars[k] = d.vars[l]
  <2>1. PICK k : k = IF l < i THEN l ELSE l - 1
    OBVIOUS
  <2>2. k \in 1 .. n - 1 /\ (IF k < i THEN k ELSE k + 1) = l
    BY <1>8, <1>16, <2>1
  <2>3. p[k] = l
    BY <1>9, <2>2
  <2>4. QED
    BY <1>10, <2>2, <2>3
<1>17. HolesCounted(e)
  <2>1. PICK a, b : a = o + 1 /\ b = o + c
    OBVIOUS
  <2>2. ASSUME NEW j \in Holes(e)
        PROVE  j \in Holes(d) \cup (a .. b)
    <3>1. j \in 1 .. m /\ \A k \in 1 .. n - 1 : j \notin Segment(e.vars[k])
      <4>1. j \in 1 .. Len(e.vals) /\ \A k \in 1 .. Len(e.vars) : j \notin Segment(e.vars[k])
        BY <1>6, HolesAre
      <4>2. QED
        BY <4>1, <1>3, <1>6, <1>8
    <3>2. ASSUME j \notin a .. b, NEW l \in 1 .. n
          PROVE  j \notin Segment(d.vars[l])
      <4>1. CASE l = i
        BY <1>2, <1>3, <2>1, <3>2, <4>1 DEF Segment
      <4>2. CASE l # i
        BY <1>16, <3>1, <4>2
      <4>3. QED
        BY <4>1, <4>2
    <3>3. QED
      BY <1>3, <3>1, <3>2, HolesAre
  <2>3. a \in Int /\ b \in Int /\ c \in Nat /\ b <= a + c - 1
    BY <2>1
  <2>4. Holes(e) \subseteq Holes(d) \cup (a .. b) /\ HolesCounted(d)
    BY <2>2 DEF Layout
  <2>5. e.deleted = d.deleted + c
    BY <1>6
  <2>6. QED
    BY <1>6, <2>3, <2>4, <2>5, HolesAfter
<1>18. VariablesFrom(d, e)
  <2> HIDE DEF p
  <2>1. QED
    BY <1>3, <1>8, <1>10 DEF VariablesFrom
<1>19. QED
  BY <1>6, <1>14, <1>15, <1>17, <1>18 DEF Layout

-----------------------------------------------------------------------------
LEMMA GcdUnfolds ==
  /\ Gcd \in [Nat \X Nat -> Nat]
  /\ \A a, b \in Nat : Gcd[<<a, b>>] = IF b = 0 THEN a ELSE Gcd[<<b, a % b>>]
<1> DEFINE D == Nat \X Nat
           step(g, x) == IF x[2] = 0 THEN x[1] ELSE g[<<x[2], x[1] % x[2]>>]
           rank == [x \in D |-> x[2]]
           S == [q \in [D -> Nat] \X D |-> step(q[1], q[2])]
<1>1. ASSUME NEW x \in D, x[2] # 0
      PROVE  <<x[2], x[1] % x[2]>> \in D /\ rank[<<x[2], x[1] % x[2]>>] < rank[x]
  <2>1. PICK a \in Nat, b \in Nat : x = <<a, b>> /\ b > 0
    BY <1>1
  <2>2. a % b \in 0 .. b - 1
    BY <2>1
  <2>3. <<b, a % b>> \in D /\ rank[<<b, a % b>>] = a % b /\ rank[<<a, b>>] = b
    BY <2>1, <2>2
  <2>4. QED
    BY <2>1, <2>2, <2>3
<1>2. rank \in [D -> Nat]
  OBVIOUS
<1>3. S \in [[D -> Nat] \X D -> Nat]
  <2>1. ASSUME NEW g \in [D -> Nat], NEW x \in D
        PROVE  step(g, x) \in Nat
    BY <1>1
  <2> HIDE DEF D, step
  <2>2. QED
    BY <2>1
<1>4. ASSUME NEW x \in D, NEW g, NEW h, \A y \in D : rank[y] < rank[x] => g[y] = h[y]
      PROVE  step(g, x) = step(h, x)
  <2> HIDE DEF D, rank
  <2>1. QED
    BY <1>1, <1>4
<1>5. Descends(D, Nat, S, rank)
  <2> HIDE DEF D, step, rank
  <2>1. QED
    BY <1>4 DEF Descends
<1>6. PICK f \in [D -> Nat] : \A x \in D : f[x] = S[<<f, x>>]
  <2>1. Nat # {}
    OBVIOUS
  <2> HIDE DEF D, S, rank
  <2>2. Solvable(D, Nat, S)
    BY <1>2, <1>3, <1>5, <2>1, Recursion
  <2>3. QED
    BY <2>2 DEF Solvable
<1>7. f = [x \in D |-> step(f, x)]
  <2> HIDE DEF D, step
  <2>1. QED
    BY <1>6
<1>8. Gcd = [x \in D |-> step(Gcd, x)]
  BY <1>7 DEF Gcd
<1>9. \A x \in D : Gcd[x] = step(Gcd, x)
  <2> HIDE DEF step, D
  <2>1. QED
    BY <1>8
<1>10. \A x \in D : f[x] = Gcd[x]
  <2> HIDE DEF step, D, rank
  <2>1. AgreeUpwards(D, rank, f, Gcd)
    BY <1>4, <1>7, <1>9 DEF AgreeUpwards
  <2>2. QED
    BY <1>2, <2>1, Agreement
<1>11. Gcd = f
  <2> HIDE DEF step, D
  <2>1. QED
    BY <1>8, <1>10
<1>12. QED
  BY <1>9, <1>11

(* The greatest common divisor is no greater than either number. *)
LEMMA GcdBounds ==
  ASSUME NEW a \in Nat, NEW b \in Nat
  PROVE  /\ Gcd[<<a, b>>] \in Nat
         /\ a > 0 => Gcd[<<a, b>>] \in 1 .. a
         /\ b > 0 => Gcd[<<a, b>>] \in 1 .. b
<1> DEFINE Good(x, y) == (x > 0 => Gcd[<<x, y>>] \in 1 .. x) /\ (y > 0 => Gcd[<<x, y>>] \in 1 .. y)
           T == {y \in Nat : \E x \in Nat : ~Good(x, y)}
<1>1. \A x, y \in Nat : Gcd[<<x, y>>] \in Nat
  BY GcdUnfolds
<1>2. ASSUME NEW x \in Nat, NEW y \in Nat, \A z \in Nat : z < y => \A u \in Nat : Good(u, z)
      PROVE  Good(x, y)
  <2>1. CASE y = 0
    <3>1. Gcd[<<x, y>>] = x
      BY <2>1, GcdUnfolds
    <3>2. QED
      BY <2>1, <3>1
  <2>2. CASE y > 0
    <3>1. PICK r \in 0 .. y - 1 : r = x % y
      BY <2>2
    <3>2. Gcd[<<x, y>>] = Gcd[<<y, r>>]
      BY <2>2, <3>1, GcdUnfolds
    <3>3. Good(y, r)
      BY <1>2, <3>1
    <3>4. x > 0 => r <= x /\ (r = 0 => y <= x)
      BY <2>2, <3>1
    <3>5. r = 0 => Gcd[<<y, r>>] = y
      BY GcdUnfolds
    <3>6. QED
      BY <1>1, <2>2, <3>1, <3>2, <3>3, <3>4, <3>5
  <2>3. QED
    BY <2>1, <2>2
<1>3. T = {}
  <2>1. SUFFICES ASSUME T # {} PROVE FALSE
    OBVIOUS
  <2>2. T \in SUBSET Nat
    OBVIOUS
  <2>3. PICK y \in T : \A z \in T : y <= z
    <3> HIDE DEF T
    <3>1. QED
      BY <2>1, <2>2, LeastNatural
  <2>4. PICK x \in Nat : ~Good(x, y)
    OBVIOUS
  <2>5. y \in Nat /\ \A z \in Nat : z < y => \A u \in Nat : Good(u, z)
    <3> HIDE DEF Good
    <3>1. QED
      BY <2>3
  <2>6. QED
    <3> HIDE DEF Good
    <3>1. QED
      BY <1>2, <2>4, <2>5
<1>4. Good(a, b)
  <2> HIDE DEF Good
  <2>1. QED
    BY <1>3
<1>5. QED
  BY <1>1, <1>4

LEMMA ProbabilityIs ==
  /\ NaN \in Probabilities
  /\ \A a, b \in Nat : b > 0 => <<a, b>> \in Probabilities
  /\ \A p \in Probabilities : /\ p \in Nat \X Nat /\ p[1] \in Nat /\ p[2] \in Nat
                            /\ p # NaN => p[2] > 0
BY DEF Probabilities, NaN

LEMMA ProbabilityParts ==
  ASSUME NEW p, p \in Probabilities
  PROVE  p[1] \in Nat /\ p[2] \in Nat /\ (p # NaN => p[2] > 0)
BY DEF Probabilities, NaN

LEMMA ProbabilityPair ==
  ASSUME NEW p, p \in Probabilities
  PROVE  p \in Nat \X Nat
BY DEF Probabilities, NaN

LEMMA FracCloses ==
  ASSUME NEW num \in Nat, NEW den \in Nat
  PROVE  Frac(num, den) \in Probabilities
<1>1. CASE den = 0
  BY <1>1, ProbabilityIs DEF Frac
<1>2. CASE den > 0
  <2>1. PICK g \in 1 .. den : g = Gcd[<<num, den>>]
    BY <1>2, GcdBounds
  <2>2. Frac(num, den) = <<num \div g, den \div g>>
    BY <1>2, <2>1 DEF Frac
  <2>3. num \div g \in Nat
    BY <2>1
  <2>4. den \div g \in Nat /\ den \div g > 0
    BY <2>1
  <2>5. QED
    BY <2>2, <2>3, <2>4, ProbabilityIs
<1>3. QED
  BY <1>1, <1>2

LEMMA Products ==
  ASSUME NEW a \in Nat, NEW b \in Nat
  PROVE  a * b \in Nat
OBVIOUS

LEMMA PlusCloses ==
  ASSUME NEW p \in Probabilities, NEW q \in Probabilities
  PROVE  Plus(p, q) \in Probabilities
<1>1. CASE NaN \in {p, q}
  BY <1>1, ProbabilityIs DEF Plus
<1>2. CASE NaN \notin {p, q}
  <2>0. /\ p[1] \in Nat /\ p[2] \in Nat /\ q[1] \in Nat /\ q[2] \in Nat
        /\ p[2] > 0 /\ q[2] > 0
    BY <1>2, ProbabilityParts
  <2>1. PICK a \in Nat, b \in Nat, c \in Nat, d \in Nat :
          a = p[1] /\ b = p[2] /\ c = q[1] /\ d = q[2] /\ b > 0 /\ d > 0
    BY <2>0
  <2>2. PICK g \in 1 .. d : g = Gcd[<<b, d>>]
    BY <2>1, GcdBounds
  <2>3. PICK x \in Nat, y \in Nat : x = d \div g /\ y = b \div g
    BY <2>2
  <2>4. Plus(p, q) = Frac(a * x + c * y, b * x)
    BY <1>2, <2>1, <2>2, <2>3 DEF Plus
  <2>5. a * x \in Nat /\ c * y \in Nat /\ b * x \in Nat
    BY Products
  <2>6. a * x + c * y \in Nat
    BY <2>5
  <2>7. QED
    BY <2>4, <2>5, <2>6, FracCloses
<1>3. QED
  BY <1>1, <1>2

LEMMA DividedByCloses ==
  ASSUME NEW p \in Probabilities, NEW total \in Probabilities
  PROVE  DividedBy(p, total) \in Probabilities
<1>0. p[1] \in Nat /\ p[2] \in Nat /\ total[1] \in Nat /\ total[2] \in Nat
  BY ProbabilityParts
<1>1. PICK a \in Nat, b \in Nat, c \in Nat, d \in Nat : a = p[1] /\ b = p[2] /\ c = total[1] /\ d = total[2]
  BY <1>0
<1>2. DividedBy(p, total) = Frac(a * d, b * c)
  BY <1>1 DEF DividedBy
<1>3. a * d \in Nat /\ b * c \in Nat
  BY Products
<1>4. QED
  BY <1>2, <1>3, FracCloses

(* g is the function sum of Total: the sums of the first k probabilities.   *)
Sums(g, d, v) ==
  /\ g \in [0 .. v.card -> Probabilities]
  /\ \A k \in 0 .. v.card :
       g[k] = IF k = 0 THEN <<0, 1>> ELSE Plus(g[k - 1], d.vals[v.offset + k].prob)

LEMMA TotalUnfolds ==
  ASSUME NEW d, NEW v, d \in DictOver(Probabilities), v \in Variable, v.offset + v.card <= Len(d.vals)
  PROVE  \E g : Sums(g, d, v) /\ Total(d, v) = g[v.card]
<1> DEFINE D == 0 .. v.card
           step(g, k) == IF k = 0 THEN <<0, 1>> ELSE Plus(g[k - 1], d.vals[v.offset + k].prob)
           rank == [k \in D |-> k]
           S == [q \in [D -> Probabilities] \X D |-> step(q[1], q[2])]
<1>1. v.offset \in Nat /\ v.card \in Nat /\ Len(d.vals) \in Nat
  BY DictFields DEF Variable
<1>2. \A k \in D : k # 0 => k - 1 \in D /\ rank[k - 1] < rank[k]
  BY <1>1
<1>3. \A k \in D : k # 0 => d.vals[v.offset + k].prob \in Probabilities
  <2>1. \A k \in D : k # 0 => v.offset + k \in 1 .. Len(d.vals)
    <3>1. PICK o \in Nat, c \in Nat, n \in Nat : o = v.offset /\ c = v.card /\ n = Len(d.vals) /\ o + c <= n
      BY <1>1
    <3>2. \A k \in 0 .. c : k # 0 => o + k \in 1 .. n
      BY <3>1
    <3>3. QED
      BY <3>1, <3>2
  <2> HIDE DEF D
  <2>2. QED
    BY <2>1, DictFields
<1>4. rank \in [D -> Nat]
  BY <1>1
<1>5. S \in [[D -> Probabilities] \X D -> Probabilities]
  <2>1. ASSUME NEW g \in [D -> Probabilities], NEW k \in D
        PROVE  step(g, k) \in Probabilities
    <3>1. CASE k = 0
      BY <3>1, ProbabilityIs
    <3>2. CASE k # 0
      <4>1. g[k - 1] \in Probabilities
        BY <1>2, <3>2
      <4>2. QED
        BY <1>3, <3>2, <4>1, PlusCloses
    <3>3. QED
      BY <3>1, <3>2
  <2> HIDE DEF D, step
  <2>2. QED
    BY <2>1
<1>6. ASSUME NEW k \in D, NEW g, NEW h, \A y \in D : rank[y] < rank[k] => g[y] = h[y]
      PROVE  step(g, k) = step(h, k)
  <2> HIDE DEF D, rank
  <2>1. QED
    BY <1>2, <1>6
<1>7. Descends(D, Probabilities, S, rank)
  <2> HIDE DEF D, step, rank
  <2>1. QED
    BY <1>6 DEF Descends
<1>8. PICK f \in [D -> Probabilities] : \A k \in D : f[k] = S[<<f, k>>]
  <2>1. Probabilities # {}
    BY ProbabilityIs
  <2> HIDE DEF D, S, rank
  <2>2. Solvable(D, Probabilities, S)
    BY <1>4, <1>5, <1>7, <2>1, Recursion
  <2>3. QED
    BY <2>2 DEF Solvable
<1>9. f = [k \in D |-> step(f, k)]
  <2> HIDE DEF D, step
  <2>1. QED
    BY <1>8
<1>10. PICK g : g = [k \in D |-> step(g, k)] /\ Total(d, v) = g[v.card]
  BY <1>9 DEF Total
<1>11. \A k \in D : f[k] = g[k]
  <2>1. \A k \in D : g[k] = step(g, k)
    <3> HIDE DEF step, D
    <3>1. QED
      BY <1>10
  <2> HIDE DEF step, D, rank
  <2>2. AgreeUpwards(D, rank, f, g)
    BY <1>6, <1>9, <2>1 DEF AgreeUpwards
  <2>3. QED
    BY <1>4, <2>2, Agreement
<1>12. v.card \in D
  BY <1>1
<1>13. \A k \in D : f[k] = step(f, k)
  <2> HIDE DEF D, step
  <2>1. QED
    BY <1>9
<1>14. Sums(f, d, v)
  BY <1>13 DEF Sums
<1>15. QED
  <2> HIDE DEF D
  <2>1. QED
    BY <1>10, <1>11, <1>12, <1>14


(* The loop of normalize_var yields a probability. *)
LEMMA TotalCloses ==
  ASSUME NEW d, NEW v, d \in DictOver(Probabilities), v \in Variable, v.offset + v.card <= Len(d.vals)
  PROVE  Total(d, v) \in Probabilities
<1>1. PICK g : Sums(g, d, v) /\ Total(d, v) = g[v.card]
  BY TotalUnfolds
<1>2. v.card \in 0 .. v.card
  BY DEF Variable
<1>3. QED
  BY <1>1, <1>2 DEF Sums

(* Equal values have equal totals, wherever they lie. *)
LEMMA TotalSame ==
  ASSUME NEW d, NEW v, d \in DictOver(Probabilities), v \in Variable, v.offset + v.card <= Len(d.vals),
         NEW e, NEW w, e \in DictOver(Probabilities), w \in Variable, w.offset + w.card <= Len(e.vals),
         v.card = w.card,
         \A k \in 1 .. v.card : d.vals[v.offset + k] = e.vals[w.offset + k]
  PROVE  Total(d, v) = Total(e, w)
<1>1. PICK g : Sums(g, d, v) /\ Total(d, v) = g[v.card]
  BY TotalUnfolds
<1>2. PICK h : Sums(h, e, w) /\ Total(e, w) = h[w.card]
  BY TotalUnfolds
<1> DEFINE D == 0 .. v.card
           rank == [k \in D |-> k]
<1>3. v.card \in Nat
  BY DEF Variable
<1>4. ASSUME NEW k \in D, \A y \in D : rank[y] < rank[k] => g[y] = h[y]
      PROVE  g[k] = h[k]
  <2>1. CASE k = 0
    BY <1>1, <1>2, <1>3, <2>1 DEF Sums
  <2>2. CASE k # 0
    <3>1. k - 1 \in D /\ rank[k - 1] < rank[k] /\ k \in 1 .. v.card
      BY <1>3, <2>2
    <3>2. g[k - 1] = h[k - 1]
      BY <1>4, <3>1
    <3>3. g[k] = Plus(g[k - 1], d.vals[v.offset + k].prob)
      BY <1>1, <2>2 DEF Sums
    <3>4. h[k] = Plus(h[k - 1], e.vals[w.offset + k].prob)
      BY <1>2, <2>2 DEF Sums
    <3>5. QED
      BY <3>1, <3>2, <3>3, <3>4
  <2>3. QED
    BY <2>1, <2>2
<1>5. rank \in [D -> Nat]
  BY <1>3
<1>6. \A k \in D : g[k] = h[k]
  <2> HIDE DEF D, rank
  <2>1. AgreeUpwards(D, rank, g, h)
    BY <1>4 DEF AgreeUpwards
  <2>2. QED
    BY <1>5, <2>1, Agreement
<1>7. QED
  BY <1>1, <1>2, <1>3, <1>6

LEMMA NormalizeIs ==
  ASSUME NEW d, NEW i, NEW e, d \in DictOver(Probabilities), i \in 1 .. Len(d.vars),
         d.vars[i].offset + d.vars[i].card <= Len(d.vals), e = Normalize(d, i)
  PROVE  /\ e \in DictOver(Probabilities) /\ e.vars = d.vars
         /\ Len(e.vals) = Len(d.vals) /\ e.deleted = d.deleted /\ e.sorted = d.sorted
         /\ \A j \in 1 .. Len(d.vals) :
              /\ e.vals[j].value = d.vals[j].value
              /\ j \notin Segment(d.vars[i]) => e.vals[j] = d.vals[j]
<1>1. PICK v, total : v = d.vars[i] /\ total = Total(d, v)
  OBVIOUS
<1>2. v \in Variable /\ v.offset + v.card <= Len(d.vals)
  BY <1>1, DictFields
<1>3. total \in Probabilities
  BY <1>1, <1>2, TotalCloses
<1>4. CASE total \in {One, NaN}
  <2>1. e = d
    BY <1>1, <1>4 DEF Normalize
  <2>2. QED
    BY <2>1
<1>5. CASE total \notin {One, NaN}
  <2> DEFINE V == [value: Nat, prob: Probabilities]
             x(j) == IF j \in Segment(v) THEN [d.vals[j] EXCEPT !.prob = DividedBy(d.vals[j].prob, total)] ELSE d.vals[j]
             xs == [j \in DOMAIN d.vals |-> x(j)]
  <2>1. ASSUME NEW j \in 1 .. Len(d.vals)
        PROVE  /\ x(j) \in V /\ x(j).value = d.vals[j].value
               /\ j \notin Segment(v) => x(j) = d.vals[j]
    <3>1. PICK y \in V : y = d.vals[j]
      BY DictFields
    <3>2. y = [value |-> y.value, prob |-> y.prob] /\ y.value \in Nat /\ y.prob \in Probabilities
      OBVIOUS
    <3>3. DividedBy(y.prob, total) \in Probabilities
      BY <1>3, <3>2, DividedByCloses
    <3>4. [y EXCEPT !.prob = DividedBy(y.prob, total)] = [value |-> y.value, prob |-> DividedBy(y.prob, total)]
      BY <3>2
    <3>5. [value |-> y.value, prob |-> DividedBy(y.prob, total)] \in V
      BY <3>2, <3>3
    <3>6. QED
      BY <3>1, <3>4, <3>5
  <2>2. Len(d.vals) \in Nat /\ DOMAIN d.vals = 1 .. Len(d.vals)
    BY DictFields
  <2>3. xs \in [1 .. Len(d.vals) -> V] /\ \A j \in 1 .. Len(d.vals) : xs[j] = x(j)
    <3> HIDE DEF x, V
    <3>1. QED
      BY <2>1, <2>2
  <2>4. xs \in Seq(V) /\ Len(xs) = Len(d.vals)
    <3> HIDE DEF xs, V
    <3>1. QED
      BY <2>2, <2>3, SequenceOf
  <2>5. e = [vars |-> d.vars, vals |-> xs, deleted |-> d.deleted, sorted |-> d.sorted]
    <3>1. e = [d EXCEPT !.vals = xs]
      BY <1>1, <1>5 DEF Normalize
    <3> HIDE DEF xs
    <3>2. QED
      BY <3>1 DEF DictOver
  <2>6. /\ e \in DictOver(Probabilities) /\ e.vars = d.vars /\ e.vals = xs
        /\ e.deleted = d.deleted /\ e.sorted = d.sorted
    <3>1. d.vars \in Seq(Variable) /\ d.deleted \in Nat /\ d.sorted \in BOOLEAN
      BY DictFields
    <3> HIDE DEF xs
    <3>2. QED
      BY <2>4, <2>5, <3>1 DEF DictOver
  <2>7. \A j \in 1 .. Len(d.vals) :
          /\ e.vals[j].value = d.vals[j].value
          /\ j \notin Segment(d.vars[i]) => e.vals[j] = d.vals[j]
    <3> HIDE DEF x, xs
    <3>1. QED
      BY <1>1, <2>1, <2>3, <2>6
  <2>8. Len(e.vals) = Len(d.vals)
    <3> HIDE DEF xs
    <3>1. QED
      BY <2>4, <2>6
  <2>9. QED
    BY <2>6, <2>7, <2>8
<1>6. QED
  BY <1>4, <1>5

LEMMA NormalizeKeeps ==
  ASSUME NEW d, NEW i, NEW e, d \in DictOver(Probabilities), i \in 1 .. Len(d.vars), Layout(d),
         e = Normalize(d, i)
  PROVE  e \in DictOver(Probabilities) /\ Layout(e) /\ e.vars = d.vars
<1>1. d.vars[i].offset + d.vars[i].card <= Len(d.vals)
  BY DictFields DEF Layout, Inside
<1>2. /\ e \in DictOver(Probabilities) /\ e.vars = d.vars
      /\ Len(e.vals) = Len(d.vals) /\ e.deleted = d.deleted /\ e.sorted = d.sorted
      /\ \A j \in 1 .. Len(d.vals) :
           /\ e.vals[j].value = d.vals[j].value
           /\ j \notin Segment(d.vars[i]) => e.vals[j] = d.vals[j]
  BY <1>1, NormalizeIs
<1>3. \A j \in 1 .. Len(d.vals) : e.vals[j].value = d.vals[j].value
  BY <1>2
<1>4. Layout(e)
  BY <1>2, <1>3, ReweighedKeeps
<1>5. QED
  BY <1>2, <1>4

-----------------------------------------------------------------------------
(* Where the two indices of the quicksort stop. *)
LEMMA UpIs ==
  ASSUME NEW v, NEW f \in Nat, NEW l \in Nat, NEW i \in f .. l, \A k \in f .. l : v[k].name \in Nat
  PROVE  /\ Up(v, f, l, i) \in i .. l
         /\ Up(v, f, l, i) = l \/ v[Up(v, f, l, i)].name > v[f].name
         /\ \A m \in i .. Up(v, f, l, i) - 1 : v[m].name <= v[f].name
<1> DEFINE Stop(k) == k = l \/ v[k].name > v[f].name
           T == {k \in i .. l : Stop(k)}
<1>1. T \in SUBSET Nat /\ l \in T
  OBVIOUS
<1>2. PICK k \in T : \A m \in T : k <= m
  <2> HIDE DEF T
  <2>1. QED
    BY <1>1, LeastNatural
<1>3. \A m \in i .. k - 1 : v[m].name <= v[f].name
  <2>1. ASSUME NEW m \in i .. k - 1 PROVE v[m].name <= v[f].name
    <3>1. m \in i .. l /\ m < k /\ m \in f .. l /\ f \in f .. l
      OBVIOUS
    <3>2. m \notin T
      <4> HIDE DEF T
      <4>1. k \in Nat
        BY <1>1, <1>2
      <4>2. QED
        BY <1>2, <3>1, <4>1
    <3>3. ~ (v[m].name > v[f].name)
      BY <3>1, <3>2
    <3>4. v[m].name \in Nat /\ v[f].name \in Nat
      BY <3>1
    <3>5. QED
      BY <3>3, <3>4
  <2>2. QED
    BY <2>1
<1>4. \E h \in i .. l : (h = l \/ v[h].name > v[f].name) /\ \A m \in i .. h - 1 : v[m].name <= v[f].name
  BY <1>3
<1>5. QED
  BY <1>4 DEF Up

LEMMA DownIs ==
  ASSUME NEW v, NEW f \in Nat, NEW l \in Nat, NEW j \in f .. l, \A k \in f .. l : v[k].name \in Nat
  PROVE  /\ Down(v, f, j) \in f .. j
         /\ v[Down(v, f, j)].name <= v[f].name
         /\ \A m \in Down(v, f, j) + 1 .. j : v[m].name > v[f].name
<1> DEFINE T == {h \in 0 .. j - f : v[j - h].name <= v[f].name}
<1>1. T \in SUBSET Nat /\ j - f \in T
  <2>1. j - f \in 0 .. j - f /\ j - (j - f) = f /\ f \in f .. l
    OBVIOUS
  <2>2. v[f].name <= v[f].name
    BY <2>1
  <2>3. QED
    BY <2>1, <2>2
<1>2. PICK h \in T : \A m \in T : h <= m
  <2> HIDE DEF T
  <2>1. QED
    BY <1>1, LeastNatural
<1>3. PICK k \in f .. j : k = j - h /\ v[k].name <= v[f].name
  OBVIOUS
<1>4. \A m \in k + 1 .. j : v[m].name > v[f].name
  <2>1. ASSUME NEW m \in k + 1 .. j PROVE v[m].name > v[f].name
    <3>1. j - m \in 0 .. j - f /\ j - m < h /\ j - (j - m) = m /\ m \in f .. l /\ f \in f .. l
      BY <1>3
    <3>2. j - m \notin T
      <4> HIDE DEF T
      <4>1. h \in Nat
        BY <1>1, <1>2
      <4>2. QED
        BY <1>2, <3>1, <4>1
    <3>3. ~ (v[m].name <= v[f].name)
      BY <3>1, <3>2
    <3>4. v[m].name \in Nat /\ v[f].name \in Nat
      BY <3>1
    <3>5. QED
      BY <3>3, <3>4
  <2>2. QED
    BY <2>1
<1>5. \E n \in f .. j : v[n].name <= v[f].name /\ \A m \in n + 1 .. j : v[m].name > v[f].name
  BY <1>3, <1>4
<1>6. QED
  BY <1>5 DEF Down

(* w has the elements of u, exchanged in f .. l only. *)
Permuted(u, w, f, l) ==
  /\ DOMAIN w = DOMAIN u
  /\ \A k \in DOMAIN u : k \notin f .. l => w[k] = u[k]
  /\ \A k \in f .. l : \E m \in f .. l : w[k] = u[m]
  /\ \A m \in f .. l : \E k \in f .. l : w[k] = u[m]
  /\ NamesDiffer(u) => NamesDiffer(w)

LEMMA PermutedSelf ==
  ASSUME NEW u, NEW f, NEW l
  PROVE  Permuted(u, u, f, l)
BY DEF Permuted

LEMMA PermutedTwice ==
  ASSUME NEW u, NEW v, NEW w, NEW f, NEW l, Permuted(u, v, f, l), Permuted(v, w, f, l)
  PROVE  Permuted(u, w, f, l)
<1>1. /\ DOMAIN w = DOMAIN u
      /\ \A k \in DOMAIN u : k \notin f .. l => w[k] = u[k]
  BY DEF Permuted
<1>2. ASSUME NEW k \in f .. l PROVE \E m \in f .. l : w[k] = u[m]
  <2>1. PICK h \in f .. l : w[k] = v[h]
    BY DEF Permuted
  <2>2. PICK m \in f .. l : v[h] = u[m]
    BY DEF Permuted
  <2>3. QED
    BY <2>1, <2>2
<1>3. ASSUME NEW m \in f .. l PROVE \E k \in f .. l : w[k] = u[m]
  <2>1. PICK h \in f .. l : v[h] = u[m]
    BY DEF Permuted
  <2>2. PICK k \in f .. l : w[k] = v[h]
    BY DEF Permuted
  <2>3. QED
    BY <2>1, <2>2
<1>4. QED
  BY <1>1, <1>2, <1>3 DEF Permuted

LEMMA PermutedWider ==
  ASSUME NEW u, NEW w, NEW f, NEW l, NEW g, NEW h, Permuted(u, w, f, l),
         f .. l \subseteq g .. h, g .. h \subseteq DOMAIN u
  PROVE  Permuted(u, w, g, h)
<1>1. /\ DOMAIN w = DOMAIN u
      /\ \A k \in DOMAIN u : k \notin g .. h => w[k] = u[k]
  BY DEF Permuted
<1>2. ASSUME NEW k \in g .. h
      PROVE  (\E m \in g .. h : w[k] = u[m]) /\ (\E m \in g .. h : w[m] = u[k])
  BY DEF Permuted
<1>3. QED
  BY <1>1, <1>2 DEF Permuted

LEMMA SwappedIs ==
  ASSUME NEW D, NEW X, NEW v \in [D -> X], NEW i \in D, NEW j \in D
  PROVE  /\ Swapped(v, i, j) \in [D -> X]
         /\ Swapped(v, i, j)[i] = v[j] /\ Swapped(v, i, j)[j] = v[i]
         /\ \A k \in D : k # i /\ k # j => Swapped(v, i, j)[k] = v[k]
BY DEF Swapped

LEMMA SwappedPermutes ==
  ASSUME NEW D, NEW X, NEW v \in [D -> X], NEW f, NEW l, f .. l \subseteq D,
         NEW i \in f .. l, NEW j \in f .. l
  PROVE  Permuted(v, Swapped(v, i, j), f, l)
<1>1. PICK w : w = Swapped(v, i, j)
  OBVIOUS
<1>2. /\ w \in [D -> X] /\ w[i] = v[j] /\ w[j] = v[i]
      /\ \A k \in D : k # i /\ k # j => w[k] = v[k]
  BY <1>1, SwappedIs
<1>3. DOMAIN v = D /\ DOMAIN w = D /\ i \in D /\ j \in D
  BY <1>2
<1>4. \A k \in f .. l : (\E m \in f .. l : w[k] = v[m]) /\ (\E m \in f .. l : w[m] = v[k])
  BY <1>2
<1>5. NamesDiffer(v) => NamesDiffer(w)
  <2>1. ASSUME NamesDiffer(v), NEW k \in D, NEW m \in D, k # m PROVE w[k].name # w[m].name
    <3> DEFINE from(x) == IF x = i THEN j ELSE IF x = j THEN i ELSE x
    <3>1. from(k) \in D /\ from(m) \in D /\ from(k) # from(m)
      BY <1>3, <2>1
    <3>2. w[k] = v[from(k)] /\ w[m] = v[from(m)]
      BY <1>2
    <3> HIDE DEF from
    <3>3. QED
      BY <1>3, <2>1, <3>1, <3>2 DEF NamesDiffer
  <2>2. QED
    BY <1>3, <2>1 DEF NamesDiffer
<1>6. \A k \in D : k \notin f .. l => w[k] = v[k]
  BY <1>2
<1>7. QED
  BY <1>1, <1>3, <1>4, <1>5, <1>6 DEF Permuted

(* g is the function round of Partitioned. *)
Rounds(g, u, f, l) ==
  /\ g \in [[DOMAIN u -> ToSet(u)] \X (f .. l) \X (f .. l) -> [vars: [DOMAIN u -> ToSet(u)], at: f .. l]]
  /\ \A v \in [DOMAIN u -> ToSet(u)], i \in f .. l, j \in f .. l :
       g[<<v, i, j>>] =
         IF Up(v, f, l, i) < Down(v, f, j)
         THEN g[<<Swapped(v, Up(v, f, l, i), Down(v, f, j)), Up(v, f, l, i), Down(v, f, j)>>]
         ELSE [vars |-> Swapped(v, f, Down(v, f, j)), at |-> Down(v, f, j)]

LEMMA NamesOf ==
  ASSUME NEW u \in Seq(Variable)
  PROVE  /\ DOMAIN u = 1 .. Len(u) /\ u \in [DOMAIN u -> ToSet(u)]
         /\ \A v \in [DOMAIN u -> ToSet(u)], k \in DOMAIN u : v[k] \in Variable /\ v[k].name \in Nat
<1>1. DOMAIN u = 1 .. Len(u) /\ \A k \in DOMAIN u : u[k] \in Variable
  BY ElementOfSeq, LenProperties
<1>2. \A x \in ToSet(u) : x \in Variable /\ x.name \in Nat
  BY <1>1 DEF ToSet, Variable
<1>3. u \in [DOMAIN u -> ToSet(u)]
  BY <1>1, LenProperties DEF ToSet
<1>4. QED
  BY <1>1, <1>2, <1>3

LEMMA PartitionUnfolds ==
  ASSUME NEW u \in Seq(Variable), NEW f \in 1 .. Len(u), NEW l \in 1 .. Len(u), f < l
  PROVE  \E g : Rounds(g, u, f, l) /\ Partitioned(u, f, l) = g[<<u, f, l>>]
<1> DEFINE A == [DOMAIN u -> ToSet(u)]
           R == f .. l
           D == A \X R \X R
           V == [vars: A, at: R]
           up(x) == Up(x[1], f, l, x[2])
           down(x) == Down(x[1], f, x[3])
           next(x) == <<Swapped(x[1], up(x), down(x)), up(x), down(x)>>
           step(g, x) == IF up(x) < down(x) THEN g[next(x)]
                         ELSE [vars |-> Swapped(x[1], f, down(x)), at |-> down(x)]
           height(v, i) == 2 * (l - i) + (IF v[i].name > v[f].name THEN 1 ELSE 0)
           rank == [x \in D |-> height(x[1], x[2])]
           S == [q \in [D -> V] \X D |-> step(q[1], q[2])]
<1>1. /\ f \in Nat /\ l \in Nat /\ f \in R /\ l \in R /\ R \subseteq DOMAIN u
      /\ u \in A /\ \A v \in A, k \in R : v[k].name \in Nat
  <2>1. DOMAIN u = 1 .. Len(u) /\ Len(u) \in Nat
    BY LenProperties
  <2>2. R \subseteq DOMAIN u /\ f \in Nat /\ l \in Nat /\ f \in R /\ l \in R
    BY <2>1
  <2> HIDE DEF R
  <2>3. QED
    BY <2>2, NamesOf
<1>2. ASSUME NEW v \in A, NEW i \in R, NEW j \in R
      PROVE  /\ Up(v, f, l, i) \in R /\ Down(v, f, j) \in R
             /\ Up(v, f, l, i) >= i
             /\ Up(v, f, l, i) = l \/ v[Up(v, f, l, i)].name > v[f].name
             /\ v[Down(v, f, j)].name <= v[f].name
             /\ Swapped(v, Up(v, f, l, i), Down(v, f, j)) \in A
             /\ Swapped(v, f, Down(v, f, j)) \in A
  <2>1. \A k \in f .. l : v[k].name \in Nat
    BY <1>1
  <2>2. Up(v, f, l, i) \in i .. l /\ (Up(v, f, l, i) = l \/ v[Up(v, f, l, i)].name > v[f].name)
    BY <1>1, <2>1, UpIs
  <2>3. Down(v, f, j) \in f .. j /\ v[Down(v, f, j)].name <= v[f].name
    BY <1>1, <2>1, DownIs
  <2>4. Up(v, f, l, i) \in R /\ Down(v, f, j) \in R /\ Up(v, f, l, i) >= i
    BY <1>1, <2>2, <2>3
  <2>5. Up(v, f, l, i) \in DOMAIN u /\ Down(v, f, j) \in DOMAIN u /\ f \in DOMAIN u
    BY <1>1, <2>4
  <2>6. Swapped(v, Up(v, f, l, i), Down(v, f, j)) \in A /\ Swapped(v, f, Down(v, f, j)) \in A
    BY <2>5, SwappedIs
  <2>7. QED
    BY <2>2, <2>3, <2>4, <2>6
<1>3. ASSUME NEW v \in A, NEW i \in R, NEW j \in R, Up(v, f, l, i) < Down(v, f, j)
      PROVE  height(Swapped(v, Up(v, f, l, i), Down(v, f, j)), Up(v, f, l, i)) < height(v, i)
  <2>1. PICK a \in R, b \in R : a = Up(v, f, l, i) /\ b = Down(v, f, j)
    BY <1>2
  <2>2. PICK w \in A : w = Swapped(v, a, b)
    BY <1>2, <2>1
  <2>3. a < b /\ i <= a /\ b <= l
    BY <1>1, <1>2, <1>3, <2>1
  <2>4. v[a].name > v[f].name /\ v[b].name <= v[f].name
    <3>1. a # l
      BY <1>1, <2>3
    <3>2. (a = l \/ v[a].name > v[f].name) /\ v[b].name <= v[f].name
      BY <1>2, <2>1
    <3>3. QED
      BY <3>1, <3>2
  <2>5. v[a].name \in Nat /\ v[b].name \in Nat /\ v[f].name \in Nat /\ v[i].name \in Nat
    BY <1>1
  <2>6. a # f /\ b # f
    BY <2>3, <2>4, <2>5
  <2>7. w[a] = v[b] /\ w[f] = v[f]
    <3>1. a \in DOMAIN u /\ b \in DOMAIN u /\ f \in DOMAIN u
      BY <1>1
    <3>2. QED
      BY <2>2, <2>6, <3>1, SwappedIs
  <2>8. height(w, a) = 2 * (l - a)
    BY <2>4, <2>5, <2>7
  <2>9. i = a => height(v, i) = 2 * (l - a) + 1
    BY <2>4
  <2>10. height(v, i) >= 2 * (l - i)
    BY <1>1
  <2>11. height(w, a) < height(v, i)
    <3>1. CASE i = a
      BY <1>1, <2>8, <2>9, <3>1
    <3>2. CASE i < a
      <4>1. 2 * (l - a) < 2 * (l - i) /\ height(v, i) \in Int
        BY <1>1, <3>2
      <4> HIDE DEF height
      <4>2. QED
        BY <1>1, <2>8, <2>10, <3>2, <4>1
    <3>3. QED
      BY <2>3, <3>1, <3>2
  <2>12. QED
    BY <2>1, <2>2, <2>11
<1>4. \A x \in D : \E v \in A, i \in R, j \in R : x = <<v, i, j>>
  OBVIOUS
<1>5. ASSUME NEW x \in D
      PROVE  /\ up(x) < down(x) => next(x) \in D /\ rank[next(x)] < rank[x]
             /\ [vars |-> Swapped(x[1], f, down(x)), at |-> down(x)] \in V
  <2>1. PICK v \in A, i \in R, j \in R : x = <<v, i, j>>
    BY <1>4
  <2>2. up(x) = Up(v, f, l, i) /\ down(x) = Down(v, f, j) /\ x[1] = v /\ x[2] = i
    BY <2>1
  <2>3. next(x) = <<Swapped(v, Up(v, f, l, i), Down(v, f, j)), Up(v, f, l, i), Down(v, f, j)>>
    BY <2>2
  <2>4. next(x) \in D
    <3> HIDE DEF A, R, next
    <3>1. QED
      BY <1>2, <2>3
  <2>5. rank[x] = height(v, i)
    <3> HIDE DEF A, R, height
    <3>1. QED
      BY <2>1
  <2>6. rank[next(x)] = height(Swapped(v, Up(v, f, l, i), Down(v, f, j)), Up(v, f, l, i))
    <3>1. rank[next(x)] = height(next(x)[1], next(x)[2])
      <4> HIDE DEF D, height, next
      <4>1. QED
        BY <2>4
    <3> HIDE DEF height, next
    <3>2. next(x)[1] = Swapped(v, Up(v, f, l, i), Down(v, f, j)) /\ next(x)[2] = Up(v, f, l, i)
      BY <2>3
    <3>3. QED
      BY <3>1, <3>2
  <2>7. [vars |-> Swapped(v, f, Down(v, f, j)), at |-> Down(v, f, j)] \in V
    <3> HIDE DEF A, R
    <3>1. QED
      BY <1>2
  <2> HIDE DEF up, down, next, rank, D, V, height, A, R
  <2>8. QED
    BY <1>3, <2>2, <2>4, <2>5, <2>6, <2>7
<1>6. rank \in [D -> Nat]
  <2>1. ASSUME NEW v \in A, NEW i \in R PROVE height(v, i) \in Nat
    BY <1>1
  <2>2. \A x \in D : x[1] \in A /\ x[2] \in R
    OBVIOUS
  <2> HIDE DEF D, height, A, R
  <2>3. QED
    BY <2>1, <2>2
<1>7. S \in [[D -> V] \X D -> V]
  <2>1. ASSUME NEW g \in [D -> V], NEW x \in D PROVE step(g, x) \in V
    <3> HIDE DEF D, V, up, down, next, rank
    <3>1. QED
      BY <1>5
  <2> HIDE DEF D, V, step
  <2>2. QED
    BY <2>1
<1>8. ASSUME NEW x \in D, NEW g, NEW h, \A y \in D : rank[y] < rank[x] => g[y] = h[y]
      PROVE  step(g, x) = step(h, x)
  <2> HIDE DEF D, V, up, down, next, rank
  <2>1. QED
    BY <1>5, <1>8
<1>9. Descends(D, V, S, rank)
  <2> HIDE DEF D, V, step, rank
  <2>1. QED
    BY <1>8 DEF Descends
<1>10. V # {}
  <2>1. [vars |-> u, at |-> f] \in V
    <3> HIDE DEF A, R
    <3>1. QED
      BY <1>1
  <2>2. QED
    BY <2>1
<1>11. PICK h \in [D -> V] : \A x \in D : h[x] = S[<<h, x>>]
  <2> HIDE DEF D, S, rank, V
  <2>1. Solvable(D, V, S)
    BY <1>6, <1>7, <1>9, <1>10, Recursion
  <2>2. QED
    BY <2>1 DEF Solvable
<1>12. h = [x \in D |-> step(h, x)]
  <2> HIDE DEF D, V, step
  <2>1. QED
    BY <1>11
<1>13. PICK g : g = [x \in D |-> step(g, x)] /\ Partitioned(u, f, l) = g[<<u, f, l>>]
  BY <1>12 DEF Partitioned
<1>14. \A x \in D : g[x] = step(g, x)
  <2> HIDE DEF step, D
  <2>1. QED
    BY <1>13
<1>15. \A x \in D : h[x] = g[x]
  <2> HIDE DEF step, D, rank
  <2>1. AgreeUpwards(D, rank, h, g)
    BY <1>8, <1>12, <1>14 DEF AgreeUpwards
  <2>2. QED
    BY <1>6, <2>1, Agreement
<1>16. g = h
  <2> HIDE DEF step, D
  <2>1. QED
    BY <1>13, <1>15
<1>17. \A v \in A, i \in R, j \in R : h[<<v, i, j>>] = step(h, <<v, i, j>>)
  <2>1. \A v \in A, i \in R, j \in R : <<v, i, j>> \in D
    OBVIOUS
  <2> HIDE DEF step, D, A, R
  <2>2. QED
    BY <1>14, <1>16, <2>1
<1>18. Rounds(h, u, f, l)
  BY <1>17 DEF Rounds
<1>19. QED
  BY <1>13, <1>16, <1>18

(* What a round of Partitioned finds: the variables passed by i are not     *)
(* behind the pivot, those passed by j are.                                 *)
Sifted(u, v, f, l, i, j) ==
  /\ v \in [DOMAIN u -> ToSet(u)]
  /\ Permuted(u, v, f, l)
  /\ v[f] = u[f]
  /\ \A m \in f .. i - 1 : v[m].name <= u[f].name
  /\ \A m \in j + 1 .. l : v[m].name > u[f].name

(* Up to p.at - 1 the variables are not behind the one there, from p.at + 1 *)
(* on they are.                                                             *)
Split(u, p, f, l) ==
  /\ p.vars \in [DOMAIN u -> ToSet(u)] /\ p.at \in f .. l
  /\ Permuted(u, p.vars, f, l)
  /\ \A m \in f .. p.at - 1 : p.vars[m].name <= p.vars[p.at].name
  /\ \A m \in p.at + 1 .. l : p.vars[m].name > p.vars[p.at].name

(* One round: either both indices move, or they met.                        *)
LEMMA RoundSifts ==
  ASSUME NEW u \in Seq(Variable), NEW f \in 1 .. Len(u), NEW l \in 1 .. Len(u), f < l,
         NEW v, NEW i \in f .. l, NEW j \in f .. l, Sifted(u, v, f, l, i, j),
         NEW a, NEW b, a = Up(v, f, l, i), b = Down(v, f, j)
  PROVE  /\ a \in i .. l /\ b \in f .. j
         /\ a < b => /\ Sifted(u, Swapped(v, a, b), f, l, a, b)
                     /\ v[a].name > v[f].name
                     /\ Swapped(v, a, b)[a].name <= Swapped(v, a, b)[f].name
         /\ ~ (a < b) => Split(u, [vars |-> Swapped(v, f, b), at |-> b], f, l)
<1> DEFINE A == [DOMAIN u -> ToSet(u)]
<1>1. /\ f \in Nat /\ l \in Nat /\ f .. l \subseteq DOMAIN u /\ v \in A
      /\ \A w \in A, k \in f .. l : w[k].name \in Nat
  <2>1. DOMAIN u = 1 .. Len(u) /\ Len(u) \in Nat
    BY LenProperties
  <2>2. f .. l \subseteq DOMAIN u /\ f \in Nat /\ l \in Nat
    BY <2>1
  <2>3. v \in A
    BY DEF Sifted
  <2>4. QED
    BY <2>2, <2>3, NamesOf
<1>2. \A k \in f .. l : v[k].name \in Nat
  BY <1>1
<1>3. /\ a \in i .. l
      /\ a = l \/ v[a].name > v[f].name
      /\ \A m \in i .. a - 1 : v[m].name <= v[f].name
  BY <1>1, <1>2, UpIs
<1>4. /\ b \in f .. j
      /\ v[b].name <= v[f].name
      /\ \A m \in b + 1 .. j : v[m].name > v[f].name
  BY <1>1, <1>2, DownIs
<1>5. /\ v[f] = u[f] /\ Permuted(u, v, f, l)
      /\ \A m \in f .. i - 1 : v[m].name <= v[f].name
      /\ \A m \in j + 1 .. l : v[m].name > v[f].name
  BY DEF Sifted
<1>6. \A m \in f .. a - 1 : v[m].name <= v[f].name
  <2>1. \A m \in f .. a - 1 : m \in f .. i - 1 \/ m \in i .. a - 1
    BY <1>1, <1>3
  <2>2. QED
    BY <1>3, <1>5, <2>1
<1>7. \A m \in b + 1 .. l : v[m].name > v[f].name
  <2>1. \A m \in b + 1 .. l : m \in b + 1 .. j \/ m \in j + 1 .. l
    BY <1>1, <1>4
  <2>2. QED
    BY <1>4, <1>5, <2>1
<1>8. a \in f .. l /\ b \in f .. l /\ f \in f .. l
  BY <1>1, <1>3, <1>4
<1>9. ASSUME a < b
      PROVE  /\ Sifted(u, Swapped(v, a, b), f, l, a, b)
             /\ v[a].name > v[f].name
             /\ Swapped(v, a, b)[a].name <= Swapped(v, a, b)[f].name
  <2>1. v[a].name > v[f].name
    <3>1. a # l
      BY <1>8, <1>9
    <3>2. QED
      BY <1>3, <3>1
  <2>2. a # f /\ b # f
    <3>1. v[f].name \in Nat
      BY <1>2, <1>8
    <3>2. a # f
      BY <2>1, <3>1
    <3>3. QED
      BY <1>8, <1>9, <3>2
  <2>3. PICK w : w = Swapped(v, a, b)
    OBVIOUS
  <2>4. /\ w \in A /\ w[a] = v[b] /\ w[b] = v[a]
        /\ \A k \in DOMAIN u : k # a /\ k # b => w[k] = v[k]
    <3>1. a \in DOMAIN u /\ b \in DOMAIN u
      BY <1>1, <1>8
    <3>2. v \in [DOMAIN u -> ToSet(u)]
      BY <1>1
    <3>3. /\ Swapped(v, a, b) \in [DOMAIN u -> ToSet(u)]
          /\ Swapped(v, a, b)[a] = v[b] /\ Swapped(v, a, b)[b] = v[a]
          /\ \A k \in DOMAIN u : k # a /\ k # b => Swapped(v, a, b)[k] = v[k]
      BY <3>1, <3>2 DEF Swapped
    <3>4. QED
      BY <2>3, <3>3
  <2>5. w[f] = v[f]
    BY <1>1, <1>8, <2>2, <2>4
  <2>6. Permuted(u, w, f, l)
    <3>1. Permuted(v, w, f, l)
      BY <1>1, <1>8, <2>3, SwappedPermutes
    <3>2. QED
      BY <1>5, <3>1, PermutedTwice
  <2>7. \A m \in f .. a - 1 : w[m].name <= u[f].name
    <3>1. \A m \in f .. a - 1 : m \in f .. l /\ m # a /\ m # b
      BY <1>1, <1>8, <1>9
    <3>2. QED
      BY <1>1, <1>5, <1>6, <2>4, <3>1
  <2>8. \A m \in b + 1 .. l : w[m].name > u[f].name
    <3>1. \A m \in b + 1 .. l : m \in f .. l /\ m # a /\ m # b
      BY <1>1, <1>8, <1>9
    <3>2. QED
      BY <1>1, <1>5, <1>7, <2>4, <3>1
  <2>9. Sifted(u, w, f, l, a, b)
    BY <1>5, <2>4, <2>5, <2>6, <2>7, <2>8 DEF Sifted
  <2>10. QED
    BY <1>4, <2>1, <2>3, <2>4, <2>5, <2>9
<1>10. ASSUME ~ (a < b)
       PROVE  Split(u, [vars |-> Swapped(v, f, b), at |-> b], f, l)
  <2>1. PICK w : w = Swapped(v, f, b)
    OBVIOUS
  <2>2. /\ w \in A /\ w[f] = v[b] /\ w[b] = v[f]
        /\ \A k \in DOMAIN u : k # f /\ k # b => w[k] = v[k]
    <3>1. f \in DOMAIN u /\ b \in DOMAIN u
      BY <1>1, <1>8
    <3>2. v \in [DOMAIN u -> ToSet(u)]
      BY <1>1
    <3>3. /\ Swapped(v, f, b) \in [DOMAIN u -> ToSet(u)]
          /\ Swapped(v, f, b)[f] = v[b] /\ Swapped(v, f, b)[b] = v[f]
          /\ \A k \in DOMAIN u : k # f /\ k # b => Swapped(v, f, b)[k] = v[k]
      BY <3>1, <3>2 DEF Swapped
    <3>4. QED
      BY <2>1, <3>3
  <2>3. Permuted(u, w, f, l)
    <3>1. Permuted(v, w, f, l)
      BY <1>1, <1>8, <2>1, SwappedPermutes
    <3>2. QED
      BY <1>5, <3>1, PermutedTwice
  <2>4. ASSUME NEW m \in f .. b - 1 PROVE w[m].name <= w[b].name
    <3>1. m \in f .. l /\ m # b /\ m \in f .. a - 1
      BY <1>1, <1>8, <1>10
    <3>2. CASE m = f
      BY <1>4, <2>2, <3>2
    <3>3. CASE m # f
      <4>1. w[m] = v[m]
        BY <1>1, <2>2, <3>1, <3>3
      <4>2. QED
        BY <1>6, <2>2, <3>1, <4>1
    <3>4. QED
      BY <3>2, <3>3
  <2>5. ASSUME NEW m \in b + 1 .. l PROVE w[m].name > w[b].name
    <3>1. m \in f .. l /\ m # b /\ m # f
      BY <1>1, <1>8
    <3>2. w[m] = v[m]
      BY <1>1, <2>2, <3>1
    <3>3. QED
      BY <1>7, <2>2, <3>2
  <2>6. PICK p : p = [vars |-> w, at |-> b]
    OBVIOUS
  <2>7. p.vars = w /\ p.at = b
    BY <2>6
  <2>8. Split(u, p, f, l)
    BY <1>8, <2>2, <2>3, <2>4, <2>5, <2>7 DEF Split
  <2>9. QED
    BY <2>1, <2>6, <2>8
<1>11. QED
  BY <1>3, <1>4, <1>9, <1>10

(* The outer loop of V_dict_var_do_quicksort splits the vector. *)
LEMMA PartitionSplits ==
  ASSUME NEW u \in Seq(Variable), NEW f \in 1 .. Len(u), NEW l \in 1 .. Len(u), f < l
  PROVE  Split(u, Partitioned(u, f, l), f, l)
<1> DEFINE height(v, i) == 2 * (l - i) + (IF v[i].name > v[f].name THEN 1 ELSE 0)
<1>1. PICK g : Rounds(g, u, f, l) /\ Partitioned(u, f, l) = g[<<u, f, l>>]
  BY PartitionUnfolds
<1>2. f \in Nat /\ l \in Nat /\ f \in f .. l /\ l \in f .. l
  <2>1. Len(u) \in Nat
    BY LenProperties
  <2>2. QED
    BY <2>1
<1> DEFINE Good(v, i, j) == Sifted(u, v, f, l, i, j) => Split(u, g[<<v, i, j>>], f, l)
           A == [DOMAIN u -> ToSet(u)]
           T == {h \in Nat : \E v \in A, i \in f .. l, j \in f .. l : h = height(v, i) /\ ~Good(v, i, j)}
<1>3. ASSUME NEW v \in A, NEW i \in f .. l, NEW j \in f .. l, Sifted(u, v, f, l, i, j),
             \A w \in A, x \in f .. l, y \in f .. l : height(w, x) < height(v, i) => Good(w, x, y)
      PROVE  Split(u, g[<<v, i, j>>], f, l)
  <2>1. PICK a, b : a = Up(v, f, l, i) /\ b = Down(v, f, j)
    OBVIOUS
  <2>2. /\ a \in i .. l /\ b \in f .. j
        /\ a < b => /\ Sifted(u, Swapped(v, a, b), f, l, a, b)
                    /\ v[a].name > v[f].name
                    /\ Swapped(v, a, b)[a].name <= Swapped(v, a, b)[f].name
        /\ ~ (a < b) => Split(u, [vars |-> Swapped(v, f, b), at |-> b], f, l)
    BY <1>3, <2>1, RoundSifts
  <2>3. g[<<v, i, j>>] = IF a < b THEN g[<<Swapped(v, a, b), a, b>>]
                         ELSE [vars |-> Swapped(v, f, b), at |-> b]
    BY <1>1, <2>1 DEF Rounds
  <2>4. CASE a < b
    <3>1. PICK w : w = Swapped(v, a, b)
      OBVIOUS
    <3>2. Sifted(u, w, f, l, a, b) /\ w[a].name <= w[f].name
      BY <2>2, <2>4, <3>1
    <3>3. w \in A
      BY <3>2 DEF Sifted
    <3>4. a \in f .. l /\ b \in f .. l
      BY <1>2, <2>2
    <3>5. \A x \in A, k \in f .. l : x[k].name \in Nat
      <4>1. f .. l \subseteq DOMAIN u
        <5>1. DOMAIN u = 1 .. Len(u) /\ Len(u) \in Nat
          BY LenProperties
        <5>2. QED
          BY <5>1
      <4>2. QED
        BY <4>1, NamesOf
    <3>6. height(w, a) < height(v, i)
      <4>1. height(w, a) = 2 * (l - a)
        BY <1>2, <3>2, <3>3, <3>4, <3>5
      <4>2. CASE i = a
        <5>1. height(v, i) = 2 * (l - a) + 1
          BY <2>2, <2>4, <4>2
        <5>2. QED
          BY <1>2, <3>4, <4>1, <5>1
      <4>3. CASE i < a
        <5>1. height(v, i) >= 2 * (l - i) /\ height(v, i) \in Int
          BY <1>2
        <5>2. 2 * (l - a) < 2 * (l - i)
          BY <1>2, <3>4, <4>3
        <5> HIDE DEF height
        <5>3. QED
          BY <1>2, <3>4, <4>1, <5>1, <5>2
      <4>4. QED
        BY <1>2, <2>2, <4>2, <4>3
    <3>7. Good(w, a, b)
      <4> HIDE DEF Good, height, A
      <4>1. QED
        BY <1>3, <3>3, <3>4, <3>6
    <3>8. g[<<v, i, j>>] = g[<<w, a, b>>]
      BY <2>3, <2>4, <3>1
    <3>9. QED
      BY <3>2, <3>7, <3>8
  <2>5. CASE ~ (a < b)
    BY <2>2, <2>3, <2>5
  <2>6. QED
    BY <2>4, <2>5
<1>4. T = {}
  <2>1. SUFFICES ASSUME T # {} PROVE FALSE
    OBVIOUS
  <2>2. T \in SUBSET Nat
    OBVIOUS
  <2>3. PICK h \in T : \A x \in T : h <= x
    <3> HIDE DEF T
    <3>1. QED
      BY <2>1, <2>2, LeastNatural
  <2>4. PICK v \in A, i \in f .. l, j \in f .. l : h = height(v, i) /\ ~Good(v, i, j)
    <3> HIDE DEF Good, height, A
    <3>1. QED
      BY <2>3
  <2>5. ASSUME NEW w \in A, NEW x \in f .. l, NEW y \in f .. l, height(w, x) < height(v, i)
        PROVE  Good(w, x, y)
    <3>1. height(w, x) \in Nat
      BY <1>2
    <3> HIDE DEF Good, height, A
    <3>2. height(w, x) \notin T
      BY <2>2, <2>3, <2>4, <2>5, <3>1
    <3>3. QED
      BY <3>1, <3>2
  <2>6. ~ Sifted(u, v, f, l, i, j) \/ Split(u, g[<<v, i, j>>], f, l)
    <3> HIDE DEF height, A, Good
    <3>1. QED
      BY <1>3, <2>5
  <2>7. QED
    BY <2>4, <2>6
<1>5. Sifted(u, u, f, l, f, l)
  <2>1. u \in A
    BY NamesOf
  <2>2. (\A m \in f .. f - 1 : FALSE) /\ (\A m \in l + 1 .. l : FALSE)
    BY <1>2
  <2>3. QED
    BY <2>1, <2>2, PermutedSelf DEF Sifted
<1>6. Good(u, f, l)
  <2>1. u \in A /\ height(u, f) \in Nat
    BY <1>2, NamesOf
  <2> HIDE DEF Good, height, A
  <2>2. QED
    BY <1>2, <1>4, <2>1
<1>7. QED
  BY <1>1, <1>5, <1>6

(* g is the function sort of Quicksort on the whole vector. *)
Sorts(g, u) ==
  /\ g \in [[DOMAIN u -> ToSet(u)] \X (1 .. Len(u) + 1) \X (0 .. Len(u)) -> [DOMAIN u -> ToSet(u)]]
  /\ \A v \in [DOMAIN u -> ToSet(u)], f \in 1 .. Len(u) + 1, l \in 0 .. Len(u) :
       g[<<v, f, l>>] =
         IF f >= l THEN v
         ELSE g[<<g[<<Partitioned(v, f, l).vars, f, Partitioned(v, f, l).at - 1>>],
                  Partitioned(v, f, l).at + 1, l>>]

(* A vector of the same variables is split likewise. *)
LEMMA PartitionStays ==
  ASSUME NEW u \in Seq(Variable), NEW v \in [DOMAIN u -> ToSet(u)],
         NEW f \in 1 .. Len(u), NEW l \in 1 .. Len(u), f < l
  PROVE  /\ Split(v, Partitioned(v, f, l), f, l)
         /\ Partitioned(v, f, l).vars \in [DOMAIN u -> ToSet(u)]
         /\ Partitioned(v, f, l).at \in f .. l
<1>1. Len(u) \in Nat /\ DOMAIN u = 1 .. Len(u)
  BY LenProperties
<1>2. v \in [1 .. Len(u) -> Variable]
  BY <1>1, NamesOf
<1>3. v \in Seq(Variable) /\ Len(v) = Len(u) /\ DOMAIN v = DOMAIN u
  BY <1>1, <1>2, SequenceOf
<1>4. Split(v, Partitioned(v, f, l), f, l)
  BY <1>3, PartitionSplits
<1>5. ToSet(v) \subseteq ToSet(u)
  BY <1>3 DEF ToSet
<1>6. /\ Partitioned(v, f, l).vars \in [DOMAIN v -> ToSet(v)]
      /\ Partitioned(v, f, l).at \in f .. l
  BY <1>4 DEF Split
<1>7. Partitioned(v, f, l).vars \in [DOMAIN u -> ToSet(u)]
  BY <1>3, <1>5, <1>6
<1>8. QED
  BY <1>4, <1>6, <1>7

LEMMA QuicksortUnfolds ==
  ASSUME NEW u \in Seq(Variable)
  PROVE  \E g : Sorts(g, u) /\ Quicksort(u, 1, Len(u)) = g[<<u, 1, Len(u)>>]
<1> DEFINE n == Len(u)
           A == [DOMAIN u -> ToSet(u)]
           F == 1 .. n + 1
           L == 1 - 1 .. n
           D == A \X F \X L
           p(x) == Partitioned(x[1], x[2], x[3])
           left(x) == <<p(x).vars, x[2], p(x).at - 1>>
           right(g, x) == <<g[left(x)], p(x).at + 1, x[3]>>
           step(g, x) == IF x[2] >= x[3] THEN x[1] ELSE g[right(g, x)]
           width(f, l) == IF l < f THEN 0 ELSE l - f + 1
           rank == [x \in D |-> width(x[2], x[3])]
           S == [q \in [D -> A] \X D |-> step(q[1], q[2])]
<1>1. n \in Nat /\ DOMAIN u = 1 .. n /\ u \in A
  BY LenProperties, NamesOf
<1>2. ASSUME NEW x \in D, NEW w \in A, ~ (x[2] >= x[3])
      PROVE  /\ left(x) \in D /\ rank[left(x)] < rank[x]
             /\ <<w, p(x).at + 1, x[3]>> \in D /\ rank[<<w, p(x).at + 1, x[3]>>] < rank[x]
  <2>1. PICK v \in A, f \in F, l \in L : x = <<v, f, l>>
    OBVIOUS
  <2>2. f < l /\ f \in 1 .. n /\ l \in 1 .. n
    BY <1>1, <1>2, <2>1
  <2>3. p(x) = Partitioned(v, f, l)
    BY <2>1
  <2>4. p(x).vars \in A /\ p(x).at \in f .. l
    BY <2>2, <2>3, PartitionStays
  <2>5. PICK vs \in A, m \in f .. l : vs = p(x).vars /\ m = p(x).at
    BY <2>4
  <2>6. m - 1 \in L /\ m + 1 \in F
    BY <1>1, <2>2
  <2>7. \A y \in A, a \in F, b \in L : <<y, a, b>> \in D /\ rank[<<y, a, b>>] = width(a, b)
    OBVIOUS
  <2>8. width(f, m - 1) < width(f, l) /\ width(m + 1, l) < width(f, l)
    BY <1>1, <2>2
  <2>9. left(x) = <<vs, f, m - 1>>
    BY <2>1, <2>5
  <2>10. p(x).at + 1 = m + 1 /\ x[3] = l
    BY <2>1, <2>5
  <2> HIDE DEF A, F, L, D, p, left, width, rank
  <2>11. QED
    BY <2>1, <2>6, <2>7, <2>8, <2>9, <2>10
<1>3. rank \in [D -> Nat]
  <2>1. \A f \in F, l \in L : width(f, l) \in Nat
    BY <1>1
  <2>2. \A x \in D : x[2] \in F /\ x[3] \in L
    OBVIOUS
  <2> HIDE DEF F, L, D, width
  <2>3. QED
    BY <2>1, <2>2
<1>4. ASSUME NEW g \in [D -> A], NEW x \in D PROVE step(g, x) \in A
  <2>1. x[1] \in A
    OBVIOUS
  <2>2. x[2] >= x[3] \/ right(g, x) \in D
    <3>1. CASE ~ (x[2] >= x[3])
      <4>1. left(x) \in D
        <5> HIDE DEF D, left, A
        <5>1. u \in A
          BY <1>1
        <5>2. QED
          BY <1>2, <3>1, <5>1
      <4>2. g[left(x)] \in A
        <5> HIDE DEF D, left, A
        <5>1. QED
          BY <4>1
      <4> HIDE DEF D, left, A, p
      <4>3. QED
        BY <1>2, <3>1, <4>2
    <3>2. QED
      BY <3>1
  <2> HIDE DEF D, A, right
  <2>3. QED
    BY <2>1, <2>2
<1>5. S \in [[D -> A] \X D -> A]
  <2> HIDE DEF D, A, step
  <2>1. QED
    BY <1>4
<1>6. ASSUME NEW x \in D, NEW g \in [D -> A], NEW h, \A y \in D : rank[y] < rank[x] => g[y] = h[y]
      PROVE  step(g, x) = step(h, x)
  <2>1. CASE x[2] >= x[3]
    BY <2>1
  <2>2. CASE ~ (x[2] >= x[3])
    <3>1. left(x) \in D /\ rank[left(x)] < rank[x]
      <4> HIDE DEF D, left, A, rank
      <4>1. u \in A
        BY <1>1
      <4>2. QED
        BY <1>2, <2>2, <4>1
    <3>2. g[left(x)] = h[left(x)] /\ g[left(x)] \in A
      <4> HIDE DEF D, left, A, rank
      <4>1. QED
        BY <1>6, <3>1
    <3>3. right(g, x) = right(h, x)
      <4> HIDE DEF D, left, A, rank, p
      <4>1. QED
        BY <3>2
    <3>4. right(g, x) \in D /\ rank[right(g, x)] < rank[x]
      <4> HIDE DEF D, left, A, rank, p
      <4>1. QED
        BY <1>2, <2>2, <3>2
    <3> HIDE DEF D, A, rank, right
    <3>5. QED
      BY <1>6, <2>2, <3>3, <3>4
  <2>3. QED
    BY <2>1, <2>2
<1>7. Descends(D, A, S, rank)
  <2> HIDE DEF D, A, step, rank
  <2>1. QED
    BY <1>6 DEF Descends
<1>8. A # {}
  <2> HIDE DEF A
  <2>1. QED
    BY <1>1
<1>9. PICK h \in [D -> A] : \A x \in D : h[x] = S[<<h, x>>]
  <2> HIDE DEF D, S, rank, A
  <2>1. Solvable(D, A, S)
    BY <1>3, <1>5, <1>7, <1>8, Recursion
  <2>2. QED
    BY <2>1 DEF Solvable
<1>10. h = [x \in D |-> step(h, x)]
  <2> HIDE DEF D, A, step
  <2>1. QED
    BY <1>9
<1>11. PICK g : g = [x \in D |-> step(g, x)] /\ Quicksort(u, 1, n) = g[<<u, 1, n>>]
  BY <1>10 DEF Quicksort
<1>12. \A x \in D : g[x] = step(g, x)
  <2> HIDE DEF step, D
  <2>1. QED
    BY <1>11
<1>13. \A x \in D : h[x] = g[x]
  <2> HIDE DEF step, D, rank, A
  <2>1. AgreeUpwards(D, rank, h, g)
    BY <1>6, <1>10, <1>12 DEF AgreeUpwards
  <2>2. QED
    BY <1>3, <2>1, Agreement
<1>14. g = h
  <2> HIDE DEF step, D
  <2>1. QED
    BY <1>11, <1>13
<1>15. \A v \in A, f \in F, l \in L : h[<<v, f, l>>] = step(h, <<v, f, l>>)
  <2>1. \A v \in A, f \in F, l \in L : <<v, f, l>> \in D
    OBVIOUS
  <2> HIDE DEF step, D, A, F, L
  <2>2. QED
    BY <1>12, <1>14, <2>1
<1>16. L = 0 .. n
  BY <1>1
<1>17. h \in [A \X F \X (0 .. n) -> A]
  BY <1>16
<1>18. ASSUME NEW v \in A, NEW f \in F, NEW l \in 0 .. n
       PROVE  h[<<v, f, l>>] =
                IF f >= l THEN v
                ELSE h[<<h[<<Partitioned(v, f, l).vars, f, Partitioned(v, f, l).at - 1>>],
                         Partitioned(v, f, l).at + 1, l>>]
  <2>1. h[<<v, f, l>>] = step(h, <<v, f, l>>)
    <3> HIDE DEF step, A, F, L
    <3>1. QED
      BY <1>15, <1>16
  <2>2. QED
    BY <2>1
<1>19. Sorts(h, u)
  <2> HIDE DEF D, step, S, rank, L
  <2>1. QED
    BY <1>17, <1>18 DEF Sorts
<1>20. QED
  BY <1>11, <1>14, <1>19

Ascending(w, f, l) == \A i, k \in f .. l : i < k => w[i].name <= w[k].name

(* V_dict_var_quicksort sorts, and keeps what it sorts. *)
LEMMA QuicksortSortsSegment ==
  ASSUME NEW u \in Seq(Variable), NEW g, Sorts(g, u),
         NEW v \in [DOMAIN u -> ToSet(u)], NEW f \in 1 .. Len(u) + 1, NEW l \in 0 .. Len(u)
  PROVE  Permuted(v, g[<<v, f, l>>], f, l) /\ Ascending(g[<<v, f, l>>], f, l)
<1> DEFINE n == Len(u)
           A == [DOMAIN u -> ToSet(u)]
           F == 1 .. n + 1
           L == 0 .. n
           width(a, b) == IF b < a THEN 0 ELSE b - a + 1
           Good(x, a, b) == Permuted(x, g[<<x, a, b>>], a, b) /\ Ascending(g[<<x, a, b>>], a, b)
           T == {h \in Nat : \E x \in A, a \in F, b \in L : h = width(a, b) /\ ~Good(x, a, b)}
<1>1. /\ n \in Nat /\ DOMAIN u = 1 .. n
      /\ \A x \in A, k \in 1 .. n : x[k].name \in Nat
  BY LenProperties, NamesOf
<1>2. \A x \in A, a \in F, b \in L : g[<<x, a, b>>] \in A
  BY DEF Sorts
<1>3. ASSUME NEW x \in A, NEW a \in F, NEW b \in L,
             \A y \in A, c \in F, d \in L : width(c, d) < width(a, b) => Good(y, c, d)
      PROVE  Good(x, a, b)
  <2>1. CASE a >= b
    <3>1. g[<<x, a, b>>] = x
      BY <2>1 DEF Sorts
    <3>2. Permuted(x, x, a, b)
      BY PermutedSelf
    <3>3. Ascending(x, a, b)
      BY <1>1, <2>1 DEF Ascending
    <3>4. QED
      BY <3>1, <3>2, <3>3
  <2>2. CASE a < b
    <3>1. a \in 1 .. n /\ b \in 1 .. n /\ a .. b \subseteq 1 .. n
      BY <1>1, <2>2
    <3>2. PICK p : p = Partitioned(x, a, b)
      OBVIOUS
    <3>3. Split(x, p, a, b) /\ p.vars \in A /\ p.at \in a .. b
      BY <2>2, <3>1, <3>2, PartitionStays
    <3>4. PICK q \in A, m \in a .. b : q = p.vars /\ m = p.at
      BY <3>3
    <3>5. g[<<x, a, b>>] = g[<<g[<<q, a, m - 1>>], m + 1, b>>]
      <4>1. g[<<x, a, b>>] =
               IF a >= b THEN x
               ELSE g[<<g[<<Partitioned(x, a, b).vars, a, Partitioned(x, a, b).at - 1>>],
                        Partitioned(x, a, b).at + 1, b>>]
        BY DEF Sorts
      <4>2. ~ (a >= b)
        BY <2>2, <3>1, <1>1
      <4>3. QED
        BY <4>1, <4>2, <3>2, <3>4
    <3>6. PICK y : y = g[<<q, a, m - 1>>]
      OBVIOUS
    <3>7. PICK z : z = g[<<y, m + 1, b>>]
      OBVIOUS
    <3>8. /\ m - 1 \in L /\ m + 1 \in F
          /\ width(a, m - 1) < width(a, b) /\ width(m + 1, b) < width(a, b)
      BY <1>1, <2>2, <3>1
    <3>9. y \in A
      BY <1>2, <3>6, <3>8
    <3>10. Good(q, a, m - 1) /\ Good(y, m + 1, b)
      <4> HIDE DEF Good, width, A, F, L
      <4>1. QED
        BY <1>3, <3>4, <3>8, <3>9
    <3>11. /\ Permuted(q, y, a, m - 1) /\ Ascending(y, a, m - 1)
           /\ Permuted(y, z, m + 1, b) /\ Ascending(z, m + 1, b)
      BY <3>6, <3>7, <3>10
    <3>12. z \in A /\ g[<<x, a, b>>] = z
      BY <1>2, <3>5, <3>6, <3>7, <3>8, <3>9
    <3>13. /\ Permuted(x, q, a, b)
           /\ \A k \in a .. m - 1 : q[k].name <= q[m].name
           /\ \A k \in m + 1 .. b : q[k].name > q[m].name
      BY <3>3, <3>4 DEF Split
    <3>14. DOMAIN x = 1 .. n /\ DOMAIN q = 1 .. n /\ DOMAIN y = 1 .. n /\ DOMAIN z = 1 .. n
      BY <1>1, <3>4, <3>9, <3>12
    <3>15. Permuted(x, z, a, b)
      <4>1. a .. m - 1 \subseteq a .. b /\ m + 1 .. b \subseteq a .. b
        BY <3>1
      <4>2. Permuted(q, y, a, b)
        BY <3>1, <3>11, <3>14, <4>1, PermutedWider
      <4>3. Permuted(y, z, a, b)
        BY <3>1, <3>11, <3>14, <4>1, PermutedWider
      <4>4. Permuted(x, y, a, b)
        BY <3>13, <4>2, PermutedTwice
      <4>5. QED
        BY <4>3, <4>4, PermutedTwice
    <3>16. PICK pivot \in Nat : pivot = q[m].name
      BY <1>1, <3>1, <3>4
    <3>17. \A k \in a .. m - 1 : z[k] = y[k] /\ z[k].name <= pivot
      <4>1. ASSUME NEW k \in a .. m - 1 PROVE z[k] = y[k] /\ z[k].name <= pivot
        <5>1. k \in 1 .. n /\ k \notin m + 1 .. b
          BY <3>1
        <5>2. z[k] = y[k]
          BY <3>11, <3>14, <5>1 DEF Permuted
        <5>3. PICK h \in a .. m - 1 : y[k] = q[h]
          BY <3>11 DEF Permuted
        <5>4. QED
          BY <3>13, <3>16, <5>2, <5>3
      <4>2. QED
        BY <4>1
    <3>18. z[m].name = pivot
      <4>1. m \in 1 .. n /\ m \notin a .. m - 1 /\ m \notin m + 1 .. b
        BY <3>1
      <4>2. QED
        BY <3>11, <3>14, <3>16, <4>1 DEF Permuted
    <3>19. \A k \in m + 1 .. b : z[k].name > pivot
      <4>1. ASSUME NEW k \in m + 1 .. b PROVE z[k].name > pivot
        <5>1. PICK h \in m + 1 .. b : z[k] = y[h]
          BY <3>11 DEF Permuted
        <5>2. h \in 1 .. n /\ h \notin a .. m - 1
          BY <3>1
        <5>3. y[h] = q[h]
          BY <3>11, <3>14, <5>2 DEF Permuted
        <5>4. QED
          BY <3>13, <3>16, <5>1, <5>3
      <4>2. QED
        BY <4>1
    <3>20. \A k \in a .. b : z[k].name \in Nat
      BY <1>1, <3>1, <3>12
    <3>21. ASSUME NEW i \in a .. b, NEW k \in a .. b, i < k PROVE z[i].name <= z[k].name
      <4>1. z[i].name \in Nat /\ z[k].name \in Nat
        BY <3>20
      <4>2. CASE k <= m - 1
        <5>1. i \in a .. m - 1 /\ k \in a .. m - 1
          BY <3>21, <4>2
        <5>2. y[i].name <= y[k].name
          BY <3>11, <3>21, <5>1 DEF Ascending
        <5>3. QED
          BY <3>17, <5>1, <5>2
      <4>3. CASE m + 1 <= i
        <5>1. i \in m + 1 .. b /\ k \in m + 1 .. b
          BY <3>21, <4>3
        <5>2. QED
          BY <3>11, <3>21, <5>1 DEF Ascending
      <4>4. CASE i <= m /\ m <= k
        <5>1. z[i].name <= pivot
          <6>1. i = m \/ i \in a .. m - 1
            BY <4>4
          <6>2. QED
            BY <3>17, <3>18, <6>1
        <5>2. pivot <= z[k].name
          <6>1. k = m \/ k \in m + 1 .. b
            BY <4>4
          <6>2. QED
            BY <3>18, <3>19, <4>1, <6>1
        <5>3. QED
          BY <4>1, <5>1, <5>2
      <4>5. QED
        BY <1>1, <3>1, <3>21, <4>2, <4>3, <4>4
    <3>22. Ascending(z, a, b)
      BY <3>21 DEF Ascending
    <3>23. QED
      BY <3>12, <3>15, <3>22
  <2>3. QED
    BY <1>1, <2>1, <2>2
<1>4. T = {}
  <2>1. SUFFICES ASSUME T # {} PROVE FALSE
    OBVIOUS
  <2>2. T \in SUBSET Nat
    OBVIOUS
  <2>3. PICK h \in T : \A x \in T : h <= x
    <3> HIDE DEF T
    <3>1. QED
      BY <2>1, <2>2, LeastNatural
  <2>4. PICK x \in A, a \in F, b \in L : h = width(a, b) /\ ~Good(x, a, b)
    <3> HIDE DEF Good, width, A, F, L
    <3>1. QED
      BY <2>3
  <2>5. ASSUME NEW y \in A, NEW c \in F, NEW d \in L, width(c, d) < width(a, b)
        PROVE  Good(y, c, d)
    <3>1. width(c, d) \in Nat /\ width(a, b) \in Nat
      BY <1>1
    <3> HIDE DEF Good, width, A, F, L
    <3>2. width(c, d) \in T => width(a, b) <= width(c, d)
      BY <2>3, <2>4
    <3>3. QED
      BY <2>5, <3>1, <3>2
  <2>6. QED
    <3> HIDE DEF Good, width, A, F, L
    <3>1. QED
      BY <1>3, <2>4, <2>5
<1>5. width(f, l) \in Nat
  BY <1>1
<1>6. Good(v, f, l)
  <2> HIDE DEF Good, width
  <2>1. QED
    BY <1>4, <1>5
<1>7. QED
  BY <1>6

(* bdd_dictionary_sort: the variables are put in order, var_sorted is true. *)
LEMMA SortIs ==
  ASSUME NEW P, NEW d, NEW e, d \in DictOver(P), NamesDiffer(d.vars),
         d.sorted => IncreasingNames(d.vars), e = Sort(d)
  PROVE  /\ e \in DictOver(P) /\ e.vals = d.vals /\ e.deleted = d.deleted
         /\ e.sorted /\ IncreasingNames(e.vars) /\ NamesDiffer(e.vars)
         /\ Len(e.vars) = Len(d.vars)
         /\ VariablesFrom(d, e)
         /\ VariablesFrom(e, d)
<1>1. CASE d.sorted
  <2>1. e = d
    BY <1>1 DEF Sort
  <2>2. QED
    BY <1>1, <2>1 DEF VariablesFrom
<1>2. CASE ~d.sorted
  <2>1. PICK u, w : u = d.vars /\ w = Quicksort(u, 1, Len(u))
    OBVIOUS
  <2>2. PICK n \in Nat : u \in Seq(Variable) /\ Len(u) = n /\ DOMAIN u = 1 .. n
    BY <2>1, DictFields
  <2>3. PICK g : Sorts(g, u) /\ w = g[<<u, 1, Len(u)>>]
    BY <2>1, <2>2, QuicksortUnfolds
  <2>4. u \in [DOMAIN u -> ToSet(u)] /\ 1 \in 1 .. Len(u) + 1 /\ Len(u) \in 0 .. Len(u)
    BY <2>2, NamesOf
  <2>5. Permuted(u, w, 1, Len(u)) /\ Ascending(w, 1, Len(u))
    BY <2>2, <2>3, <2>4, QuicksortSortsSegment
  <2>6. w \in [DOMAIN u -> ToSet(u)]
    BY <2>3, <2>4 DEF Sorts
  <2>7. w \in Seq(Variable) /\ Len(w) = n /\ DOMAIN w = 1 .. n
    <3>1. w \in [1 .. n -> Variable]
      BY <2>2, <2>6, NamesOf
    <3>2. QED
      BY <3>1, SequenceOf
  <2>8. e = [vars |-> w, vals |-> d.vals, deleted |-> d.deleted, sorted |-> TRUE]
    BY <1>2, <2>1 DEF Sort, DictOver
  <2>9. e \in DictOver(P) /\ e.vars = w /\ e.vals = d.vals /\ e.deleted = d.deleted /\ e.sorted
    <3>1. d.vals \in Seq([value: Nat, prob: P]) /\ d.deleted \in Nat /\ TRUE \in BOOLEAN
      BY DictFields
    <3>2. QED
      BY <2>7, <2>8, <3>1 DEF DictOver
  <2>10. /\ \A k \in 1 .. n : \E m \in 1 .. n : w[k] = u[m]
         /\ \A m \in 1 .. n : \E k \in 1 .. n : w[k] = u[m]
         /\ NamesDiffer(w)
    BY <2>1, <2>2, <2>5 DEF Permuted
  <2>11. IncreasingNames(e.vars)
    <3>1. ASSUME NEW i \in 1 .. n, NEW k \in 1 .. n, i < k PROVE w[i].name < w[k].name
      <4>1. w[i].name <= w[k].name
        BY <2>2, <2>5, <3>1 DEF Ascending
      <4>2. w[i].name # w[k].name
        <5>1. i # k /\ i \in DOMAIN w /\ k \in DOMAIN w
          BY <2>7, <3>1
        <5>2. QED
          BY <2>10, <5>1 DEF NamesDiffer
      <4>3. w[i].name \in Nat /\ w[k].name \in Nat
        BY <2>2, <2>6, NamesOf
      <4>4. QED
        BY <4>1, <4>2, <4>3
    <3>2. QED
      BY <2>7, <2>9, <3>1 DEF IncreasingNames
  <2>12. Len(e.vars) = n /\ Len(d.vars) = n
    BY <2>1, <2>2, <2>7, <2>9
  <2>13. VariablesFrom(d, e) /\ VariablesFrom(e, d)
    <3>1. /\ \A k \in 1 .. n : \E m \in 1 .. n : e.vars[k] = d.vars[m]
          /\ \A m \in 1 .. n : \E k \in 1 .. n : d.vars[m] = e.vars[k]
      BY <2>1, <2>9, <2>10
    <3>2. /\ \A k \in 1 .. Len(e.vars) : \E m \in 1 .. Len(d.vars) : e.vars[k] = d.vars[m]
          /\ \A m \in 1 .. Len(d.vars) : \E k \in 1 .. Len(e.vars) : d.vars[m] = e.vars[k]
      BY <2>12, <3>1
    <3>3. QED
      BY <3>2 DEF VariablesFrom
  <2>14. QED
    BY <2>9, <2>10, <2>11, <2>12, <2>13
<1>3. QED
  BY <1>1, <1>2

LEMMA SortKeeps ==
  ASSUME NEW P, NEW d, NEW e, d \in DictOver(P), Layout(d), e = Sort(d)
  PROVE  /\ e \in DictOver(P) /\ Layout(e)
         /\ VariablesFrom(d, e)
<1>1. NamesDiffer(d.vars) /\ (d.sorted => IncreasingNames(d.vars))
  BY DEF Layout
<1>2. /\ e \in DictOver(P) /\ e.vals = d.vals /\ e.deleted = d.deleted
      /\ e.sorted /\ IncreasingNames(e.vars) /\ NamesDiffer(e.vars)
      /\ Len(e.vars) = Len(d.vars)
      /\ VariablesFrom(d, e)
      /\ VariablesFrom(e, d)
  BY <1>1, SortIs
<1>3. DOMAIN e.vars = 1 .. Len(e.vars)
  BY <1>2, DictFields
<1> DEFINE p == [k \in 1 .. Len(e.vars) |-> CHOOSE l \in 1 .. Len(d.vars) : e.vars[k] = d.vars[l]]
<1>4. \A k \in 1 .. Len(e.vars) : p[k] \in 1 .. Len(d.vars) /\ e.vars[k] = d.vars[p[k]]
  BY <1>2 DEF VariablesFrom
<1>5. p \in [1 .. Len(e.vars) -> 1 .. Len(d.vars)]
  BY <1>4
<1>6. \A k, l \in 1 .. Len(e.vars) : k # l => p[k] # p[l]
  <2> HIDE DEF p
  <2>1. \A k, l \in 1 .. Len(e.vars) : k # l => e.vars[k].name # e.vars[l].name
    BY <1>2, <1>3 DEF NamesDiffer
  <2>2. QED
    BY <1>4, <2>1
<1>7. Inside(e) /\ Apart(e) /\ ValuesDiffer(e)
  <2> HIDE DEF p
  <2>1. e \in DictOver(P) /\ e.vals = d.vals
    BY <1>2
  <2>2. QED
    BY <1>4, <1>5, <1>6, <2>1, Rearranged
<1>8. Holes(e) \subseteq Holes(d)
  <2> HIDE DEF p
  <2>1. ASSUME NEW j \in Holes(e) PROVE j \in Holes(d)
    <3>1. j \in 1 .. Len(d.vals) /\ \A k \in 1 .. Len(e.vars) : j \notin Segment(e.vars[k])
      BY <1>2, HolesAre
    <3>2. \A l \in 1 .. Len(d.vars) : j \notin Segment(d.vars[l])
      BY <1>2, <3>1 DEF VariablesFrom
    <3>3. QED
      BY <3>1, <3>2, HolesAre
  <2>2. QED
    BY <2>1
<1>9. HolesCounted(e)
  BY <1>2, <1>8, HolesSame DEF Layout
<1>10. Layout(e)
  BY <1>2, <1>7, <1>9 DEF Layout
<1>11. QED
  BY <1>2, <1>10

-----------------------------------------------------------------------------
(* g is the function packed of Reorganize: the segments one after another.  *)
Packs(g, d, V) ==
  /\ g \in [0 .. Len(d.vars) -> Seq(V)]
  /\ g[0] = <<>>
  /\ \A i \in 1 .. Len(d.vars) : g[i] = g[i - 1] \o Slice(d.vals, d.vars[i].offset, d.vars[i].card)

Packed(d, g) ==
  [d EXCEPT !.vals = g[Len(d.vars)],
            !.vars = [i \in DOMAIN d.vars |-> [d.vars[i] EXCEPT !.offset = Len(g[i - 1])]]]

LEMMA ReorganizeUnfolds ==
  ASSUME NEW P, NEW d, NEW e, d \in DictOver(P), Inside(d), e = Reorganize(d)
  PROVE  \E g : Packs(g, d, [value: Nat, prob: P]) /\ e = Packed(d, g)
<1> DEFINE n == Len(d.vars)
           Q == Seq([value: Nat, prob: P])
           D == 0 .. n
           seg(i) == SubSeq(d.vals, d.vars[i].offset + 1, d.vars[i].offset + d.vars[i].card)
           step(g, i) == IF i = 0 THEN <<>> ELSE g[i - 1] \o seg(i)
           rank == [i \in D |-> i]
           S == [q \in [D -> Q] \X D |-> step(q[1], q[2])]
<1>1. n \in Nat /\ DOMAIN d.vars = 1 .. n /\ d.vals \in Q
  BY DictFields
<1>2. \A i \in D : i # 0 => i - 1 \in D /\ rank[i - 1] < rank[i] /\ i \in 1 .. n
  BY <1>1
<1>3. rank \in [D -> Nat]
  BY <1>1
<1>4. \A i \in 1 .. n : seg(i) \in Q
  <2>1. ASSUME NEW i \in 1 .. n PROVE seg(i) \in Q
    <3>1. PICK o, c : o = d.vars[i].offset /\ c = d.vars[i].card
      OBVIOUS
    <3>2. o \in Nat /\ c \in Nat /\ o + c <= Len(d.vals)
      BY <1>1, <3>1, DictFields DEF Inside
    <3>3. PICK V : V = [value: Nat, prob: P]
      OBVIOUS
    <3>4. d.vals \in Seq(V)
      BY <1>1, <3>3
    <3>5. Slice(d.vals, o, c) \in Seq(V)
      BY <3>2, <3>4, SliceIs
    <3>6. QED
      BY <3>1, <3>3, <3>5 DEF Slice
  <2>2. QED
    BY <2>1
<1>5. <<>> \in Q
  BY EmptySeq
<1>6. S \in [[D -> Q] \X D -> Q]
  <2>1. ASSUME NEW g \in [D -> Q], NEW i \in D PROVE step(g, i) \in Q
    <3>1. CASE i = 0
      BY <1>5, <3>1
    <3>2. CASE i # 0
      <4>1. g[i - 1] \in Q /\ seg(i) \in Q
        <5> HIDE DEF Q, seg
        <5>1. QED
          BY <1>2, <1>4, <3>2
      <4>2. g[i - 1] \o seg(i) \in Q
        <5> HIDE DEF seg
        <5>1. QED
          BY <4>1, ConcatProperties
      <4>3. QED
        BY <3>2, <4>2
    <3>3. QED
      BY <3>1, <3>2
  <2> HIDE DEF D, Q, step
  <2>2. QED
    BY <2>1
<1>7. ASSUME NEW x \in D, NEW g, NEW h, \A y \in D : rank[y] < rank[x] => g[y] = h[y]
      PROVE  step(g, x) = step(h, x)
  <2> HIDE DEF D, rank, seg
  <2>1. QED
    BY <1>2, <1>7
<1>8. Descends(D, Q, S, rank)
  <2> HIDE DEF D, Q, step, rank
  <2>1. QED
    BY <1>7 DEF Descends
<1>9. PICK f \in [D -> Q] : \A i \in D : f[i] = S[<<f, i>>]
  <2> HIDE DEF D, S, rank, Q
  <2>1. Solvable(D, Q, S)
    BY <1>3, <1>5, <1>6, <1>8, Recursion
  <2>2. QED
    BY <2>1 DEF Solvable
<1>10. f = [i \in D |-> step(f, i)]
  <2> HIDE DEF D, Q, step
  <2>1. QED
    BY <1>9
<1>11. PICK g : g = [i \in D |-> step(g, i)] /\ e = Packed(d, g)
  BY <1>10 DEF Reorganize, Packed
<1>12. \A i \in D : g[i] = step(g, i)
  <2> HIDE DEF step, D
  <2>1. QED
    BY <1>11
<1>13. \A i \in D : f[i] = g[i]
  <2> HIDE DEF step, D, rank
  <2>1. AgreeUpwards(D, rank, f, g)
    BY <1>7, <1>10, <1>12 DEF AgreeUpwards
  <2>2. QED
    BY <1>3, <2>1, Agreement
<1>14. g = f
  <2> HIDE DEF step, D
  <2>1. QED
    BY <1>11, <1>13
<1>15. f[0] = <<>> /\ \A i \in 1 .. n : f[i] = f[i - 1] \o seg(i)
  <2>1. \A i \in 1 .. n : i \in D /\ i # 0
    BY <1>1
  <2>2. 0 \in D
    BY <1>1
  <2> HIDE DEF D, seg
  <2>3. QED
    BY <1>12, <1>14, <2>1, <2>2
<1>16. Packs(f, d, [value: Nat, prob: P])
  BY <1>15 DEF Packs, Slice
<1>17. e = Packed(d, f)
  BY <1>11, <1>14
<1>18. QED
  BY <1>16, <1>17

(* The first j segments are laid out one behind the other in g[j]. *)
Laid(g, d, j) ==
  /\ \A i \in 0 .. j : /\ Len(g[i]) <= Len(g[j])
                       /\ \A k \in 1 .. Len(g[i]) : g[j][k] = g[i][k]
  /\ \A k \in 1 .. Len(g[j]) :
       \E i \in 1 .. j : k \in Len(g[i - 1]) + 1 .. Len(g[i - 1]) + d.vars[i].card
  /\ j # 0 => /\ Len(g[j]) = Len(g[j - 1]) + d.vars[j].card
              /\ \A h \in 1 .. d.vars[j].card :
                   g[j][Len(g[j - 1]) + h] = d.vals[d.vars[j].offset + h]

LEMMA Packing ==
  ASSUME NEW P, NEW d, d \in DictOver(P), Inside(d), NEW g, Packs(g, d, [value: Nat, prob: P])
  PROVE  \A j \in 0 .. Len(d.vars) : Laid(g, d, j)
<1> DEFINE n == Len(d.vars)
           Q == Seq([value: Nat, prob: P])
           Prefix(j) == \A i \in 0 .. j : /\ Len(g[i]) <= Len(g[j])
                                          /\ \A k \in 1 .. Len(g[i]) : g[j][k] = g[i][k]
           Cover(j) == \A k \in 1 .. Len(g[j]) :
                         \E i \in 1 .. j : k \in Len(g[i - 1]) + 1 .. Len(g[i - 1]) + d.vars[i].card
           Grows(j) == /\ Len(g[j]) = Len(g[j - 1]) + d.vars[j].card
                       /\ \A h \in 1 .. d.vars[j].card :
                            g[j][Len(g[j - 1]) + h] = d.vals[d.vars[j].offset + h]
<1>1. n \in Nat /\ DOMAIN d.vars = 1 .. n
  BY DictFields
<1>2. \A i \in 0 .. n : g[i] \in Q /\ Len(g[i]) \in Nat
  <2>1. \A i \in 0 .. n : g[i] \in Q
    BY DEF Packs
  <2>2. QED
    BY <2>1, LenProperties
<1>3. ASSUME NEW j \in 1 .. n
      PROVE  /\ Len(g[j]) = Len(g[j - 1]) + d.vars[j].card
             /\ \A k \in 1 .. Len(g[j - 1]) : g[j][k] = g[j - 1][k]
             /\ \A h \in 1 .. d.vars[j].card :
                  g[j][Len(g[j - 1]) + h] = d.vals[d.vars[j].offset + h]
             /\ d.vars[j].card \in Nat
  <2>1. PICK o, c : o = d.vars[j].offset /\ c = d.vars[j].card
    OBVIOUS
  <2>2. o \in Nat /\ c \in Nat /\ o + c <= Len(d.vals)
    BY <1>1, <2>1, DictFields DEF Inside
  <2>3. PICK V : V = [value: Nat, prob: P]
    OBVIOUS
  <2>4. d.vals \in Seq(V)
    BY <2>3, DictFields
  <2>5. PICK s : s = Slice(d.vals, o, c)
    OBVIOUS
  <2>6. /\ s \in Seq(V) /\ Len(s) = c
        /\ \A h \in 1 .. c : s[h] = d.vals[o + h]
    BY <2>2, <2>4, <2>5, SliceIs
  <2>7. PICK x, y : x = g[j - 1] /\ y = g[j]
    OBVIOUS
  <2>8. y = x \o s
    BY <2>1, <2>5, <2>7 DEF Packs
  <2>9. x \in Seq(V) /\ Len(x) \in Nat
    <3>1. j - 1 \in 0 .. n
      BY <1>1
    <3>2. g[j - 1] \in Q /\ Len(g[j - 1]) \in Nat
      BY <1>2, <3>1
    <3>3. QED
      BY <2>3, <2>7, <3>2
  <2>10. /\ Len(y) = Len(x) + Len(s)
         /\ \A k \in 1 .. Len(x) + Len(s) : y[k] = IF k <= Len(x) THEN x[k] ELSE s[k - Len(x)]
    BY <2>6, <2>8, <2>9, ConcatProperties
  <2>11. PICK m \in Nat, z \in Nat : m = Len(x) /\ z = c
    BY <2>2, <2>9
  <2>12. \A k \in 1 .. m + z : y[k] = IF k <= m THEN x[k] ELSE s[k - m]
    BY <2>6, <2>10, <2>11
  <2>13. \A k \in 1 .. m : y[k] = x[k]
    BY <2>12
  <2>14. \A h \in 1 .. z : y[m + h] = s[h]
    <3>1. ASSUME NEW h \in 1 .. z PROVE y[m + h] = s[h]
      <4>1. m + h \in 1 .. m + z /\ ~ (m + h <= m) /\ (m + h) - m = h
        OBVIOUS
      <4>2. QED
        BY <2>12, <4>1
    <3>2. QED
      BY <3>1
  <2>15. Len(y) = Len(x) + c
    BY <2>6, <2>10
  <2>16. \A h \in 1 .. c : y[Len(x) + h] = d.vals[o + h]
    BY <2>6, <2>11, <2>14
  <2>17. \A k \in 1 .. Len(x) : y[k] = x[k]
    BY <2>11, <2>13
  <2>18. QED
    BY <2>1, <2>2, <2>7, <2>15, <2>16, <2>17
<1>4. Len(g[0]) = 0
  BY EmptySeq DEF Packs
<1>5. Prefix(0) /\ Cover(0)
  BY <1>4
<1>6. ASSUME NEW j \in 1 .. n, Prefix(j - 1), Cover(j - 1)
      PROVE  Prefix(j) /\ Cover(j)
  <2>1. PICK m \in Nat, c \in Nat : m = Len(g[j - 1]) /\ c = d.vars[j].card
    BY <1>1, <1>2, <1>3
  <2>2. /\ Len(g[j]) = m + c
        /\ \A k \in 1 .. m : g[j][k] = g[j - 1][k]
    BY <1>3, <2>1
  <2>3. Prefix(j)
    <3>1. ASSUME NEW i \in 0 .. j
          PROVE  /\ Len(g[i]) <= Len(g[j])
                 /\ \A k \in 1 .. Len(g[i]) : g[j][k] = g[i][k]
      <4>1. CASE i = j
        <5>1. Len(g[j]) \in Nat
          BY <1>1, <1>2
        <5>2. QED
          BY <4>1, <5>1
      <4>2. CASE i # j
        <5>1. i \in 0 .. j - 1 /\ i \in 0 .. n
          BY <1>1, <4>2
        <5>2. PICK a \in Nat : a = Len(g[i])
          BY <1>2, <5>1
        <5>3. a <= m /\ \A k \in 1 .. a : g[j - 1][k] = g[i][k]
          BY <1>6, <2>1, <5>1, <5>2
        <5>4. \A k \in 1 .. a : k \in 1 .. m
          BY <5>3
        <5>5. \A k \in 1 .. a : g[j][k] = g[i][k]
          BY <2>2, <5>3, <5>4
        <5>6. a <= m + c
          BY <5>3
        <5>7. QED
          BY <2>2, <5>2, <5>5, <5>6
      <4>3. QED
        BY <4>1, <4>2
    <3>2. QED
      BY <3>1
  <2>4. Cover(j)
    <3>1. ASSUME NEW k \in 1 .. Len(g[j])
          PROVE  \E i \in 1 .. j : k \in Len(g[i - 1]) + 1 .. Len(g[i - 1]) + d.vars[i].card
      <4>1. k \in 1 .. m + c
        BY <2>2
      <4>2. CASE k \in 1 .. m
        <5>1. PICK i \in 1 .. j - 1 : k \in Len(g[i - 1]) + 1 .. Len(g[i - 1]) + d.vars[i].card
          BY <1>6, <2>1, <4>2
        <5>2. i \in 1 .. j
          BY <1>1
        <5>3. QED
          BY <5>1, <5>2
      <4>3. CASE k \in m + 1 .. m + c
        BY <2>1, <4>3
      <4>4. QED
        BY <4>1, <4>2, <4>3
    <3>2. QED
      BY <3>1
  <2>5. QED
    BY <2>3, <2>4
<1> DEFINE T == {j \in 0 .. n : ~ (Prefix(j) /\ Cover(j))}
<1>7. T = {}
  <2>1. SUFFICES ASSUME T # {} PROVE FALSE
    OBVIOUS
  <2>2. T \in SUBSET Nat /\ 0 \notin T
    <3> HIDE DEF Prefix, Cover
    <3>1. QED
      BY <1>5
  <2>3. PICK j \in T : \A x \in T : j <= x
    <3> HIDE DEF T
    <3>1. QED
      BY <2>1, <2>2, LeastNatural
  <2>4. j \in 1 .. n
    <3> HIDE DEF Prefix, Cover
    <3>1. j \in 0 .. n /\ j # 0
      BY <2>2
    <3>2. QED
      BY <1>1, <3>1
  <2>5. j - 1 \notin T
    <3> HIDE DEF T
    <3>1. QED
      BY <2>3, <2>4
  <2>6. Prefix(j - 1) /\ Cover(j - 1)
    <3>1. j - 1 \in 0 .. n
      BY <1>1, <2>4
    <3> HIDE DEF Prefix, Cover
    <3>2. QED
      BY <2>5, <3>1
  <2> HIDE DEF Prefix, Cover
  <2>7. QED
    BY <1>6, <2>4, <2>6
<1>8. \A j \in 0 .. n : j # 0 => Grows(j)
  BY <1>1, <1>3
<1>9. QED
  <2>1. \A j \in 0 .. n : Prefix(j) /\ Cover(j)
    <3> HIDE DEF Prefix, Cover
    <3>1. QED
      BY <1>7
  <2>2. QED
    BY <2>1, <1>8 DEF Laid

(* The loop of dictionary_prepare2store leaves no holes. *)
LEMMA ReorganizeKeeps ==
  ASSUME NEW P, NEW d, NEW e, d \in DictOver(P), Layout(d), e = Reorganize(d)
  PROVE  /\ e \in DictOver(P) /\ Layout(e) /\ Holes(e) = {}
         /\ Len(e.vars) = Len(d.vars)
         /\ \A i \in 1 .. Len(d.vars) : e.vars[i].name = d.vars[i].name /\ e.vars[i].card = d.vars[i].card
<1> DEFINE V == [value: Nat, prob: P]
<1>1. PICK n \in Nat : Len(d.vars) = n /\ DOMAIN d.vars = 1 .. n
  BY DictFields
<1>2. Inside(d)
  BY DEF Layout
<1>3. PICK g : Packs(g, d, V) /\ e = Packed(d, g)
  BY <1>2, ReorganizeUnfolds
<1>4. \A j \in 0 .. n :
        /\ \A i \in 0 .. j : /\ Len(g[i]) <= Len(g[j])
                             /\ \A k \in 1 .. Len(g[i]) : g[j][k] = g[i][k]
        /\ \A k \in 1 .. Len(g[j]) :
             \E i \in 1 .. j : k \in Len(g[i - 1]) + 1 .. Len(g[i - 1]) + d.vars[i].card
        /\ j # 0 => /\ Len(g[j]) = Len(g[j - 1]) + d.vars[j].card
                    /\ \A h \in 1 .. d.vars[j].card :
                         g[j][Len(g[j - 1]) + h] = d.vals[d.vars[j].offset + h]
  <2>1. \A j \in 0 .. Len(d.vars) : Laid(g, d, j)
    BY <1>2, <1>3, Packing
  <2>2. QED
    BY <1>1, <2>1 DEF Laid
<1>5. \A j \in 0 .. n : g[j] \in Seq(V) /\ Len(g[j]) \in Nat
  <2>1. \A i \in 0 .. n : g[i] \in Seq(V)
    BY <1>1, <1>3 DEF Packs
  <2>2. QED
    BY <2>1, LenProperties
<1> DEFINE w(i) == [name |-> d.vars[i].name, offset |-> Len(g[i - 1]), card |-> d.vars[i].card]
           ws == [i \in 1 .. n |-> w(i)]
<1>6. ASSUME NEW i \in 1 .. n
      PROVE  w(i) \in Variable /\ w(i) = [d.vars[i] EXCEPT !.offset = Len(g[i - 1])]
  <2>1. i - 1 \in 0 .. n /\ d.vars[i] \in Variable
    <3>1. i \in 1 .. Len(d.vars)
      BY <1>1
    <3>2. d.vars[i] \in Variable
      BY <3>1, DictFields
    <3>3. QED
      BY <3>2
  <2>2. Len(g[i - 1]) \in Nat
    BY <1>5, <2>1
  <2>3. QED
    BY <2>1, <2>2, VariableFields
<1>7. ws \in Seq(Variable) /\ Len(ws) = n /\ DOMAIN ws = 1 .. n /\ \A i \in 1 .. n : ws[i] = w(i)
  <2>1. ws \in [1 .. n -> Variable] /\ \A i \in 1 .. n : ws[i] = w(i)
    <3> HIDE DEF w
    <3>1. QED
      BY <1>6
  <2> HIDE DEF ws, w
  <2>2. QED
    BY <2>1, SequenceOf
<1>8. e = [vars |-> ws, vals |-> g[n], deleted |-> d.deleted, sorted |-> d.sorted]
  <2>1. ws = [i \in DOMAIN d.vars |-> [d.vars[i] EXCEPT !.offset = Len(g[i - 1])]]
    <3> HIDE DEF w
    <3>1. QED
      BY <1>1, <1>6
  <2> HIDE DEF ws
  <2>2. QED
    BY <1>1, <1>3, <2>1 DEF DictOver, Packed
<1>9. /\ e \in DictOver(P) /\ e.vars = ws /\ e.vals = g[n]
      /\ e.deleted = d.deleted /\ e.sorted = d.sorted
  <2>1. d.deleted \in Nat /\ d.sorted \in BOOLEAN
    BY DictFields
  <2>3. n \in 0 .. n
    OBVIOUS
  <2>4. g[n] \in Seq(V)
    BY <1>5, <2>3
  <2> HIDE DEF ws
  <2>2. QED
    BY <1>7, <1>8, <2>1, <2>4 DEF DictOver
<1>10. /\ DOMAIN e.vars = 1 .. n
       /\ \A i \in 1 .. n : /\ e.vars[i].name = d.vars[i].name
                            /\ e.vars[i].offset = Len(g[i - 1])
                            /\ e.vars[i].card = d.vars[i].card
  <2>1. \A i \in 1 .. n : /\ w(i).name = d.vars[i].name /\ w(i).offset = Len(g[i - 1])
                          /\ w(i).card = d.vars[i].card
    OBVIOUS
  <2> HIDE DEF ws, w
  <2>2. QED
    BY <1>7, <1>9, <2>1
<1>11. NamesDiffer(e.vars) /\ (e.sorted => IncreasingNames(e.vars))
  <2>1. DOMAIN d.vars = 1 .. n /\ DOMAIN e.vars = 1 .. n
    BY <1>1, <1>10
  <2>2. \A i \in 1 .. n : e.vars[i].name = d.vars[i].name
    BY <1>10
  <2>3. NamesDiffer(e.vars)
    BY <2>1, <2>2 DEF NamesDiffer, Layout
  <2>4. e.sorted => IncreasingNames(e.vars)
    BY <1>9, <2>1, <2>2 DEF IncreasingNames, Layout
  <2>5. QED
    BY <2>3, <2>4
<1>12. ASSUME NEW i \in 1 .. n
       PROVE  /\ Len(g[i - 1]) \in Nat /\ d.vars[i].card \in Nat
              /\ e.vars[i].offset + e.vars[i].card = Len(g[i])
              /\ Len(g[i]) \in Nat /\ Len(g[i]) <= Len(g[n])
  <2>1. i \in 0 .. n /\ i # 0 /\ i - 1 \in 0 .. n /\ n \in 0 .. n /\ i \in 0 .. n
    OBVIOUS
  <2>2. QED
    BY <1>1, <1>4, <1>5, <1>10, <2>1, DictFields
<1>13. Inside(e)
  BY <1>9, <1>10, <1>12 DEF Inside
<1>14. Apart(e)
  <2>1. ASSUME NEW i \in 1 .. n, NEW k \in 1 .. n, i < k
        PROVE  Before(e.vars[i], e.vars[k])
    <3>1. i \in 0 .. k - 1 /\ k - 1 \in 0 .. n
      BY <2>1
    <3>2. Len(g[i]) <= Len(g[k - 1])
      BY <1>4, <3>1
    <3>3. QED
      BY <1>10, <1>12, <3>2 DEF Before
  <2>2. QED
    BY <1>10, <2>1 DEF Apart
<1>15. ValuesDiffer(e)
  <2>1. ASSUME NEW i \in 1 .. n, NEW x \in Segment(e.vars[i]), NEW y \in Segment(e.vars[i]), x # y
        PROVE  e.vals[x].value # e.vals[y].value
    <3>1. PICK m \in Nat, c \in Nat, o \in Nat :
            m = Len(g[i - 1]) /\ c = d.vars[i].card /\ o = d.vars[i].offset
      BY <1>1, <1>12, DictFields
    <3>2. x \in m + 1 .. m + c /\ y \in m + 1 .. m + c
      BY <1>10, <2>1, <3>1 DEF Segment
    <3>3. PICK a \in 1 .. c, b \in 1 .. c : x = m + a /\ y = m + b /\ a # b
      <4>1. x - m \in 1 .. c /\ y - m \in 1 .. c /\ x = m + (x - m) /\ y = m + (y - m) /\ x - m # y - m
        BY <2>1, <3>2
      <4>2. QED
        BY <4>1
    <3>4. i \in 0 .. n /\ i # 0 /\ n \in 0 .. n /\ i \in 0 .. n
      OBVIOUS
    <3>5. /\ Len(g[i]) = m + c
          /\ \A h \in 1 .. c : g[i][m + h] = d.vals[o + h]
      BY <1>4, <3>1, <3>4
    <3>6. g[i][x] = d.vals[o + a] /\ g[i][y] = d.vals[o + b]
      BY <3>3, <3>5
    <3>7. x \in 1 .. m + c /\ y \in 1 .. m + c
      BY <3>2
    <3>8. g[n][x] = g[i][x] /\ g[n][y] = g[i][y]
      <4>1. \A k \in 1 .. Len(g[i]) : g[n][k] = g[i][k]
        BY <1>4, <3>4
      <4>2. QED
        BY <3>5, <3>7, <4>1
    <3>9. o + a \in Segment(d.vars[i]) /\ o + b \in Segment(d.vars[i]) /\ o + a # o + b
      <4>1. o + a \in o + 1 .. o + c /\ o + b \in o + 1 .. o + c /\ o + a # o + b
        BY <3>3
      <4>2. Segment(d.vars[i]) = o + 1 .. o + c
        BY <3>1 DEF Segment
      <4>3. QED
        BY <4>1, <4>2
    <3>10. d.vals[o + a].value # d.vals[o + b].value
      BY <1>1, <3>9 DEF ValuesDiffer, Layout
    <3>11. QED
      BY <1>9, <3>6, <3>8, <3>10
  <2>2. QED
    BY <1>10, <2>1 DEF ValuesDiffer
<1>16. Holes(e) = {}
  <2>1. ASSUME NEW j \in Holes(e) PROVE FALSE
    <3>1. j \in 1 .. Len(e.vals) /\ \A i \in 1 .. Len(e.vars) : j \notin Segment(e.vars[i])
      BY <1>9, HolesAre
    <3>2. Len(e.vars) = n /\ Len(e.vals) = Len(g[n])
      BY <1>7, <1>9
    <3>3. n \in 0 .. n
      OBVIOUS
    <3>4. PICK i \in 1 .. n : j \in Len(g[i - 1]) + 1 .. Len(g[i - 1]) + d.vars[i].card
      BY <1>4, <3>1, <3>2, <3>3
    <3>5. j \in Segment(e.vars[i])
      BY <1>10, <3>4 DEF Segment
    <3>6. QED
      BY <3>1, <3>2, <3>5
  <2>2. QED
    BY <2>1
<1>17. HolesCounted(e)
  <2>1. Cardinality(Holes(e)) = 0
    BY <1>16, FS_EmptySet
  <2>2. e.deleted \in Nat
    BY <1>9, DictFields
  <2>3. QED
    BY <2>1, <2>2 DEF HolesCounted
<1>18. Layout(e)
  BY <1>11, <1>13, <1>14, <1>15, <1>17 DEF Layout
<1>19. Len(e.vars) = Len(d.vars)
  BY <1>1, <1>7, <1>9
<1>20. QED
  BY <1>1, <1>9, <1>10, <1>16, <1>18, <1>19

LEMMA CountTo ==
  ASSUME NEW n, n \in Nat
  PROVE  IsFiniteSet(1 .. n) /\ Cardinality(1 .. n) = n
<1>1. PICK a \in Int, b \in Int : a = 1 /\ b = n
  OBVIOUS
<1>2. IsFiniteSet(a .. b) /\ Cardinality(a .. b) = IF a > b THEN 0 ELSE b - a + 1
  BY FS_Interval
<1>3. (IF a > b THEN 0 ELSE b - a + 1) = n
  BY <1>1
<1>4. QED
  BY <1>1, <1>2, <1>3

(* Packed anew, the values take no more room than before: each of them goes *)
(* to a place of its own.                                                   *)
LEMMA ReorganizeShortens ==
  ASSUME NEW P, NEW d, NEW e, d \in DictOver(P), Layout(d), e = Reorganize(d)
  PROVE  Len(e.vals) <= Len(d.vals)
<1> DEFINE Home(p) == CHOOSE i \in 1 .. Len(d.vars) : p \in Segment(e.vars[i])
           Origin == [p \in 1 .. Len(e.vals) |->
                        d.vars[Home(p)].offset + (p - e.vars[Home(p)].offset)]
<1>1. /\ e \in DictOver(P) /\ Holes(e) = {} /\ Len(e.vars) = Len(d.vars)
      /\ \A i \in 1 .. Len(d.vars) : e.vars[i].card = d.vars[i].card
  BY ReorganizeKeeps
<1>2. /\ Len(d.vals) \in Nat /\ Len(e.vals) \in Nat /\ DOMAIN d.vars = 1 .. Len(d.vars)
      /\ \A i \in 1 .. Len(d.vars) :
           /\ d.vars[i].offset \in Nat /\ d.vars[i].card \in Nat
           /\ e.vars[i].offset \in Nat
  BY <1>1, DictFields
<1>3. ASSUME NEW p \in 1 .. Len(e.vals)
      PROVE  Home(p) \in 1 .. Len(d.vars) /\ p \in Segment(e.vars[Home(p)])
  <2>1. \E i \in 1 .. Len(d.vars) : p \in Segment(e.vars[i])
    BY <1>1, HolesAre
  <2>2. QED
    BY <2>1
<1> HIDE DEF Home
<1>4. ASSUME NEW p, p \in 1 .. Len(e.vals), NEW i, i = Home(p)
      PROVE  /\ i \in 1 .. Len(d.vars) /\ Origin[p] = d.vars[i].offset + (p - e.vars[i].offset)
             /\ d.vars[i].offset < Origin[p] /\ Origin[p] <= d.vars[i].offset + d.vars[i].card
             /\ Origin[p] \in 1 .. Len(d.vals)
  <2>1. i \in 1 .. Len(d.vars) /\ p \in Segment(e.vars[i])
    BY <1>3, <1>4
  <2>2. PICK a \in Nat, b \in Nat, c \in Nat, m \in Nat, q \in Nat :
          /\ a = d.vars[i].offset /\ b = e.vars[i].offset /\ c = d.vars[i].card
          /\ m = Len(d.vals) /\ q = p
    <3>1. p \in Nat
      BY <1>2, <1>4
    <3> HIDE DEF Origin
    <3>2. QED
      BY <1>2, <2>1, <3>1
  <2>3. q \in b + 1 .. b + c
    BY <1>1, <2>1, <2>2 DEF Segment
  <2>4. a + c <= m
    BY <1>2, <2>1, <2>2 DEF Layout, Inside
  <2>5. Origin[p] = a + (q - b)
    BY <1>4, <2>2
  <2>6. a + (q - b) \in 1 .. m /\ a < a + (q - b) /\ a + (q - b) <= a + c
    BY <2>3, <2>4
  <2>7. QED
    BY <2>1, <2>2, <2>5, <2>6
<1>5. ASSUME NEW p, p \in 1 .. Len(e.vals), NEW q, q \in 1 .. Len(e.vals), Origin[p] = Origin[q]
      PROVE  p = q
  <2>1. PICK i, k : i = Home(p) /\ k = Home(q)
    OBVIOUS
  <2>2. PICK x \in Nat : x = Origin[p] /\ x = Origin[q]
    <3> HIDE DEF Origin
    <3>1. Origin[p] \in 1 .. Len(d.vals)
      BY <1>4, <1>5, <2>1
    <3>2. Origin[p] \in Nat
      BY <1>2, <3>1
    <3>3. QED
      BY <1>5, <3>2
  <2>3. /\ i \in 1 .. Len(d.vars) /\ k \in 1 .. Len(d.vars)
        /\ x = d.vars[i].offset + (p - e.vars[i].offset)
        /\ x = d.vars[k].offset + (q - e.vars[k].offset)
        /\ d.vars[i].offset < x /\ x <= d.vars[i].offset + d.vars[i].card
        /\ d.vars[k].offset < x /\ x <= d.vars[k].offset + d.vars[k].card
    <3> HIDE DEF Origin
    <3>1. QED
      BY <1>4, <1>5, <2>1, <2>2
  <2>4. i = k
    <3>1. SUFFICES ASSUME i # k PROVE FALSE
      OBVIOUS
    <3>2. Before(d.vars[i], d.vars[k]) \/ Before(d.vars[k], d.vars[i])
      BY <1>2, <2>3, <3>1 DEF Layout, Apart
    <3>3. PICK a \in Nat, c \in Nat, b \in Nat, h \in Nat :
            /\ a = d.vars[i].offset /\ c = d.vars[i].card
            /\ b = d.vars[k].offset /\ h = d.vars[k].card
      BY <1>2, <2>3
    <3>4. /\ a + c <= b \/ b + h <= a
          /\ a < x /\ x <= a + c /\ b < x /\ x <= b + h
      BY <2>3, <3>2, <3>3 DEF Before
    <3>5. QED
      BY <3>4
  <2>5. PICK a \in Nat, b \in Nat, s \in Nat, t \in Nat :
          a = d.vars[i].offset /\ b = e.vars[i].offset /\ s = p /\ t = q
    <3>1. p \in Nat /\ q \in Nat
      BY <1>2, <1>5
    <3> HIDE DEF Origin
    <3>2. QED
      BY <1>2, <2>3, <3>1
  <2>6. a + (s - b) = a + (t - b)
    BY <2>3, <2>4, <2>5
  <2>7. QED
    BY <2>5, <2>6
<1>6. Origin \in Injection(1 .. Len(e.vals), 1 .. Len(d.vals))
  <2>1. Origin \in [1 .. Len(e.vals) -> 1 .. Len(d.vals)]
    BY <1>4
  <2> HIDE DEF Origin
  <2>2. QED
    BY <1>5, <2>1 DEF Injection, IsInjective
<1>7. Cardinality(1 .. Len(e.vals)) <= Cardinality(1 .. Len(d.vals))
  <2>1. PICK f, S, T : f = Origin /\ S = 1 .. Len(e.vals) /\ T = 1 .. Len(d.vals)
    OBVIOUS
  <2>2. f \in Injection(S, T) /\ IsFiniteSet(T)
    BY <1>2, <1>6, <2>1, CountTo
  <2>3. Cardinality(S) <= Cardinality(T)
    BY <2>2, FS_Injection
  <2>4. QED
    BY <2>1, <2>3
<1>8. Cardinality(1 .. Len(e.vals)) = Len(e.vals) /\ Cardinality(1 .. Len(d.vals)) = Len(d.vals)
  BY <1>2, CountTo
<1>9. QED
  BY <1>7, <1>8

(* The distribution of variable i. *)
ValuesOf(d, i) ==
  [val \in {d.vals[j].value : j \in Segment(d.vars[i])} |->
     d.vals[ValIndex(d, d.vars[i], val)].prob]

(* The order of the variables says nothing about what they are. *)
LEMMA SortContents ==
  ASSUME NEW P, NEW d, NEW e, d \in DictOver(P), Layout(d), e = Sort(d)
  PROVE  Contents(e) = Contents(d)
<1> DEFINE Names(b) == {b.vars[i].name : i \in DOMAIN b.vars}
<1>1. /\ e \in DictOver(P) /\ e.vals = d.vals /\ e.sorted /\ IncreasingNames(e.vars)
      /\ VariablesFrom(d, e) /\ VariablesFrom(e, d)
  BY SortIs DEF Layout
<1>2. /\ DOMAIN d.vars = 1 .. Len(d.vars) /\ DOMAIN e.vars = 1 .. Len(e.vars)
      /\ d.vars \in Seq(Variable) /\ e.vars \in Seq(Variable)
      /\ \A i \in 1 .. Len(d.vars) : d.vars[i].name \in Nat
  BY <1>1, DictFields
<1>3. Names(e) = Names(d)
  <2>1. \A i \in DOMAIN e.vars : \E l \in DOMAIN d.vars : e.vars[i].name = d.vars[l].name
    BY <1>1, <1>2 DEF VariablesFrom
  <2>2. \A l \in DOMAIN d.vars : \E i \in DOMAIN e.vars : d.vars[l].name = e.vars[i].name
    BY <1>1, <1>2 DEF VariablesFrom
  <2>3. QED
    BY <2>1, <2>2
<1>4. ASSUME NEW name \in Names(d)
      PROVE  e.vars[VarIndex(e, name)] = d.vars[VarIndex(d, name)]
  <2>1. name \in Nat
    BY <1>2
  <2>2. PICK i, k : i = VarIndex(d, name) /\ k = VarIndex(e, name)
    OBVIOUS
  <2>3. IsPlaceOf(i, d.vars, name)
    BY <1>2, <2>1, <2>2, VarIndexFinds DEF Layout
  <2>4. IsPlaceOf(k, e.vars, name)
    BY <1>1, <1>2, <2>1, <2>2, VarIndexFinds
  <2>5. i \in 1 .. Len(d.vars) /\ d.vars[i].name = name
    BY <1>2, <2>3 DEF IsPlaceOf
  <2>6. k \in 1 .. Len(e.vars) /\ e.vars[k].name = name
    <3>1. PICK l \in DOMAIN e.vars : e.vars[l].name = name
      BY <1>3
    <3>2. k # 0
      BY <2>4, <3>1 DEF IsPlaceOf
    <3>3. QED
      BY <1>2, <2>4, <3>2 DEF IsPlaceOf
  <2>7. PICK l \in 1 .. Len(d.vars) : e.vars[k] = d.vars[l]
    BY <1>1, <2>6 DEF VariablesFrom
  <2>8. l = i
    BY <1>2, <2>5, <2>6, <2>7 DEF Layout, NamesDiffer
  <2>9. QED
    BY <2>2, <2>7, <2>8
<1>5. ASSUME NEW i, NEW k, e.vars[k] = d.vars[i]
      PROVE  ValuesOf(e, k) = ValuesOf(d, i)
  BY <1>1, <1>5 DEF ValuesOf, ValIndex
<1>6. /\ Contents(d) = [name \in Names(d) |-> ValuesOf(d, VarIndex(d, name))]
      /\ Contents(e) = [name \in Names(e) |-> ValuesOf(e, VarIndex(e, name))]
  BY DEF Contents, ValuesOf
<1> HIDE DEF Names
<1>7. QED
  BY <1>3, <1>4, <1>5, <1>6

-----------------------------------------------------------------------------
(* Doubling makes room, unless the capacity is zero. *)
LEMMA GrownSuffices ==
  ASSUME NEW capacity, capacity \in Nat \ {0}, NEW size, size \in Nat
  PROVE  Grown(capacity, size) \in Nat \ {0} /\ Grown(capacity, size) >= size
<1> DEFINE D == Nat \ {0}
           V == {c \in Nat \ {0} : c >= size}
           step(g, c) == IF c >= size THEN c ELSE g[2 * c]
           rank == [c \in D |-> IF c >= size THEN 0 ELSE size - c]
           S == [q \in [D -> V] \X D |-> step(q[1], q[2])]
<1>1. \A c \in D : c >= size \/ (2 * c \in D /\ rank[2 * c] < rank[c])
  OBVIOUS
<1>2. rank \in [D -> Nat] /\ V # {}
  <2>1. size + 1 \in V
    OBVIOUS
  <2>2. rank \in [D -> Nat]
    OBVIOUS
  <2> HIDE DEF D, V, rank
  <2>3. QED
    BY <2>1, <2>2
<1>3. S \in [[D -> V] \X D -> V]
  <2>1. ASSUME NEW g \in [D -> V], NEW c \in D PROVE step(g, c) \in V
    <3>1. CASE c >= size
      BY <3>1
    <3>2. CASE ~(c >= size)
      <4>1. 2 * c \in D
        BY <1>1, <3>2
      <4> HIDE DEF D, V
      <4>2. QED
        BY <3>2, <4>1
    <3>3. QED
      BY <3>1, <3>2
  <2> HIDE DEF D, V, step
  <2>2. QED
    BY <2>1
<1>4. ASSUME NEW c \in D, NEW g, NEW h, \A y \in D : rank[y] < rank[c] => g[y] = h[y]
      PROVE  step(g, c) = step(h, c)
  <2> HIDE DEF D, rank
  <2>1. QED
    BY <1>1, <1>4
<1>5. Descends(D, V, S, rank)
  <2> HIDE DEF D, V, step, rank
  <2>1. QED
    BY <1>4 DEF Descends
<1>6. PICK f \in [D -> V] : \A c \in D : f[c] = S[<<f, c>>]
  <2> HIDE DEF D, V, S, rank
  <2>1. Solvable(D, V, S)
    BY <1>2, <1>3, <1>5, Recursion
  <2>2. QED
    BY <2>1 DEF Solvable
<1>7. f = [c \in D |-> step(f, c)]
  <2> HIDE DEF D, V, step
  <2>1. QED
    BY <1>6
<1>8. PICK g : g = [c \in D |-> step(g, c)] /\ Grown(capacity, size) = g[capacity]
  BY <1>7 DEF Grown
<1>9. \A c \in D : f[c] = g[c]
  <2>1. \A c \in D : g[c] = step(g, c)
    <3> HIDE DEF step, D
    <3>1. QED
      BY <1>8
  <2> HIDE DEF step, D, V, rank
  <2>2. AgreeUpwards(D, rank, f, g)
    BY <1>4, <1>7, <2>1 DEF AgreeUpwards
  <2>3. QED
    BY <1>2, <2>2, Agreement
<1>10. Grown(capacity, size) \in V
  <2>1. capacity \in D
    OBVIOUS
  <2> HIDE DEF D, V
  <2>2. QED
    BY <1>6, <1>8, <1>9, <2>1
<1>11. QED
  BY <1>10

-----------------------------------------------------------------------------
(* Sums of fractions: whatever the order, and reduced to lowest terms at    *)
(* every step or once at the end.                                          *)

(* The greatest common divisor divides both numbers.                        *)
LEMMA GcdDivides ==
  ASSUME NEW a \in Nat, NEW b \in Nat
  PROVE  \E x, y \in Nat : a = Gcd[<<a, b>>] * x /\ b = Gcd[<<a, b>>] * y
<1> DEFINE Good(u, v) == \E x, y \in Nat : u = Gcd[<<u, v>>] * x /\ v = Gcd[<<u, v>>] * y
           T == {v \in Nat : \A u \in Nat : Good(u, v)}
<1>1. \A u, v \in Nat : Gcd[<<u, v>>] \in Nat
  BY GcdUnfolds
<1>2. ASSUME NEW v \in Nat, \A z \in Nat : z < v => z \in T, NEW u \in Nat
      PROVE  Good(u, v)
  <2>1. CASE v = 0
    <3>1. Gcd[<<u, v>>] = u
      BY <2>1, GcdUnfolds
    <3>2. u = u * 1 /\ 0 = u * 0
      OBVIOUS
    <3>3. QED
      BY <2>1, <3>1, <3>2
  <2>2. CASE v > 0
    <3>1. PICK q \in Nat, r \in 0 .. v - 1 : u = q * v + r /\ r = u % v
      BY <2>2
    <3>2. PICK g \in Nat : g = Gcd[<<u, v>>] /\ g = Gcd[<<v, r>>]
      BY <1>1, <2>2, <3>1, GcdUnfolds
    <3>3. r \in T
      BY <1>2, <3>1
    <3>4. PICK x \in Nat, y \in Nat : v = g * x /\ r = g * y
      BY <3>2, <3>3
    <3>5. q * x \in Nat /\ q * x + y \in Nat
      BY Multiplying
    <3>6. u = g * (q * x + y)
      <4>1. u = q * (g * x) + g * y
        BY <3>1, <3>4
      <4>2. q * (g * x) = g * (q * x) /\ g * (q * x + y) = g * (q * x) + g * y
        BY <3>2, <3>4
      <4>3. QED
        BY <4>1, <4>2
    <3>7. QED
      BY <3>2, <3>4, <3>5, <3>6
  <2>3. QED
    BY <2>1, <2>2
<1>3. ASSUME NEW v \in Nat, \A z \in Nat : z < v => z \in T
      PROVE  v \in T
  <2> HIDE DEF Good
  <2>1. QED
    BY <1>2, <1>3
<1>4. \A v \in Nat : v \in T
  <2> HIDE DEF T
  <2>1. QED
    BY <1>3, Strongly
<1>5. QED
  BY <1>4

(* It grows with them.                                                      *)
LEMMA GcdScales ==
  \A k, a, b \in Nat : k > 0 => Gcd[<<k * a, k * b>>] = k * Gcd[<<a, b>>]
<1> SUFFICES ASSUME NEW k \in Nat, NEW a \in Nat, NEW b \in Nat, k > 0
             PROVE  Gcd[<<k * a, k * b>>] = k * Gcd[<<a, b>>]
  OBVIOUS
<1> DEFINE T == {v \in Nat : \A u \in Nat : Gcd[<<k * u, k * v>>] = k * Gcd[<<u, v>>]}
<1>1. \A u, v \in Nat : Gcd[<<u, v>>] \in Nat
  BY GcdUnfolds
<1>2. ASSUME NEW v \in Nat, \A z \in Nat : z < v => z \in T, NEW u \in Nat
      PROVE  Gcd[<<k * u, k * v>>] = k * Gcd[<<u, v>>]
  <2>1. k * u \in Nat /\ k * v \in Nat
    BY Multiplying
  <2>2. CASE v = 0
    <3>1. Gcd[<<u, v>>] = u
      BY <2>2, GcdUnfolds
    <3>2. k * v = 0
      BY <2>2
    <3>3. QED
      BY <2>1, <3>1, <3>2, GcdUnfolds
  <2>3. CASE v > 0
    <3>1. PICK q \in Nat, r \in 0 .. v - 1 : u = q * v + r /\ r = u % v
      BY <2>3
    <3>2. k * u = q * (k * v) + k * r
      BY <3>1
    <3>3. k * r < k * v /\ k * r \in Nat /\ k * v > 0
      <4>1. PICK m \in Nat : v = r + 1 + m
        <5>1. v - r - 1 \in Nat /\ v = r + 1 + (v - r - 1)
          BY <3>1
        <5>2. QED
          BY <5>1
      <4>2. k * (r + 1 + m) = k * r + k + k * m /\ k * m \in Nat /\ k * r \in Nat
        BY <3>1
      <4>3. k * v = k * r + k + k * m
        BY <4>1, <4>2
      <4>4. QED
        BY <4>2, <4>3
    <3>4. (k * u) % (k * v) = k * r
      BY <2>1, <3>1, <3>2, <3>3, Division
    <3>5. Gcd[<<k * u, k * v>>] = Gcd[<<k * v, k * r>>]
      BY <2>1, <3>3, <3>4, GcdUnfolds
    <3>6. Gcd[<<u, v>>] = Gcd[<<v, r>>]
      BY <2>3, <3>1, GcdUnfolds
    <3>7. r \in T
      BY <1>2, <3>1
    <3>8. QED
      BY <3>5, <3>6, <3>7
  <2>4. QED
    BY <2>2, <2>3
<1>3. \A v \in Nat : v \in T
  <2>1. ASSUME NEW v \in Nat, \A z \in Nat : z < v => z \in T PROVE v \in T
    BY <1>2, <2>1
  <2> HIDE DEF T
  <2>2. QED
    BY <2>1, Strongly
<1>4. QED
  BY <1>3

(* A fraction is in lowest terms whatever it was made of.                   *)
LEMMA FracScales ==
  ASSUME NEW k, k \in Nat, k > 0, NEW a, a \in Nat, NEW b, b \in Nat
  PROVE  Frac(k * a, k * b) = Frac(a, b)
<1>1. CASE b = 0
  BY <1>1 DEF Frac
<1>2. CASE b > 0
  <2>1. PICK g \in 1 .. b : g = Gcd[<<a, b>>]
    BY <1>2, GcdBounds
  <2>2. PICK x \in Nat, y \in Nat : a = g * x /\ b = g * y
    BY <2>1, GcdDivides
  <2>3. k * a \in Nat /\ k * b \in Nat /\ k * g \in Nat /\ k * b > 0 /\ k * g > 0
    BY <1>2, <2>1, Multiplying
  <2>4. Gcd[<<k * a, k * b>>] = k * g
    <3>1. Gcd[<<k * a, k * b>>] = k * Gcd[<<a, b>>]
      BY GcdScales
    <3>2. QED
      BY <2>1, <3>1
  <2>5. Frac(k * a, k * b) = <<(k * a) \div (k * g), (k * b) \div (k * g)>>
    BY <2>3, <2>4 DEF Frac
  <2>6. Frac(a, b) = <<a \div g, b \div g>>
    BY <1>2, <2>1 DEF Frac
  <2>7. a \div g = x /\ b \div g = y
    <3>1. a = x * g + 0 /\ b = y * g + 0 /\ 0 < g
      BY <2>1, <2>2
    <3>2. g \in Nat /\ 0 \in Nat
      BY <2>1
    <3>3. a \div g = x
      BY <2>2, <3>1, <3>2, Division, Zenon
    <3>4. b \div g = y
      BY <2>2, <3>1, <3>2, Division, Zenon
    <3>5. QED
      BY <3>3, <3>4
  <2>8. (k * a) \div (k * g) = x /\ (k * b) \div (k * g) = y
    <3>1. PICK n \in Nat, m \in Nat, h \in Nat : n = k * a /\ m = k * b /\ h = k * g /\ 0 < h
      BY <2>3
    <3>2. n = x * h + 0 /\ m = y * h + 0
      <4>1. k * (g * x) = x * (k * g) /\ k * (g * y) = y * (k * g)
        BY <2>1, <2>2
      <4>2. QED
        BY <2>2, <3>1, <4>1
    <3>3. n \div h = x /\ m \div h = y
      BY <2>2, <3>1, <3>2, Division
    <3>4. QED
      BY <3>1, <3>3
  <2>9. QED
    BY <2>5, <2>6, <2>7, <2>8
<1>3. QED
  BY <1>1, <1>2

(* What Frac returns, as a fraction, is what it was given.                  *)
LEMMA FracIs ==
  ASSUME NEW a, a \in Nat, NEW b, b \in Nat, b > 0
  PROVE  \E g, x, y \in Nat :
           g > 0 /\ y > 0 /\ a = g * x /\ b = g * y /\ Frac(a, b) = <<x, y>>
<1>1. PICK g \in 1 .. b : g = Gcd[<<a, b>>]
  BY GcdBounds
<1>2. PICK x \in Nat, y \in Nat : a = g * x /\ b = g * y
  BY <1>1, GcdDivides
<1>3. Frac(a, b) = <<a \div g, b \div g>>
  BY <1>1 DEF Frac
<1>4. a \div g = x /\ b \div g = y
  <2>1. a = x * g + 0 /\ b = y * g + 0 /\ 0 < g
    BY <1>1, <1>2
  <2>2. QED
    BY <1>1, <1>2, <2>1, Division
<1>5. y > 0
  BY <1>1, <1>2
<1>6. QED
  BY <1>1, <1>2, <1>3, <1>4, <1>5

(* The sum, over the product of the denominators.                           *)
LEMMA PlusIs ==
  \A a, b, c, e \in Nat :
    b > 0 /\ e > 0 => Plus(<<a, b>>, <<c, e>>) = Frac(a * e + c * b, b * e)
<1> SUFFICES ASSUME NEW a \in Nat, NEW b \in Nat, NEW c \in Nat, NEW e \in Nat, b > 0, e > 0
             PROVE  Plus(<<a, b>>, <<c, e>>) = Frac(a * e + c * b, b * e)
  OBVIOUS
<1>1. PICK g \in 1 .. b : g = Gcd[<<b, e>>]
  BY GcdBounds
<1>2. PICK x \in Nat, y \in Nat : b = g * x /\ e = g * y
  BY <1>1, GcdDivides
<1>3. b \div g = x /\ e \div g = y
  <2>1. b = x * g + 0 /\ e = y * g + 0 /\ 0 < g
    BY <1>1, <1>2
  <2>2. g \in Nat /\ 0 \in Nat
    BY <1>1
  <2>3. b \div g = x
    BY <1>2, <2>1, <2>2, Division, Zenon
  <2>4. e \div g = y
    BY <1>2, <2>1, <2>2, Division, Zenon
  <2>5. QED
    BY <2>3, <2>4
<1>4. Plus(<<a, b>>, <<c, e>>) = Frac(a * y + c * x, b * y)
  BY <1>1, <1>3 DEF Plus, NaN
<1>5. a * y + c * x \in Nat /\ b * y \in Nat
  BY <1>2, Multiplying
<1>6. g * (a * y + c * x) = a * e + c * b
  <2>1. PICK p \in Nat, q \in Nat : p = a * y /\ q = c * x
    BY <1>2, Multiplying
  <2>2. g * (p + q) = g * p + g * q
    BY <1>1
  <2>3. g * p = a * (g * y) /\ g * q = c * (g * x)
    BY <1>1, <1>2, <2>1
  <2>4. g * x = b /\ g * y = e
    BY <1>2
  <2>5. QED
    BY <2>1, <2>2, <2>3, <2>4, Zenon
<1>7. g * (b * y) = b * e
  BY <1>1, <1>2
<1>8. QED
  BY <1>1, <1>4, <1>5, <1>6, <1>7, FracScales

(* The sum of two fractions over the product of their denominators, not in  *)
(* lowest terms; NaN takes part as 0/0.                                     *)
RawPlus(p, q) == <<p[1] * q[2] + q[1] * p[2], p[2] * q[2]>>
Lowest(p) == Frac(p[1], p[2])

(* Again a pair of naturals.                                                *)
LEMMA RawPlusCloses ==
  ASSUME NEW p, p \in Nat \X Nat, NEW q, q \in Nat \X Nat
  PROVE  RawPlus(p, q) \in Nat \X Nat
<1>1. PICK a \in Nat, b \in Nat, c \in Nat, e \in Nat : p = <<a, b>> /\ q = <<c, e>>
  OBVIOUS
<1>2. a * e + c * b \in Nat /\ b * e \in Nat
  BY Multiplying
<1>3. RawPlus(p, q) = <<a * e + c * b, b * e>>
  BY <1>1 DEF RawPlus
<1>4. QED
  BY <1>2, <1>3

(* Two summands may change places.                                          *)
LEMMA RawPlusTwice ==
  ASSUME NEW p, p \in Nat \X Nat, NEW q, q \in Nat \X Nat, NEW r, r \in Nat \X Nat
  PROVE  RawPlus(RawPlus(p, q), r) = RawPlus(RawPlus(p, r), q)
<1>1. PICK a \in Nat, b \in Nat, c \in Nat, e \in Nat, g \in Nat, h \in Nat :
        p = <<a, b>> /\ q = <<c, e>> /\ r = <<g, h>>
  OBVIOUS
<1>2. RawPlus(RawPlus(p, q), r) = <<(a * e + c * b) * h + g * (b * e), (b * e) * h>>
  BY <1>1 DEF RawPlus
<1>3. RawPlus(RawPlus(p, r), q) = <<(a * h + g * b) * e + c * (b * h), (b * h) * e>>
  BY <1>1 DEF RawPlus
<1>4. (a * e + c * b) * h + g * (b * e) = (a * h + g * b) * e + c * (b * h)
  OBVIOUS
<1>5. (b * e) * h = (b * h) * e
  OBVIOUS
<1>6. QED
  BY <1>2, <1>3, <1>4, <1>5

(* Reducing to lowest terms may wait: Plus reduces the same sum.            *)
LEMMA PlusLowest ==
  ASSUME NEW p, p \in Nat \X Nat, NEW q, q \in Probabilities
  PROVE  Plus(Lowest(p), q) = Lowest(RawPlus(p, q))
<1>1. PICK a \in Nat, b \in Nat, c \in Nat, e \in Nat :
        p = <<a, b>> /\ q = <<c, e>> /\ (q # NaN => e > 0)
  BY ProbabilityPair, ProbabilityParts
<1>2. Lowest(RawPlus(p, q)) = Frac(a * e + c * b, b * e)
  BY <1>1 DEF RawPlus, Lowest
<1>3. CASE q = NaN
  <2>1. c = 0 /\ e = 0
    BY <1>1, <1>3 DEF NaN
  <2>2. b * e = 0
    BY <2>1
  <2>3. QED
    BY <1>2, <1>3, <2>2 DEF Frac, Plus
<1>4. CASE q # NaN /\ b = 0
  <2>1. Lowest(p) = NaN
    BY <1>1, <1>4 DEF Lowest, Frac
  <2>2. b * e = 0
    BY <1>4
  <2>3. QED
    BY <1>2, <2>1, <2>2 DEF Frac, Plus
<1>5. CASE q # NaN /\ b > 0
  <2>1. PICK g \in Nat, x \in Nat, y \in Nat :
          g > 0 /\ y > 0 /\ a = g * x /\ b = g * y /\ Frac(a, b) = <<x, y>>
    BY <1>5, FracIs
  <2>2. e > 0
    BY <1>1, <1>5
  <2>3. Plus(Lowest(p), q) = Frac(x * e + c * y, y * e)
    <3>1. Lowest(p) = <<x, y>>
      BY <1>1, <2>1 DEF Lowest
    <3>2. Plus(<<x, y>>, <<c, e>>) = Frac(x * e + c * y, y * e)
      BY <2>1, <2>2, PlusIs
    <3>3. QED
      BY <1>1, <3>1, <3>2
  <2>4. x * e + c * y \in Nat /\ y * e \in Nat
    BY Multiplying
  <2>5. Frac(g * (x * e + c * y), g * (y * e)) = Frac(x * e + c * y, y * e)
    BY <2>1, <2>4, FracScales
  <2>6. g * (x * e + c * y) = (g * x) * e + c * (g * y) /\ g * (y * e) = (g * y) * e
    OBVIOUS
  <2>7. QED
    BY <1>2, <2>1, <2>3, <2>5, <2>6
<1>6. QED
  BY <1>1, <1>3, <1>4, <1>5

(* r[k] is the sum of the first k of the n fractions p.                     *)
RawSums(r, p, n) ==
  /\ r \in [0 .. n -> Nat \X Nat]
  /\ r[0] = <<0, 1>>
  /\ \A k \in 1 .. n : r[k] = RawPlus(r[k - 1], p[k])

(* Such sums exist.                                                         *)
LEMMA RawSumsExist ==
  ASSUME NEW n \in Nat, NEW p \in [1 .. n -> Nat \X Nat]
  PROVE  \E r : RawSums(r, p, n)
<1> DEFINE Some(k) == \E r \in [0 .. k -> Nat \X Nat] :
                        r[0] = <<0, 1>> /\ \A j \in 1 .. k : r[j] = RawPlus(r[j - 1], p[j])
           T == {k \in Nat : k <= n => Some(k)}
<1>1. Some(0)
  <2>1. [k \in 0 .. 0 |-> <<0, 1>>] \in [0 .. 0 -> Nat \X Nat]
    OBVIOUS
  <2>2. [k \in 0 .. 0 |-> <<0, 1>>][0] = <<0, 1>> /\ 1 .. 0 = {}
    OBVIOUS
  <2>3. QED
    BY <2>1, <2>2
<1>2. ASSUME NEW k \in 1 .. n, Some(k - 1)
      PROVE  Some(k)
  <2>1. PICK r \in [0 .. k - 1 -> Nat \X Nat] :
          r[0] = <<0, 1>> /\ \A j \in 1 .. k - 1 : r[j] = RawPlus(r[j - 1], p[j])
    BY <1>2
  <2>2. RawPlus(r[k - 1], p[k]) \in Nat \X Nat
    BY RawPlusCloses
  <2> DEFINE s == [j \in 0 .. k |-> IF j = k THEN RawPlus(r[k - 1], p[k]) ELSE r[j]]
  <2>3. s \in [0 .. k -> Nat \X Nat] /\ s[0] = <<0, 1>>
    BY <2>1, <2>2
  <2>4. ASSUME NEW j \in 1 .. k
        PROVE  s[j] = RawPlus(s[j - 1], p[j])
    <3>1. s[j - 1] = r[j - 1]
      OBVIOUS
    <3>2. CASE j = k
      BY <3>1, <3>2
    <3>3. CASE j # k
      <4>1. j \in 1 .. k - 1 /\ s[j] = r[j]
        BY <3>3
      <4>2. QED
        BY <2>1, <3>1, <4>1
    <3>4. QED
      BY <3>2, <3>3
  <2> HIDE DEF s
  <2>5. QED
    BY <2>3, <2>4
<1>3. \A k \in Nat : k \in T
  <2>1. ASSUME NEW k \in Nat, \A m \in Nat : m < k => m \in T PROVE k \in T
    <3>1. CASE k = 0
      BY <1>1, <3>1
    <3>2. CASE k # 0 /\ k <= n
      <4>1. k \in 1 .. n /\ k - 1 \in Nat /\ k - 1 < k /\ k - 1 <= n
        BY <3>2
      <4>2. Some(k - 1)
        <5> HIDE DEF Some
        <5>1. QED
          BY <2>1, <4>1
      <4>3. Some(k)
        <5> HIDE DEF Some
        <5>1. QED
          BY <1>2, <4>1, <4>2
      <4> HIDE DEF Some
      <4>4. QED
        BY <4>3
    <3> HIDE DEF Some
    <3>3. QED
      BY <3>1, <3>2
  <2> HIDE DEF T
  <2>2. QED
    BY <2>1, Strongly
<1>4. Some(n)
  <2> HIDE DEF Some
  <2>1. QED
    BY <1>3
<1>5. QED
  BY <1>4 DEF RawSums

(* The sum starts in lowest terms.                                          *)
LEMMA LowestZero == Lowest(<<0, 1>>) = <<0, 1>>
<1>1. Gcd[<<0, 1>>] \in 1 .. 1
  <2>1. 0 \in Nat /\ 1 \in Nat /\ 1 > 0
    OBVIOUS
  <2>2. QED
    BY <2>1, GcdBounds, Zenon
<1>2. Gcd[<<0, 1>>] = 1
  BY <1>1
<1>3. 0 \div 1 = 0 /\ 1 \div 1 = 1
  OBVIOUS
<1>4. QED
  BY <1>2, <1>3 DEF Lowest, Frac

(* g[k] is the sum of the first k of the fractions in lowest terms.         *)
AddsInTurn(g, p, n) == g[0] = <<0, 1>> /\ \A k \in 1 .. n : g[k] = Plus(g[k - 1], p[k])

(* Both sums are the same fraction.                                         *)
LEMMA RawSumsLowest ==
  ASSUME NEW n, n \in Nat, NEW p, p \in [1 .. n -> Probabilities], NEW r, RawSums(r, p, n),
         NEW g, AddsInTurn(g, p, n)
  PROVE  g[n] = Lowest(r[n])
<1> USE DEF AddsInTurn
<1> DEFINE T == {k \in Nat : k <= n => g[k] = Lowest(r[k])}
<1>1. 0 \in T
  <2>1. <<0, 1>> = Lowest(<<0, 1>>)
    BY LowestZero
  <2>2. QED
    BY <2>1 DEF RawSums
<1>2. ASSUME NEW k \in Nat, \A m \in Nat : m < k => m \in T
      PROVE  k \in T
  <2>1. CASE k = 0
    BY <1>1, <2>1
  <2>2. CASE k # 0 /\ k <= n
    <3>1. k \in 1 .. n /\ k - 1 \in Nat /\ k - 1 < k /\ k - 1 <= n /\ k - 1 \in 0 .. n
      BY <2>2
    <3>2. g[k - 1] = Lowest(r[k - 1])
      BY <1>2, <3>1
    <3>3. g[k] = Plus(g[k - 1], p[k]) /\ r[k] = RawPlus(r[k - 1], p[k])
      BY <3>1 DEF RawSums
    <3>4. r[k - 1] \in Nat \X Nat /\ p[k] \in Probabilities
      BY <3>1 DEF RawSums
    <3>5. QED
      BY <3>2, <3>3, <3>4, PlusLowest
  <2>3. QED
    BY <2>1, <2>2
<1>3. \A k \in Nat : k \in T
  <2> HIDE DEF T
  <2>1. QED
    BY <1>2, Strongly
<1>4. QED
  BY <1>3

(* q, of m fractions, is p, of n, without place j; r and s add them up.     *)
Shortened(p, q, r, s, j, n, m) ==
  /\ n \in Nat /\ m \in Nat /\ n = m + 1 /\ j \in 1 .. n
  /\ p \in [1 .. n -> Nat \X Nat] /\ q \in [1 .. m -> Nat \X Nat]
  /\ RawSums(r, p, n) /\ RawSums(s, q, m)
  /\ \A k \in 1 .. m : q[k] = IF k < j THEN p[k] ELSE p[k + 1]
AddedLast(p, r, s, j, n, m) == r[n] = RawPlus(s[m], p[j])

(* The sum does not depend on which fraction is added last.                 *)
LEMMA RawSumsWithout ==
  ASSUME NEW p, NEW q, NEW r, NEW s, NEW j, NEW n, NEW m, Shortened(p, q, r, s, j, n, m)
  PROVE  AddedLast(p, r, s, j, n, m)
<1>1. /\ n \in Nat /\ m \in Nat /\ n = m + 1 /\ j \in 1 .. n
      /\ p \in [1 .. n -> Nat \X Nat] /\ q \in [1 .. m -> Nat \X Nat]
      /\ RawSums(r, p, n) /\ RawSums(s, q, m)
      /\ \A k \in 1 .. m : q[k] = IF k < j THEN p[k] ELSE p[k + 1]
  BY DEF Shortened
<1> DEFINE T == {k \in Nat : /\ k < j => r[k] = s[k]
                             /\ k \in j .. n => r[k] = RawPlus(s[k - 1], p[j])}
<1>2. ASSUME NEW k \in Nat, \A l \in Nat : l < k => l \in T
      PROVE  k \in T
  <2>1. CASE k = 0
    <3>1. r[0] = s[0] /\ 0 \notin j .. n
      BY <1>1 DEF RawSums
    <3>2. QED
      BY <2>1, <3>1
  <2>2. CASE k # 0 /\ k <= n
    <3>1. k \in 1 .. n /\ k - 1 \in 0 .. n /\ k - 1 \in T /\ k - 1 \in Nat
      BY <1>1, <1>2, <2>2
    <3>2. r[k] = RawPlus(r[k - 1], p[k])
      BY <1>1, <3>1 DEF RawSums
    <3>3. CASE k < j
      <4>1. k \in 1 .. m /\ q[k] = p[k]
        BY <1>1, <3>1, <3>3
      <4>2. s[k] = RawPlus(s[k - 1], q[k])
        BY <1>1, <4>1 DEF RawSums
      <4>3. r[k - 1] = s[k - 1]
        BY <1>1, <3>1, <3>3
      <4>4. QED
        BY <1>1, <3>1, <3>2, <3>3, <4>1, <4>2, <4>3
    <3>4. CASE k = j
      <4>1. r[k - 1] = s[k - 1]
        BY <1>1, <3>1, <3>4
      <4>2. QED
        BY <1>1, <3>2, <3>4, <4>1
    <3>5. CASE k > j
      <4>1. k - 1 \in 1 .. m /\ k - 1 - 1 \in 0 .. m /\ k - 1 \in j .. n
        BY <1>1, <3>1, <3>5
      <4>2. q[k - 1] = p[k]
        BY <1>1, <3>1, <3>5, <4>1
      <4>3. s[k - 1] = RawPlus(s[k - 1 - 1], q[k - 1])
        BY <1>1, <4>1 DEF RawSums
      <4>4. r[k - 1] = RawPlus(s[k - 1 - 1], p[j])
        BY <1>1, <3>1, <3>5, <4>1
      <4>5. s[k - 1 - 1] \in Nat \X Nat /\ p[j] \in Nat \X Nat /\ p[k] \in Nat \X Nat
        BY <1>1, <3>1, <4>1 DEF RawSums
      <4>6. RawPlus(RawPlus(s[k - 1 - 1], p[j]), p[k]) = RawPlus(RawPlus(s[k - 1 - 1], p[k]), p[j])
        BY <4>5, RawPlusTwice
      <4>7. r[k] = RawPlus(s[k - 1], p[j])
        BY <3>2, <4>2, <4>3, <4>4, <4>6
      <4>8. QED
        BY <1>1, <3>5, <4>7
    <3>6. QED
      BY <1>1, <3>1, <3>3, <3>4, <3>5
  <2>3. CASE k > n
    BY <1>1, <2>3
  <2>4. QED
    BY <1>1, <2>1, <2>2, <2>3
<1>3. \A k \in Nat : k \in T
  <2> HIDE DEF T
  <2>1. QED
    BY <1>2, Strongly
<1>4. r[n] = RawPlus(s[m], p[j])
  BY <1>1, <1>3
<1>5. QED
  BY <1>4 DEF AddedLast

(* g adds up the probabilities of a distribution, value by value.           *)
First(s) == CHOOSE x \in s : TRUE
AddsUp(g, f) ==
  /\ g \in [SUBSET DOMAIN f -> Probabilities]
  /\ g[{}] = <<0, 1>>
  /\ \A s \in SUBSET DOMAIN f : s # {} => g[s] = Plus(g[s \ {First(s)}], f[First(s)])

SumOf(f) == FoldSet(LAMBDA val, sum : Plus(sum, f[val]), <<0, 1>>, DOMAIN f)

(* FoldSet over the values, unfolded.                                       *)
LEMMA SumUnfolds ==
  ASSUME NEW f, IsFiniteSet(DOMAIN f), \A x \in DOMAIN f : f[x] \in Probabilities
  PROVE  \E g : AddsUp(g, f) /\ SumOf(f) = g[DOMAIN f]
<1> DEFINE D == SUBSET DOMAIN f
           step(g, s) == IF s = {} THEN <<0, 1>>
                         ELSE Plus(g[s \ {CHOOSE x \in s : TRUE}], f[CHOOSE x \in s : TRUE])
           rank == [s \in D |-> Cardinality(s)]
           S == [q \in [D -> Probabilities] \X D |-> step(q[1], q[2])]
<1>1. rank \in [D -> Nat]
  <2>1. ASSUME NEW s \in D PROVE Cardinality(s) \in Nat
    <3>1. IsFiniteSet(s)
      BY FS_Subset
    <3>2. QED
      BY <3>1, FS_CardinalityType
  <2>2. QED
    BY <2>1
<1>2. ASSUME NEW s \in D, s # {}
      PROVE  /\ First(s) \in s /\ f[First(s)] \in Probabilities
             /\ s \ {First(s)} \in D /\ rank[s \ {First(s)}] < rank[s]
  <2>1. First(s) \in s
    BY <1>2 DEF First
  <2>2. IsFiniteSet(s)
    BY FS_Subset
  <2>3. Cardinality(s \ {First(s)}) = Cardinality(s) - 1 /\ Cardinality(s) \in Nat
    BY <2>1, <2>2, FS_RemoveElement, FS_CardinalityType
  <2>4. rank[s \ {First(s)}] = Cardinality(s \ {First(s)}) /\ rank[s] = Cardinality(s)
    OBVIOUS
  <2> HIDE DEF rank
  <2>5. QED
    BY <2>1, <2>3, <2>4
<1>3. S \in [[D -> Probabilities] \X D -> Probabilities]
  <2>1. ASSUME NEW g \in [D -> Probabilities], NEW s \in D
        PROVE  step(g, s) \in Probabilities
    <3>1. CASE s = {}
      BY <3>1, ProbabilityIs
    <3>2. CASE s # {}
      <4>1. g[s \ {First(s)}] \in Probabilities /\ f[First(s)] \in Probabilities
        BY <1>2, <3>2
      <4>2. QED
        BY <3>2, <4>1, PlusCloses DEF First
    <3>3. QED
      BY <3>1, <3>2
  <2> HIDE DEF D, step
  <2>2. QED
    BY <2>1
<1>4. ASSUME NEW s \in D, NEW g, NEW h, \A y \in D : rank[y] < rank[s] => g[y] = h[y]
      PROVE  step(g, s) = step(h, s)
  <2>1. CASE s = {}
    BY <2>1
  <2>2. CASE s # {}
    <3>1. s \ {First(s)} \in D /\ rank[s \ {First(s)}] < rank[s]
      BY <1>2, <2>2
    <3> HIDE DEF D, rank
    <3>2. g[s \ {First(s)}] = h[s \ {First(s)}]
      BY <1>4, <3>1
    <3>3. QED
      BY <3>2 DEF First
  <2>3. QED
    BY <2>1, <2>2
<1>5. Descends(D, Probabilities, S, rank)
  <2> HIDE DEF D, step, rank
  <2>1. QED
    BY <1>4 DEF Descends
<1>6. PICK u \in [D -> Probabilities] : \A s \in D : u[s] = S[<<u, s>>]
  <2>1. Probabilities # {}
    BY ProbabilityIs
  <2> HIDE DEF D, S, rank
  <2>2. Solvable(D, Probabilities, S)
    BY <1>1, <1>3, <1>5, <2>1, Recursion
  <2>3. QED
    BY <2>2 DEF Solvable
<1>7. u = [s \in D |-> step(u, s)]
  <2> HIDE DEF D, step
  <2>1. QED
    BY <1>6
<1>8. PICK g : g = [s \in D |-> step(g, s)] /\ SumOf(f) = g[DOMAIN f]
  BY <1>7 DEF SumOf, FoldSet, MapThenFoldSet
<1>9. \A s \in D : u[s] = g[s]
  <2>1. \A s \in D : g[s] = step(g, s)
    <3> HIDE DEF step, D
    <3>1. QED
      BY <1>8
  <2>2. \A s \in D : u[s] = step(u, s)
    <3> HIDE DEF step, D
    <3>1. QED
      BY <1>7
  <2> HIDE DEF step, D, rank
  <2>3. AgreeUpwards(D, rank, u, g)
    BY <1>4, <2>1, <2>2 DEF AgreeUpwards
  <2>4. QED
    BY <1>1, <2>3, Agreement
<1>10. AddsUp(u, f)
  <2>1. \A s \in D : u[s] = step(u, s)
    <3> HIDE DEF step, D
    <3>1. QED
      BY <1>7
  <2>2. {} \in D
    OBVIOUS
  <2>3. u[{}] = <<0, 1>>
    BY <2>1, <2>2
  <2>4. QED
    BY <2>1, <2>3 DEF AddsUp, First
<1>11. DOMAIN f \in D
  OBVIOUS
<1>12. QED
  <2> HIDE DEF D
  <2>1. QED
    BY <1>8, <1>9, <1>10, <1>11

(* e lists the n elements of s.                                             *)
Lists(e, n, s) ==
  /\ e \in [1 .. n -> s]
  /\ \A i, k \in 1 .. n : i # k => e[i] # e[k]
  /\ \A x \in s : \E k \in 1 .. n : e[k] = x

(* Whatever the order in which the values are listed, the sum is the same.  *)
LEMMA SumOfList ==
  ASSUME NEW f, NEW g, AddsUp(g, f), \A x \in DOMAIN f : f[x] \in Probabilities
  PROVE  \A n \in Nat : \A s \in SUBSET DOMAIN f : \A e, r :
           Lists(e, n, s) /\ RawSums(r, [k \in 1 .. n |-> f[e[k]]], n) => g[s] = Lowest(r[n])
<1> DEFINE Good(n, s, e) ==
             \A r : RawSums(r, [k \in 1 .. n |-> f[e[k]]], n) => g[s] = Lowest(r[n])
           T == {n \in Nat : \A s \in SUBSET DOMAIN f : \A e : Lists(e, n, s) => Good(n, s, e)}
<1>1. ASSUME NEW n \in Nat, \A m \in Nat : m < n => m \in T,
             NEW s \in SUBSET DOMAIN f, NEW e, Lists(e, n, s), NEW r,
             RawSums(r, [k \in 1 .. n |-> f[e[k]]], n)
      PROVE  g[s] = Lowest(r[n])
  <2> DEFINE p == [k \in 1 .. n |-> f[e[k]]]
  <2>1. CASE n = 0
    <3>1. s = {}
      BY <1>1, <2>1 DEF Lists
    <3>2. r[n] = <<0, 1>>
      BY <1>1, <2>1 DEF RawSums
    <3>3. g[s] = <<0, 1>>
      BY <3>1 DEF AddsUp
    <3>4. Lowest(<<0, 1>>) = <<0, 1>>
      BY LowestZero
    <3>5. QED
      BY <3>2, <3>3, <3>4
  <2>2. CASE n > 0
    <3>1. e[1] \in s
      BY <1>1, <2>2 DEF Lists
    <3>2. PICK x : x = First(s) /\ x \in s
      BY <3>1 DEF First
    <3>3. PICK j \in 1 .. n : e[j] = x
      BY <1>1, <3>2 DEF Lists
    <3> DEFINE i(k) == IF k < j THEN k ELSE k + 1
               d == [k \in 1 .. n - 1 |-> e[i(k)]]
               q == [k \in 1 .. n - 1 |-> f[d[k]]]
    <3>4. Lists(d, n - 1, s \ {x})
      <4>1. \A k \in 1 .. n - 1 : i(k) \in 1 .. n /\ i(k) # j
        OBVIOUS
      <4>2. \A k, l \in 1 .. n - 1 : k # l => i(k) # i(l)
        OBVIOUS
      <4>3. \A k \in 1 .. n : k # j => \E l \in 1 .. n - 1 : i(l) = k
        <5>1. ASSUME NEW k \in 1 .. n, k # j
              PROVE  \E l \in 1 .. n - 1 : i(l) = k
          <6>1. CASE k < j
            BY <6>1
          <6>2. CASE k > j
            <7>1. k - 1 \in 1 .. n - 1 /\ i(k - 1) = k
              BY <6>2
            <7>2. QED
              BY <7>1
          <6>3. QED
            BY <5>1, <6>1, <6>2
        <5>2. QED
          BY <5>1
      <4> HIDE DEF i
      <4>4. \A k \in 1 .. n - 1 : d[k] = e[i(k)] /\ d[k] \in s /\ d[k] # x
        BY <1>1, <3>3, <4>1 DEF Lists
      <4>5. d \in [1 .. n - 1 -> s \ {x}]
        BY <4>4
      <4>6. \A k, l \in 1 .. n - 1 : k # l => d[k] # d[l]
        BY <1>1, <4>1, <4>2, <4>4 DEF Lists
      <4>7. ASSUME NEW y \in s \ {x}
            PROVE  \E l \in 1 .. n - 1 : d[l] = y
        <5>1. PICK k \in 1 .. n : e[k] = y
          BY <1>1 DEF Lists
        <5>2. k # j
          BY <3>3, <5>1
        <5>3. PICK l \in 1 .. n - 1 : i(l) = k
          BY <4>3, <5>2
        <5>4. QED
          BY <4>4, <5>1, <5>3
      <4> HIDE DEF d
      <4>8. QED
        BY <4>5, <4>6, <4>7 DEF Lists
    <3>5. /\ p \in [1 .. n -> Probabilities] /\ p[j] = f[x]
          /\ \A k \in 1 .. n : p[k] = f[e[k]]
      BY <1>1, <3>3 DEF Lists
    <3>6. /\ q \in [1 .. n - 1 -> Probabilities]
          /\ \A k \in 1 .. n - 1 : q[k] = IF k < j THEN p[k] ELSE p[k + 1]
      <4>1. \A k \in 1 .. n - 1 : d[k] \in s /\ d[k] = e[i(k)] /\ i(k) \in 1 .. n
        BY <3>4 DEF Lists
      <4>2. \A k \in 1 .. n - 1 : q[k] = p[i(k)]
        <5> HIDE DEF p, d, i
        <5>1. QED
          BY <3>5, <4>1
      <4>3. q \in [1 .. n - 1 -> Probabilities]
        <5> HIDE DEF d, i
        <5>1. QED
          BY <4>1
      <4>4. QED
        <5> HIDE DEF p, q, d
        <5>1. QED
          BY <4>2, <4>3
    <3>7. n - 1 \in Nat /\ n - 1 < n /\ n = (n - 1) + 1
      BY <2>2
    <3>8. p \in [1 .. n -> Nat \X Nat] /\ q \in [1 .. n - 1 -> Nat \X Nat]
      <4> HIDE DEF p, q
      <4>1. QED
        BY <3>5, <3>6, ProbabilityPair
    <3>9. PICK t : RawSums(t, q, n - 1)
      <4> HIDE DEF q
      <4>1. QED
        BY <3>7, <3>8, RawSumsExist
    <3>10. r[n] = RawPlus(t[n - 1], p[j])
      <4>1. RawSums(r, p, n)
        BY <1>1
      <4> HIDE DEF p, q
      <4>2. PICK m \in Nat : m = n - 1 /\ n = m + 1
        BY <3>7
      <4>3. Shortened(p, q, r, t, j, n, m)
        <5>1. /\ n \in Nat /\ m \in Nat /\ n = m + 1 /\ j \in 1 .. n
              /\ p \in [1 .. n -> Nat \X Nat] /\ q \in [1 .. m -> Nat \X Nat]
          BY <3>8, <4>2
        <5>2. RawSums(r, p, n) /\ RawSums(t, q, m)
          BY <3>9, <4>1, <4>2
        <5>3. \A k \in 1 .. m : q[k] = IF k < j THEN p[k] ELSE p[k + 1]
          BY <3>6, <4>2
        <5>4. QED
          BY <5>1, <5>2, <5>3 DEF Shortened
      <4>4. r[n] = RawPlus(t[m], p[j])
        BY <4>3, RawSumsWithout DEF AddedLast
      <4>5. QED
        BY <4>2, <4>4
    <3>11. g[s \ {x}] = Lowest(t[n - 1])
      <4>1. s \ {x} \in SUBSET DOMAIN f /\ n - 1 \in T
        BY <1>1, <3>7
      <4>2. Good(n - 1, s \ {x}, d)
        <5> HIDE DEF Good, d
        <5>1. QED
          BY <3>4, <4>1
      <4>3. QED
        <5> HIDE DEF d
        <5>1. QED
          BY <3>9, <4>2
    <3>12. g[s] = Plus(g[s \ {x}], f[x])
      BY <3>2 DEF AddsUp
    <3>13. t[n - 1] \in Nat \X Nat /\ f[x] \in Probabilities
      BY <3>2, <3>7, <3>9 DEF RawSums
    <3>14. Plus(Lowest(t[n - 1]), f[x]) = Lowest(RawPlus(t[n - 1], f[x]))
      BY <3>13, PlusLowest
    <3>15. QED
      <4> HIDE DEF p, q
      <4>1. QED
        BY <3>5, <3>10, <3>11, <3>12, <3>14
  <2>3. QED
    BY <2>1, <2>2
<1>2. \A n \in Nat : n \in T
  <2>1. ASSUME NEW n \in Nat, \A m \in Nat : m < n => m \in T PROVE n \in T
    BY <1>1, <2>1
  <2> HIDE DEF T
  <2>2. QED
    BY <2>1, Strongly
<1>3. QED
  BY <1>2

-----------------------------------------------------------------------------
(***************************************************************************)
(* A call of modify_dictionary keeps its dictionary well formed, from one  *)
(* definition to the next (DictCall).                                      *)
(*                                                                         *)
(* This is what Dictionary and DictSession have in common: whatever        *)
(* dictionary a call starts from, if that is legal it is legal after each  *)
(* definition, after a refused one too, and what is packed for storage has *)
(* few holes.                                                              *)
(***************************************************************************)
Stored(d) == Legal(d) /\ Cardinality(Holes(d)) <= MaxValDeleted

CallInv ==
  /\ Legal(dict)
  /\ mode \in {"in", "add", "del", "upd"}
  /\ text \in Texts \cup {<<>>} /\ at \in 0 .. Len(text)
  /\ varp \in 0 .. Len(dict.vars)

-----------------------------------------------------------------------------
(* The definition being worked on. *)
LEMMA DefinitionIs ==
  ASSUME CallInv, at < Len(text)
  PROVE  /\ def.name \in Nat /\ def.val \in {Wildcard, NoValue} \cup Nat
         /\ def.prob \in Probabilities
         /\ at + 1 \in 0 .. Len(text)
<1> DEFINE D == [name: Nat, val: {Wildcard, NoValue} \cup Nat, prob: {p \in Nat \X Nat : p[2] > 0}]
<1>1. text \in Seq(D)
  BY TextsAssumption DEF CallInv
<1>2. at + 1 \in 1 .. Len(text)
  BY <1>1 DEF CallInv
<1>3. def \in D
  <2> HIDE DEF D
  <2>1. QED
    BY <1>1, <1>2, ElementOfSeq DEF def
<1>4. def.name \in Nat /\ def.val \in {Wildcard, NoValue} \cup Nat
      /\ def.prob \in {p \in Nat \X Nat : p[2] > 0}
  BY <1>3
<1>5. QED
  BY <1>2, <1>4 DEF Probabilities

(* Normalizing the variable before leaves a legal dictionary and all        *)
(* segments where they are.                                                 *)
LEMMA SwitchedLegal ==
  ASSUME CallInv
  PROVE  Legal(Switched) /\ Switched.vars = dict.vars
<1>1. Legal(dict) /\ varp \in 0 .. Len(dict.vars) /\ Len(dict.vars) \in Nat
  BY DictFields DEF CallInv, Legal
<1>2. CASE varp # 0 /\ dict.vars[varp].name # def.name
  <2>1. Switched = Normalize(dict, varp) /\ varp \in 1 .. Len(dict.vars)
    BY <1>1, <1>2 DEF Switched
  <2>2. Switched \in DictOver(Probabilities) /\ Layout(Switched) /\ Switched.vars = dict.vars
    BY <1>1, <2>1, NormalizeKeeps DEF Legal
  <2>3. QED
    BY <1>1, <2>2 DEF Legal
<1>3. CASE ~(varp # 0 /\ dict.vars[varp].name # def.name)
  BY <1>1, <1>3 DEF Switched
<1>4. QED
  BY <1>2, <1>3

(* The variable is found if there is one of that name. *)
LEMMA FoundFinds ==
  ASSUME CallInv, def.name \in Nat
  PROVE  IsPlaceOf(Found, Switched.vars, def.name)
<1>1. Legal(Switched) /\ Switched.vars = dict.vars
  BY SwitchedLegal
<1>2. Switched.vars \in Seq(Variable) /\ (Switched.sorted => IncreasingNames(Switched.vars))
  BY <1>1, DictFields DEF Legal, Layout
<1>3. CASE varp # 0 /\ dict.vars[varp].name = def.name
  BY <1>1, <1>3 DEF Found, IsPlaceOf, CallInv
<1>4. CASE ~(varp # 0 /\ dict.vars[varp].name = def.name)
  <2>1. Found = VarIndex(Switched, def.name)
    BY <1>4 DEF Found
  <2>2. PICK d : d = Switched
    OBVIOUS
  <2>3. d.vars \in Seq(Variable) /\ (d.sorted => IncreasingNames(d.vars))
    BY <1>2, <2>2
  <2>4. IsPlaceOf(VarIndex(d, def.name), d.vars, def.name)
    BY <2>3, VarIndexFinds
  <2>5. QED
    BY <2>1, <2>2, <2>4
<1>5. QED
  BY <1>3, <1>4

(* And so is its value. *)
LEMMA PresentMeans ==
  ASSUME CallInv, def.name \in Nat
  PROVE  /\ Found \in 0 .. Len(Switched.vars)
         /\ Present => /\ Found \in 1 .. Len(Switched.vars)
                       /\ FoundVal \in Segment(Switched.vars[Found])
                       /\ FoundVal \in 1 .. Len(Switched.vals)
         /\ ~Present /\ Found # 0 =>
              \A j \in Segment(Switched.vars[Found]) : Switched.vals[j].value # def.val
         /\ Found = 0 => \A k \in DOMAIN Switched.vars : Switched.vars[k].name # def.name
<1>1. IsPlaceOf(Found, Switched.vars, def.name) /\ Legal(Switched)
  BY FoundFinds, SwitchedLegal
<1>2. /\ DOMAIN Switched.vars = 1 .. Len(Switched.vars) /\ Len(Switched.vars) \in Nat
      /\ Len(Switched.vals) \in Nat
      /\ \A k \in 1 .. Len(Switched.vars) :
           /\ Switched.vars[k] \in Variable
           /\ Switched.vars[k].offset \in Nat /\ Switched.vars[k].card \in Nat
  BY <1>1, DictFields DEF Legal
<1>3. /\ Found \in 0 .. Len(Switched.vars)
      /\ Found = 0 => \A k \in DOMAIN Switched.vars : Switched.vars[k].name # def.name
  BY <1>1 DEF IsPlaceOf
<1>4. ASSUME Found # 0
      PROVE  /\ Present <=> FoundVal # 0
             /\ FoundVal # 0 => /\ FoundVal \in Segment(Switched.vars[Found])
                                /\ FoundVal \in 1 .. Len(Switched.vals)
             /\ FoundVal = 0 =>
                  \A j \in Segment(Switched.vars[Found]) : Switched.vals[j].value # def.val
  <2>1. Found \in 1 .. Len(Switched.vars)
    BY <1>2, <1>3, <1>4
  <2>2. PICK d, v, val : d = Switched /\ v = Switched.vars[Found] /\ val = def.val
    OBVIOUS
  <2>3. v \in Variable /\ v.offset \in Nat /\ v.card \in Nat /\ Len(d.vals) \in Nat
    BY <1>2, <2>1, <2>2
  <2>4. FoundVal = ValIndex(d, v, val) /\ (Present <=> ValIndex(d, v, val) # 0)
    BY <1>4, <2>2 DEF FoundVal, Present
  <2>5. /\ ValIndex(d, v, val) # 0 => ValIndex(d, v, val) \in Segment(v)
        /\ ValIndex(d, v, val) = 0 => \A j \in Segment(v) : d.vals[j].value # val
    BY <2>3, ValIndexFinds
  <2>6. v.offset + v.card <= Len(d.vals)
    BY <1>1, <1>2, <2>1, <2>2 DEF Legal, Layout, Inside
  <2>7. Segment(v) \subseteq 1 .. Len(d.vals)
    <3>1. PICK o \in Nat, c \in Nat, n \in Nat : o = v.offset /\ c = v.card /\ n = Len(d.vals)
      BY <2>3
    <3>2. o + 1 .. o + c \subseteq 1 .. n
      BY <2>6, <3>1
    <3>3. QED
      BY <3>1, <3>2 DEF Segment
  <2>8. QED
    BY <2>2, <2>4, <2>5, <2>7
<1>5. Present => Found # 0
  BY DEF Present
<1>6. QED
  BY <1>2, <1>3, <1>4, <1>5

-----------------------------------------------------------------------------
(* One value more, the variable being added if need be. *)
LEMMA AddIsLegal ==
  ASSUME CallInv, Add
  PROVE  Legal(dict') /\ varp' \in 1 .. Len(dict'.vars)
<1>1. at < Len(text) /\ ~Malformed /\ Adds /\ ~Present
  BY DEF Add, Defining
<1>2. def.name \in Nat /\ def.val \in Nat /\ def.prob \in Probabilities
  BY <1>1, DefinitionIs DEF Malformed, Adds
<1>3. PICK s, f, name, val, prob :
        s = Switched /\ f = Found /\ name = def.name /\ val = def.val /\ prob = def.prob
  OBVIOUS
<1>4. name \in Nat /\ val \in Nat /\ prob \in Probabilities
  BY <1>2, <1>3
<1>5. s \in DictOver(Probabilities) /\ Layout(s) /\ \A k \in 1 .. Len(s.vars) : s.vars[k].card > 0
  BY <1>3, SwitchedLegal DEF Legal
<1>6. /\ f \in 0 .. Len(s.vars)
      /\ f # 0 => \A j \in Segment(s.vars[f]) : s.vals[j].value # val
      /\ f = 0 => \A k \in DOMAIN s.vars : s.vars[k].name # name
  BY <1>1, <1>2, <1>3, PresentMeans
<1>7. PICK b, i : /\ b = IF f # 0 THEN s ELSE AddVariable(s, name)
                  /\ i = IF f # 0 THEN f ELSE Len(b.vars)
                  /\ dict' = AddValue(b, i, val, prob) /\ varp' = i
  BY <1>3 DEF Add
<1>8. /\ b \in DictOver(Probabilities) /\ Layout(b) /\ i \in 1 .. Len(b.vars)
      /\ \A j \in Segment(b.vars[i]) : b.vals[j].value # val
      /\ \A k \in 1 .. Len(b.vars) : k # i => b.vars[k].card > 0
  <2>1. CASE f # 0
    <3>1. b = s /\ i = f
      BY <1>7, <2>1
    <3>2. f \in 1 .. Len(s.vars)
      BY <1>6, <2>1
    <3>3. QED
      BY <1>5, <1>6, <2>1, <3>1, <3>2
  <2>2. CASE f = 0
    <3>1. b = AddVariable(s, name) /\ i = Len(b.vars)
      BY <1>7, <2>2
    <3>2. /\ b \in DictOver(Probabilities)
          /\ Len(b.vars) = Len(s.vars) + 1
          /\ \A k \in 1 .. Len(s.vars) : b.vars[k] = s.vars[k]
          /\ b.vars[Len(s.vars) + 1].offset = Len(s.vals) /\ b.vars[Len(s.vars) + 1].card = 0
      BY <1>4, <1>5, <3>1, AddVariableIs
    <3>3. \A k \in DOMAIN s.vars : s.vars[k].name # name
      BY <1>6, <2>2
    <3>4. Layout(b)
      BY <1>4, <1>5, <3>1, <3>3, AddVariableKeeps
    <3>5. PICK n \in Nat, m \in Nat : n = Len(s.vars) /\ m = Len(s.vals)
      BY <1>5, DictFields
    <3>6. i = n + 1 /\ Len(b.vars) = n + 1 /\ b.vars[i].offset = m /\ b.vars[i].card = 0
      BY <3>1, <3>2, <3>5
    <3>7. Segment(b.vars[i]) = {}
      BY <3>6 DEF Segment
    <3>8. \A k \in 1 .. Len(b.vars) : k # i => b.vars[k].card > 0
      BY <1>5, <3>2, <3>5, <3>6
    <3>9. i \in 1 .. Len(b.vars)
      BY <3>6
    <3>10. QED
      BY <3>2, <3>4, <3>7, <3>8, <3>9
  <2>3. QED
    BY <2>1, <2>2
<1>9. PICK e : e = dict'
  OBVIOUS
<1>10. e = AddValue(b, i, val, prob)
  BY <1>7, <1>9
<1>11. /\ e \in DictOver(Probabilities) /\ Layout(e)
       /\ Len(e.vars) = Len(b.vars)
       /\ \A k \in 1 .. Len(b.vars) : e.vars[k].card > 0
  BY <1>4, <1>8, <1>10, AddValueKeeps
<1>12. QED
  BY <1>7, <1>8, <1>9, <1>11 DEF Legal

(* A new probability for a value that is there. *)
LEMMA UpdateIsLegal ==
  ASSUME CallInv, Update
  PROVE  Legal(dict') /\ varp' \in 1 .. Len(dict'.vars)
<1>1. at < Len(text) /\ Present
  BY DEF Update, Defining
<1>2. def.name \in Nat /\ def.prob \in Probabilities
  BY <1>1, DefinitionIs
<1>3. PICK s, j, prob : s = Switched /\ j = FoundVal /\ prob = def.prob
  OBVIOUS
<1>4. s \in DictOver(Probabilities) /\ Layout(s) /\ \A k \in 1 .. Len(s.vars) : s.vars[k].card > 0
  BY <1>3, SwitchedLegal DEF Legal
<1>5. Found \in 1 .. Len(s.vars) /\ j \in 1 .. Len(s.vals)
  BY <1>1, <1>2, <1>3, PresentMeans
<1>6. PICK e : e = dict'
  OBVIOUS
<1>7. e = SetProb(s, j, prob) /\ varp' = Found /\ prob \in Probabilities
  BY <1>2, <1>3, <1>6 DEF Update
<1>8. e \in DictOver(Probabilities) /\ Layout(e) /\ e.vars = s.vars
  BY <1>4, <1>5, <1>7, SetProbKeeps
<1>9. QED
  BY <1>4, <1>5, <1>6, <1>7, <1>8 DEF Legal

(* One value less, others remaining. *)
LEMMA DeleteValueIsLegal ==
  ASSUME CallInv, DeleteValue
  PROVE  Legal(dict') /\ varp' \in 1 .. Len(dict'.vars)
<1>1. at < Len(text) /\ Present /\ Switched.vars[Found].card > 1
  BY DEF DeleteValue, Defining
<1>2. def.name \in Nat
  BY <1>1, DefinitionIs
<1>3. PICK s, f, j : s = Switched /\ f = Found /\ j = FoundVal
  OBVIOUS
<1>4. s \in DictOver(Probabilities) /\ Layout(s) /\ \A k \in 1 .. Len(s.vars) : s.vars[k].card > 0
  BY <1>3, SwitchedLegal DEF Legal
<1>5. f \in 1 .. Len(s.vars) /\ j \in Segment(s.vars[f])
  BY <1>1, <1>2, <1>3, PresentMeans
<1>6. PICK e : e = dict'
  OBVIOUS
<1>7. e = DropValue(s, f, j) /\ varp' = f
  BY <1>3, <1>6 DEF DeleteValue
<1>8. s.vars[f].card > 0
  BY <1>4, <1>5
<1>9. /\ e \in DictOver(Probabilities) /\ Layout(e)
      /\ Len(e.vars) = Len(s.vars)
      /\ \A k \in 1 .. Len(s.vars) : k # f => e.vars[k] = s.vars[k]
      /\ e.vars[f].card = s.vars[f].card - 1
  BY <1>4, <1>5, <1>7, <1>8, DropValueKeeps
<1>10. e.vars[f].card > 0
  <2>1. PICK c \in Nat : c = s.vars[f].card
    BY <1>4, <1>5, DictFields
  <2>2. c > 1 /\ e.vars[f].card = c - 1
    BY <1>1, <1>3, <1>9, <2>1
  <2>3. QED
    BY <2>2
<1>11. QED
  BY <1>4, <1>5, <1>6, <1>7, <1>9, <1>10 DEF Legal

(* One variable less. *)
LEMMA DeleteVariableIsLegal ==
  ASSUME CallInv, DeleteVariable
  PROVE  Legal(dict') /\ varp' = 0
<1>1. at < Len(text) /\ Found # 0
  BY DEF DeleteVariable, Defining
<1>2. def.name \in Nat
  BY <1>1, DefinitionIs
<1>3. PICK s, i : s = Switched /\ i = VarIndex(s, def.name)
  OBVIOUS
<1>4. s \in DictOver(Probabilities) /\ Layout(s) /\ \A k \in 1 .. Len(s.vars) : s.vars[k].card > 0
  BY <1>3, SwitchedLegal DEF Legal
<1>5. Len(s.vars) \in Nat /\ DOMAIN s.vars = 1 .. Len(s.vars) /\ s.vars \in Seq(Variable)
  BY <1>4, DictFields
<1>6. Found \in 1 .. Len(s.vars) /\ s.vars[Found].name = def.name
  BY <1>1, <1>2, <1>3, <1>5, FoundFinds DEF IsPlaceOf
<1>7. IsPlaceOf(i, s.vars, def.name)
  BY <1>2, <1>3, <1>4, <1>5, VarIndexFinds DEF Layout
<1>8. i \in 1 .. Len(s.vars)
  BY <1>5, <1>6, <1>7 DEF IsPlaceOf
<1>9. PICK e : e = dict'
  OBVIOUS
<1>10. e = DropVariable(s, i) /\ varp' = 0
  BY <1>3, <1>9 DEF DeleteVariable
<1>11. /\ e \in DictOver(Probabilities) /\ Layout(e)
       /\ VariablesFrom(s, e)
  BY <1>4, <1>8, <1>10, DropVariableKeeps
<1>12. QED
  BY <1>4, <1>9, <1>10, <1>11 DEF Legal, VariablesFrom

(* What is given to the database is legal and has few holes: either         *)
(* val_deleted, which the holes do not exceed, is within the limit, or      *)
(* there are none left.                                                     *)
LEMMA PreparedIsStored ==
  ASSUME NEW d, Legal(d), NEW e, e = Prepare2Store(d)
  PROVE  Stored(e)
<1>1. PICK s : s = Sort(d)
  OBVIOUS
<1>2. d \in DictOver(Probabilities) /\ Layout(d) /\ \A k \in 1 .. Len(d.vars) : d.vars[k].card > 0
  BY DEF Legal
<1>3. /\ s \in DictOver(Probabilities) /\ Layout(s)
      /\ VariablesFrom(d, s)
  BY <1>1, <1>2, SortKeeps
<1>4. \A k \in 1 .. Len(s.vars) : s.vars[k].card > 0
  BY <1>2, <1>3 DEF VariablesFrom
<1>5. CASE s.deleted > MaxValDeleted
  <2>1. e = Reorganize(s)
    BY <1>1, <1>5 DEF Prepare2Store
  <2>2. /\ e \in DictOver(Probabilities) /\ Layout(e) /\ Holes(e) = {}
        /\ Len(e.vars) = Len(s.vars)
        /\ \A i \in 1 .. Len(s.vars) :
             e.vars[i].name = s.vars[i].name /\ e.vars[i].card = s.vars[i].card
    BY <1>3, <2>1, ReorganizeKeeps
  <2>3. Cardinality(Holes(e)) = 0
    BY <2>2, FS_EmptySet
  <2>4. QED
    BY <1>4, <2>2, <2>3, BoundsAssumption DEF Legal, Stored
<1>6. CASE ~(s.deleted > MaxValDeleted)
  <2>1. e = s
    BY <1>1, <1>6 DEF Prepare2Store
  <2>2. s.deleted \in Nat /\ Cardinality(Holes(s)) \in Nat /\ Cardinality(Holes(s)) <= s.deleted
    BY <1>3, DictFields, HolesAre DEF Layout, HolesCounted
  <2>3. Cardinality(Holes(s)) <= MaxValDeleted
    BY <1>6, <2>2, BoundsAssumption
  <2>4. QED
    BY <1>3, <1>4, <2>1, <2>3 DEF Legal, Stored
<1>7. QED
  BY <1>5, <1>6

(* Whatever a definition does, the call goes on from, or ends with, a legal *)
(* dictionary.                                                              *)
LEMMA CallStep ==
  ASSUME CallInv, Definition
  PROVE  /\ CallInv'
         /\ pc = "modify" /\ pc' \in {"modify", "failed", "modified"}
         /\ answer' = answer /\ calls' = calls
<1>1. /\ Legal(dict) /\ Len(dict.vars) \in Nat /\ Len(text) \in Nat /\ at \in Nat
  <2>1. Legal(dict) /\ text \in Texts \cup {<<>>}
    BY DEF CallInv
  <2>2. Len(text) \in Nat
    BY <2>1, TextsAssumption
  <2>3. Len(dict.vars) \in Nat
    BY <2>1, DictFields DEF Legal
  <2>4. QED
    BY <2>1, <2>2, <2>3 DEF CallInv
<1>2. CASE Refuse
  <2>1. /\ dict' = IF Malformed THEN dict ELSE Switched
        /\ pc = "modify" /\ pc' = "failed"
        /\ mode' = mode /\ text' = text /\ at' = at /\ varp' = varp
        /\ answer' = answer /\ calls' = calls
    BY <1>2 DEF Refuse
  <2>2. Legal(dict') /\ dict'.vars = dict.vars
    BY <1>1, <2>1, SwitchedLegal
  <2>3. QED
    BY <2>1, <2>2 DEF CallInv
<1>3. CASE Add \/ Update \/ DeleteValue \/ DeleteVariable
  <2>1. Legal(dict') /\ varp' \in 0 .. Len(dict'.vars)
    <3>1. Legal(dict') /\ (varp' \in 1 .. Len(dict'.vars) \/ varp' = 0)
      BY <1>3, AddIsLegal, UpdateIsLegal, DeleteValueIsLegal, DeleteVariableIsLegal
    <3>2. Len(dict'.vars) \in Nat
      BY <3>1, DictFields DEF Legal
    <3>3. QED
      BY <3>1, <3>2
  <2>2. /\ at' = at + 1 /\ at < Len(text)
        /\ mode' = mode /\ text' = text /\ pc = "modify" /\ pc' = pc
        /\ answer' = answer /\ calls' = calls
    BY <1>3 DEF Add, Update, DeleteValue, DeleteVariable, Done, Defining
  <2>3. at' \in 0 .. Len(text')
    BY <1>1, <2>2
  <2>4. QED
    BY <2>1, <2>2, <2>3 DEF CallInv
<1>4. CASE EndText
  <2>1. /\ dict' = IF varp # 0 THEN Normalize(dict, varp) ELSE dict
        /\ pc = "modify" /\ pc' = "modified"
        /\ mode' = mode /\ text' = text /\ at' = at /\ varp' = varp
        /\ answer' = answer /\ calls' = calls
    BY <1>4 DEF EndText
  <2>2. Legal(dict') /\ dict'.vars = dict.vars
    <3>1. CASE varp # 0
      <4>1. PICK e : e = dict'
        OBVIOUS
      <4>2. e = Normalize(dict, varp) /\ varp \in 1 .. Len(dict.vars)
        BY <1>1, <2>1, <3>1, <4>1 DEF CallInv
      <4>3. e \in DictOver(Probabilities) /\ Layout(e) /\ e.vars = dict.vars
        BY <1>1, <4>2, NormalizeKeeps DEF Legal
      <4>4. QED
        BY <1>1, <4>1, <4>3 DEF Legal
    <3>2. CASE varp = 0
      BY <1>1, <2>1, <3>2
    <3>3. QED
      BY <3>1, <3>2
  <2>3. QED
    BY <2>1, <2>2 DEF CallInv
<1>5. QED
  BY <1>2, <1>3, <1>4 DEF Definition

-----------------------------------------------------------------------------
LEMMA EmptyIsLegal == Legal(EmptyDict) /\ Len(EmptyDict.vars) = 0
<1>1. PICK d : d = EmptyDict
  OBVIOUS
<1>2. /\ d.vars = <<>> /\ d.vals = <<>> /\ d.deleted = 0 /\ d.sorted = FALSE
      /\ DOMAIN d.vars = {} /\ DOMAIN d.vals = {} /\ Len(d.vars) = 0
  BY <1>1 DEF EmptyDict
<1>3. d \in DictOver(Probabilities)
  BY <1>1 DEF EmptyDict, DictOver
<1>4. Holes(d) = {} /\ Cardinality(Holes(d)) = 0
  BY <1>2, FS_EmptySet DEF Holes
<1>5. HolesCounted(d)
  BY <1>2, <1>4 DEF HolesCounted
<1>6. Layout(d)
  BY <1>2, <1>5 DEF Layout, NamesDiffer, Inside, Apart, ValuesDiffer
<1>7. QED
  BY <1>1, <1>2, <1>3, <1>6 DEF Legal

LEMMA LegalIsDict ==
  ASSUME NEW d, Legal(d)
  PROVE  IsDict(d)
<1>1. d \in DictOver(Probabilities)
  BY DEF Legal
<1>2. /\ d.vars \in Seq(Variable) /\ d.deleted \in Nat /\ d.sorted \in BOOLEAN
      /\ DOMAIN d.vals = 1 .. Len(d.vals)
      /\ \A j \in 1 .. Len(d.vals) : d.vals[j].value \in Nat /\ d.vals[j].prob \in Probabilities
  BY <1>1, DictFields
<1>3. QED
  BY <1>2, ProbabilityPair DEF IsDict

LEMMA LegalApart ==
  ASSUME NEW d, Legal(d)
  PROVE  /\ \A i \in DOMAIN d.vars : d.vars[i].card > 0 /\ Segment(d.vars[i]) \subseteq DOMAIN d.vals
         /\ \A i, k \in DOMAIN d.vars : i # k => Segment(d.vars[i]) \cap Segment(d.vars[k]) = {}
<1>1. /\ DOMAIN d.vars = 1 .. Len(d.vars) /\ DOMAIN d.vals = 1 .. Len(d.vals) /\ Len(d.vals) \in Nat
      /\ \A i \in 1 .. Len(d.vars) : d.vars[i].offset \in Nat /\ d.vars[i].card \in Nat
  BY DictFields DEF Legal
<1>2. ASSUME NEW i \in DOMAIN d.vars
      PROVE  d.vars[i].card > 0 /\ Segment(d.vars[i]) \subseteq DOMAIN d.vals
  <2>1. d.vars[i].card > 0 /\ d.vars[i].offset + d.vars[i].card <= Len(d.vals)
    BY <1>1 DEF Legal, Layout, Inside
  <2>2. PICK o \in Nat, c \in Nat, n \in Nat :
          o = d.vars[i].offset /\ c = d.vars[i].card /\ n = Len(d.vals)
    BY <1>1
  <2>3. o + 1 .. o + c \subseteq 1 .. n
    BY <2>1, <2>2
  <2>4. QED
    BY <1>1, <2>1, <2>2, <2>3 DEF Segment
<1>3. ASSUME NEW i \in DOMAIN d.vars, NEW k \in DOMAIN d.vars, i # k
      PROVE  Segment(d.vars[i]) \cap Segment(d.vars[k]) = {}
  <2>1. Before(d.vars[i], d.vars[k]) \/ Before(d.vars[k], d.vars[i])
    BY <1>3 DEF Legal, Layout, Apart
  <2>2. PICK o \in Nat, c \in Nat : o = d.vars[i].offset /\ c = d.vars[i].card
    BY <1>1
  <2>3. PICK p \in Nat, b \in Nat : p = d.vars[k].offset /\ b = d.vars[k].card
    BY <1>1
  <2>4. o + c <= p \/ p + b <= o
    BY <2>1, <2>2, <2>3 DEF Before
  <2>5. (o + 1 .. o + c) \cap (p + 1 .. p + b) = {}
    BY <2>4
  <2>6. QED
    BY <2>2, <2>3, <2>5 DEF Segment
<1>4. QED
  BY <1>2, <1>3

LEMMA LegalFinds ==
  ASSUME NEW d, Legal(d), NEW i, i \in DOMAIN d.vars
  PROVE  /\ VarIndex(d, d.vars[i].name) = i
         /\ \A j \in Segment(d.vars[i]) : ValIndex(d, d.vars[i], d.vals[j].value) = j
<1>1. /\ d.vars \in Seq(Variable) /\ DOMAIN d.vars = 1 .. Len(d.vars) /\ Len(d.vars) \in Nat
      /\ d.vars[i] \in Variable /\ d.vars[i].name \in Nat
      /\ d.vars[i].offset \in Nat /\ d.vars[i].card \in Nat
  BY DictFields DEF Legal
<1>2. VarIndex(d, d.vars[i].name) = i
  <2>1. PICK x : x = VarIndex(d, d.vars[i].name)
    OBVIOUS
  <2>2. d.sorted => IncreasingNames(d.vars)
    BY DEF Legal, Layout
  <2>3. IsPlaceOf(x, d.vars, d.vars[i].name)
    BY <1>1, <2>1, <2>2, VarIndexFinds
  <2>4. x # 0
    BY <2>1, <2>3 DEF IsPlaceOf
  <2>5. x \in DOMAIN d.vars /\ d.vars[x].name = d.vars[i].name
    BY <1>1, <2>1, <2>3, <2>4 DEF IsPlaceOf
  <2>6. x = i
    BY <2>5 DEF Legal, Layout, NamesDiffer
  <2>7. QED
    BY <2>1, <2>6
<1>3. ASSUME NEW j \in Segment(d.vars[i])
      PROVE  ValIndex(d, d.vars[i], d.vals[j].value) = j
  <2>1. PICK v, val : v = d.vars[i] /\ val = d.vals[j].value
    OBVIOUS
  <2>2. v \in Variable
    BY <1>1, <2>1
  <2>3. PICK x : x = ValIndex(d, v, val)
    OBVIOUS
  <2>4. /\ x # 0 => x \in Segment(v) /\ d.vals[x].value = val
        /\ x = 0 => \A k \in Segment(v) : d.vals[k].value # val
    BY <2>2, <2>3, ValIndexFinds
  <2>5. x # 0
    BY <1>3, <2>1, <2>4
  <2>6. x \in Segment(d.vars[i]) /\ d.vals[x].value = d.vals[j].value
    BY <2>1, <2>4, <2>5
  <2>7. x = j
    BY <1>3, <2>6 DEF Legal, Layout, ValuesDiffer
  <2>8. QED
    BY <2>1, <2>3, <2>7
<1>4. QED
  BY <1>2, <1>3
===============================================================================
