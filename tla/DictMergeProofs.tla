---------------------------- MODULE DictMergeProofs ---------------------------
(***************************************************************************)
(* merge_dictionary, for any two dictionaries (DictMerge): its loop is     *)
(* that of a merge sort, which takes each variable of both once and in     *)
(* order, and every iteration only appends to the result, so that what was *)
(* copied stays as it was.  Where it takes a variable from the vector that *)
(* the variable belongs to, it copies the distribution.                    *)
(***************************************************************************)
EXTENDS DictMerge, DictValueProofs, TLAPS

Entry == [value: Nat, prob: Probabilities]

(* e is m with one more variable, whose segment is behind all of m's.       *)
Extends(m, e, name) ==
  /\ e \in DictOver(Probabilities) /\ Len(e.vars) = Len(m.vars) + 1
  /\ \A k \in 1 .. Len(m.vars) : e.vars[k] = m.vars[k]
  /\ e.vars[Len(m.vars) + 1].name = name
  /\ e.vars[Len(m.vars) + 1].offset = Len(m.vals)
  /\ Len(m.vals) + e.vars[Len(m.vars) + 1].card = Len(e.vals)
  /\ \A j \in 1 .. Len(m.vals) : e.vals[j] = m.vals[j]

(* Variable i of d has the values of variable j of e. *)
CopyOf(d, i, e, j) ==
  /\ d.vars[i].name = e.vars[j].name /\ d.vars[i].card = e.vars[j].card
  /\ \A k \in 1 .. d.vars[i].card : d.vals[d.vars[i].offset + k] = e.vals[e.vars[j].offset + k]

-----------------------------------------------------------------------------
(* The first loop of add2merged. *)
LEMMA CopiedIs ==
  ASSUME NEW m, m = md, m \in DictOver(Probabilities),
         NEW src, src \in Variable, NEW values, values \in Seq(Entry),
         Segment(src) \subseteq DOMAIN values,
         NEW e, e = Copied(src, values)
  PROVE  /\ Extends(m, e, src.name)
         /\ e.vars[Len(m.vars) + 1].card = src.card
         /\ \A k \in 1 .. src.card : e.vals[Len(m.vals) + k] = values[src.offset + k]
<1>1. PICK b, seg : b = AddVariable(m, src.name) /\ seg = SegmentOf(src, values)
  OBVIOUS
<1>2. src.name \in Nat /\ src.offset \in Nat /\ src.card \in Nat
  BY DEF Variable
<1>3. /\ b \in DictOver(Probabilities)
      /\ Len(b.vars) = Len(m.vars) + 1
      /\ \A k \in 1 .. Len(m.vars) : b.vars[k] = m.vars[k]
      /\ b.vars[Len(m.vars) + 1].name = src.name
      /\ b.vars[Len(m.vars) + 1].offset = Len(m.vals) /\ b.vars[Len(m.vars) + 1].card = 0
      /\ b.vals = m.vals /\ b.deleted = m.deleted /\ ~b.sorted
  BY <1>1, <1>2, AddVariableIs
<1>4. PICK n \in Nat, l \in Nat, o \in Nat, c \in Nat :
        n = Len(m.vars) /\ l = Len(m.vals) /\ o = src.offset /\ c = src.card
  BY <1>2, DictFields
<1>5. /\ seg \in Seq(Entry) /\ Len(seg) = c
      /\ \A k \in 1 .. c : seg[k] = values[o + k]
  <2>1. \A k \in o + 1 .. o + c : values[k] \in Entry
    <3>1. \A k \in Segment(src) : k \in 1 .. Len(values)
      OBVIOUS
    <3>2. \A k \in 1 .. Len(values) : values[k] \in Entry
      BY ElementOfSeq
    <3>3. QED
      BY <1>4, <3>1, <3>2 DEF Segment
  <2>2. seg = SubSeq(values, o + 1, o + c)
    BY <1>1, <1>4 DEF SegmentOf
  <2>3. PICK f \in Int, t \in Int : f = o + 1 /\ t = o + c
    BY <1>4
  <2>4. /\ SubSeq(values, f, t) \in Seq(Entry)
        /\ Len(SubSeq(values, f, t)) = IF f <= t THEN t - f + 1 ELSE 0
        /\ \A k \in 1 .. t - f + 1 : SubSeq(values, f, t)[k] = values[f + k - 1]
    BY <2>1, <2>3, SubSeqProperties
  <2>5. t - f + 1 = c /\ (IF f <= t THEN t - f + 1 ELSE 0) = c
    BY <1>4, <2>3
  <2>6. \A k \in 1 .. c : f + k - 1 = o + k
    BY <1>4, <2>3
  <2>7. QED
    BY <2>2, <2>3, <2>4, <2>5, <2>6
<1> DEFINE v == [name |-> src.name, offset |-> l, card |-> c]
           vs == [b.vars EXCEPT ![n + 1] = v]
           xs == m.vals \o seg
<1>6. b.vars \in Seq(Variable) /\ m.vals \in Seq(Entry) /\ m.deleted \in Nat
      /\ b.vars[n + 1] \in Variable /\ n + 1 \in 1 .. Len(b.vars) /\ DOMAIN b.vars = 1 .. Len(b.vars)
  <2>1. b.vars \in Seq(Variable) /\ DOMAIN b.vars = 1 .. Len(b.vars)
    BY <1>3, DictFields
  <2>2. m.vals \in Seq(Entry) /\ m.deleted \in Nat
    BY DictFields DEF Entry
  <2>3. n + 1 \in 1 .. Len(b.vars)
    BY <1>3, <1>4
  <2>4. b.vars[n + 1] \in Variable
    BY <2>1, <2>3, ElementOfSeq
  <2>5. QED
    BY <2>1, <2>2, <2>3, <2>4
<1>7. e = [vars |-> vs, vals |-> xs, deleted |-> m.deleted, sorted |-> FALSE]
  <2>1. b = [vars |-> b.vars, vals |-> m.vals, deleted |-> m.deleted, sorted |-> FALSE]
    BY <1>1 DEF AddVariable, DictOver
  <2>2. [b.vars[n + 1] EXCEPT !.card = c] = v
    <3>1. PICK w : w = b.vars[n + 1]
      OBVIOUS
    <3>2. w \in Variable /\ w.name = src.name /\ w.offset = l
      BY <1>3, <1>4, <1>6, <3>1
    <3>3. w = [name |-> w.name, offset |-> w.offset, card |-> w.card]
      BY <3>2 DEF Variable
    <3>4. [w EXCEPT !.card = c] = [name |-> w.name, offset |-> w.offset, card |-> c]
      BY <3>3
    <3>5. QED
      BY <3>1, <3>2, <3>4
  <2>3. e = [b EXCEPT !.vals = b.vals \o seg, !.vars[n + 1].card = c]
    BY <1>1, <1>3, <1>4 DEF Copied
  <2>4. e = [b EXCEPT !.vals = b.vals \o seg, !.vars = [b.vars EXCEPT ![n + 1] = [b.vars[n + 1] EXCEPT !.card = c]]]
    BY <2>3
  <2>5. e = [b EXCEPT !.vals = xs, !.vars = vs]
    BY <1>3, <2>2, <2>4
  <2> HIDE DEF xs, vs
  <2>6. e = [vars |-> vs, vals |-> xs, deleted |-> b.deleted, sorted |-> b.sorted]
    BY <1>3, <2>5 DEF DictOver
  <2>7. b.deleted = m.deleted /\ b.sorted = FALSE
    BY <2>1
  <2>8. QED
    BY <2>6, <2>7
<1>8. v \in Variable
  BY <1>2, <1>4 DEF Variable
<1>9. /\ vs \in Seq(Variable) /\ Len(vs) = n + 1
      /\ \A k \in 1 .. n : vs[k] = m.vars[k]
      /\ vs[n + 1] = v
  <2>1. vs \in Seq(Variable) /\ Len(vs) = Len(b.vars)
    <3> HIDE DEF v
    <3>1. QED
      BY <1>6, <1>8, ExceptSeq
  <2>2. \A k \in 1 .. n + 1 : vs[k] = IF k = n + 1 THEN v ELSE b.vars[k]
    <3> HIDE DEF v
    <3>1. DOMAIN b.vars = 1 .. n + 1
      BY <1>3, <1>4, <1>6
    <3>2. QED
      BY <3>1
  <2>3. QED
    BY <1>3, <1>4, <2>1, <2>2
<1>10. /\ xs \in Seq(Entry) /\ Len(xs) = l + c
       /\ \A j \in 1 .. l : xs[j] = m.vals[j]
       /\ \A k \in 1 .. c : xs[l + k] = values[o + k]
  <2>1. /\ xs \in Seq(Entry) /\ Len(xs) = Len(m.vals) + Len(seg)
        /\ \A j \in 1 .. Len(m.vals) + Len(seg) :
             xs[j] = IF j <= Len(m.vals) THEN m.vals[j] ELSE seg[j - Len(m.vals)]
    BY <1>5, <1>6, ConcatProperties
  <2>2. \A j \in 1 .. l + c : xs[j] = IF j <= l THEN m.vals[j] ELSE seg[j - l]
    BY <1>4, <1>5, <2>1
  <2> HIDE DEF xs
  <2>3. \A k \in 1 .. c : l + k \in 1 .. l + c /\ ~(l + k <= l) /\ (l + k) - l = k
    BY <1>4
  <2>4. \A k \in 1 .. c : xs[l + k] = seg[k]
    BY <2>2, <2>3
  <2>5. QED
    BY <1>4, <1>5, <2>1, <2>2, <2>4
<1>11. e \in DictOver(Probabilities) /\ e.vars = vs /\ e.vals = xs
  <2> HIDE DEF vs, xs
  <2>1. QED
    BY <1>6, <1>7, <1>9, <1>10 DEF DictOver, Entry
<1>12. v.name = src.name /\ v.offset = l /\ v.card = c
  OBVIOUS
<1>13. QED
  <2> HIDE DEF vs, xs, v
  <2>1. Extends(m, e, src.name)
    BY <1>4, <1>9, <1>10, <1>11, <1>12 DEF Extends
  <2>2. QED
    BY <1>4, <1>9, <1>10, <1>11, <1>12, <2>1

(* What the second loop works on: the result so far, and whether a conflict *)
(* was found.                                                               *)
Joins(m, name) ==
  {a \in [d: DictOver(Probabilities), conflict: BOOLEAN] : Extends(m, a.d, name)}

LEMMA JoinsFields ==
  ASSUME NEW m, NEW name, NEW a, a \in Joins(m, name)
  PROVE  /\ a.d \in DictOver(Probabilities) /\ a.conflict \in BOOLEAN /\ Extends(m, a.d, name)
BY DEF Joins

LEMMA JoinsMade ==
  ASSUME NEW m, NEW name, NEW e, Extends(m, e, name), NEW b, b \in BOOLEAN
  PROVE  [d |-> e, conflict |-> b] \in Joins(m, name)
BY DEF Joins, Extends

LEMMA MergeValueJoins ==
  ASSUME NEW m, NEW name, NEW acc, NEW x, NEW r, m \in DictOver(Probabilities),
         acc \in Joins(m, name), x \in Entry, r = MergeValue(acc, x)
  PROVE  r \in Joins(m, name)
<1>1. PICK e, n, j : e = acc.d /\ n = Len(acc.d.vars) /\ j = ValIndex(acc.d, acc.d.vars[n], x.value)
  OBVIOUS
<1>2. e \in DictOver(Probabilities) /\ Extends(m, e, name)
  BY <1>1, JoinsFields
<1>3. CASE acc.conflict
  BY <1>3 DEF MergeValue
<1>4. CASE ~acc.conflict /\ j # 0
  <2>1. PICK b : b = (acc.d.vals[j].prob # x.prob)
    OBVIOUS
  <2>2. b \in BOOLEAN
    BY <2>1
  <2>3. r = [d |-> e, conflict |-> b]
    BY <1>1, <1>4, <2>1 DEF MergeValue
  <2>4. QED
    BY <1>2, <2>2, <2>3, JoinsMade
<1>5. CASE ~acc.conflict /\ j = 0
  <2>1. PICK a : a = Appended(e, n, x)
    OBVIOUS
  <2>2. r = [d |-> a, conflict |-> FALSE]
    BY <1>1, <1>5, <2>1 DEF MergeValue, Appended
  <2>3. PICK k \in Nat, l \in Nat : k = Len(m.vars) /\ l = Len(m.vals)
    BY DictFields
  <2>4. PICK v : v = e.vars[n]
    OBVIOUS
  <2>5. /\ n = k + 1 /\ n = Len(e.vars) /\ n \in 1 .. Len(e.vars)
        /\ v.name = name /\ v.offset = l /\ l + v.card = Len(e.vals)
        /\ v.card \in Nat /\ Len(e.vals) \in Nat
    <3>1. n = k + 1 /\ n = Len(e.vars) /\ n \in 1 .. Len(e.vars)
      BY <1>1, <1>2, <2>3 DEF Extends
    <3>2. v.card \in Nat /\ Len(e.vals) \in Nat
      BY <1>2, <2>4, <3>1, DictFields
    <3>3. QED
      BY <1>1, <1>2, <2>3, <2>4, <3>1, <3>2 DEF Extends
  <2>6. x \in [value: Nat, prob: Probabilities]
    BY DEF Entry
  <2>7. /\ a \in DictOver(Probabilities)
        /\ Len(a.vars) = Len(e.vars)
        /\ \A i \in 1 .. Len(e.vars) : i # n => a.vars[i] = e.vars[i]
        /\ a.vars[n].name = v.name /\ a.vars[n].offset = v.offset /\ a.vars[n].card = v.card + 1
        /\ Len(a.vals) = Len(e.vals) + 1
        /\ \A i \in 1 .. Len(e.vals) : a.vals[i] = e.vals[i]
    BY <1>2, <2>1, <2>4, <2>5, <2>6, AppendedIs, SMTT(30)
  <2>8. \A i \in 1 .. k : a.vars[i] = m.vars[i]
    <3>1. \A i \in 1 .. k : i \in 1 .. Len(e.vars) /\ i # n
      BY <1>2, <2>3, <2>5 DEF Extends
    <3>2. \A i \in 1 .. k : e.vars[i] = m.vars[i]
      BY <1>2, <2>3 DEF Extends
    <3>3. QED
      BY <2>7, <3>1, <3>2
  <2>9. \A i \in 1 .. l : a.vals[i] = m.vals[i]
    BY <1>2, <2>3, <2>5, <2>7 DEF Extends
  <2>10. Len(m.vals) + a.vars[n].card = Len(a.vals)
    <3>1. PICK c \in Nat, t \in Nat : c = v.card /\ t = Len(e.vals)
      BY <2>5
    <3>2. l + c = t /\ a.vars[n].card = c + 1 /\ Len(a.vals) = t + 1
      BY <2>5, <2>7, <3>1
    <3>3. l + (c + 1) = t + 1
      BY <3>2
    <3>4. QED
      BY <2>3, <3>2, <3>3
  <2>11. Extends(m, a, name)
    BY <2>3, <2>5, <2>7, <2>8, <2>9, <2>10 DEF Extends
  <2>12. QED
    BY <2>2, <2>11, JoinsMade
<1>6. QED
  BY <1>3, <1>4, <1>5

(* Both loops of add2merged. *)
LEMMA JoinedIs ==
  ASSUME NEW m, m = md, m \in DictOver(Probabilities),
         NEW src, src \in Variable, NEW values, values \in Seq(Entry),
         Segment(src) \subseteq DOMAIN values,
         NEW merge_v, merge_v \in Seq(Entry)
  PROVE  /\ Joined(src, values, merge_v) \in Joins(m, src.name)
         /\ merge_v = <<>> => Joined(src, values, merge_v).d = Copied(src, values)
<1> DEFINE to == Min({src.offset + src.card, Len(merge_v)})
           other == SubSeq(merge_v, src.offset + 1, to)
           V == Joins(m, src.name)
           first == [d |-> Copied(src, values), conflict |-> FALSE]
           D == 0 .. Len(other)
           step(g, k) == IF k = 0 THEN first ELSE MergeValue(g[k - 1], other[k])
           rank == [k \in D |-> k]
           S == [q \in [D -> V] \X D |-> step(q[1], q[2])]
<1>1. src.offset \in Nat /\ src.card \in Nat /\ Len(merge_v) \in Nat /\ src.name \in Nat
  BY DEF Variable
<1>2. to \in 0 .. Len(merge_v)
  <2>1. PICK x \in Nat, y \in Nat : x = src.offset + src.card /\ y = Len(merge_v)
    BY <1>1
  <2>2. Min({x, y}) \in 0 .. y
    <3>1. CASE x <= y
      <4>1. Min({x, y}) = x
        BY <3>1 DEF Min
      <4>2. QED
        BY <3>1, <4>1
    <3>2. CASE ~(x <= y)
      <4>1. Min({x, y}) = y
        BY <3>2 DEF Min
      <4>2. QED
        BY <4>1
    <3>3. QED
      BY <3>1, <3>2
  <2>3. QED
    BY <2>1, <2>2
<1>3. other \in Seq(Entry) /\ Len(other) \in Nat /\ (merge_v = <<>> => Len(other) = 0)
  <2>1. PICK f \in Int, t \in Int : f = src.offset + 1 /\ t = to
    BY <1>1, <1>2
  <2>2. \A i \in f .. t : merge_v[i] \in Entry
    <3>1. \A i \in f .. t : i \in 1 .. Len(merge_v)
      <4>1. f >= 1 /\ t <= Len(merge_v)
        BY <1>1, <1>2, <2>1
      <4>2. QED
        BY <1>1, <4>1
    <3>2. QED
      BY <3>1, ElementOfSeq
  <2>3. SubSeq(merge_v, f, t) \in Seq(Entry) /\ Len(SubSeq(merge_v, f, t)) = IF f <= t THEN t - f + 1 ELSE 0
    BY <2>2, SubSeqProperties
  <2>4. merge_v = <<>> => ~(f <= t)
    <3>1. merge_v = <<>> => Len(merge_v) = 0
      OBVIOUS
    <3>2. f >= 1 /\ t <= Len(merge_v)
      BY <1>1, <1>2, <2>1
    <3>3. QED
      BY <1>1, <3>1, <3>2
  <2>5. other = SubSeq(merge_v, f, t)
    BY <2>1
  <2> HIDE DEF other, to
  <2>6. Len(other) \in Nat
    BY <2>3, <2>5
  <2>7. QED
    BY <2>3, <2>4, <2>5, <2>6
<1>4. first \in V
  <2>1. PICK e : e = Copied(src, values)
    OBVIOUS
  <2>2. Extends(m, e, src.name)
    BY <2>1, CopiedIs
  <2>3. [d |-> e, conflict |-> FALSE] \in Joins(m, src.name)
    BY <2>2, JoinsMade
  <2>4. QED
    BY <2>1, <2>3
<1> HIDE DEF other, to, V, first
<1>5. \A k \in D : k # 0 => k - 1 \in D /\ rank[k - 1] < rank[k] /\ other[k] \in Entry
  <2>1. \A k \in D : k # 0 => k - 1 \in D /\ rank[k - 1] < rank[k] /\ k \in 1 .. Len(other)
    BY <1>3
  <2>2. \A k \in 1 .. Len(other) : other[k] \in Entry
    BY <1>3, ElementOfSeq
  <2> HIDE DEF D, rank
  <2>3. QED
    BY <2>1, <2>2
<1>6. rank \in [D -> Nat] /\ 0 \in D
  BY <1>3
<1>7. S \in [[D -> V] \X D -> V]
  <2>1. ASSUME NEW g \in [D -> V], NEW k \in D PROVE step(g, k) \in V
    <3>1. CASE k = 0
      BY <1>4, <3>1
    <3>2. CASE k # 0
      <4>1. PICK acc, x : acc = g[k - 1] /\ x = other[k]
        OBVIOUS
      <4>2. k - 1 \in D /\ x \in Entry
        BY <1>5, <3>2, <4>1
      <4>3. acc \in Joins(m, src.name)
        <5> HIDE DEF D
        <5>1. QED
          BY <4>1, <4>2 DEF V
      <4>4. MergeValue(acc, x) \in Joins(m, src.name)
        BY <4>2, <4>3, MergeValueJoins
      <4>5. QED
        BY <3>2, <4>1, <4>4 DEF V
    <3>3. QED
      BY <3>1, <3>2
  <2> HIDE DEF D, step
  <2>2. QED
    BY <2>1
<1>8. ASSUME NEW k \in D, NEW g, NEW h, \A y \in D : rank[y] < rank[k] => g[y] = h[y]
      PROVE  step(g, k) = step(h, k)
  <2> HIDE DEF D, rank
  <2>1. QED
    BY <1>5, <1>8
<1>9. Descends(D, V, S, rank)
  <2> HIDE DEF D, step, rank
  <2>1. QED
    BY <1>8 DEF Descends
<1>10. PICK f \in [D -> V] : \A k \in D : f[k] = S[<<f, k>>]
  <2> HIDE DEF D, S, rank
  <2>1. Solvable(D, V, S)
    BY <1>4, <1>6, <1>7, <1>9, Recursion
  <2>2. QED
    BY <2>1 DEF Solvable
<1>11. f = [k \in D |-> step(f, k)]
  <2> HIDE DEF D, step
  <2>1. QED
    BY <1>10
<1>12. PICK g : g = [k \in D |-> step(g, k)] /\ Joined(src, values, merge_v) = g[Len(other)]
  BY <1>11 DEF Joined, other, to, first
<1>13. \A k \in D : f[k] = g[k]
  <2>1. \A k \in D : g[k] = step(g, k)
    <3> HIDE DEF step, D
    <3>1. QED
      BY <1>12
  <2> HIDE DEF step, D, rank
  <2>2. AgreeUpwards(D, rank, f, g)
    BY <1>8, <1>11, <2>1 DEF AgreeUpwards
  <2>3. QED
    BY <1>6, <2>2, Agreement
<1>14. Len(other) \in D
  BY <1>3
<1>15. Joined(src, values, merge_v) = f[Len(other)]
  BY <1>12, <1>13, <1>14
<1>16. f[0] = first
  BY <1>6, <1>11
<1>17. merge_v = <<>> => Joined(src, values, merge_v) = first
  BY <1>3, <1>15, <1>16
<1>18. first.d = Copied(src, values)
  BY DEF first
<1>19. QED
  <2> HIDE DEF D
  <2>1. QED
    BY <1>10, <1>14, <1>15, <1>17, <1>18 DEF V

(* normalize_var of the new variable leaves the others alone. *)
LEMMA NormalizeExtends ==
  ASSUME NEW m, NEW e, NEW name, NEW r, m \in DictOver(Probabilities), Extends(m, e, name),
         r = Normalize(e, Len(e.vars))
  PROVE  Extends(m, r, name)
<1>1. PICK n \in Nat, l \in Nat : n = Len(m.vars) /\ l = Len(m.vals)
  BY DictFields
<1>2. PICK i, v : i = n + 1 /\ v = e.vars[i]
  OBVIOUS
<1>3. /\ e \in DictOver(Probabilities) /\ Len(e.vars) = i /\ i \in 1 .. Len(e.vars)
      /\ v.offset = l /\ l + v.card = Len(e.vals)
      /\ v.name = name
  BY <1>1, <1>2 DEF Extends
<1>4. v.card \in Nat /\ Len(e.vals) \in Nat
  BY <1>2, <1>3, DictFields
<1>5. e.vars[i].offset + e.vars[i].card <= Len(e.vals)
  BY <1>2, <1>3, <1>4
<1>6. r = Normalize(e, i)
  BY <1>3
<1>7. /\ r \in DictOver(Probabilities) /\ r.vars = e.vars
      /\ Len(r.vals) = Len(e.vals) /\ r.deleted = e.deleted /\ r.sorted = e.sorted
      /\ \A j \in 1 .. Len(e.vals) :
           /\ r.vals[j].value = e.vals[j].value
           /\ j \notin Segment(e.vars[i]) => r.vals[j] = e.vals[j]
  BY <1>3, <1>5, <1>6, NormalizeIs
<1>8. \A j \in 1 .. l : r.vals[j] = m.vals[j]
  <2>1. PICK c \in Nat, t \in Nat : c = v.card /\ t = Len(e.vals)
    BY <1>4
  <2>2. \A j \in 1 .. l : j \in 1 .. t /\ j \notin l + 1 .. l + c
    BY <1>3, <2>1
  <2>3. Segment(e.vars[i]) = l + 1 .. l + c
    BY <1>2, <1>3, <2>1 DEF Segment
  <2>4. \A j \in 1 .. l : e.vals[j] = m.vals[j]
    BY <1>1 DEF Extends
  <2>5. QED
    BY <1>7, <2>1, <2>2, <2>3, <2>4
<1>9. QED
  BY <1>1, <1>7, <1>8 DEF Extends

(* An iteration: the process may end; if not, md is longer by one variable. *)
LEMMA Add2MergedIs ==
  ASSUME NEW m, m = md, m \in DictOver(Probabilities), capacity \in Nat,
         NEW src, src \in Variable, NEW values, values \in Seq(Entry),
         NEW merge_v, merge_v \in Seq(Entry), Add2Merged(src, values, merge_v)
  PROVE  /\ phase' \in {"fatal", "overrun", "error", "merge"}
         /\ phase' # "merge" => md' = md /\ capacity' = capacity
         /\ phase' = "overrun" => capacity = 0
         /\ phase' = "merge" => 0 < capacity'
         /\ phase' = "merge" =>
              /\ src.offset + src.card <= Len(values)
              /\ Extends(m, md', src.name)
              /\ capacity' \in Nat /\ Len(md'.vals) <= capacity'
              /\ merge_v = <<>> => md' = Normalize(Copied(src, values), Len(m.vars) + 1)
<1>1. PICK acc : acc = Joined(src, values, merge_v)
  OBVIOUS
<1>2. /\ phase' \in {"fatal", "overrun", "error", "merge"}
      /\ phase' # "merge" => md' = md /\ capacity' = capacity
      /\ phase' = "overrun" => capacity = 0
      /\ phase' = "merge" =>
           /\ src.offset + 1 \in DOMAIN values
           /\ Segment(src) \subseteq DOMAIN values
           /\ capacity # 0
           /\ md' = Normalize(acc.d, Len(acc.d.vars))
           /\ capacity' = CapacityFor(Len(acc.d.vals))
  BY <1>1 DEF Add2Merged
<1>3. ASSUME phase' = "merge"
      PROVE  /\ Extends(m, md', src.name)
             /\ capacity' \in Nat \ {0} /\ Len(md'.vals) <= capacity'
             /\ merge_v = <<>> => md' = Normalize(Copied(src, values), Len(m.vars) + 1)
  <2>1. /\ Segment(src) \subseteq DOMAIN values
        /\ capacity \in Nat \ {0}
        /\ md' = Normalize(acc.d, Len(acc.d.vars))
        /\ capacity' = CapacityFor(Len(acc.d.vals))
    BY <1>2, <1>3
  <2>2. acc \in Joins(m, src.name) /\ (merge_v = <<>> => acc.d = Copied(src, values))
    BY <1>1, <2>1, JoinedIs
  <2>3. PICK e : e = acc.d
    OBVIOUS
  <2>4. e \in DictOver(Probabilities) /\ Extends(m, e, src.name)
    BY <2>2, <2>3, JoinsFields
  <2>5. PICK r : r = md'
    OBVIOUS
  <2>6. r = Normalize(e, Len(e.vars))
    BY <2>1, <2>3, <2>5
  <2>7. Extends(m, r, src.name)
    BY <2>4, <2>6, NormalizeExtends
  <2>8. Len(e.vals) \in Nat
    BY <2>4, DictFields
  <2>9. CapacityFor(Len(e.vals)) \in Nat \ {0} /\ CapacityFor(Len(e.vals)) >= Len(e.vals)
    BY <2>1, <2>8, GrownSuffices DEF CapacityFor
  <2>10. Len(r.vals) = Len(e.vals)
    <3>1. PICK i : i = Len(e.vars)
      OBVIOUS
    <3>2. i \in 1 .. Len(e.vars) /\ e.vars[i].offset + e.vars[i].card <= Len(e.vals)
      <4>1. PICK n \in Nat, l \in Nat : n = Len(m.vars) /\ l = Len(m.vals)
        BY DictFields
      <4>2. i = n + 1 /\ i \in 1 .. Len(e.vars)
        BY <2>4, <3>1, <4>1 DEF Extends
      <4>3. e.vars[i].offset = l /\ l + e.vars[i].card = Len(e.vals)
        BY <2>4, <4>1, <4>2 DEF Extends
      <4>4. QED
        BY <2>8, <4>2, <4>3
    <3>3. r = Normalize(e, i)
      BY <2>6, <3>1
    <3>4. QED
      BY <2>4, <3>2, <3>3, NormalizeIs
  <2>11. Len(e.vars) = Len(m.vars) + 1
    BY <2>4 DEF Extends
  <2>12. QED
    BY <2>1, <2>2, <2>3, <2>5, <2>6, <2>7, <2>8, <2>9, <2>10, <2>11
<1>4. ASSUME phase' = "merge"
      PROVE  src.offset + src.card <= Len(values)
  <2>1. src.offset + 1 \in DOMAIN values /\ Segment(src) \subseteq DOMAIN values
    BY <1>2, <1>4
  <2>2. PICK o \in Nat, c \in Nat, n \in Nat :
          o = src.offset /\ c = src.card /\ n = Len(values) /\ DOMAIN values = 1 .. n
    BY DEF Variable
  <2>3. o + 1 \in 1 .. n /\ o + 1 .. o + c \subseteq 1 .. n
    BY <2>1, <2>2 DEF Segment
  <2>4. CASE c = 0
    BY <2>2, <2>3, <2>4
  <2>5. CASE c # 0
    <3>1. o + c \in o + 1 .. o + c
      BY <2>5
    <3>2. o + c \in 1 .. n
      BY <2>3, <3>1
    <3>3. QED
      BY <2>2, <3>2
  <2>6. QED
    BY <2>4, <2>5
<1>5. QED
  BY <1>2, <1>3, <1>4

-----------------------------------------------------------------------------
(* The first l variables of a are in m, which is before all others of a. *)
Half(m, a, l) ==
  /\ l \in 0 .. Len(a.vars)
  /\ \A j \in 1 .. l : \E i \in 1 .. Len(m.vars) : m.vars[i].name = a.vars[j].name
  /\ \A i \in 1 .. Len(m.vars), j \in l + 1 .. Len(a.vars) : m.vars[i].name < a.vars[j].name

(* m has no other variables. *)
From(m, a, l, b, r) ==
  \A i \in 1 .. Len(m.vars) :
    \/ \E j \in 1 .. l : m.vars[i].name = a.vars[j].name
    \/ \E j \in 1 .. r : m.vars[i].name = b.vars[j].name

(* Those of the first l variables of a that J names are in m as they are in a. *)
CopiesMade(m, a, l, J) == \A j \in J : j <= l => \E i \in 1 .. Len(m.vars) : CopyOf(m, i, a, j)

(* The variables of a that b has not; those that a later one of b follows. *)
OwnOf(a, b) == {j \in 1 .. Len(a.vars) : \A k \in 1 .. Len(b.vars) : b.vars[k].name # a.vars[j].name}
Followed(a, b) == {j \in OwnOf(a, b) : \E k \in 1 .. Len(b.vars) : a.vars[j].name < b.vars[k].name}

(* What every iteration keeps, when l variables of a and r of b are done. *)
Loop(m, a, l, b, r) ==
  /\ IncreasingNames(m.vars)
  /\ Half(m, a, l) /\ Half(m, b, r)
  /\ From(m, a, l, b, r)
  /\ CopiesMade(m, a, l, OwnOf(a, b))
  /\ CopiesMade(m, b, r, Followed(b, a))

LEMMA ExtendedNames ==
  ASSUME NEW m, NEW e, NEW name, m \in DictOver(Probabilities), Extends(m, e, name)
  PROVE  /\ Len(m.vars) \in Nat /\ Len(e.vars) = Len(m.vars) + 1
         /\ \A i \in 1 .. Len(m.vars) : i \in 1 .. Len(e.vars) /\ e.vars[i].name = m.vars[i].name
         /\ Len(m.vars) + 1 \in 1 .. Len(e.vars) /\ e.vars[Len(m.vars) + 1].name = name
         /\ \A i \in 1 .. Len(e.vars) : i \in 1 .. Len(m.vars) \/ i = Len(m.vars) + 1
<1>1. Len(m.vars) \in Nat
  BY DictFields
<1>2. QED
  BY <1>1 DEF Extends

LEMMA HalfTaken ==
  ASSUME NEW m, NEW e, NEW a, NEW l, m \in DictOver(Probabilities), a \in DictOver(Probabilities),
         Half(m, a, l), l < Len(a.vars), IncreasingNames(a.vars),
         Extends(m, e, a.vars[l + 1].name)
  PROVE  Half(e, a, l + 1)
<1>1. PICK n \in Nat : n = Len(a.vars) /\ DOMAIN a.vars = 1 .. n
  BY DictFields
<1>2. l \in 0 .. n /\ l < n
  BY <1>1 DEF Half
<1>3. /\ Len(m.vars) \in Nat /\ Len(e.vars) = Len(m.vars) + 1
      /\ \A i \in 1 .. Len(m.vars) : i \in 1 .. Len(e.vars) /\ e.vars[i].name = m.vars[i].name
      /\ Len(m.vars) + 1 \in 1 .. Len(e.vars) /\ e.vars[Len(m.vars) + 1].name = a.vars[l + 1].name
      /\ \A i \in 1 .. Len(e.vars) : i \in 1 .. Len(m.vars) \/ i = Len(m.vars) + 1
  BY ExtendedNames
<1>4. \A j \in 1 .. l + 1 : \E i \in 1 .. Len(e.vars) : e.vars[i].name = a.vars[j].name
  <2>1. \A j \in 1 .. l + 1 : j \in 1 .. l \/ j = l + 1
    BY <1>2
  <2>2. \A j \in 1 .. l : \E i \in 1 .. Len(m.vars) : m.vars[i].name = a.vars[j].name
    BY DEF Half
  <2>3. QED
    BY <1>3, <2>1, <2>2
<1>5. \A i \in 1 .. Len(e.vars), j \in l + 2 .. n : e.vars[i].name < a.vars[j].name
  <2> SUFFICES ASSUME NEW i \in 1 .. Len(e.vars), NEW j \in l + 2 .. n
               PROVE  e.vars[i].name < a.vars[j].name
    OBVIOUS
  <2>1. j \in l + 1 .. n /\ l + 1 \in 1 .. n /\ j \in 1 .. n /\ l + 1 < j
    BY <1>2
  <2>2. a.vars[l + 1].name < a.vars[j].name
    BY <1>1, <2>1 DEF IncreasingNames
  <2>3. \A k \in 1 .. Len(m.vars) : m.vars[k].name < a.vars[j].name
    BY <1>1, <2>1 DEF Half
  <2>4. QED
    BY <1>3, <2>2, <2>3
<1>6. l + 1 \in 0 .. n /\ (l + 1) + 1 = l + 2
  BY <1>2
<1>7. QED
  BY <1>1, <1>4, <1>5, <1>6 DEF Half

LEMMA HalfPassed ==
  ASSUME NEW m, NEW e, NEW name, NEW a, NEW l, m \in DictOver(Probabilities), Half(m, a, l),
         Extends(m, e, name), \A j \in l + 1 .. Len(a.vars) : name < a.vars[j].name
  PROVE  Half(e, a, l)
<1>1. /\ Len(m.vars) \in Nat /\ Len(e.vars) = Len(m.vars) + 1
      /\ \A i \in 1 .. Len(m.vars) : i \in 1 .. Len(e.vars) /\ e.vars[i].name = m.vars[i].name
      /\ Len(m.vars) + 1 \in 1 .. Len(e.vars) /\ e.vars[Len(m.vars) + 1].name = name
      /\ \A i \in 1 .. Len(e.vars) : i \in 1 .. Len(m.vars) \/ i = Len(m.vars) + 1
  BY ExtendedNames
<1>2. \A j \in 1 .. l : \E i \in 1 .. Len(e.vars) : e.vars[i].name = a.vars[j].name
  BY <1>1 DEF Half
<1>3. \A i \in 1 .. Len(e.vars), j \in l + 1 .. Len(a.vars) : e.vars[i].name < a.vars[j].name
  <2> SUFFICES ASSUME NEW i \in 1 .. Len(e.vars), NEW j \in l + 1 .. Len(a.vars)
               PROVE  e.vars[i].name < a.vars[j].name
    OBVIOUS
  <2>1. \A k \in 1 .. Len(m.vars) : m.vars[k].name < a.vars[j].name
    BY DEF Half
  <2>2. QED
    BY <1>1, <2>1
<1>4. QED
  BY <1>2, <1>3 DEF Half

(* All names so far are below those that are left. *)
LEMMA NamesIncrease ==
  ASSUME NEW m, NEW e, NEW name, m \in DictOver(Probabilities), Extends(m, e, name),
         IncreasingNames(m.vars), \A i \in 1 .. Len(m.vars) : m.vars[i].name < name
  PROVE  IncreasingNames(e.vars)
<1>1. PICK n \in Nat : n = Len(m.vars) /\ DOMAIN m.vars = 1 .. n
  BY DictFields
<1>2. /\ Len(e.vars) = n + 1
      /\ \A i \in 1 .. n : e.vars[i].name = m.vars[i].name
      /\ e.vars[n + 1].name = name
      /\ DOMAIN e.vars = 1 .. n + 1
  <2>1. e \in DictOver(Probabilities)
    BY DEF Extends
  <2>2. DOMAIN e.vars = 1 .. Len(e.vars)
    BY <2>1, DictFields
  <2>3. QED
    BY <1>1, <2>2, ExtendedNames
<1>3. SUFFICES ASSUME NEW i \in 1 .. n + 1, NEW k \in 1 .. n + 1, i < k
               PROVE  e.vars[i].name < e.vars[k].name
  BY <1>2 DEF IncreasingNames
<1>4. CASE k = n + 1
  BY <1>1, <1>2, <1>3, <1>4
<1>5. CASE k # n + 1
  <2>1. i \in 1 .. n /\ k \in 1 .. n
    BY <1>3, <1>5
  <2>2. m.vars[i].name < m.vars[k].name
    BY <1>1, <1>3, <2>1 DEF IncreasingNames
  <2>3. QED
    BY <1>2, <2>1, <2>2
<1>6. QED
  BY <1>4, <1>5

LEMMA FromGrows ==
  ASSUME NEW m, NEW e, NEW name, m \in DictOver(Probabilities), Extends(m, e, name),
         NEW a, NEW b, NEW l, NEW r, NEW x, NEW y, l \in Nat, r \in Nat, x \in {l, l + 1}, y \in {r, r + 1},
         From(m, a, l, b, r),
         (x = l + 1 /\ a.vars[x].name = name) \/ (y = r + 1 /\ b.vars[y].name = name)
  PROVE  From(e, a, x, b, y)
<1>1. /\ \A i \in 1 .. Len(m.vars) : e.vars[i].name = m.vars[i].name
      /\ e.vars[Len(m.vars) + 1].name = name
      /\ \A i \in 1 .. Len(e.vars) : i \in 1 .. Len(m.vars) \/ i = Len(m.vars) + 1
  BY ExtendedNames
<1>2. /\ \A j \in 1 .. l : j \in 1 .. x
      /\ \A j \in 1 .. r : j \in 1 .. y
      /\ x = l + 1 => x \in 1 .. x
      /\ y = r + 1 => y \in 1 .. y
  OBVIOUS
<1>3. ASSUME NEW i \in 1 .. Len(m.vars)
      PROVE  \/ \E j \in 1 .. x : e.vars[i].name = a.vars[j].name
             \/ \E j \in 1 .. y : e.vars[i].name = b.vars[j].name
  BY <1>1, <1>2 DEF From
<1>4. \/ \E j \in 1 .. x : name = a.vars[j].name
      \/ \E j \in 1 .. y : name = b.vars[j].name
  BY <1>2
<1>5. QED
  BY <1>1, <1>3, <1>4 DEF From

(* What was copied stays. *)
LEMMA CopyStays ==
  ASSUME NEW m, NEW e, NEW name, m \in DictOver(Probabilities), Extends(m, e, name), Inside(m),
         NEW i, i \in 1 .. Len(m.vars), NEW a, NEW j, CopyOf(m, i, a, j)
  PROVE  CopyOf(e, i, a, j)
<1>1. PICK v : v = m.vars[i]
  OBVIOUS
<1>2. PICK o \in Nat, c \in Nat, t \in Nat : o = v.offset /\ c = v.card /\ t = Len(m.vals) /\ o + c <= t
  <2>1. v.offset \in Nat /\ v.card \in Nat /\ Len(m.vals) \in Nat /\ i \in DOMAIN m.vars
    BY <1>1, DictFields
  <2>2. v.offset + v.card <= Len(m.vals)
    BY <1>1, <2>1 DEF Inside
  <2>3. QED
    BY <2>1, <2>2
<1>3. e.vars[i] = v
  BY <1>1 DEF Extends
<1>4. \A k \in 1 .. c : e.vals[o + k] = m.vals[o + k]
  <2>1. \A k \in 1 .. c : o + k \in 1 .. t
    BY <1>2
  <2>2. QED
    BY <1>2, <2>1 DEF Extends
<1>5. QED
  BY <1>1, <1>2, <1>3, <1>4 DEF CopyOf

LEMMA CopiesGrow ==
  ASSUME NEW m, NEW e, NEW name, m \in DictOver(Probabilities), Extends(m, e, name), Inside(m),
         NEW a, NEW l, NEW x, NEW J, l \in Nat, x \in {l, l + 1}, J \subseteq Nat,
         CopiesMade(m, a, l, J),
         x = l + 1 /\ x \in J => CopyOf(e, Len(m.vars) + 1, a, x)
  PROVE  CopiesMade(e, a, x, J)
<1>1. SUFFICES ASSUME NEW j \in J, j <= x
               PROVE  \E i \in 1 .. Len(e.vars) : CopyOf(e, i, a, j)
  BY DEF CopiesMade
<1>2. CASE j <= l
  <2>1. PICK i \in 1 .. Len(m.vars) : CopyOf(m, i, a, j)
    BY <1>2 DEF CopiesMade
  <2>2. CopyOf(e, i, a, j)
    BY <2>1, CopyStays
  <2>3. i \in 1 .. Len(e.vars)
    BY ExtendedNames
  <2>4. QED
    BY <2>2, <2>3
<1>3. CASE ~(j <= l)
  <2>1. x = l + 1 /\ j = x
    BY <1>1, <1>3
  <2>2. Len(m.vars) + 1 \in 1 .. Len(e.vars)
    BY ExtendedNames
  <2>3. QED
    BY <2>1, <2>2
<1>4. QED
  BY <1>2, <1>3

(* A variable that is copied from the vector it belongs to keeps its        *)
(* distribution: its values still sum to one, there is nothing to normalize. *)
LEMMA CopyMade ==
  ASSUME NEW m, m = md, m \in DictOver(Probabilities), NEW a, a \in DictOver(Probabilities),
         NEW j, j \in 1 .. Len(a.vars), Total(a, a.vars[j]) \in {One, NaN},
         a.vars[j].offset + a.vars[j].card <= Len(a.vals),
         NEW e, e = Normalize(Copied(a.vars[j], a.vals), Len(m.vars) + 1)
  PROVE  CopyOf(e, Len(m.vars) + 1, a, j)
<1>1. PICK src, values, c, i :
        src = a.vars[j] /\ values = a.vals /\ c = Copied(src, values) /\ i = Len(m.vars) + 1
  OBVIOUS
<1>2. /\ src \in Variable /\ values \in Seq(Entry)
      /\ Segment(src) \subseteq DOMAIN values
      /\ src.offset + src.card <= Len(values)
  <2>1. /\ src \in Variable /\ values \in Seq(Entry) /\ DOMAIN values = 1 .. Len(values)
        /\ src.offset \in Nat /\ src.card \in Nat /\ Len(values) \in Nat
    BY <1>1, DictFields DEF Entry
  <2>2. src.offset + src.card <= Len(values)
    BY <1>1
  <2>3. src.offset + 1 .. src.offset + src.card \subseteq 1 .. Len(values)
    BY <2>1, <2>2
  <2>4. QED
    BY <2>1, <2>2, <2>3 DEF Segment
<1>3. /\ Extends(m, c, src.name)
      /\ c.vars[Len(m.vars) + 1].card = src.card
      /\ \A k \in 1 .. src.card : c.vals[Len(m.vals) + k] = values[src.offset + k]
  BY <1>1, <1>2, CopiedIs
<1>4. PICK w : w = c.vars[i]
  OBVIOUS
<1>5. /\ c \in DictOver(Probabilities) /\ i \in 1 .. Len(c.vars)
      /\ w.name = src.name /\ w.offset = Len(m.vals) /\ w.card = src.card
      /\ Len(m.vals) + w.card = Len(c.vals)
      /\ \A k \in 1 .. w.card : c.vals[w.offset + k] = values[src.offset + k]
  <2>1. c \in DictOver(Probabilities)
    BY <1>3 DEF Extends
  <2>2. i \in 1 .. Len(c.vars) /\ w.name = src.name
    BY <1>1, <1>3, <1>4, ExtendedNames
  <2>3. w.offset = Len(m.vals) /\ Len(m.vals) + w.card = Len(c.vals)
    BY <1>1, <1>3, <1>4 DEF Extends
  <2>4. w.card = src.card
    BY <1>1, <1>3, <1>4
  <2>5. QED
    BY <1>3, <2>1, <2>2, <2>3, <2>4
<1>6. w \in Variable /\ w.offset + w.card <= Len(c.vals)
  <2>1. w \in Variable /\ Len(c.vals) \in Nat
    BY <1>4, <1>5, DictFields
  <2>2. QED
    BY <1>5, <2>1
<1>7. Total(c, w) = Total(a, src)
  <2>1. \A k \in 1 .. w.card : c.vals[w.offset + k] = a.vals[src.offset + k]
    BY <1>1, <1>5
  <2>2. src.offset + src.card <= Len(a.vals)
    BY <1>1
  <2>3. QED
    BY <1>2, <1>5, <1>6, <2>1, <2>2, TotalSame
<1>8. e = c
  <2>1. e = Normalize(c, i)
    BY <1>1
  <2>2. Total(c, c.vars[i]) \in {One, NaN}
    BY <1>1, <1>4, <1>7
  <2>3. QED
    BY <2>1, <2>2 DEF Normalize
<1>9. QED
  BY <1>1, <1>4, <1>5, <1>8 DEF CopyOf

LEMMA InsideExtends ==
  ASSUME NEW m, NEW e, NEW name, m \in DictOver(Probabilities), Inside(m), Extends(m, e, name)
  PROVE  Inside(e)
<1>1. PICK t \in Nat : t = Len(m.vals)
  BY DictFields
<1>2. e \in DictOver(Probabilities)
  BY DEF Extends
<1>3. DOMAIN e.vars = 1 .. Len(e.vars) /\ DOMAIN m.vars = 1 .. Len(m.vars) /\ Len(e.vals) \in Nat
  BY <1>2, DictFields
<1>4. PICK n : n = Len(m.vars) + 1
  OBVIOUS
<1>5. /\ n \in 1 .. Len(e.vars)
      /\ \A i \in 1 .. Len(e.vars) : i \in 1 .. Len(m.vars) \/ i = n
  BY <1>4, ExtendedNames
<1>6. e.vars[n].card \in Nat
  BY <1>2, <1>5, DictFields
<1>7. e.vars[n].offset = t /\ t + e.vars[n].card = Len(e.vals)
  BY <1>1, <1>4 DEF Extends
<1>8. ASSUME NEW i \in 1 .. Len(m.vars)
      PROVE  e.vars[i].offset + e.vars[i].card <= Len(e.vals)
  <2>1. e.vars[i] = m.vars[i] /\ m.vars[i].offset \in Nat /\ m.vars[i].card \in Nat
    BY DictFields DEF Extends
  <2>2. m.vars[i].offset + m.vars[i].card <= t
    BY <1>1, <1>3 DEF Inside
  <2>3. t <= Len(e.vals)
    BY <1>3, <1>6, <1>7
  <2>4. PICK o \in Nat, c \in Nat, z \in Nat :
          o = m.vars[i].offset /\ c = m.vars[i].card /\ z = Len(e.vals)
    BY <1>3, <2>1
  <2>5. o + c <= z
    BY <2>2, <2>3, <2>4
  <2>6. QED
    BY <2>1, <2>4, <2>5
<1>9. e.vars[n].offset + e.vars[n].card <= Len(e.vals)
  BY <1>6, <1>7
<1>10. QED
  BY <1>3, <1>5, <1>8, <1>9 DEF Inside

-----------------------------------------------------------------------------
(* The iterations: the variable with the smaller name is taken. *)
Ready(d) ==
  /\ d \in DictOver(Probabilities) /\ d.sorted /\ IncreasingNames(d.vars) /\ Inside(d)
  /\ \A i \in 1 .. Len(d.vars) : Total(d, d.vars[i]) \in {One, NaN}

(* What takes a variable of a whose name is below those left in b. *)
LEMMA TakenFirst ==
  ASSUME NEW m, NEW e, NEW a, NEW b, NEW l, NEW r, m \in DictOver(Probabilities), Ready(a), Ready(b),
         IncreasingNames(m.vars), Half(m, a, l), Half(m, b, r), l < Len(a.vars),
         Extends(m, e, a.vars[l + 1].name),
         r < Len(b.vars) => a.vars[l + 1].name < b.vars[r + 1].name
  PROVE  IncreasingNames(e.vars) /\ Half(e, a, l + 1) /\ Half(e, b, r)
<1>1. PICK n \in Nat, k \in Nat :
        n = Len(a.vars) /\ DOMAIN a.vars = 1 .. n /\ k = Len(b.vars) /\ DOMAIN b.vars = 1 .. k
  BY DictFields DEF Ready
<1>2. l \in 0 .. n /\ r \in 0 .. k /\ l < n
  BY <1>1 DEF Half
<1>3. l + 1 \in l + 1 .. n
  BY <1>2
<1>4. IncreasingNames(e.vars)
  <2>1. \A i \in 1 .. Len(m.vars) : m.vars[i].name < a.vars[l + 1].name
    BY <1>1, <1>3 DEF Half
  <2>2. QED
    BY <2>1, NamesIncrease
<1>5. Half(e, a, l + 1)
  BY HalfTaken DEF Ready
<1>6. Half(e, b, r)
  <2>1. ASSUME NEW j \in r + 1 .. Len(b.vars)
        PROVE  a.vars[l + 1].name < b.vars[j].name
    <3>1. r < k /\ r + 1 \in 1 .. k /\ j \in 1 .. k /\ (j = r + 1 \/ r + 1 < j) /\ l + 1 \in 1 .. n
      BY <1>1, <1>2
    <3>2. j = r + 1 \/ b.vars[r + 1].name < b.vars[j].name
      BY <1>1, <3>1 DEF Ready, IncreasingNames
    <3>3. a.vars[l + 1].name \in Nat /\ b.vars[r + 1].name \in Nat /\ b.vars[j].name \in Nat
      BY <1>1, <3>1, DictFields DEF Ready
    <3>4. QED
      BY <1>1, <3>1, <3>2, <3>3
  <2>2. QED
    BY <2>1, HalfPassed
<1>7. QED
  BY <1>4, <1>5, <1>6

LEMMA TakeLeft ==
  ASSUME NEW m, NEW e, NEW a, NEW b, NEW l, NEW r, m \in DictOver(Probabilities), Inside(m),
         Ready(a), Ready(b), Loop(m, a, l, b, r), l < Len(a.vars),
         Extends(m, e, a.vars[l + 1].name),
         r < Len(b.vars) => a.vars[l + 1].name < b.vars[r + 1].name,
         CopyOf(e, Len(m.vars) + 1, a, l + 1)
  PROVE  Loop(e, a, l + 1, b, r)
<1>1. IncreasingNames(e.vars) /\ Half(e, a, l + 1) /\ Half(e, b, r)
  BY TakenFirst DEF Loop
<1>2. l \in Nat /\ r \in Nat
  BY DEF Loop, Half
<1>3. From(e, a, l + 1, b, r)
  BY <1>2, FromGrows DEF Loop
<1>4. OwnOf(a, b) \subseteq Nat /\ Followed(b, a) \subseteq Nat
  BY DEF OwnOf, Followed
<1>5. CopiesMade(e, a, l + 1, OwnOf(a, b))
  BY <1>2, <1>4, CopiesGrow DEF Loop
<1>6. CopiesMade(e, b, r, Followed(b, a))
  <2>1. r \in {r, r + 1} /\ r # r + 1
    BY <1>2
  <2>2. QED
    BY <1>2, <1>4, <2>1, CopiesGrow DEF Loop
<1>7. QED
  BY <1>1, <1>3, <1>5, <1>6 DEF Loop

(* Behind the last variable of the left dictionary, no variable is followed *)
(* by one of it.                                                            *)
LEMMA TakeRight ==
  ASSUME NEW m, NEW e, NEW a, NEW b, NEW l, NEW r, m \in DictOver(Probabilities), Inside(m),
         Ready(a), Ready(b), Loop(m, a, l, b, r), r < Len(b.vars),
         Extends(m, e, b.vars[r + 1].name),
         l < Len(a.vars) => b.vars[r + 1].name < a.vars[l + 1].name,
         l < Len(a.vars) => CopyOf(e, Len(m.vars) + 1, b, r + 1)
  PROVE  Loop(e, a, l, b, r + 1)
<1>1. IncreasingNames(e.vars) /\ Half(e, b, r + 1) /\ Half(e, a, l)
  BY TakenFirst DEF Loop
<1>2. l \in Nat /\ r \in Nat
  BY DEF Loop, Half
<1>3. From(e, a, l, b, r + 1)
  BY <1>2, FromGrows DEF Loop
<1>4. OwnOf(a, b) \subseteq Nat /\ Followed(b, a) \subseteq Nat
  BY DEF OwnOf, Followed
<1>5. CopiesMade(e, a, l, OwnOf(a, b))
  <2>1. l \in {l, l + 1} /\ l # l + 1
    BY <1>2
  <2>2. QED
    BY <1>2, <1>4, <2>1, CopiesGrow DEF Loop
<1>6. r + 1 \in Followed(b, a) => CopyOf(e, Len(m.vars) + 1, b, r + 1)
  <2>1. PICK n \in Nat : n = Len(a.vars)
    BY DictFields DEF Ready
  <2>2. CASE l < Len(a.vars)
    BY <2>2
  <2>3. CASE ~(l < Len(a.vars))
    <3>1. l = n
      BY <2>1, <2>3 DEF Loop, Half
    <3>2. ASSUME NEW k \in 1 .. Len(a.vars)
          PROVE  ~(b.vars[r + 1].name < a.vars[k].name)
      <4>1. PICK i \in 1 .. Len(m.vars) : m.vars[i].name = a.vars[k].name
        BY <2>1, <3>1 DEF Loop, Half
      <4>2. r + 1 \in r + 1 .. Len(b.vars)
        <5>1. Len(b.vars) \in Nat
          BY DictFields DEF Ready
        <5>2. QED
          BY <1>2, <5>1
      <4>3. m.vars[i].name < b.vars[r + 1].name
        BY <4>2 DEF Loop, Half
      <4>4. m.vars[i].name \in Nat
        BY DictFields
      <4>5. b.vars[r + 1].name \in Nat
        <5>1. r + 1 \in 1 .. Len(b.vars)
          BY <1>2, <4>2
        <5>2. QED
          BY <5>1, DictFields DEF Ready
      <4>6. QED
        BY <4>1, <4>3, <4>4, <4>5
    <3>3. QED
      BY <3>2 DEF Followed
  <2>4. QED
    BY <2>2, <2>3
<1>7. CopiesMade(e, b, r + 1, Followed(b, a))
  BY <1>2, <1>4, <1>6, CopiesGrow DEF Loop
<1>8. QED
  BY <1>1, <1>3, <1>5, <1>7 DEF Loop

LEMMA TakeBoth ==
  ASSUME NEW m, NEW e, NEW a, NEW b, NEW l, NEW r, m \in DictOver(Probabilities), Inside(m),
         Ready(a), Ready(b), Loop(m, a, l, b, r), l < Len(a.vars), r < Len(b.vars),
         Extends(m, e, a.vars[l + 1].name), a.vars[l + 1].name = b.vars[r + 1].name
  PROVE  Loop(e, a, l + 1, b, r + 1)
<1>1. Half(e, a, l + 1) /\ Half(e, b, r + 1)
  <2>1. Half(e, a, l + 1)
    BY HalfTaken DEF Ready, Loop
  <2>2. Extends(m, e, b.vars[r + 1].name)
    OBVIOUS
  <2>3. Half(e, b, r + 1)
    BY <2>2, HalfTaken DEF Ready, Loop
  <2>4. QED
    BY <2>1, <2>3
<1>2. l \in Nat /\ r \in Nat /\ Len(a.vars) \in Nat /\ Len(b.vars) \in Nat
  BY DictFields DEF Loop, Half, Ready
<1>3. l + 1 \in l + 1 .. Len(a.vars) /\ l + 1 \in 1 .. Len(a.vars) /\ r + 1 \in 1 .. Len(b.vars)
  BY <1>2
<1>4. IncreasingNames(e.vars)
  <2>1. \A i \in 1 .. Len(m.vars) : m.vars[i].name < a.vars[l + 1].name
    BY <1>3 DEF Loop, Half
  <2>2. QED
    BY <2>1, NamesIncrease DEF Loop
<1>5. From(e, a, l + 1, b, r + 1)
  BY <1>2, FromGrows DEF Loop
<1>6. /\ OwnOf(a, b) \subseteq Nat /\ Followed(b, a) \subseteq Nat
      /\ l + 1 \notin OwnOf(a, b) /\ r + 1 \notin Followed(b, a)
  BY <1>3 DEF OwnOf, Followed
<1>7. CopiesMade(e, a, l + 1, OwnOf(a, b))
  BY <1>2, <1>6, CopiesGrow DEF Loop
<1>8. CopiesMade(e, b, r + 1, Followed(b, a))
  BY <1>2, <1>6, CopiesGrow DEF Loop
<1>9. QED
  BY <1>1, <1>4, <1>5, <1>7, <1>8 DEF Loop

-----------------------------------------------------------------------------
(* The inductive invariant.  The counters move on even when the iteration   *)
(* ends the process; the vectors of the result are intact in any case.      *)
MergeInv ==
  /\ phase \in {"start", "merge", "done", "error", "fatal", "overrun"}
  /\ md \in DictOver(Probabilities) /\ Inside(md)
  /\ lvar_i \in 0 .. lvars /\ rvar_i \in 0 .. rvars
  /\ phase = "start" => ld \in Dicts /\ rd \in Dicts /\ md = EmptyDict /\ lvar_i = 0 /\ rvar_i = 0
  /\ phase # "start" => Ready(ld) /\ Ready(rd)
  /\ phase \in {"merge", "done"} =>
       capacity \in Nat /\ Len(md.vals) <= capacity /\ Loop(md, ld, lvar_i, rd, rvar_i)
  /\ phase = "done" => lvar_i = lvars /\ rvar_i = rvars /\ md.sorted

LEMMA DictsRead ==
  ASSUME NEW d, d \in Dicts
  PROVE  /\ d \in DictOver(Probabilities)
         /\ NamesDiffer(d.vars) /\ (d.sorted => IncreasingNames(d.vars)) /\ Inside(d)
         /\ \A i \in 1 .. Len(d.vars) : Total(d, d.vars[i]) \in {One, NaN}
<1>1. d \in DictOver(Probabilities)
  BY DictsAssumption
<1>2. DOMAIN d.vars = 1 .. Len(d.vars)
  BY <1>1, DictFields
<1>3. QED
  BY <1>1, <1>2, DictsAssumption

(* bdd_dictionary_sort makes an argument ready. *)
LEMMA SortReady ==
  ASSUME NEW d, NEW e, d \in Dicts, e = Sort(d)
  PROVE  Ready(e)
<1>1. /\ d \in DictOver(Probabilities)
      /\ NamesDiffer(d.vars) /\ (d.sorted => IncreasingNames(d.vars)) /\ Inside(d)
      /\ \A i \in 1 .. Len(d.vars) : Total(d, d.vars[i]) \in {One, NaN}
  BY DictsRead
<1>2. /\ e \in DictOver(Probabilities) /\ e.vals = d.vals
      /\ e.sorted /\ IncreasingNames(e.vars) /\ Len(e.vars) = Len(d.vars)
      /\ VariablesFrom(d, e)
  BY <1>1, SortIs
<1>3. ASSUME NEW i \in 1 .. Len(e.vars)
      PROVE  Total(e, e.vars[i]) \in {One, NaN}
  <2>1. PICK k \in 1 .. Len(d.vars) : e.vars[i] = d.vars[k]
    BY <1>2 DEF VariablesFrom
  <2>2. Total(e, e.vars[i]) = Total(d, d.vars[k])
    BY <1>2, <2>1 DEF Total
  <2>3. QED
    BY <1>1, <2>2
<1>4. Inside(e)
  <2>1. DOMAIN d.vars = 1 .. Len(d.vars) /\ DOMAIN e.vars = 1 .. Len(e.vars)
    BY <1>1, <1>2, DictFields
  <2>2. SUFFICES ASSUME NEW i \in 1 .. Len(e.vars)
                 PROVE  e.vars[i].offset + e.vars[i].card <= Len(e.vals)
    BY <2>1 DEF Inside
  <2>3. PICK k \in 1 .. Len(d.vars) : e.vars[i] = d.vars[k]
    BY <1>2 DEF VariablesFrom
  <2>4. d.vars[k].offset + d.vars[k].card <= Len(d.vals)
    BY <1>1, <2>1 DEF Inside
  <2>5. QED
    BY <1>2, <2>3, <2>4
<1>5. QED
  BY <1>2, <1>3, <1>4 DEF Ready

LEMMA EmptyIs ==
  /\ EmptyDict \in DictOver(Probabilities) /\ Inside(EmptyDict)
  /\ Len(EmptyDict.vars) = 0 /\ Len(EmptyDict.vals) = 0 /\ DOMAIN EmptyDict.vars = {}
<1>1. /\ EmptyDict.vars = <<>> /\ EmptyDict.vals = <<>>
      /\ EmptyDict.deleted = 0 /\ EmptyDict.sorted = FALSE
  BY DEF EmptyDict
<1>2. Len(EmptyDict.vars) = 0 /\ Len(EmptyDict.vals) = 0 /\ DOMAIN EmptyDict.vars = {}
  BY <1>1
<1>3. EmptyDict \in DictOver(Probabilities)
  <2>1. <<>> \in Seq(Variable) /\ <<>> \in Seq([value: Nat, prob: Probabilities])
    OBVIOUS
  <2>2. QED
    BY <2>1 DEF EmptyDict, DictOver
<1>4. QED
  BY <1>2, <1>3 DEF Inside

LEMMA LoopBegins ==
  ASSUME NEW a, NEW b, Ready(a), Ready(b)
  PROVE  Loop(EmptyDict, a, 0, b, 0)
<1>1. Len(a.vars) \in Nat /\ Len(b.vars) \in Nat
  BY DictFields DEF Ready
<1>2. IncreasingNames(EmptyDict.vars)
  BY EmptyIs DEF IncreasingNames
<1>3. Half(EmptyDict, a, 0) /\ Half(EmptyDict, b, 0)
  BY <1>1, EmptyIs DEF Half
<1>4. From(EmptyDict, a, 0, b, 0)
  BY EmptyIs DEF From
<1>5. CopiesMade(EmptyDict, a, 0, OwnOf(a, b)) /\ CopiesMade(EmptyDict, b, 0, Followed(b, a))
  BY DEF CopiesMade, OwnOf, Followed
<1>6. QED
  BY <1>2, <1>3, <1>4, <1>5 DEF Loop

LEMMA InitInv == Init => MergeInv
<1> SUFFICES ASSUME Init PROVE MergeInv
  OBVIOUS
<1>1. phase = "start" /\ ld \in Dicts /\ rd \in Dicts /\ md = EmptyDict /\ lvar_i = 0 /\ rvar_i = 0
  BY DEF Init
<1>2. lvars \in Nat /\ rvars \in Nat
  BY <1>1, DictsRead, DictFields DEF lvars, rvars
<1>3. QED
  BY <1>1, <1>2, EmptyIs DEF MergeInv

LEMMA StartInv ==
  ASSUME MergeInv, Start
  PROVE  MergeInv'
<1>1. PICK a, b : a = ld' /\ b = rd'
  OBVIOUS
<1>2. /\ ld \in Dicts /\ rd \in Dicts /\ md = EmptyDict /\ lvar_i = 0 /\ rvar_i = 0
      /\ a = Sort(ld) /\ b = Sort(rd)
      /\ md' = EmptyDict /\ lvar_i' = 0 /\ rvar_i' = 0
  BY <1>1 DEF Start, MergeInv
<1>3. Ready(a) /\ Ready(b)
  BY <1>2, SortReady
<1>4. /\ phase' \in {"error", "merge"}
      /\ phase' = "merge" => capacity' \in Nat
  <2>1. /\ Len(ld.vals) \in Nat /\ ld.deleted \in Nat /\ Len(rd.vals) \in Nat /\ rd.deleted \in Nat
    BY <1>2, DictsRead, DictFields
  <2>2. PICK room \in Int : room = Room(ld) + Room(rd)
    BY <2>1 DEF Room
  <2>3. capacity' = room /\ phase' = IF room < 0 THEN "error" ELSE "merge"
    BY <2>2 DEF Start
  <2>4. QED
    BY <2>3
<1>5. Loop(EmptyDict, a, 0, b, 0)
  BY <1>3, LoopBegins
<1>6. Len(a.vars) \in Nat /\ Len(b.vars) \in Nat
  BY <1>3, DictFields DEF Ready
<1>7. 0 \in 0 .. Len(a.vars) /\ 0 \in 0 .. Len(b.vars)
  BY <1>6
<1>8. phase' = "merge" => capacity' \in Nat /\ Len(md'.vals) <= capacity'
  BY <1>2, <1>4, EmptyIs
<1>9. QED
  BY <1>1, <1>2, <1>3, <1>4, <1>5, <1>7, <1>8, EmptyIs DEF MergeInv, lvars, rvars

(* What the invariant says inside the loop, and what an iteration needs to  *)
(* keep it.                                                                 *)
LEMMA InLoop ==
  ASSUME MergeInv, Merging
  PROVE  /\ md \in DictOver(Probabilities) /\ Inside(md) /\ Ready(ld) /\ Ready(rd)
         /\ capacity \in Nat /\ Loop(md, ld, lvar_i, rd, rvar_i)
         /\ Len(ld.vars) \in Nat /\ Len(rd.vars) \in Nat
         /\ lvar_i \in 0 .. Len(ld.vars) /\ rvar_i \in 0 .. Len(rd.vars)
         /\ ld.vals \in Seq(Entry) /\ rd.vals \in Seq(Entry)
         /\ <<>> \in Seq(Entry)
<1>1. /\ md \in DictOver(Probabilities) /\ Inside(md) /\ Ready(ld) /\ Ready(rd)
      /\ capacity \in Nat /\ Loop(md, ld, lvar_i, rd, rvar_i)
      /\ lvar_i \in 0 .. Len(ld.vars) /\ rvar_i \in 0 .. Len(rd.vars)
  BY DEF MergeInv, Merging, lvars, rvars
<1>2. /\ Len(ld.vars) \in Nat /\ Len(rd.vars) \in Nat
      /\ ld.vals \in Seq(Entry) /\ rd.vals \in Seq(Entry)
  BY <1>1, DictFields DEF Ready, Entry
<1>3. QED
  BY <1>1, <1>2

LEMMA IterationInv ==
  ASSUME MergeInv, Merging, UNCHANGED <<ld, rd>>,
         phase' \in {"fatal", "overrun", "error", "merge"},
         lvar_i' \in 0 .. lvars, rvar_i' \in 0 .. rvars,
         phase' # "merge" => md' = md,
         phase' = "merge" =>
           /\ md' \in DictOver(Probabilities) /\ Inside(md')
           /\ capacity' \in Nat /\ Len(md'.vals) <= capacity'
           /\ Loop(md', ld, lvar_i', rd, rvar_i')
  PROVE  MergeInv'
<1>1. md \in DictOver(Probabilities) /\ Inside(md) /\ Ready(ld) /\ Ready(rd)
  BY InLoop
<1>2. md' \in DictOver(Probabilities) /\ Inside(md')
  <2>1. CASE phase' = "merge"
    BY <2>1
  <2>2. CASE phase' # "merge"
    <3>1. PICK m : m = md
      OBVIOUS
    <3>2. md' = m /\ m \in DictOver(Probabilities) /\ Inside(m)
      BY <1>1, <2>2, <3>1
    <3>3. QED
      BY <3>2
  <2>3. QED
    BY <2>1, <2>2
<1>3. lvars' = lvars /\ rvars' = rvars
  BY DEF lvars, rvars
<1>4. QED
  BY <1>1, <1>2, <1>3 DEF MergeInv

LEMMA VarsRead ==
  ASSUME NEW d, Ready(d), NEW i, i \in 0 .. Len(d.vars), i < Len(d.vars)
  PROVE  /\ d \in DictOver(Probabilities) /\ i + 1 \in 1 .. Len(d.vars)
         /\ d.vars[i + 1] \in Variable
         /\ Total(d, d.vars[i + 1]) \in {One, NaN}
         /\ i + 1 \in 0 .. Len(d.vars)
<1>1. d \in DictOver(Probabilities) /\ Len(d.vars) \in Nat
  BY DictFields DEF Ready
<1>2. i + 1 \in 1 .. Len(d.vars) /\ i + 1 \in 0 .. Len(d.vars)
  BY <1>1
<1>3. QED
  BY <1>1, <1>2, DictFields DEF Ready

(* The three actions that take a variable of the left dictionary or of the  *)
(* right one, and the one that takes a variable of both.                    *)
LEMMA LeftInv ==
  ASSUME MergeInv, LeftRest \/ LeftFirst
  PROVE  MergeInv'
<1>1. /\ Merging /\ lvar_i < lvars
      /\ Add2Merged(lvar, ld.vals, <<>>)
      /\ lvar_i' = lvar_i + 1
      /\ UNCHANGED <<ld, rd, rvar_i>>
      /\ rvar_i < rvars => lvar.name < rvar.name
  <2>1. CASE LeftRest
    <3>1. rvars \in Nat
      BY <2>1, InLoop DEF LeftRest, rvars
    <3>2. QED
      BY <2>1, <3>1 DEF LeftRest
  <2>2. CASE LeftFirst
    BY <2>2 DEF LeftFirst, Both
  <2>3. QED
    BY <2>1, <2>2
<1>2. PICK m, e, a, b, l, r, src :
        m = md /\ e = md' /\ a = ld /\ b = rd /\ l = lvar_i /\ r = rvar_i /\ src = a.vars[l + 1]
  OBVIOUS
<1>3. /\ m \in DictOver(Probabilities) /\ Inside(m) /\ Ready(a) /\ Ready(b)
      /\ capacity \in Nat /\ Loop(m, a, l, b, r)
      /\ l \in 0 .. Len(a.vars) /\ r \in 0 .. Len(b.vars)
      /\ a.vals \in Seq(Entry) /\ <<>> \in Seq(Entry)
  BY <1>1, <1>2, InLoop
<1>4. l < Len(a.vars) /\ (r < Len(b.vars) => a.vars[l + 1].name < b.vars[r + 1].name)
  BY <1>1, <1>2 DEF lvars, rvars, lvar, rvar
<1>5. /\ a \in DictOver(Probabilities) /\ l + 1 \in 1 .. Len(a.vars) /\ src \in Variable
      /\ Total(a, a.vars[l + 1]) \in {One, NaN} /\ l + 1 \in 0 .. Len(a.vars)
  BY <1>2, <1>3, <1>4, VarsRead
<1>6. Add2Merged(src, a.vals, <<>>)
  BY <1>1, <1>2 DEF lvar
<1>7. /\ phase' \in {"fatal", "overrun", "error", "merge"}
      /\ phase' # "merge" => e = m
      /\ phase' = "merge" =>
           /\ src.offset + src.card <= Len(a.vals)
           /\ Extends(m, e, src.name)
           /\ capacity' \in Nat /\ Len(e.vals) <= capacity'
           /\ e = Normalize(Copied(src, a.vals), Len(m.vars) + 1)
  BY <1>2, <1>3, <1>5, <1>6, Add2MergedIs
<1>8. ASSUME phase' = "merge"
      PROVE  e \in DictOver(Probabilities) /\ Inside(e) /\ Loop(e, a, l + 1, b, r)
  <2>1. Extends(m, e, a.vars[l + 1].name)
    BY <1>2, <1>7, <1>8
  <2>2. CopyOf(e, Len(m.vars) + 1, a, l + 1)
    BY <1>2, <1>3, <1>5, <1>7, <1>8, CopyMade
  <2>3. Loop(e, a, l + 1, b, r)
    BY <1>3, <1>4, <2>1, <2>2, TakeLeft
  <2>4. Inside(e)
    BY <1>3, <2>1, InsideExtends
  <2>5. QED
    BY <2>1, <2>3, <2>4 DEF Extends
<1>9. lvar_i' \in 0 .. lvars /\ rvar_i' \in 0 .. rvars
  BY <1>1, <1>2, <1>3, <1>5 DEF lvars, rvars
<1>10. QED
  BY <1>1, <1>2, <1>7, <1>8, <1>9, IterationInv

LEMMA RightInv ==
  ASSUME MergeInv, RightRest \/ RightFirst
  PROVE  MergeInv'
<1>1. PICK values :
        /\ Merging /\ rvar_i < rvars
        /\ Add2Merged(rvar, values, <<>>)
        /\ rvar_i' = rvar_i + 1
        /\ UNCHANGED <<ld, rd, lvar_i>>
        /\ lvar_i < lvars => rvar.name < lvar.name
        /\ values \in {ld.vals, rd.vals}
        /\ lvar_i < lvars => values = rd.vals
  <2>1. CASE RightRest
    <3>1. lvars \in Nat
      BY <2>1, InLoop DEF RightRest, lvars
    <3>2. ~(lvar_i < lvars)
      BY <2>1, <3>1 DEF RightRest
    <3>3. QED
      BY <2>1, <3>2 DEF RightRest
  <2>2. CASE RightFirst
    <3>1. Merging /\ lvar_i < lvars /\ rvar_i < rvars /\ lvar.name > rvar.name
      BY <2>2 DEF RightFirst, Both
    <3>2. lvar.name \in Nat /\ rvar.name \in Nat
      <4>1. /\ Ready(ld) /\ Ready(rd)
            /\ lvar_i \in 0 .. Len(ld.vars) /\ rvar_i \in 0 .. Len(rd.vars)
        BY <3>1, InLoop
      <4>2. lvar \in Variable /\ rvar \in Variable
        BY <3>1, <4>1, VarsRead DEF lvars, rvars, lvar, rvar
      <4>3. QED
        BY <4>2 DEF Variable
    <3>3. rvar.name < lvar.name
      BY <3>1, <3>2
    <3>4. QED
      BY <2>2, <3>1, <3>3 DEF RightFirst
  <2>3. QED
    BY <2>1, <2>2
<1>2. PICK m, e, a, b, l, r, src :
        m = md /\ e = md' /\ a = ld /\ b = rd /\ l = lvar_i /\ r = rvar_i /\ src = b.vars[r + 1]
  OBVIOUS
<1>3. /\ m \in DictOver(Probabilities) /\ Inside(m) /\ Ready(a) /\ Ready(b)
      /\ capacity \in Nat /\ Loop(m, a, l, b, r)
      /\ l \in 0 .. Len(a.vars) /\ r \in 0 .. Len(b.vars)
      /\ values \in Seq(Entry) /\ <<>> \in Seq(Entry)
  BY <1>1, <1>2, InLoop
<1>4. r < Len(b.vars) /\ (l < Len(a.vars) => b.vars[r + 1].name < a.vars[l + 1].name)
  BY <1>1, <1>2 DEF lvars, rvars, lvar, rvar
<1>5. /\ b \in DictOver(Probabilities) /\ r + 1 \in 1 .. Len(b.vars) /\ src \in Variable
      /\ Total(b, b.vars[r + 1]) \in {One, NaN} /\ r + 1 \in 0 .. Len(b.vars)
  BY <1>2, <1>3, <1>4, VarsRead
<1>6. Add2Merged(src, values, <<>>)
  BY <1>1, <1>2 DEF rvar
<1>7. /\ phase' \in {"fatal", "overrun", "error", "merge"}
      /\ phase' # "merge" => e = m
      /\ phase' = "merge" =>
           /\ src.offset + src.card <= Len(values)
           /\ Extends(m, e, src.name)
           /\ capacity' \in Nat /\ Len(e.vals) <= capacity'
           /\ e = Normalize(Copied(src, values), Len(m.vars) + 1)
  BY <1>2, <1>3, <1>5, <1>6, Add2MergedIs
<1>8. ASSUME phase' = "merge"
      PROVE  e \in DictOver(Probabilities) /\ Inside(e) /\ Loop(e, a, l, b, r + 1)
  <2>1. Extends(m, e, b.vars[r + 1].name)
    BY <1>2, <1>7, <1>8
  <2>2. l < Len(a.vars) => CopyOf(e, Len(m.vars) + 1, b, r + 1)
    <3>1. ASSUME l < Len(a.vars)
          PROVE  values = b.vals
      BY <1>1, <1>2, <3>1 DEF lvars
    <3>2. QED
      BY <1>2, <1>3, <1>5, <1>7, <1>8, <3>1, CopyMade
  <2>3. Loop(e, a, l, b, r + 1)
    BY <1>3, <1>4, <2>1, <2>2, TakeRight
  <2>4. Inside(e)
    BY <1>3, <2>1, InsideExtends
  <2>5. QED
    BY <2>1, <2>3, <2>4 DEF Extends
<1>9. lvar_i' \in 0 .. lvars /\ rvar_i' \in 0 .. rvars
  BY <1>1, <1>2, <1>3, <1>5 DEF lvars, rvars
<1>10. QED
  BY <1>1, <1>2, <1>7, <1>8, <1>9, IterationInv

LEMMA SameNameInv ==
  ASSUME MergeInv, SameName
  PROVE  MergeInv'
<1>1. /\ Merging /\ lvar_i < lvars /\ rvar_i < rvars /\ lvar.name = rvar.name
      /\ Add2Merged(lvar, ld.vals, rd.vals)
      /\ lvar_i' = lvar_i + 1 /\ rvar_i' = rvar_i + 1
      /\ UNCHANGED <<ld, rd>>
  BY DEF SameName, Both
<1>2. PICK m, e, a, b, l, r, src :
        m = md /\ e = md' /\ a = ld /\ b = rd /\ l = lvar_i /\ r = rvar_i /\ src = a.vars[l + 1]
  OBVIOUS
<1>3. /\ m \in DictOver(Probabilities) /\ Inside(m) /\ Ready(a) /\ Ready(b)
      /\ capacity \in Nat /\ Loop(m, a, l, b, r)
      /\ l \in 0 .. Len(a.vars) /\ r \in 0 .. Len(b.vars)
      /\ a.vals \in Seq(Entry) /\ b.vals \in Seq(Entry)
  BY <1>1, <1>2, InLoop
<1>4. l < Len(a.vars) /\ r < Len(b.vars) /\ a.vars[l + 1].name = b.vars[r + 1].name
  BY <1>1, <1>2 DEF lvars, rvars, lvar, rvar
<1>5. src \in Variable /\ l + 1 \in 0 .. Len(a.vars) /\ r + 1 \in 0 .. Len(b.vars)
  BY <1>2, <1>3, <1>4, VarsRead
<1>6. Add2Merged(src, a.vals, b.vals)
  BY <1>1, <1>2 DEF lvar
<1>7. /\ phase' \in {"fatal", "overrun", "error", "merge"}
      /\ phase' # "merge" => e = m
      /\ phase' = "merge" =>
           /\ Extends(m, e, src.name)
           /\ capacity' \in Nat /\ Len(e.vals) <= capacity'
  BY <1>2, <1>3, <1>5, <1>6, Add2MergedIs
<1>8. ASSUME phase' = "merge"
      PROVE  e \in DictOver(Probabilities) /\ Inside(e) /\ Loop(e, a, l + 1, b, r + 1)
  <2>1. Extends(m, e, a.vars[l + 1].name)
    BY <1>2, <1>7, <1>8
  <2>2. Loop(e, a, l + 1, b, r + 1)
    BY <1>3, <1>4, <2>1, TakeBoth
  <2>3. Inside(e)
    BY <1>3, <2>1, InsideExtends
  <2>4. QED
    BY <2>1, <2>2, <2>3 DEF Extends
<1>9. lvar_i' \in 0 .. lvars /\ rvar_i' \in 0 .. rvars
  BY <1>1, <1>2, <1>5 DEF lvars, rvars
<1>10. QED
  BY <1>1, <1>2, <1>7, <1>8, <1>9, IterationInv

(* var_sorted is not looked at by what the loop keeps. *)
LEMMA LoopSorted ==
  ASSUME NEW m, NEW e, m \in DictOver(Probabilities), e = [m EXCEPT !.sorted = TRUE], Inside(m),
         NEW a, NEW b, NEW l, NEW r, Loop(m, a, l, b, r)
  PROVE  /\ e \in DictOver(Probabilities) /\ Inside(e) /\ Loop(e, a, l, b, r)
         /\ e.sorted /\ e.vals = m.vals
<1>1. e = [vars |-> m.vars, vals |-> m.vals, deleted |-> m.deleted, sorted |-> TRUE]
  BY DEF DictOver
<1>2. e.vars = m.vars /\ e.vals = m.vals /\ e.deleted = m.deleted /\ e.sorted
  BY <1>1
<1>3. e \in DictOver(Probabilities)
  BY <1>1 DEF DictOver
<1>4. Inside(e)
  BY <1>2 DEF Inside
<1>5. IncreasingNames(e.vars) /\ From(e, a, l, b, r) /\ Half(e, a, l) /\ Half(e, b, r)
  BY <1>2 DEF Loop, From, Half
<1>6. CopiesMade(e, a, l, OwnOf(a, b)) /\ CopiesMade(e, b, r, Followed(b, a))
  BY <1>2 DEF Loop, CopiesMade, CopyOf
<1>7. QED
  BY <1>2, <1>3, <1>4, <1>5, <1>6 DEF Loop

LEMMA FinishInv ==
  ASSUME MergeInv, Finish
  PROVE  MergeInv'
<1>1. PICK m, e, a, b, l, r :
        m = md /\ e = md' /\ a = ld /\ b = rd /\ l = lvar_i /\ r = rvar_i
  OBVIOUS
<1>2. /\ Merging /\ l = lvars /\ r = rvars
      /\ e = [m EXCEPT !.sorted = TRUE] /\ phase' = "done"
      /\ UNCHANGED <<ld, rd, capacity, lvar_i, rvar_i>>
  BY <1>1 DEF Finish
<1>3. /\ m \in DictOver(Probabilities) /\ Inside(m) /\ Ready(a) /\ Ready(b)
      /\ capacity \in Nat /\ Loop(m, a, l, b, r)
      /\ l \in 0 .. Len(a.vars) /\ r \in 0 .. Len(b.vars)
  BY <1>1, <1>2, InLoop
<1>4. Len(m.vals) <= capacity
  BY <1>1, <1>2 DEF MergeInv, Merging
<1>5. /\ e \in DictOver(Probabilities) /\ Inside(e) /\ Loop(e, a, l, b, r)
      /\ e.sorted /\ e.vals = m.vals
  BY <1>2, <1>3, LoopSorted
<1>6. QED
  BY <1>1, <1>2, <1>3, <1>4, <1>5 DEF MergeInv, lvars, rvars

LEMMA StutterInv ==
  ASSUME MergeInv, UNCHANGED vars
  PROVE  MergeInv'
<1>1. /\ UNCHANGED <<ld, rd>> /\ md' = md /\ capacity' = capacity
      /\ lvar_i' = lvar_i /\ rvar_i' = rvar_i /\ phase' = phase
  BY DEF vars
<1>2. lvars' = lvars /\ rvars' = rvars
  BY <1>1 DEF lvars, rvars
<1>3. (md \in DictOver(Probabilities) /\ Inside(md))' = (md \in DictOver(Probabilities) /\ Inside(md))
  BY <1>1
<1>4. Loop(md, ld, lvar_i, rd, rvar_i)' = Loop(md, ld, lvar_i, rd, rvar_i)
  BY <1>1
<1>5. QED
  BY <1>1, <1>2, <1>3, <1>4 DEF MergeInv

LEMMA NextInv == MergeInv /\ [Next]_vars => MergeInv'
<1> SUFFICES ASSUME MergeInv, [Next]_vars PROVE MergeInv'
  OBVIOUS
<1>1. CASE Start
  BY <1>1, StartInv
<1>2. CASE RightRest \/ RightFirst
  BY <1>2, RightInv
<1>3. CASE LeftRest \/ LeftFirst
  BY <1>3, LeftInv
<1>4. CASE SameName
  BY <1>4, SameNameInv
<1>5. CASE Finish
  BY <1>5, FinishInv
<1>6. CASE UNCHANGED vars
  BY <1>6, StutterInv
<1>7. QED
  BY <1>1, <1>2, <1>3, <1>4, <1>5, <1>6 DEF Next

(* In every reachable state of merge_dictionary, the variables done of both *)
(* are in the result, in order, and below those that are left; and what the *)
(* loop copies as it is, is as it was.                                      *)
THEOREM MergeInvariant == Spec => []MergeInv
<1>1. Init => MergeInv
  BY InitInv
<1>2. MergeInv /\ [Next]_vars => MergeInv'
  BY NextInv
<1>3. QED
  BY <1>1, <1>2, PTL DEF Spec

(* The loop of merge_dictionary never reads a variable outside of a vector  *)
(* and never leaves a variable of the result without its values.            *)
THEOREM MergeTyped == Spec => []TypeOK
<1>1. MergeInv => TypeOK
  <2> SUFFICES ASSUME MergeInv PROVE TypeOK
    OBVIOUS
  <2>1. \A i \in DOMAIN md.vars : Segment(md.vars[i]) \subseteq DOMAIN md.vals
    <3> SUFFICES ASSUME NEW i \in DOMAIN md.vars
                 PROVE  Segment(md.vars[i]) \subseteq DOMAIN md.vals
      OBVIOUS
    <3>1. md \in DictOver(Probabilities) /\ Inside(md)
      BY DEF MergeInv
    <3>2. /\ md.vars[i].offset \in Nat /\ md.vars[i].card \in Nat
          /\ Len(md.vals) \in Nat /\ DOMAIN md.vals = 1 .. Len(md.vals)
      BY <3>1, DictFields
    <3>3. md.vars[i].offset + md.vars[i].card <= Len(md.vals)
      BY <3>1 DEF Inside
    <3>4. QED
      BY <3>2, <3>3 DEF Segment
  <2>2. QED
    BY <2>1 DEF MergeInv, TypeOK
<1>2. QED
  BY <1>1, MergeInvariant, PTL

-----------------------------------------------------------------------------
(* The capacity: that of an empty vector, then what Start computes until    *)
(* the vector grows.                                                        *)
RoomInv ==
  /\ capacity \in Int
  /\ phase = "start" => capacity = 4
  /\ phase # "start" /\ capacity < 0 => Room(ld) + Room(rd) < 0
  /\ phase # "start" /\ 0 < Room(ld) + Room(rd) => 0 < capacity
  /\ phase = "overrun" => capacity = 0 /\ (0 < Len(ld.vars) \/ 0 < Len(rd.vars))

LEMMA RoomIs ==
  ASSUME NEW d, d \in DictOver(Probabilities)
  PROVE  Room(d) \in Int
<1>1. Len(d.vals) \in Nat /\ d.deleted \in Nat
  BY DictFields
<1>2. QED
  BY <1>1 DEF Room

LEMMA StartRoom ==
  ASSUME MergeInv, Start
  PROVE  RoomInv'
<1>1. PICK a, b : a = ld' /\ b = rd'
  OBVIOUS
<1>2. /\ ld \in Dicts /\ rd \in Dicts /\ a = Sort(ld) /\ b = Sort(rd)
      /\ capacity' = Room(ld) + Room(rd) /\ phase' \in {"error", "merge"}
  BY <1>1 DEF Start, MergeInv
<1>3. /\ a.vals = ld.vals /\ a.deleted = ld.deleted
      /\ b.vals = rd.vals /\ b.deleted = rd.deleted
  BY <1>2, DictsRead, SortIs
<1>4. Room(a) = Room(ld) /\ Room(b) = Room(rd) /\ Room(ld) \in Int /\ Room(rd) \in Int
  BY <1>2, <1>3, DictsRead, RoomIs DEF Room
<1>5. capacity' = Room(a) + Room(b) /\ capacity' \in Int
  BY <1>2, <1>4
<1>6. QED
  BY <1>1, <1>2, <1>5 DEF RoomInv

(* An iteration, of any kind: it takes a variable, and in the loop the      *)
(* capacity stays as it is or becomes one that suffices.                    *)
LEMMA IterationRoom ==
  ASSUME MergeInv, RoomInv, Merging, UNCHANGED <<ld, rd>>,
         0 < Len(ld.vars) \/ 0 < Len(rd.vars),
         NEW src, src \in Variable, NEW values, values \in Seq(Entry),
         NEW merge_v, merge_v \in Seq(Entry), Add2Merged(src, values, merge_v)
  PROVE  RoomInv'
<1>1. md \in DictOver(Probabilities) /\ capacity \in Nat
  BY InLoop
<1>2. PICK m : m = md
  OBVIOUS
<1>3. /\ phase' \in {"fatal", "overrun", "error", "merge"}
      /\ phase' # "merge" => capacity' = capacity
      /\ phase' = "overrun" => capacity = 0
      /\ phase' = "merge" => capacity' \in Nat /\ 0 < capacity'
  BY <1>1, <1>2, Add2MergedIs
<1>4. 0 < Room(ld) + Room(rd) => 0 < capacity
  BY DEF RoomInv, Merging
<1>5. Room(ld)' = Room(ld) /\ Room(rd)' = Room(rd)
  BY DEF Room
<1>6. capacity' \in Nat /\ (0 < Room(ld) + Room(rd) => 0 < capacity')
  BY <1>1, <1>3, <1>4
<1>7. QED
  BY <1>3, <1>5, <1>6 DEF RoomInv

LEMMA NextRoom == MergeInv /\ RoomInv /\ [Next]_vars => RoomInv'
<1> SUFFICES ASSUME MergeInv, RoomInv, [Next]_vars PROVE RoomInv'
  OBVIOUS
<1>1. CASE Start
  BY <1>1, StartRoom
<1>2. ASSUME Merging
      PROVE  /\ Ready(ld) /\ Ready(rd) /\ lvars \in Nat /\ rvars \in Nat
             /\ lvar_i \in 0 .. lvars /\ rvar_i \in 0 .. rvars
             /\ ld.vals \in Seq(Entry) /\ rd.vals \in Seq(Entry) /\ <<>> \in Seq(Entry)
             /\ lvar_i < lvars => lvar \in Variable /\ 0 < Len(ld.vars)
             /\ rvar_i < rvars => rvar \in Variable /\ 0 < Len(rd.vars)
  <2>1. /\ Ready(ld) /\ Ready(rd) /\ lvars \in Nat /\ rvars \in Nat
        /\ lvar_i \in 0 .. lvars /\ rvar_i \in 0 .. rvars
        /\ ld.vals \in Seq(Entry) /\ rd.vals \in Seq(Entry) /\ <<>> \in Seq(Entry)
    BY <1>2, InLoop DEF lvars, rvars
  <2>2. lvar_i < lvars => lvar \in Variable /\ 0 < Len(ld.vars)
    BY <2>1, VarsRead DEF lvar, lvars
  <2>3. rvar_i < rvars => rvar \in Variable /\ 0 < Len(rd.vars)
    BY <2>1, VarsRead DEF rvar, rvars
  <2>4. QED
    BY <2>1, <2>2, <2>3
<1>3. CASE RightRest
  <2>1. Merging /\ rvar_i < rvars /\ Add2Merged(rvar, ld.vals, <<>>) /\ UNCHANGED <<ld, rd>>
    BY <1>3 DEF RightRest
  <2>2. QED
    BY <1>2, <2>1, IterationRoom
<1>4. CASE LeftRest \/ LeftFirst
  <2>1. Merging /\ lvar_i < lvars /\ Add2Merged(lvar, ld.vals, <<>>) /\ UNCHANGED <<ld, rd>>
    BY <1>4 DEF LeftRest, LeftFirst, Both
  <2>2. QED
    BY <1>2, <2>1, IterationRoom
<1>5. CASE RightFirst
  <2>1. Merging /\ rvar_i < rvars /\ Add2Merged(rvar, rd.vals, <<>>) /\ UNCHANGED <<ld, rd>>
    BY <1>5 DEF RightFirst, Both
  <2>2. QED
    BY <1>2, <2>1, IterationRoom
<1>6. CASE SameName
  <2>1. Merging /\ lvar_i < lvars /\ Add2Merged(lvar, ld.vals, rd.vals) /\ UNCHANGED <<ld, rd>>
    BY <1>6 DEF SameName, Both
  <2>2. QED
    BY <1>2, <2>1, IterationRoom
<1>7. CASE Finish
  <2>1. /\ phase = "merge" /\ phase' = "done" /\ UNCHANGED <<ld, rd, capacity>>
    BY <1>7 DEF Finish, Merging
  <2>2. QED
    BY <2>1 DEF RoomInv, Room
<1>8. CASE UNCHANGED vars
  BY <1>8 DEF vars, RoomInv, Room
<1>9. QED
  BY <1>1, <1>3, <1>4, <1>5, <1>6, <1>7, <1>8 DEF Next

(* No values add up to 0, which no normalized variable does. *)
LEMMA TotalOfNone ==
  ASSUME NEW d, d \in DictOver(Probabilities), NEW v, v \in Variable,
         v.offset + v.card <= Len(d.vals), Total(d, v) \in {One, NaN}
  PROVE  v.card # 0
<1>1. PICK g : Sums(g, d, v) /\ Total(d, v) = g[v.card]
  BY TotalUnfolds
<1>2. v.card \in Nat
  BY DEF Variable
<1>3. g[0] = <<0, 1>>
  BY <1>2, <1>1 DEF Sums
<1>4. QED
  BY <1>1, <1>3 DEF One, NaN

(* A dictionary that counts its holes has no negative room, and room as     *)
(* soon as it has a variable.                                               *)
LEMMA ExactRoom ==
  ASSUME NEW d, d \in DictOver(Probabilities), Inside(d), Exact(d),
         \A i \in 1 .. Len(d.vars) : Total(d, d.vars[i]) \in {One, NaN}
  PROVE  /\ Room(d) \in Nat
         /\ 0 < Len(d.vars) => 0 < Room(d)
<1>1. /\ Len(d.vals) \in Nat /\ DOMAIN d.vals = 1 .. Len(d.vals)
      /\ Len(d.vars) \in Nat /\ DOMAIN d.vars = 1 .. Len(d.vars)
      /\ Room(d) = Len(d.vals) - Cardinality(Holes(d))
  BY DictFields DEF Exact, Room
<1>2. IsFiniteSet(1 .. Len(d.vals)) /\ Cardinality(1 .. Len(d.vals)) = Len(d.vals)
  <2>1. PICK n \in Nat : n = Len(d.vals)
    BY <1>1
  <2>2. /\ IsFiniteSet(1 .. n)
        /\ Cardinality(1 .. n) = IF 1 > n THEN 0 ELSE n - 1 + 1
    BY FS_Interval
  <2>3. QED
    BY <2>1, <2>2
<1>3. Holes(d) \in SUBSET (1 .. Len(d.vals)) /\ Cardinality(Holes(d)) \in Nat
  BY <1>1, HolesAre DEF Holes
<1>4. /\ Cardinality(Holes(d)) <= Len(d.vals)
      /\ Cardinality(Holes(d)) = Len(d.vals) => Holes(d) = 1 .. Len(d.vals)
  BY <1>2, <1>3, FS_Subset
<1>5. ASSUME 0 < Len(d.vars)
      PROVE  Holes(d) # 1 .. Len(d.vals)
  <2>1. PICK v : v = d.vars[1] /\ 1 \in DOMAIN d.vars
    BY <1>1, <1>5
  <2>2. v.offset \in Nat /\ v.card \in Nat /\ v.offset + v.card <= Len(d.vals)
    BY <1>1, <2>1, DictFields DEF Inside
  <2>3. Total(d, v) \in {One, NaN}
    BY <1>1, <2>1
  <2>4. v.card # 0
    BY <1>1, <2>1, <2>2, <2>3, DictFields, TotalOfNone
  <2>5. v.offset + 1 \in Segment(v) /\ v.offset + 1 \in 1 .. Len(d.vals)
    BY <1>1, <2>2, <2>4 DEF Segment
  <2>6. v.offset + 1 \notin Holes(d)
    BY <2>1, <2>5 DEF Holes, Owned
  <2>7. QED
    BY <2>5, <2>6
<1>6. QED
  BY <1>1, <1>3, <1>4, <1>5

(* As long as the loop of merge_dictionary goes on, the values it adds stay *)
(* inside their memory; and that it is refused its memory, or writes behind *)
(* a vector of capacity zero, is due to a val_deleted that counts more than *)
(* the holes.                                                               *)
THEOREM MergeMemory == Spec => []MemorySuffices
<1>1. Init => RoomInv
  BY DEF Init, RoomInv
<1>2. ASSUME MergeInv, RoomInv
      PROVE  MemorySuffices
  <2>1. phase \in {"merge", "done"} => Len(md.vals) <= capacity
    BY <1>2 DEF MergeInv
  <2>2. ASSUME Exact(ld), Exact(rd)
        PROVE  capacity >= 0 /\ phase # "overrun"
    <3>1. CASE phase = "start"
      BY <1>2, <3>1 DEF RoomInv
    <3>2. CASE phase # "start"
      <4>1. Ready(ld) /\ Ready(rd)
        BY <1>2, <3>2 DEF MergeInv
      <4>2. /\ Room(ld) \in Nat /\ Room(rd) \in Nat
            /\ 0 < Len(ld.vars) => 0 < Room(ld)
            /\ 0 < Len(rd.vars) => 0 < Room(rd)
        BY <2>2, <4>1, ExactRoom DEF Ready
      <4>3. capacity \in Int /\ (capacity < 0 => Room(ld) + Room(rd) < 0)
        BY <1>2, <3>2 DEF RoomInv
      <4>4. (0 < Len(ld.vars) \/ 0 < Len(rd.vars)) => 0 < capacity
        BY <1>2, <3>2, <4>2 DEF RoomInv
      <4>5. phase = "overrun" => capacity = 0 /\ (0 < Len(ld.vars) \/ 0 < Len(rd.vars))
        BY <1>2 DEF RoomInv
      <4>6. QED
        BY <4>2, <4>3, <4>4, <4>5
    <3>3. QED
      BY <3>1, <3>2
  <2>3. QED
    BY <2>1, <2>2 DEF MemorySuffices
<1>3. QED
  BY <1>1, <1>2, NextRoom, MergeInvariant, PTL DEF Spec

-----------------------------------------------------------------------------
(* In a dictionary that says it is sorted and is, the search finds place i. *)
LEMMA SortedFinds ==
  ASSUME NEW d, d \in DictOver(Probabilities), d.sorted, IncreasingNames(d.vars),
         NEW i, i \in 1 .. Len(d.vars)
  PROVE  VarIndex(d, d.vars[i].name) = i
<1>1. PICK n \in Nat : n = Len(d.vars) /\ DOMAIN d.vars = 1 .. n /\ d.vars \in Seq(Variable)
  BY DictFields
<1>2. d.vars[i].name \in Nat
  BY DictFields
<1>3. PICK p : p = VarIndex(d, d.vars[i].name)
  OBVIOUS
<1>4. IsPlaceOf(p, d.vars, d.vars[i].name)
  BY <1>1, <1>2, <1>3, VarIndexFinds
<1>5. p \in 1 .. n /\ d.vars[p].name = d.vars[i].name
  BY <1>1, <1>4 DEF IsPlaceOf
<1>6. ~(i < p) /\ ~(p < i)
  <2>1. i < p => d.vars[i].name < d.vars[p].name
    BY <1>1, <1>5 DEF IncreasingNames
  <2>2. p < i => d.vars[p].name < d.vars[i].name
    BY <1>1, <1>5 DEF IncreasingNames
  <2>3. QED
    BY <1>2, <1>5, <2>1, <2>2
<1>7. QED
  BY <1>1, <1>3, <1>5, <1>6

(* merge_dictionary yields every variable of both dictionaries once, in the *)
(* order binary search needs: setting var_sorted at its end is no lie.      *)
THEOREM MergeComplete == Spec => []VariablesMerged
<1>1. MergeInv => VariablesMerged
  <2> SUFFICES ASSUME MergeInv, phase = "done"
               PROVE  /\ Names(md) = Names(ld) \cup Names(rd)
                      /\ \A i \in DOMAIN md.vars : VarIndex(md, md.vars[i].name) = i
    BY DEF VariablesMerged
  <2>1. /\ md \in DictOver(Probabilities) /\ Ready(ld) /\ Ready(rd) /\ md.sorted
        /\ Loop(md, ld, Len(ld.vars), rd, Len(rd.vars))
    BY DEF MergeInv, lvars, rvars
  <2>2. /\ DOMAIN md.vars = 1 .. Len(md.vars)
        /\ DOMAIN ld.vars = 1 .. Len(ld.vars)
        /\ DOMAIN rd.vars = 1 .. Len(rd.vars)
    BY <2>1, DictFields DEF Ready
  <2>3. Names(md) \subseteq Names(ld) \cup Names(rd)
    BY <2>1, <2>2 DEF Names, Loop, From
  <2>4. Names(ld) \subseteq Names(md) /\ Names(rd) \subseteq Names(md)
    BY <2>1, <2>2 DEF Names, Loop, Half
  <2>5. \A i \in DOMAIN md.vars : VarIndex(md, md.vars[i].name) = i
    <3>1. IncreasingNames(md.vars)
      BY <2>1 DEF Loop
    <3>2. QED
      BY <2>1, <2>2, <3>1, SortedFinds
  <2>6. QED
    BY <2>3, <2>4, <2>5
<1>2. QED
  BY <1>1, MergeInvariant, PTL

(* get_var_value_index finds the first place of the value. *)
LEMMA ValIndexFirst ==
  ASSUME NEW d, NEW v, NEW val, v \in Variable, NEW j, j \in Segment(v), d.vals[j].value = val
  PROVE  /\ ValIndex(d, v, val) \in Segment(v) /\ ValIndex(d, v, val) <= j
         /\ d.vals[ValIndex(d, v, val)].value = val
<1> DEFINE I == {i \in v.offset + 1 .. v.offset + v.card : d.vals[i].value = val}
<1>1. j \in I
  BY DEF Segment
<1>2. ValIndex(d, v, val) = IF I # {} THEN Min(I) ELSE 0
  BY DEF ValIndex, SelectInSubSeq
<1>3. I \in SUBSET Nat
  BY DEF Variable
<1>4. \A i \in I : i \in Segment(v) /\ d.vals[i].value = val
  BY DEF Segment
<1> HIDE DEF I
<1>5. Min(I) \in I /\ Min(I) <= j
  BY <1>1, <1>3, LeastNatural DEF Min
<1>6. QED
  BY <1>1, <1>2, <1>4, <1>5

LEMMA Shifted ==
  ASSUME NEW o \in Nat, NEW p \in Nat, NEW c \in Nat
  PROVE  \A k \in o + 1 .. o + c : k - o \in 1 .. c /\ p + (k - o) \in p + 1 .. p + c /\ o + (k - o) = k
<1>1. SUFFICES ASSUME NEW k \in o + 1 .. o + c
               PROVE  k - o \in 1 .. c /\ p + (k - o) \in p + 1 .. p + c /\ o + (k - o) = k
  OBVIOUS
<1>2. PICK h \in Int : h = k - o
  OBVIOUS
<1>3. k = o + h /\ h \in 1 .. c
  BY <1>2
<1>4. p + h \in p + 1 .. p + c
  BY <1>3
<1>5. QED
  BY <1>2, <1>3, <1>4

(* A copy has the same contents under the name. *)
LEMMA CopyContents ==
  ASSUME NEW m, m \in DictOver(Probabilities), m.sorted, IncreasingNames(m.vars),
         NEW a, a \in DictOver(Probabilities), a.sorted, IncreasingNames(a.vars),
         NEW i, i \in 1 .. Len(m.vars), NEW j, j \in 1 .. Len(a.vars), CopyOf(m, i, a, j),
         NEW name, name = a.vars[j].name
  PROVE  Contents(m)[name] = Contents(a)[name]
<1>1. PICK v, w : v = m.vars[i] /\ w = a.vars[j]
  OBVIOUS
<1>2. v \in Variable /\ w \in Variable /\ name = v.name
  BY <1>1, DictFields DEF CopyOf
<1>3. PICK o \in Nat, p \in Nat, c \in Nat : o = v.offset /\ p = w.offset /\ c = v.card /\ c = w.card
  BY <1>1, <1>2 DEF Variable, CopyOf
<1>4. /\ Segment(v) = o + 1 .. o + c /\ Segment(w) = p + 1 .. p + c
      /\ \A k \in 1 .. c : m.vals[o + k] = a.vals[p + k]
  BY <1>1, <1>3 DEF Segment, CopyOf
<1>5. VarIndex(m, name) = i /\ VarIndex(a, name) = j
  <2>1. VarIndex(m, m.vars[i].name) = i
    BY SortedFinds
  <2>2. VarIndex(a, a.vars[j].name) = j
    BY SortedFinds
  <2>3. QED
    BY <1>1, <1>2, <2>1, <2>2
<1>6. \A k \in o + 1 .. o + c : k - o \in 1 .. c /\ p + (k - o) \in p + 1 .. p + c /\ o + (k - o) = k
  BY Shifted
<1>7. \A k \in p + 1 .. p + c : k - p \in 1 .. c /\ o + (k - p) \in o + 1 .. o + c /\ p + (k - p) = k
  BY Shifted
<1>8. {m.vals[k].value : k \in Segment(v)} = {a.vals[k].value : k \in Segment(w)}
  <2>1. \A k \in Segment(v) : \E h \in Segment(w) : m.vals[k] = a.vals[h]
    BY <1>4, <1>6
  <2>2. \A k \in Segment(w) : \E h \in Segment(v) : a.vals[k] = m.vals[h]
    BY <1>4, <1>7
  <2>3. QED
    BY <2>1, <2>2
<1>9. ASSUME NEW val \in {m.vals[k].value : k \in Segment(v)}
      PROVE  m.vals[ValIndex(m, v, val)].prob = a.vals[ValIndex(a, w, val)].prob
  <2>1. PICK x, y : x = ValIndex(m, v, val) /\ y = ValIndex(a, w, val)
    OBVIOUS
  <2>2. /\ x \in o + 1 .. o + c /\ m.vals[x].value = val
        /\ \A k \in Segment(v) : m.vals[k].value = val => x <= k
    <3>1. PICK k \in Segment(v) : m.vals[k].value = val
      OBVIOUS
    <3>2. x \in Segment(v) /\ m.vals[x].value = val
      BY <1>2, <2>1, <3>1, ValIndexFirst
    <3>3. \A h \in Segment(v) : m.vals[h].value = val => x <= h
      BY <1>2, <2>1, ValIndexFirst
    <3>4. QED
      BY <1>4, <3>2, <3>3
  <2>3. /\ y \in p + 1 .. p + c /\ a.vals[y].value = val
        /\ \A k \in Segment(w) : a.vals[k].value = val => y <= k
    <3>1. PICK k \in Segment(w) : a.vals[k].value = val
      BY <1>8
    <3>2. y \in Segment(w) /\ a.vals[y].value = val
      BY <1>2, <2>1, <3>1, ValIndexFirst
    <3>3. \A h \in Segment(w) : a.vals[h].value = val => y <= h
      BY <1>2, <2>1, ValIndexFirst
    <3>4. QED
      BY <1>4, <3>2, <3>3
  <2>4. m.vals[x] = a.vals[p + (x - o)] /\ p + (x - o) \in Segment(w)
    BY <1>4, <1>6, <2>2
  <2>5. a.vals[y] = m.vals[o + (y - p)] /\ o + (y - p) \in Segment(v)
    BY <1>4, <1>7, <2>3
  <2>6. y <= p + (x - o) /\ x <= o + (y - p)
    BY <2>2, <2>3, <2>4, <2>5
  <2>7. y = p + (x - o)
    <3>1. x \in Int /\ y \in Int
      BY <2>2, <2>3
    <3>2. QED
      BY <2>6, <3>1
  <2>8. QED
    BY <2>1, <2>4, <2>7
<1>10. name \in {m.vars[k].name : k \in DOMAIN m.vars} /\ name \in {a.vars[k].name : k \in DOMAIN a.vars}
  <2>1. DOMAIN m.vars = 1 .. Len(m.vars) /\ DOMAIN a.vars = 1 .. Len(a.vars)
    BY DictFields
  <2>2. QED
    BY <1>1, <1>2, <2>1
<1>11. Contents(m)[name] = [val \in {m.vals[k].value : k \in Segment(v)} |-> m.vals[ValIndex(m, v, val)].prob]
  BY <1>1, <1>5, <1>10 DEF Contents
<1>12. Contents(a)[name] = [val \in {a.vals[k].value : k \in Segment(w)} |-> a.vals[ValIndex(a, w, val)].prob]
  BY <1>1, <1>5, <1>10 DEF Contents
<1>13. QED
  BY <1>8, <1>9, <1>11, <1>12

(* merge_dictionary leaves the distribution of a variable that only one of  *)
(* the dictionaries has as it was: of the left one, any; of the right one,  *)
(* those that a variable of the left one follows.                           *)
THEOREM MergeKeepsOwn == Spec => []OwnVariablesKept
<1>1. MergeInv => OwnVariablesKept
  <2> SUFFICES ASSUME MergeInv, phase = "done"
               PROVE  /\ \A name \in Names(ld) \ Names(rd) : Contents(md)[name] = Contents(ld)[name]
                      /\ \A name \in Names(rd) \ Names(ld) :
                           (\E later \in Names(ld) : name < later) => Contents(md)[name] = Contents(rd)[name]
    BY DEF OwnVariablesKept
  <2>1. PICK m, a, b : m = md /\ a = ld /\ b = rd
    OBVIOUS
  <2>2. /\ m \in DictOver(Probabilities) /\ m.sorted /\ Ready(a) /\ Ready(b)
        /\ Loop(m, a, Len(a.vars), b, Len(b.vars))
    BY <2>1 DEF MergeInv, lvars, rvars
  <2>3. /\ a \in DictOver(Probabilities) /\ a.sorted /\ IncreasingNames(a.vars)
        /\ b \in DictOver(Probabilities) /\ b.sorted /\ IncreasingNames(b.vars)
        /\ IncreasingNames(m.vars)
    BY <2>2 DEF Ready, Loop
  <2>4. /\ DOMAIN a.vars = 1 .. Len(a.vars) /\ Len(a.vars) \in Nat
        /\ DOMAIN b.vars = 1 .. Len(b.vars) /\ Len(b.vars) \in Nat
    BY <2>3, DictFields
  <2>5. ASSUME NEW name \in Names(a) \ Names(b)
        PROVE  Contents(m)[name] = Contents(a)[name]
    <3>1. PICK j \in 1 .. Len(a.vars) : name = a.vars[j].name
      BY <2>4 DEF Names
    <3>2. j \in OwnOf(a, b) /\ j <= Len(a.vars)
      BY <2>4, <3>1 DEF OwnOf, Names
    <3>3. PICK i \in 1 .. Len(m.vars) : CopyOf(m, i, a, j)
      BY <2>2, <3>2 DEF Loop, CopiesMade
    <3>4. QED
      BY <2>2, <2>3, <3>1, <3>3, CopyContents
  <2>6. ASSUME NEW name \in Names(b) \ Names(a), \E later \in Names(a) : name < later
        PROVE  Contents(m)[name] = Contents(b)[name]
    <3>1. PICK j \in 1 .. Len(b.vars) : name = b.vars[j].name
      BY <2>4 DEF Names
    <3>2. j \in Followed(b, a) /\ j <= Len(b.vars)
      BY <2>4, <2>6, <3>1 DEF OwnOf, Followed, Names
    <3>3. PICK i \in 1 .. Len(m.vars) : CopyOf(m, i, b, j)
      BY <2>2, <3>2 DEF Loop, CopiesMade
    <3>4. QED
      BY <2>2, <2>3, <3>1, <3>3, CopyContents
  <2>7. QED
    BY <2>1, <2>5, <2>6
<1>2. QED
  BY <1>1, MergeInvariant, PTL
===============================================================================
