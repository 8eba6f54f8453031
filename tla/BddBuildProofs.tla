---------------------------- MODULE BddBuildProofs ---------------------------
(***************************************************************************)
(* create_bdd (BddBuild).  First the values of a diagram's nodes: their    *)
(* recursive definition is well founded because children stand before      *)
(* parents, and adding a node at the end leaves every other node's value   *)
(* alone.  Then three parts: create_bdd stays within its types, its stack  *)
(* and its vector have the shape of a depth-first search, and it fails     *)
(* only when the vector is full; the vector stays reduced and ordered, and *)
(* every node in it is in use; what it computes is its expression, and no  *)
(* two nodes mean the same.  Last, the calls made one by one store what    *)
(* BddValue computes as one function.                                      *)
(***************************************************************************)
EXTENDS BddBuild, NatLemmas, SequenceTheorems

(* The value of node i, given the values v of the nodes before it. *)
NodeStep(t, w, v, i) ==
  LET node == NodeAt(t, i)
  IN  IF IsLeaf(node) THEN LeafBoolValue(node)
      ELSE IF node.rva \in w THEN v[node.high] ELSE v[node.low]

(* In a vector whose children stand earlier, values can be given to the    *)
(* first m nodes, for every m.                                             *)
LEMMA ValuesExist ==
  ASSUME NEW t, Len(t) \in Nat, ChildrenEarlier(t), NEW w
  PROVE  \E g : g = [i \in Indices(t) |-> NodeStep(t, w, g, i)]
<1> DEFINE Good(m) == \E g : g = [i \in 0 .. m - 1 |-> NodeStep(t, w, g, i)]
           Bad == {m \in 0 .. Len(t) : ~Good(m)}
<1>1. ASSUME NEW m \in 1 .. Len(t), Good(m - 1)
      PROVE  Good(m)
  <2>1. PICK g : g = [i \in 0 .. (m - 1) - 1 |-> NodeStep(t, w, g, i)]
    BY <1>1
  <2> DEFINE h == [i \in 0 .. m - 1 |->
                     IF i = m - 1 THEN NodeStep(t, w, g, m - 1) ELSE g[i]]
  <2>2. ASSUME NEW i \in 0 .. m - 1
        PROVE  NodeStep(t, w, h, i) = NodeStep(t, w, g, i)
    <3>1. CASE IsLeaf(NodeAt(t, i))
      BY <3>1 DEF NodeStep
    <3>2. CASE ~IsLeaf(NodeAt(t, i))
      <4>1. NodeAt(t, i).low \in 0 .. i - 1 /\ NodeAt(t, i).high \in 0 .. i - 1
        BY <3>2 DEF ChildrenEarlier, Inner, Indices
      <4>2. h[NodeAt(t, i).low] = g[NodeAt(t, i).low] /\ h[NodeAt(t, i).high] = g[NodeAt(t, i).high]
        BY <4>1
      <4>3. QED
        BY <4>2 DEF NodeStep
    <3>3. QED
      BY <3>1, <3>2
  <2>3. ASSUME NEW i \in 0 .. m - 1
        PROVE  h[i] = NodeStep(t, w, g, i)
    BY <2>1
  <2>4. h = [i \in 0 .. m - 1 |-> NodeStep(t, w, h, i)]
    BY <2>2, <2>3
  <2>5. QED
    BY <2>4
<1>2. Good(0)
  <2> DEFINE g == [i \in 0 .. 0 - 1 |-> 0]
  <2>1. g = [i \in 0 .. 0 - 1 |-> NodeStep(t, w, g, i)]
    OBVIOUS
  <2>2. QED
    BY <2>1
<1>3. Bad = {}
  <2>1. SUFFICES ASSUME Bad # {} PROVE FALSE
    OBVIOUS
  <2>2. PICK m \in Bad : \A k \in Bad : m <= k
    <3>1. Bad \in SUBSET Nat
      OBVIOUS
    <3> HIDE DEF Bad
    <3>2. QED
      BY <2>1, <3>1, LeastNatural
  <2>3. m \in 0 .. Len(t) /\ ~Good(m)
    OBVIOUS
  <2>4. m # 0
    BY <2>3, <1>2
  <2>5. m \in 1 .. Len(t) /\ m - 1 \in 0 .. Len(t) /\ ~(m <= m - 1)
    BY <2>3, <2>4
  <2>6. Good(m - 1)
    <3>1. m - 1 \notin Bad
      BY <2>2, <2>5
    <3>2. QED
      BY <3>1, <2>5
  <2> HIDE DEF Good
  <2>7. QED
    BY <1>1, <2>3, <2>5, <2>6
<1>4. Good(Len(t))
  <2>1. Len(t) \notin Bad
    BY <1>3
  <2> HIDE DEF Good
  <2>2. QED
    BY <2>1
<1>5. QED
  BY <1>4 DEF Indices

(* The equation that defines NodeValues has a solution, so it holds. *)
LEMMA NodeValuesDef ==
  ASSUME NEW t, Len(t) \in Nat, ChildrenEarlier(t), NEW w
  PROVE  NodeValues(t, w) = [i \in Indices(t) |-> NodeStep(t, w, NodeValues(t, w), i)]
<1>1. \E g : g = [i \in Indices(t) |-> NodeStep(t, w, g, i)]
  BY ValuesExist
<1>2. QED
  BY <1>1 DEF NodeValues, NodeStep

(* A node appended to the vector changes no other node's value. *)
LEMMA NodeValuesAppend ==
  ASSUME NEW t, Len(t) \in Nat, ChildrenEarlier(t), NEW u, Len(u) \in Nat, ChildrenEarlier(u),
         Len(t) <= Len(u), \A i \in Indices(t) : NodeAt(u, i) = NodeAt(t, i),
         NEW w, NEW i \in Indices(t)
  PROVE  NodeValues(u, w)[i] = NodeValues(t, w)[i]
<1> DEFINE Differ == {k \in Indices(t) : NodeValues(u, w)[k] # NodeValues(t, w)[k]}
<1>1. SUFFICES ASSUME Differ # {} PROVE FALSE
  OBVIOUS
<1>2. PICK k \in Differ : \A j \in Differ : k <= j
  <2>1. Differ \in SUBSET Nat
    BY DEF Indices
  <2> HIDE DEF Differ
  <2>2. QED
    BY <1>1, <2>1, LeastNatural
<1>3. k \in Indices(t) /\ k \in Indices(u)
  BY DEF Indices
<1>4. NodeValues(t, w)[k] = NodeStep(t, w, NodeValues(t, w), k)
  BY <1>3, NodeValuesDef
<1>5. NodeValues(u, w)[k] = NodeStep(u, w, NodeValues(u, w), k)
  BY <1>3, NodeValuesDef
<1>6. NodeAt(u, k) = NodeAt(t, k)
  BY <1>3
<1>7. CASE IsLeaf(NodeAt(t, k))
  BY <1>4, <1>5, <1>6, <1>7 DEF NodeStep
<1>8. CASE ~IsLeaf(NodeAt(t, k))
  <2>1. NodeAt(t, k).low \in 0 .. k - 1 /\ NodeAt(t, k).high \in 0 .. k - 1
    BY <1>3, <1>8 DEF ChildrenEarlier, Inner
  <2>2. \A j \in 0 .. k - 1 : j \in Indices(t) /\ ~(k <= j)
    BY <1>3 DEF Indices
  <2>3. \A j \in 0 .. k - 1 : NodeValues(u, w)[j] = NodeValues(t, w)[j]
    BY <1>2, <2>2
  <2>4. QED
    BY <1>4, <1>5, <1>6, <1>8, <2>1, <2>3 DEF NodeStep
<1>9. QED
  BY <1>7, <1>8

-----------------------------------------------------------------------------
(***************************************************************************)
(* Canonicity: in a reduced, ordered vector two nodes that denote the same *)
(* function are one node (Bryant's theorem).                               *)
(***************************************************************************)

(* Two worlds that may differ in x only.                                    *)
SameBut(x, w, u) == \A y : y # x => (y \in w <=> y \in u)

(* Node i tests nothing up to x.                                            *)
TestsAfter(t, x, i) == i \in Inner(t) => RvaBefore(x, NodeAt(t, i).rva)

(* A diagram over the rvas R: what the macros of bdd.h assume of one.       *)
DiagramOver(t, R) ==
  /\ t \in Seq(BddNode) /\ ChildrenEarlier(t) /\ IsReduced(t) /\ IsOrdered(t)
  /\ \A i \in Inner(t) : NodeAt(t, i).rva \in R

SameFunction(t, R, i, j) == \A w \in SUBSET R : NodeValues(t, w)[i] = NodeValues(t, w)[j]

(* The inner nodes of a diagram and their values.                           *)
LEMMA InnerFacts ==
  ASSUME NEW t, NEW R, DiagramOver(t, R), NEW i \in Inner(t)
  PROVE  LET node == NodeAt(t, i) IN
         /\ Len(t) \in Nat /\ i \in Nat /\ i < Len(t) /\ i \in Indices(t)
         /\ node = NodeRec(node.rva, node.low, node.high) /\ node.rva \in Rva /\ node.rva \in R
         /\ node.low \in Indices(t) /\ node.high \in Indices(t) /\ node.low < i /\ node.high < i
         /\ node.low # node.high
         /\ \A w : NodeValues(t, w)[i] = IF node.rva \in w THEN NodeValues(t, w)[node.high]
                                         ELSE NodeValues(t, w)[node.low]
<1> DEFINE node == NodeAt(t, i)
<1>1. t \in Seq(BddNode) /\ Len(t) \in Nat /\ ChildrenEarlier(t) /\ IsReduced(t)
  BY DEF DiagramOver
<1>2. i \in Indices(t) /\ i \in Nat /\ i < Len(t) /\ ~IsLeaf(node)
  BY <1>1 DEF Inner, Indices
<1>3. node \in BddNode
  BY <1>1, <1>2 DEF NodeAt
<1>4. node.low \in 0 .. i - 1 /\ node.high \in 0 .. i - 1
  BY <1>1 DEF ChildrenEarlier
<1>5. node \in [rva: Rva, low: Nat, high: Nat]
  BY <1>2, <1>3 DEF BddNode, IsLeaf, LeafRec, NodeRec
<1>6. node = NodeRec(node.rva, node.low, node.high) /\ node.rva \in Rva
  BY <1>5 DEF NodeRec
<1>7. node.rva \in R /\ node.low # node.high
  BY <1>1 DEF DiagramOver, IsReduced
<1>8. \A w : NodeValues(t, w)[i] = NodeStep(t, w, NodeValues(t, w), i)
  BY <1>1, <1>2, NodeValuesDef
<1>9. node.low \in Indices(t) /\ node.high \in Indices(t) /\ node.low < i /\ node.high < i
  BY <1>1, <1>2, <1>4 DEF Indices
<1>10. QED
  BY <1>1, <1>2, <1>6, <1>7, <1>8, <1>9 DEF NodeStep

(* A leaf's value is its name.                                              *)
LEMMA LeafFacts ==
  ASSUME NEW t, NEW R, DiagramOver(t, R), NEW i \in Indices(t), i \notin Inner(t)
  PROVE  \E b \in {0, 1} : NodeAt(t, i) = LeafRec(b) /\ \A w : NodeValues(t, w)[i] = b
<1>1. t \in Seq(BddNode) /\ Len(t) \in Nat /\ ChildrenEarlier(t)
  BY DEF DiagramOver
<1>2. NodeAt(t, i) \in BddNode /\ IsLeaf(NodeAt(t, i))
  BY <1>1 DEF NodeAt, Indices, Inner
<1>3. PICK b \in {0, 1} : NodeAt(t, i) = LeafRec(b)
  BY <1>2 DEF BddNode, IsLeaf, NoNode
<1>4. \A v, w : NodeStep(t, w, v, i) = b
  BY <1>2, <1>3 DEF NodeStep, LeafBoolValue, LeafRec, NodeRec, RvaLeaf
<1>5. \A w : NodeValues(t, w)[i] = b
  BY <1>1, <1>4, NodeValuesDef
<1>6. QED
  BY <1>3, <1>5

(* The children of a node that tests nothing up to x do not either, nor do  *)
(* the children of a node that tests x.                                     *)
LEMMA ChildrenTestAfter ==
  ASSUME NEW t, NEW R, DiagramOver(t, R), NEW i \in Inner(t), NEW x \in Rva,
         RvaBefore(x, NodeAt(t, i).rva) \/ x = NodeAt(t, i).rva
  PROVE  TestsAfter(t, x, NodeAt(t, i).low) /\ TestsAfter(t, x, NodeAt(t, i).high)
<1> DEFINE y == NodeAt(t, i).rva
<1>1. \A z \in Rva : RvaBefore(y, z) \/ y.var < z.var => RvaBefore(x, z)
  <2>1. y \in Rva
    BY InnerFacts
  <2> HIDE DEF y
  <2>2. RvaBefore(x, y) \/ x = y
    BY DEF y
  <2>3. QED
    BY <2>1, <2>2 DEF RvaBefore, Rva, VarName
<1>2. \A j \in Inner(t) : NodeAt(t, j).rva \in Rva
  BY InnerFacts
<1>3. /\ NodeAt(t, i).low \in Inner(t) => RvaBefore(y, NodeAt(t, NodeAt(t, i).low).rva)
      /\ NodeAt(t, i).high \in Inner(t) => y.var < NodeAt(t, NodeAt(t, i).high).rva.var
  BY DEF DiagramOver, IsOrdered
<1> HIDE DEF y
<1>4. QED
  BY <1>1, <1>2, <1>3 DEF TestsAfter

(* A node that tests nothing up to x has the same value whether x holds or  *)
(* not.                                                                     *)
LEMMA ValueIgnores ==
  ASSUME NEW t, NEW R, DiagramOver(t, R), NEW x \in Rva, NEW w, NEW u, SameBut(x, w, u),
         NEW i \in Indices(t), TestsAfter(t, x, i)
  PROVE  NodeValues(t, w)[i] = NodeValues(t, u)[i]
<1> DEFINE Differ == {k \in Indices(t) : TestsAfter(t, x, k) /\ NodeValues(t, w)[k] # NodeValues(t, u)[k]}
<1>1. SUFFICES ASSUME Differ # {} PROVE FALSE
  OBVIOUS
<1>2. PICK k \in Differ : \A j \in Differ : k <= j
  <2>1. Differ \in SUBSET Nat
    BY DEF Indices
  <2> HIDE DEF Differ
  <2>2. QED
    BY <1>1, <2>1, LeastNatural
<1>3. k \in Indices(t) /\ TestsAfter(t, x, k) /\ NodeValues(t, w)[k] # NodeValues(t, u)[k]
  BY <1>2
<1>4. k \in Inner(t)
  BY <1>3, LeafFacts
<1> DEFINE node == NodeAt(t, k)
<1>5. /\ k \in Nat /\ node.rva \in Rva /\ node.low \in Indices(t) /\ node.high \in Indices(t)
      /\ node.low < k /\ node.high < k
      /\ \A v : NodeValues(t, v)[k] = IF node.rva \in v THEN NodeValues(t, v)[node.high]
                                      ELSE NodeValues(t, v)[node.low]
  BY <1>4, InnerFacts
<1>6. RvaBefore(x, node.rva)
  BY <1>3, <1>4 DEF TestsAfter
<1>7. node.rva # x /\ TestsAfter(t, x, node.low) /\ TestsAfter(t, x, node.high)
  BY <1>4, <1>5, <1>6, ChildrenTestAfter DEF RvaBefore, Rva, VarName
<1>8. node.rva \in w <=> node.rva \in u
  BY <1>7 DEF SameBut
<1>9. node.low \notin Differ /\ node.high \notin Differ
  <2>1. node.low \in Nat /\ node.high \in Nat /\ ~(k <= node.low) /\ ~(k <= node.high)
    BY <1>5 DEF Indices
  <2> HIDE DEF Differ, node
  <2>2. QED
    BY <1>2, <2>1
<1> HIDE DEF node
<1>10. /\ NodeValues(t, w)[node.low] = NodeValues(t, u)[node.low]
       /\ NodeValues(t, w)[node.high] = NodeValues(t, u)[node.high]
  BY <1>5, <1>7, <1>9
<1>11. QED
  BY <1>3, <1>5, <1>8, <1>10

(* A node with the function of a node that does not depend on its test has  *)
(* children with the same function.                                         *)
LEMMA TestInVain ==
  ASSUME NEW t, NEW R, DiagramOver(t, R), NEW i \in Inner(t), NEW j \in Indices(t),
         SameFunction(t, R, i, j), TestsAfter(t, NodeAt(t, i).rva, j)
  PROVE  SameFunction(t, R, NodeAt(t, i).low, NodeAt(t, i).high)
<1> DEFINE node == NodeAt(t, i)
           x == node.rva
<1>1. /\ x \in Rva /\ x \in R /\ node.low \in Indices(t) /\ node.high \in Indices(t)
      /\ \A v : NodeValues(t, v)[i] = IF x \in v THEN NodeValues(t, v)[node.high]
                                      ELSE NodeValues(t, v)[node.low]
  BY InnerFacts
<1>2. TestsAfter(t, x, node.low) /\ TestsAfter(t, x, node.high) /\ TestsAfter(t, x, j)
  BY <1>1, ChildrenTestAfter
<1> HIDE DEF node, x
<1>3. ASSUME NEW w \in SUBSET R
      PROVE  NodeValues(t, w)[node.low] = NodeValues(t, w)[node.high]
  <2> DEFINE w0 == w \ {x}
             w1 == w \cup {x}
  <2>1. /\ SameBut(x, w, w0) /\ SameBut(x, w, w1) /\ SameBut(x, w0, w1)
        /\ w0 \in SUBSET R /\ w1 \in SUBSET R /\ x \notin w0 /\ x \in w1
    BY <1>1 DEF SameBut
  <2> HIDE DEF w0, w1
  <2>2. NodeValues(t, w)[node.low] = NodeValues(t, w0)[node.low]
    BY <1>1, <1>2, <2>1, ValueIgnores
  <2>3. NodeValues(t, w)[node.high] = NodeValues(t, w1)[node.high]
    BY <1>1, <1>2, <2>1, ValueIgnores
  <2>4. NodeValues(t, w0)[j] = NodeValues(t, w1)[j]
    BY <1>1, <1>2, <2>1, ValueIgnores
  <2>5. NodeValues(t, w0)[i] = NodeValues(t, w0)[j] /\ NodeValues(t, w1)[i] = NodeValues(t, w1)[j]
    BY <2>1 DEF SameFunction
  <2>6. NodeValues(t, w0)[i] = NodeValues(t, w0)[node.low] /\ NodeValues(t, w1)[i] = NodeValues(t, w1)[node.high]
    BY <1>1, <2>1
  <2>7. QED
    BY <2>2, <2>3, <2>4, <2>5, <2>6
<1>4. QED
  BY <1>3 DEF SameFunction, node

(* Two nodes with one test and one function have children to match.         *)
LEMMA SameTest ==
  ASSUME NEW t, NEW R, DiagramOver(t, R), NEW i \in Inner(t), NEW j \in Inner(t),
         SameFunction(t, R, i, j), NodeAt(t, i).rva = NodeAt(t, j).rva
  PROVE  /\ SameFunction(t, R, NodeAt(t, i).low, NodeAt(t, j).low)
         /\ SameFunction(t, R, NodeAt(t, i).high, NodeAt(t, j).high)
<1> DEFINE a == NodeAt(t, i)
           b == NodeAt(t, j)
           x == a.rva
<1>1. /\ x \in Rva /\ x \in R /\ a.low \in Indices(t) /\ a.high \in Indices(t)
      /\ \A v : NodeValues(t, v)[i] = IF x \in v THEN NodeValues(t, v)[a.high]
                                      ELSE NodeValues(t, v)[a.low]
  BY InnerFacts
<1>2. /\ x = b.rva /\ b.low \in Indices(t) /\ b.high \in Indices(t)
      /\ \A v : NodeValues(t, v)[j] = IF b.rva \in v THEN NodeValues(t, v)[b.high]
                                      ELSE NodeValues(t, v)[b.low]
  BY InnerFacts
<1>3. /\ TestsAfter(t, x, a.low) /\ TestsAfter(t, x, a.high)
      /\ TestsAfter(t, x, b.low) /\ TestsAfter(t, x, b.high)
  BY <1>1, <1>2, ChildrenTestAfter
<1> HIDE DEF a, b, x
<1>4. ASSUME NEW w \in SUBSET R
      PROVE  /\ NodeValues(t, w)[a.low] = NodeValues(t, w)[b.low]
             /\ NodeValues(t, w)[a.high] = NodeValues(t, w)[b.high]
  <2> DEFINE w0 == w \ {x}
             w1 == w \cup {x}
  <2>1. /\ SameBut(x, w, w0) /\ SameBut(x, w, w1)
        /\ w0 \in SUBSET R /\ w1 \in SUBSET R /\ x \notin w0 /\ x \in w1
    BY <1>1 DEF SameBut
  <2> HIDE DEF w0, w1
  <2>2. /\ NodeValues(t, w)[a.low] = NodeValues(t, w0)[a.low]
        /\ NodeValues(t, w)[b.low] = NodeValues(t, w0)[b.low]
    BY <1>1, <1>2, <1>3, <2>1, ValueIgnores
  <2>3. /\ NodeValues(t, w)[a.high] = NodeValues(t, w1)[a.high]
        /\ NodeValues(t, w)[b.high] = NodeValues(t, w1)[b.high]
    BY <1>1, <1>2, <1>3, <2>1, ValueIgnores
  <2>4. NodeValues(t, w0)[i] = NodeValues(t, w0)[j] /\ NodeValues(t, w1)[i] = NodeValues(t, w1)[j]
    BY <2>1 DEF SameFunction
  <2>5. /\ NodeValues(t, w0)[i] = NodeValues(t, w0)[a.low]
        /\ NodeValues(t, w1)[i] = NodeValues(t, w1)[a.high]
    BY <1>1, <2>1
  <2>6. /\ NodeValues(t, w0)[j] = NodeValues(t, w0)[b.low]
        /\ NodeValues(t, w1)[j] = NodeValues(t, w1)[b.high]
    BY <1>2, <2>1
  <2>7. QED
    BY <2>2, <2>3, <2>4, <2>5, <2>6
<1>5. QED
  BY <1>4 DEF SameFunction, a, b

(* Nodes of a diagram that denote the same function are the same node.      *)
LEMMA FunctionsDistinct ==
  ASSUME NEW t, NEW R, DiagramOver(t, R),
         NEW i \in Indices(t), NEW j \in Indices(t), SameFunction(t, R, i, j)
  PROVE  i = j
<1> DEFINE Twin(k) == \E m \in Indices(t) : m < k /\ SameFunction(t, R, m, k)
           Twins == {k \in Indices(t) : Twin(k)}
<1>1. Len(t) \in Nat /\ Indices(t) \subseteq Nat
  BY DEF DiagramOver, Indices
<1>2. SameFunction(t, R, j, i)
  BY DEF SameFunction
<1>3. SUFFICES Twins = {}
  BY <1>1, <1>2
<1>4. SUFFICES ASSUME Twins # {} PROVE FALSE
  OBVIOUS
<1>5. PICK b \in Twins : \A k \in Twins : b <= k
  <2>1. Twins \in SUBSET Nat
    BY <1>1
  <2> HIDE DEF Twins
  <2>2. QED
    BY <1>4, <2>1, LeastNatural
<1>6. PICK a \in Indices(t) : a < b /\ SameFunction(t, R, a, b)
  BY <1>5
<1>7. a \in Nat /\ b \in Nat /\ a \in Indices(t) /\ b \in Indices(t)
  BY <1>1, <1>5, <1>6
<1>8. SameFunction(t, R, b, a)
  BY <1>6 DEF SameFunction
(* By the choice of b, nodes before b with the same function are equal.     *)
<1>9. ASSUME NEW k \in Indices(t), NEW m \in Indices(t), k < b, m < b, SameFunction(t, R, k, m)
      PROVE  k = m
  <2>1. SameFunction(t, R, m, k) /\ k \in Nat /\ m \in Nat
    BY <1>1, <1>9 DEF SameFunction
  <2>2. ~(b <= k) /\ ~(b <= m)
    BY <1>7, <1>9, <2>1
  <2>3. k \notin Twins /\ m \notin Twins
    <3> HIDE DEF Twins
    <3>1. QED
      BY <1>5, <2>2
  <2>4. ~(k < m) /\ ~(m < k)
    BY <1>9, <2>1, <2>3
  <2>5. QED
    BY <2>1, <2>4
<1> HIDE DEF Twins, Twin
<1>10. ASSUME a \in Inner(t), TestsAfter(t, NodeAt(t, a).rva, b)
       PROVE  FALSE
  <2> DEFINE low == NodeAt(t, a).low
             high == NodeAt(t, a).high
  <2>1. low \in Indices(t) /\ high \in Indices(t) /\ low < a /\ high < a /\ low # high
    BY <1>10, InnerFacts
  <2>2. SameFunction(t, R, low, high)
    BY <1>6, <1>7, <1>10, TestInVain
  <2> HIDE DEF low, high
  <2>3. low < b /\ high < b
    BY <1>1, <1>6, <1>7, <2>1
  <2>4. QED
    BY <1>9, <2>1, <2>2, <2>3
<1>11. ASSUME b \in Inner(t), TestsAfter(t, NodeAt(t, b).rva, a)
       PROVE  FALSE
  <2> DEFINE low == NodeAt(t, b).low
             high == NodeAt(t, b).high
  <2>1. low \in Indices(t) /\ high \in Indices(t) /\ low < b /\ high < b /\ low # high
    BY <1>11, InnerFacts
  <2>2. SameFunction(t, R, low, high)
    BY <1>7, <1>8, <1>11, TestInVain
  <2> HIDE DEF low, high
  <2>3. QED
    BY <1>9, <2>1, <2>2
<1>12. ASSUME NodeAt(t, a) = NodeAt(t, b)
       PROVE  FALSE
  BY <1>6, <1>7, <1>12 DEF DiagramOver, IsReduced
<1>13. CASE a \notin Inner(t) /\ b \notin Inner(t)
  <2>1. PICK c \in {0, 1} : NodeAt(t, a) = LeafRec(c) /\ \A w : NodeValues(t, w)[a] = c
    BY <1>7, <1>13, LeafFacts
  <2>2. PICK d \in {0, 1} : NodeAt(t, b) = LeafRec(d) /\ \A w : NodeValues(t, w)[b] = d
    BY <1>7, <1>13, LeafFacts
  <2>3. NodeValues(t, {})[a] = NodeValues(t, {})[b]
    BY <1>6 DEF SameFunction
  <2>4. QED
    BY <1>12, <2>1, <2>2, <2>3
<1>14. CASE a \in Inner(t) /\ b \notin Inner(t)
  BY <1>10, <1>14 DEF TestsAfter
<1>15. CASE a \notin Inner(t) /\ b \in Inner(t)
  BY <1>11, <1>15 DEF TestsAfter
<1>16. CASE a \in Inner(t) /\ b \in Inner(t)
  <2> DEFINE x == NodeAt(t, a).rva
             y == NodeAt(t, b).rva
  <2>1. x \in Rva /\ y \in Rva
    BY <1>16, InnerFacts
  <2>2. CASE RvaBefore(x, y)
    BY <1>10, <1>16, <2>2 DEF TestsAfter
  <2>3. CASE RvaBefore(y, x)
    BY <1>11, <1>16, <2>3 DEF TestsAfter
  <2>4. CASE x = y
    <3> DEFINE m == NodeAt(t, a)
               k == NodeAt(t, b)
    <3>1. /\ m.low \in Indices(t) /\ m.high \in Indices(t) /\ m.low < a /\ m.high < a
          /\ m = NodeRec(m.rva, m.low, m.high)
      BY <1>16, InnerFacts
    <3>2. /\ k.low \in Indices(t) /\ k.high \in Indices(t) /\ k.low < b /\ k.high < b
          /\ k = NodeRec(k.rva, k.low, k.high)
      BY <1>16, InnerFacts
    <3>3. SameFunction(t, R, m.low, k.low) /\ SameFunction(t, R, m.high, k.high)
      BY <1>6, <1>16, <2>4, SameTest
    <3>4. m.rva = k.rva
      BY <2>4
    <3> HIDE DEF m, k
    <3>5. m.low < b /\ m.high < b
      BY <1>1, <1>6, <1>7, <3>1
    <3>6. m.low = k.low /\ m.high = k.high
      BY <1>9, <3>1, <3>2, <3>3, <3>5
    <3>7. m = k
      BY <3>1, <3>2, <3>4, <3>6
    <3>8. QED
      BY <1>12, <3>7 DEF m, k
  <2>5. RvaBefore(x, y) \/ RvaBefore(y, x) \/ x = y
    <3> HIDE DEF x, y
    <3>1. QED
      BY <2>1 DEF RvaBefore, Rva, VarName
  <2>6. QED
    BY <2>2, <2>3, <2>4, <2>5
<1>17. QED
  BY <1>13, <1>14, <1>15, <1>16

-----------------------------------------------------------------------------
(***************************************************************************)
(* bdd_build as BddValue has it, a function of the depth: its equation has *)
(* a solution, so it holds.                                                *)
(***************************************************************************)
Results == [tree : Seq(AtOnce!BddNode), node : Nat]

LEMMA MkTypes ==
  ASSUME NEW t \in Seq(AtOnce!BddNode), NEW rva \in AtOnce!Rva, NEW low \in Nat, NEW high \in Nat
  PROVE  AtOnce!Mk(t, rva, low, high) \in Results
<1> DEFINE equal == {i \in AtOnce!Indices(t) : i > low /\ i > high /\ AtOnce!NodeAt(t, i) = AtOnce!NodeRec(rva, low, high)}
<1>1. Len(t) \in Nat
  BY LenProperties
<1>2. CASE low = high
  BY <1>2 DEF AtOnce!Mk, AtOnce!Result, Results
<1>3. CASE low # high /\ equal # {}
  <2>1. PICK e \in equal : \A j \in equal : e <= j
    <3>1. equal \in SUBSET Nat
      BY <1>1 DEF AtOnce!Indices
    <3> HIDE DEF equal
    <3>2. QED
      BY <1>3, <3>1, LeastNatural
  <2>2. PICK c \in equal : c = CHOOSE i \in equal : \A j \in equal : i <= j
    BY <2>1
  <2>3. AtOnce!Mk(t, rva, low, high) = AtOnce!Result(t, c)
    BY <1>3, <2>2 DEF AtOnce!Mk
  <2>4. c \in Nat
    BY <1>1, <2>2 DEF AtOnce!Indices
  <2>5. QED
    BY <2>3, <2>4 DEF AtOnce!Result, Results
<1>4. CASE low # high /\ equal = {}
  <2>1. AtOnce!Mk(t, rva, low, high) = AtOnce!Result(Append(t, AtOnce!NodeRec(rva, low, high)), Len(t))
    BY <1>4 DEF AtOnce!Mk
  <2>2. AtOnce!NodeRec(rva, low, high) \in AtOnce!BddNode
    BY DEF AtOnce!BddNode, AtOnce!NodeRec
  <2>3. Append(t, AtOnce!NodeRec(rva, low, high)) \in Seq(AtOnce!BddNode)
    BY <2>2
  <2>4. QED
    BY <1>1, <2>1, <2>3 DEF AtOnce!Result, Results
<1>5. QED
  BY <1>2, <1>3, <1>4

LEMMA NextVarFacts ==
  ASSUME NEW o, Len(o) \in Nat, NEW d \in 1 .. Len(o)
  PROVE  /\ AtOnce!NextVar(o, d) \in d + 1 .. Len(o) + 1
         /\ \A k \in d + 1 .. AtOnce!NextVar(o, d) - 1 : AtOnce!IsSameVar(o[k], o[d])
         /\ AtOnce!NextVar(o, d) <= Len(o) => ~AtOnce!IsSameVar(o[AtOnce!NextVar(o, d)], o[d])
<1> DEFINE Stops == {e \in d + 1 .. Len(o) + 1 : e <= Len(o) => ~AtOnce!IsSameVar(o[e], o[d])}
<1>1. Len(o) + 1 \in Stops /\ Stops \in SUBSET Nat
  OBVIOUS
<1>2. PICK e \in Stops : \A k \in Stops : e <= k
  <2> HIDE DEF Stops
  <2>1. QED
    BY <1>1, LeastNatural
<1>3. \A k \in d + 1 .. e - 1 : AtOnce!IsSameVar(o[k], o[d])
  <2>1. SUFFICES ASSUME NEW k \in d + 1 .. e - 1, ~AtOnce!IsSameVar(o[k], o[d])
                 PROVE  FALSE
    OBVIOUS
  <2>2. k \in Stops
    BY <1>2, <2>1
  <2>3. QED
    BY <1>2, <2>2
<1>4. QED
  BY <1>2, <1>3 DEF AtOnce!NextVar

BuildCall(in, g, d, w, t) ==
  IF d > Len(in.order) THEN AtOnce!Result(t, IF w \in in.sat THEN 1 ELSE 0)
  ELSE LET rva == in.order[d]
           l == g[d + 1][w][t]
           h == g[AtOnce!NextVar(in.order, d)][w \cup {rva}][l.tree]
       IN  AtOnce!Mk(h.tree, rva, l.node, h.node)

BuildStep(in, g, d) == [w \in SUBSET AtOnce!Rva |-> [t \in Seq(AtOnce!BddNode) |-> BuildCall(in, g, d, w, t)]]

LEMMA BuiltIs ==
  ASSUME NEW in, in.order \in Seq(AtOnce!Rva)
  PROVE  /\ AtOnce!Built(in) \in [1 .. Len(in.order) + 1 -> [SUBSET AtOnce!Rva -> [Seq(AtOnce!BddNode) -> Results]]]
         /\ \A d \in 1 .. Len(in.order) + 1 : AtOnce!Built(in)[d] = BuildStep(in, AtOnce!Built(in), d)
<1> DEFINE len == Len(in.order)
           D == 1 .. len + 1
           V == [SUBSET AtOnce!Rva -> [Seq(AtOnce!BddNode) -> Results]]
           rank == [d \in D |-> len + 1 - d]
           S == [q \in [D -> V] \X D |-> BuildStep(in, q[1], q[2])]
<1>1. len \in Nat
  BY LenProperties
<1>2. \A d \in 1 .. len : d + 1 \in D /\ AtOnce!NextVar(in.order, d) \in D /\ AtOnce!NextVar(in.order, d) > d /\ in.order[d] \in AtOnce!Rva
  <2>1. SUFFICES ASSUME NEW d \in 1 .. len
                 PROVE  d + 1 \in D /\ AtOnce!NextVar(in.order, d) \in D /\ AtOnce!NextVar(in.order, d) > d /\ in.order[d] \in AtOnce!Rva
    OBVIOUS
  <2>2. AtOnce!NextVar(in.order, d) \in d + 1 .. len + 1
    BY <1>1, NextVarFacts
  <2>3. QED
    BY <1>1, <2>2
<1>3. ASSUME NEW g \in [D -> V], NEW d \in D
      PROVE  BuildStep(in, g, d) \in V
  <2>1. ASSUME NEW w \in SUBSET AtOnce!Rva, NEW t \in Seq(AtOnce!BddNode)
        PROVE  BuildCall(in, g, d, w, t) \in Results
    <3>1. CASE d > len
      BY <3>1, Zenon DEF BuildCall, AtOnce!Result, Results
    <3>2. CASE ~(d > len)
      <4>1. d \in 1 .. len
        BY <1>1, <3>2
      <4>2. PICK e \in D : e = AtOnce!NextVar(in.order, d)
        BY <1>2, <4>1
      <4>3. PICK x \in SUBSET AtOnce!Rva : x = w \cup {in.order[d]}
        BY <1>2, <4>1
      <4>10. PICK c \in D : c = d + 1
        BY <1>2, <4>1
      <4>11. g[c] \in V /\ g[e] \in V
        <5> HIDE DEF D, V
        <5>1. QED
          OBVIOUS
      <4>12. g[c][w][t] \in Results
        <5>1. g[c] \in [SUBSET AtOnce!Rva -> [Seq(AtOnce!BddNode) -> Results]]
          BY <4>11
        <5>2. g[c][w] \in [Seq(AtOnce!BddNode) -> Results]
          BY <5>1
        <5>3. QED
          BY <5>2
      <4>4. PICK l \in Results : l = g[d + 1][w][t]
        BY <4>10, <4>12
      <4>5. l.tree \in Seq(AtOnce!BddNode) /\ l.node \in Nat
        BY <4>4 DEF Results
      <4>6. PICK h \in Results : h = g[e][x][l.tree]
        <5>1. g[e] \in [SUBSET AtOnce!Rva -> [Seq(AtOnce!BddNode) -> Results]]
          BY <4>11
        <5>2. g[e][x] \in [Seq(AtOnce!BddNode) -> Results]
          BY <5>1
        <5>3. g[e][x][l.tree] \in Results
          BY <4>5, <5>2
        <5>4. QED
          BY <5>3
      <4>7. h.tree \in Seq(AtOnce!BddNode) /\ h.node \in Nat
        BY <4>6 DEF Results
      <4>8. AtOnce!Mk(h.tree, in.order[d], l.node, h.node) \in Results
        BY <1>2, <4>1, <4>5, <4>7, MkTypes
      <4>9. QED
        BY <3>2, <4>2, <4>3, <4>4, <4>6, <4>8 DEF BuildCall
    <3>3. QED
      BY <3>1, <3>2, Zenon
  <2> HIDE DEF D
  <2>2. QED
    BY <2>1 DEF BuildStep
<1>4. V # {}
  <2>1. AtOnce!Result(<<>>, 0) \in Results
    BY DEF Results, AtOnce!Result
  <2>2. [w \in SUBSET AtOnce!Rva |-> [t \in Seq(AtOnce!BddNode) |-> AtOnce!Result(<<>>, 0)]] \in V
    BY <2>1
  <2>3. QED
    BY <2>2
<1>5. rank \in [D -> Nat]
  BY <1>1
<1>6. \A g \in [D -> V], d \in D : S[<<g, d>>] = BuildStep(in, g, d)
  <2> HIDE DEF D, V
  <2>1. QED
    OBVIOUS
<1>7. S \in [[D -> V] \X D -> V]
  <2> HIDE DEF D, V
  <2>1. QED
    BY <1>3
<1>8. Descends(D, V, S, rank)
  <2>1. SUFFICES ASSUME NEW d \in D, NEW g \in [D -> V], NEW h \in [D -> V],
                        \A y \in D : rank[y] < rank[d] => g[y] = h[y]
                 PROVE  BuildStep(in, g, d) = BuildStep(in, h, d)
    <3> HIDE DEF D, V, rank, S
    <3>1. SUFFICES ASSUME NEW d \in D, NEW g \in [D -> V], NEW h \in [D -> V],
                          \A y \in D : rank[y] < rank[d] => g[y] = h[y]
                   PROVE  S[<<g, d>>] = S[<<h, d>>]
      BY DEF Descends
    <3>2. S[<<g, d>>] = BuildStep(in, g, d) /\ S[<<h, d>>] = BuildStep(in, h, d)
      BY <1>6
    <3>3. QED
      BY <3>1, <3>2
  <2>2. CASE d > len
    BY <2>2 DEF BuildStep, BuildCall
  <2>3. CASE ~(d > len)
    <3>1. d \in 1 .. len
      BY <1>1, <2>3
    <3>2. PICK e \in D : e = AtOnce!NextVar(in.order, d) /\ e > d
      BY <1>2, <3>1
    <3>3. g[d + 1] = h[d + 1] /\ g[e] = h[e]
      <4>1. PICK c \in D : c = d + 1 /\ c > d
        BY <1>1, <1>2, <3>1
      <4>2. rank[c] < rank[d] /\ rank[e] < rank[d]
        BY <1>1, <3>1, <3>2, <4>1
      <4> HIDE DEF D, rank
      <4>3. QED
        BY <2>1, <3>2, <4>1, <4>2
    <3>4. QED
      BY <2>3, <3>2, <3>3 DEF BuildStep, BuildCall
  <2>4. QED
    BY <2>2, <2>3
<1>9. PICK f \in [D -> V] : \A d \in D : f[d] = BuildStep(in, f, d)
  <2>1. Solvable(D, V, S)
    <3> HIDE DEF D, V, rank, S
    <3>1. QED
      BY <1>4, <1>5, <1>7, <1>8, Recursion
  <2> HIDE DEF D, V, S
  <2>2. QED
    BY <1>6, <2>1 DEF Solvable
<1>10. f = [d \in D |-> BuildStep(in, f, d)]
  <2> HIDE DEF D, V
  <2>1. QED
    BY <1>9, Zenon
<1>11. AtOnce!Built(in) = [d \in D |-> BuildStep(in, AtOnce!Built(in), d)]
  BY <1>10, Zenon DEF AtOnce!Built, BuildStep, BuildCall
<1>12. \A g : g = [d \in D |-> BuildStep(in, g, d)] => g \in [D -> V]
  <2>1. SUFFICES ASSUME NEW g, g = [d \in D |-> BuildStep(in, g, d)]
                 PROVE  \A d \in D : g[d] = f[d]
    <3> HIDE DEF D, V
    <3>1. QED
      BY <1>9, <2>1
  <2>2. AgreeUpwards(D, rank, g, f)
    <3>1. SUFFICES ASSUME NEW d \in D, \A y \in D : rank[y] < rank[d] => g[y] = f[y]
                   PROVE  BuildStep(in, g, d) = BuildStep(in, f, d)
      <4>1. \A d \in D : g[d] = BuildStep(in, g, d) /\ f[d] = BuildStep(in, f, d)
        <5> HIDE DEF D, V
        <5>1. QED
          BY <1>9, <2>1
      <4> HIDE DEF D, V, rank
      <4>2. QED
        BY <4>1 DEF AgreeUpwards
    <3>2. CASE d > len
      BY <3>2 DEF BuildStep, BuildCall
    <3>3. CASE ~(d > len)
      <4>1. d \in 1 .. len
        BY <1>1, <3>3
      <4>2. PICK e \in D : e = AtOnce!NextVar(in.order, d) /\ e > d
        BY <1>2, <4>1
      <4>3. g[d + 1] = f[d + 1] /\ g[e] = f[e]
        <5>1. PICK c \in D : c = d + 1 /\ c > d
          BY <1>1, <1>2, <4>1
        <5>2. rank[c] < rank[d] /\ rank[e] < rank[d]
          BY <1>1, <4>1, <4>2, <5>1
        <5> HIDE DEF D, rank
        <5>3. QED
          BY <3>1, <4>2, <5>1, <5>2
      <4>4. QED
        BY <3>3, <4>2, <4>3 DEF BuildStep, BuildCall
    <3>4. QED
      BY <3>2, <3>3
  <2> HIDE DEF D, V, rank
  <2>3. QED
    BY <1>5, <2>2, Agreement
<1>13. QED
  <2> HIDE DEF V
  <2>1. AtOnce!Built(in) \in [D -> V]
    BY <1>11, <1>12
  <2>2. \A d \in D : AtOnce!Built(in)[d] = BuildStep(in, AtOnce!Built(in), d)
    BY <1>11
  <2>3. QED
    BY <2>1, <2>2 DEF V

LEMMA BuiltAt ==
  ASSUME NEW in, in.order \in Seq(AtOnce!Rva), NEW d, d \in 1 .. Len(in.order) + 1,
         NEW w, w \in SUBSET AtOnce!Rva, NEW t, t \in Seq(AtOnce!BddNode)
  PROVE  AtOnce!Built(in)[d][w][t] = BuildCall(in, AtOnce!Built(in), d, w, t)
<1>1. AtOnce!Built(in)[d] = BuildStep(in, AtOnce!Built(in), d)
  BY BuiltIs
<1> DEFINE f == AtOnce!Built(in)
<1>2. f[d] = [x \in SUBSET AtOnce!Rva |-> [u \in Seq(AtOnce!BddNode) |-> BuildCall(in, f, d, x, u)]]
  BY <1>1 DEF BuildStep
<1> HIDE DEF f
<1>3. f[d][w] = [u \in Seq(AtOnce!BddNode) |-> BuildCall(in, f, d, w, u)]
  BY <1>2
<1>4. f[d][w][t] = BuildCall(in, f, d, w, t)
  BY <1>3
<1>5. QED
  BY <1>4 DEF f

-----------------------------------------------------------------------------
USE NodeiMaxAssumption DEF NoNode

-----------------------------------------------------------------------------
(* The search of _bctx_skip_samevar ends, right behind the last value of the *)
(* variable at depth d.                                                      *)
LEMMA NextVarDepthFacts ==
  ASSUME IsRvaOrder(order), NEW d \in 0 .. n - 1
  PROVE  /\ NextVarDepth(d) \in d + 1 .. n
         /\ \A k \in d + 1 .. NextVarDepth(d) - 1 : IsSameVar(OrderRva(k), OrderRva(d))
         /\ NextVarDepth(d) < n => ~IsSameVar(OrderRva(NextVarDepth(d)), OrderRva(d))
<1> DEFINE Stops == {e \in d + 1 .. n : e < n => ~IsSameVar(OrderRva(e), OrderRva(d))}
<1>1. n \in Nat
  BY DEF n, IsRvaOrder
<1>2. PICK e \in Stops : \A k \in Stops : e <= k
  <2>1. n \in Stops /\ Stops \in SUBSET Nat
    BY <1>1
  <2> HIDE DEF Stops
  <2>2. QED
    BY <2>1, LeastNatural
<1>3. \A k \in d + 1 .. e - 1 : IsSameVar(OrderRva(k), OrderRva(d))
  BY <1>1, <1>2
<1>4. QED
  BY <1>2, <1>3 DEF NextVarDepth

(* A variable's values are adjacent in the order: behind them, every rva is *)
(* of a later variable.                                                     *)
LEMMA OrderFacts ==
  ASSUME IsRvaOrder(order), NEW d \in 0 .. n - 1
  PROVE  /\ OrderRva(d) \in Rva
         /\ \A p \in d + 2 .. n : RvaBefore(OrderRva(d), order[p])
         /\ \A p \in NextVarDepth(d) + 1 .. n : OrderRva(d).var < order[p].var
<1>1. n \in Nat /\ \A p \in 1 .. n : order[p] \in Rva
  BY DEF n, IsRvaOrder
<1>2. OrderRva(d) \in Rva
  BY <1>1 DEF OrderRva
<1>3. \A p \in d + 2 .. n : RvaBefore(OrderRva(d), order[p])
  BY <1>1 DEF n, IsRvaOrder, OrderRva
<1>4. ASSUME NEW p \in NextVarDepth(d) + 1 .. n
      PROVE  OrderRva(d).var < order[p].var
  <2> DEFINE e == NextVarDepth(d)
  <2>1. e \in d + 1 .. n /\ e < n /\ ~IsSameVar(OrderRva(e), OrderRva(d))
    BY <1>1, <1>4, NextVarDepthFacts
  <2> HIDE DEF e
  <2>2. RvaBefore(OrderRva(d), OrderRva(e)) /\ OrderRva(e) \in Rva
    BY <1>1, <1>3, <2>1 DEF OrderRva
  <2>3. p = e + 1 \/ RvaBefore(OrderRva(e), order[p])
    BY <1>1, <1>4, <2>1 DEF n, IsRvaOrder, OrderRva, e
  <2>4. order[p] \in Rva /\ (p = e + 1 => order[p] = OrderRva(e))
    BY <1>1, <1>4, <2>1 DEF OrderRva, e
  <2>5. QED
    BY <1>2, <2>1, <2>2, <2>3, <2>4 DEF RvaBefore, IsSameVar, Rva, VarName
<1>5. QED
  BY <1>2, <1>3, <1>4

-----------------------------------------------------------------------------
(* The stack without its top. *)
LEMMA PopFacts ==
  ASSUME NEW S, stack \in Seq(S), stack # <<>>
  PROVE  /\ Len(stack) \in Nat /\ Len(stack) >= 1
         /\ Top \in S
         /\ Pop \in Seq(S)
         /\ Len(Pop) = Len(stack) - 1
         /\ \A k \in 1 .. Len(stack) - 1 : Pop[k] = stack[k]
<1>1. Len(stack) \in Nat /\ Len(stack) >= 1
  OBVIOUS
<1>2. Top \in S
  BY <1>1 DEF Top
<1>3. \A k \in 1 .. Len(stack) - 1 : stack[k] \in S
  BY <1>1
<1> DEFINE m == Len(stack) - 1
<1>4. 1 \in Int /\ m \in Int /\ \A k \in 1 .. m : stack[k] \in S
  BY <1>1, <1>3
<1> HIDE DEF m
<1>5. /\ SubSeq(stack, 1, m) \in Seq(S)
      /\ Len(SubSeq(stack, 1, m)) = IF 1 <= m THEN m - 1 + 1 ELSE 0
      /\ \A i \in 1 .. m - 1 + 1 : SubSeq(stack, 1, m)[i] = stack[1 + i - 1]
  BY <1>4, SubSeqProperties
<1>6. Pop = SubSeq(stack, 1, m) /\ Len(stack) = m + 1
  BY <1>1 DEF Pop, m
<1>7. Len(Pop) = m /\ \A k \in 1 .. m : Pop[k] = stack[k]
  BY <1>1, <1>4, <1>5, <1>6
<1>8. QED
  BY <1>1, <1>2, <1>4, <1>5, <1>6, <1>7

-----------------------------------------------------------------------------
(***************************************************************************)
(* Shape: what TypeOK needs to be inductive.  The activation records form  *)
(* a chain of calls from depth 0, each deeper than the one before it, and  *)
(* the vector holds the two leaves and inner nodes behind them.            *)
(***************************************************************************)
StackInv ==
  /\ \A k \in 1 .. Len(stack) :
       stack[k].depth = IF k = 1 THEN 0 ELSE ChildDepth(stack[k - 1])
  /\ \A j, k \in 1 .. Len(stack) : j < k => stack[j].depth < stack[k].depth
  /\ \A k \in 1 .. Len(stack) : stack[k].at = "high" => stack[k].l \in Indices(tree)

TreeInv ==
  /\ pc \in {"build", "return"} => Len(tree) >= 2
  /\ pc = "done" => Len(tree) >= 1 /\ (ret # NoNode => Len(tree) # 2)
  /\ tree # <<>> => \E b \in {0, 1} : NodeAt(tree, 0) = LeafRec(b)
  /\ Len(tree) >= 2 => NodeAt(tree, 0) = LeafRec(0) /\ NodeAt(tree, 1) = LeafRec(1)
  /\ \A i \in Indices(tree) : i >= 2 => i \in Inner(tree)
  /\ ChildrenEarlier(tree)

PhaseInv ==
  /\ pc = "start" => tree = <<>> /\ stack = <<>> /\ depth = 0
  /\ pc = "build" => depth = CallDepth
  /\ pc = "done" => stack = <<>>
  /\ pc = "done" => bdd = (IF ret = NoNode THEN NoBdd ELSE tree)
  /\ pc # "done" => bdd = NoBdd

ShapeInv == TypeOK /\ StackInv /\ TreeInv /\ PhaseInv

LEMMA ShapeInit == Init => ShapeInv
<1> SUFFICES ASSUME Init PROVE ShapeInv
  OBVIOUS
<1>1. IsRvaOrder(order) /\ input.sat \subseteq SUBSET RvasOf(order)
  BY InputsAssumption DEF Init, order
<1>2. n \in Nat
  BY <1>1 DEF n, IsRvaOrder
<1>3. frame \in [0 .. n -> Frame]
  BY <1>2 DEF Init, Frame
<1>4. TypeOK
  BY <1>1, <1>2, <1>3 DEF Init, TypeOK, NoBdd
<1>5. Inner(tree) = {} /\ Indices(tree) = {}
  BY DEF Init, Inner, Indices
<1>6. StackInv /\ TreeInv /\ PhaseInv
  BY <1>5 DEF Init, StackInv, TreeInv, PhaseInv, ChildrenEarlier
<1>7. QED
  BY <1>4, <1>6 DEF ShapeInv

(* The depth of the call below a record: deeper than the record's own.      *)
LEMMA ChildDepthFacts ==
  ASSUME IsRvaOrder(order), NEW rec, rec.depth \in 0 .. n - 1
  PROVE  ChildDepth(rec) \in rec.depth + 1 .. n
<1>1. n \in Nat
  BY DEF n, IsRvaOrder
<1>2. QED
  BY <1>1, NextVarDepthFacts DEF ChildDepth

(* ChildDepth reads the input only. *)
LEMMA ChildDepthUnchanged ==
  ASSUME UNCHANGED input, NEW rec
  PROVE  ChildDepth(rec)' = ChildDepth(rec)
BY DEF ChildDepth, NextVarDepth, OrderRva, order, n

LEMMA ChildDepthOnStack ==
  ASSUME UNCHANGED input, NEW k
  PROVE  ChildDepth(stack[k])' = ChildDepth(stack'[k])
<1>1. \A d : NextVarDepth(d)' = NextVarDepth(d)
  BY DEF NextVarDepth, OrderRva, order, n
<1>2. QED
  BY <1>1 DEF ChildDepth

(* The input is fixed for the whole construction, and with it the order.    *)
LEMMA InputUnchanged ==
  ASSUME ShapeInv, UNCHANGED input
  PROVE  /\ order' = order /\ n' = n /\ n \in Nat
         /\ IsRvaOrder(order)' /\ (input.sat \subseteq SUBSET RvasOf(order))'
<1>1. order' = order /\ n' = n
  BY DEF order, n
<1>2. IsRvaOrder(order) /\ input.sat \subseteq SUBSET RvasOf(order)
  BY DEF ShapeInv, TypeOK
<1>3. order \in Seq(Rva) /\ n \in Nat
  BY <1>2 DEF IsRvaOrder, n
<1>4. IsRvaOrder(order)'
  BY <1>1, <1>2 DEF IsRvaOrder
<1>5. (input.sat \subseteq SUBSET RvasOf(order))'
  BY <1>1, <1>2 DEF RvasOf
<1>6. QED
  BY <1>1, <1>3, <1>4, <1>5

LEMMA RecordFacts ==
  ASSUME ShapeInv, NEW k \in 1 .. Len(stack)
  PROVE  /\ n \in Nat /\ stack[k] \in Record
         /\ stack[k].depth \in 0 .. n - 1 /\ stack[k].depth \in Nat
         /\ stack[k].at \in {"low", "high"}
<1>1. stack \in Seq(Record)
  BY DEF ShapeInv, TypeOK
<1>2. stack[k] \in Record
  BY <1>1
<1>3. n \in Nat
  BY DEF ShapeInv, TypeOK, IsRvaOrder, n
<1>4. QED
  BY <1>2, <1>3 DEF Record

LEMMA ShapeStart == ShapeInv /\ StartBuild => ShapeInv'
<1> SUFFICES ASSUME ShapeInv, StartBuild PROVE ShapeInv'
  OBVIOUS
<1>1. UNCHANGED input /\ stack = <<>> /\ depth = 0 /\ stack' = <<>>
  BY DEF ShapeInv, PhaseInv, StartBuild
<1>0. order' = order /\ n' = n /\ n \in Nat /\ IsRvaOrder(order)' /\ (input.sat \subseteq SUBSET RvasOf(order))'
  BY <1>1, InputUnchanged
<1>2. tree' = <<LeafRec(0), LeafRec(1)>> /\ Len(tree') = 2 /\ Indices(tree') = 0 .. 1
  BY DEF StartBuild, Indices
<1>3. NodeAt(tree', 0) = LeafRec(0) /\ NodeAt(tree', 1) = LeafRec(1)
  BY <1>2 DEF NodeAt
<1>4. tree' \in Seq(BddNode)
  BY <1>2 DEF BddNode
<1>5. Inner(tree') = {}
  BY <1>2, <1>3 DEF Inner, IsLeaf, LeafRec, NodeRec
<1>6. TreeInv'
  BY <1>2, <1>3, <1>5 DEF TreeInv, ChildrenEarlier, StartBuild
<1>7. TypeOK'
  BY <1>0, <1>1, <1>4 DEF ShapeInv, PhaseInv, TypeOK, StartBuild, Frame, Record, NoBdd
<1>8. StackInv' /\ PhaseInv'
  BY <1>1 DEF ShapeInv, StackInv, PhaseInv, StartBuild, CallDepth
<1>9. QED
  BY <1>6, <1>7, <1>8 DEF ShapeInv

LEMMA ShapeEvaluate == ShapeInv /\ Evaluate => ShapeInv'
<1> SUFFICES ASSUME ShapeInv, Evaluate PROVE ShapeInv'
  OBVIOUS
<1>1. UNCHANGED <<input, tree, frame, stack, depth, bdd>> /\ ret' \in {0, 1} /\ pc' = "return" /\ pc = "build"
  BY DEF Evaluate
<1>0. order' = order /\ n' = n /\ n \in Nat /\ IsRvaOrder(order)' /\ (input.sat \subseteq SUBSET RvasOf(order))'
  BY <1>1, InputUnchanged
<1>2. ret' \in Indices(tree)
  BY <1>1 DEF ShapeInv, TreeInv, Indices
<1>3. TypeOK'
  BY <1>0, <1>1, <1>2 DEF ShapeInv, TypeOK, Frame, Record, Indices
<1>4. StackInv'
  BY <1>1, ChildDepthUnchanged DEF ShapeInv, StackInv
<1>5. TreeInv' /\ PhaseInv'
  BY <1>1 DEF ShapeInv, TreeInv, PhaseInv
<1>6. QED
  BY <1>3, <1>4, <1>5 DEF ShapeInv

LEMMA ShapeDescend == ShapeInv /\ Descend => ShapeInv'
<1> SUFFICES ASSUME ShapeInv, Descend PROVE ShapeInv'
  OBVIOUS
<1> DEFINE rec == [depth |-> depth, at |-> "low", l |-> NoNode]
<1>1. UNCHANGED <<input, tree, ret, pc, bdd>> /\ pc = "build" /\ depth' = depth + 1
  BY DEF Descend
<1>0. order' = order /\ n' = n /\ n \in Nat /\ IsRvaOrder(order)' /\ (input.sat \subseteq SUBSET RvasOf(order))'
  BY <1>1, InputUnchanged
<1>2. depth \in 0 .. n - 1 /\ depth + 1 \in 0 .. n
  BY <1>0, <1>1 DEF ShapeInv, TypeOK, Descend
<1>3. frame' \in [0 .. n -> Frame]
  <2>1. frame \in [0 .. n -> Frame]
    BY DEF ShapeInv, TypeOK
  <2>2. [frame[depth] EXCEPT ![depth + 1] = 0] \in Frame
    BY <1>0, <1>2, <2>1 DEF Frame
  <2>3. QED
    BY <2>1, <2>2 DEF Descend, SetLow
<1>4. stack \in Seq(Record) /\ rec \in Record
  BY <1>2 DEF ShapeInv, TypeOK, Record
<1>5. /\ stack' = Append(stack, rec) /\ stack' \in Seq(Record)
      /\ Len(stack) \in Nat /\ Len(stack') = Len(stack) + 1
      /\ \A k \in 1 .. Len(stack) : stack'[k] = stack[k]
      /\ stack'[Len(stack) + 1] = rec
  BY <1>4 DEF Descend
<1>6. TypeOK'
  <2>1. Record' = Record /\ Frame' = Frame
    BY <1>0, <1>1 DEF Record, Frame
  <2>2. QED
    BY <1>0, <1>1, <1>2, <1>3, <1>5, <2>1 DEF ShapeInv, TypeOK
<1>7. depth = CallDepth
  BY <1>1 DEF ShapeInv, PhaseInv
<1>8. StackInv'
  <2>1. \A k \in 1 .. Len(stack) : stack[k].depth < depth
    <3>1. CASE stack = <<>>
      BY <3>1
    <3>2. CASE stack # <<>>
      <4>1. Top \in Record /\ Top = stack[Len(stack)] /\ Len(stack) >= 1
        BY <1>4, <3>2, PopFacts DEF Top
      <4>2. Top.depth < depth
        <5>1. Top.depth \in 0 .. n - 1 /\ IsRvaOrder(order)
          BY <4>1 DEF Record, ShapeInv, TypeOK
        <5>2. depth \in Top.depth + 1 .. n
          BY <1>7, <3>2, <5>1, ChildDepthFacts DEF CallDepth
        <5>3. QED
          BY <5>1, <5>2
      <4>3. \A k \in 1 .. Len(stack) : stack[k].depth \in Nat
        BY <1>0, RecordFacts
      <4>4. \A k \in 1 .. Len(stack) : k < Len(stack) => stack[k].depth < Top.depth
        BY <1>5, <4>1 DEF ShapeInv, StackInv
      <4>5. QED
        BY <1>2, <1>5, <4>1, <4>2, <4>3, <4>4
    <3>3. QED
      BY <3>1, <3>2
  <2>2. \A j, k \in 1 .. Len(stack') : j < k => stack'[j].depth < stack'[k].depth
    <3> TAKE j, k \in 1 .. Len(stack')
    <3> HAVE j < k
    <3>1. j \in 1 .. Len(stack)
      BY <1>5
    <3>2. CASE k = Len(stack) + 1
      BY <1>5, <2>1, <3>1, <3>2
    <3>3. CASE k # Len(stack) + 1
      BY <1>5, <3>1, <3>3 DEF ShapeInv, StackInv
    <3>4. QED
      BY <3>2, <3>3
  <2>3. \A k \in 1 .. Len(stack') :
          stack'[k].depth = IF k = 1 THEN 0 ELSE ChildDepth(stack'[k - 1])
    <3> TAKE k \in 1 .. Len(stack')
    <3>1. CASE k = Len(stack) + 1
      <4>1. CASE stack = <<>>
        BY <1>5, <1>7, <3>1, <4>1 DEF CallDepth
      <4>2. CASE stack # <<>>
        <5>1. k # 1 /\ stack'[k - 1] = Top
          BY <1>5, <3>1, <4>2 DEF Top
        <5>2. stack'[k].depth = ChildDepth(Top)
          BY <1>5, <1>7, <3>1, <4>2 DEF CallDepth
        <5>3. QED
          BY <5>1, <5>2
      <4>3. QED
        BY <4>1, <4>2
    <3>2. CASE k # Len(stack) + 1
      <4>1. k \in 1 .. Len(stack)
        BY <1>5, <3>2
      <4>2. k # 1 => stack'[k - 1] = stack[k - 1]
        BY <1>5, <4>1
      <4>3. QED
        BY <1>5, <4>1, <4>2 DEF ShapeInv, StackInv
    <3>3. QED
      BY <3>1, <3>2
  <2>4. \A k \in 1 .. Len(stack') : stack'[k].at = "high" => stack'[k].l \in Indices(tree')
    BY <1>1, <1>5 DEF ShapeInv, StackInv
  <2>5. \A k \in 1 .. Len(stack') : ChildDepth(stack[k - 1])' = ChildDepth(stack'[k - 1])
    BY <1>1, ChildDepthOnStack
  <2>6. QED
    BY <2>2, <2>3, <2>4, <2>5 DEF StackInv
<1>9. TreeInv'
  BY <1>1 DEF ShapeInv, TreeInv
<1>10. PhaseInv'
  <2>1. CallDepth' = depth + 1
    BY <1>5 DEF CallDepth, Top, ChildDepth
  <2>2. QED
    BY <1>1, <2>1 DEF ShapeInv, PhaseInv
<1>11. QED
  BY <1>6, <1>8, <1>9, <1>10 DEF ShapeInv

(* The state of the caller once a call has returned.                        *)
LEMMA ReturnFacts ==
  ASSUME ShapeInv, stack # <<>>
  PROVE  /\ n \in Nat /\ Len(stack) \in Nat /\ Len(stack) >= 1
         /\ Top = stack[Len(stack)] /\ Top \in Record
         /\ Top.depth \in 0 .. n - 1
         /\ ChildDepth(Top) \in Top.depth + 1 .. n
         /\ Pop \in Seq(Record) /\ Len(Pop) = Len(stack) - 1
         /\ \A k \in 1 .. Len(stack) - 1 : Pop[k] = stack[k]
<1>1. stack \in Seq(Record) /\ IsRvaOrder(order)
  BY DEF ShapeInv, TypeOK
<1>2. /\ Len(stack) \in Nat /\ Len(stack) >= 1 /\ Top \in Record
      /\ Pop \in Seq(Record) /\ Len(Pop) = Len(stack) - 1
      /\ \A k \in 1 .. Len(stack) - 1 : Pop[k] = stack[k]
  BY <1>1, PopFacts
<1>3. n \in Nat /\ Top.depth \in 0 .. n - 1
  BY <1>1, <1>2, RecordFacts DEF Record, IsRvaOrder, n
<1>4. QED
  BY <1>1, <1>2, <1>3, ChildDepthFacts DEF Top

(* Popping a record leaves a chain; the call then returning is the one the  *)
(* record was for.                                                          *)
LEMMA PopChain ==
  ASSUME ShapeInv, stack # <<>>, UNCHANGED input, stack' = Pop,
         \A i \in Indices(tree) : i \in Indices(tree')
  PROVE  StackInv' /\ CallDepth' = Top.depth
<1>1. /\ n \in Nat /\ Len(stack) \in Nat /\ Len(stack) >= 1 /\ Top = stack[Len(stack)]
      /\ Len(stack') = Len(stack) - 1
      /\ \A k \in 1 .. Len(stack) - 1 : stack'[k] = stack[k]
  BY ReturnFacts
<1>2. \A k \in 1 .. Len(stack') :
        stack'[k].depth = IF k = 1 THEN 0 ELSE ChildDepth(stack'[k - 1])
  <2> TAKE k \in 1 .. Len(stack')
  <2>1. k \in 1 .. Len(stack) /\ stack'[k] = stack[k] /\ (k # 1 => stack'[k - 1] = stack[k - 1])
    BY <1>1
  <2>2. QED
    BY <2>1 DEF ShapeInv, StackInv
<1>3. \A k \in 1 .. Len(stack') : ChildDepth(stack[k - 1])' = ChildDepth(stack'[k - 1])
  BY ChildDepthOnStack
<1>4. \A j, k \in 1 .. Len(stack') : j < k => stack'[j].depth < stack'[k].depth
  BY <1>1 DEF ShapeInv, StackInv
<1>5. \A k \in 1 .. Len(stack') : stack'[k].at = "high" => stack'[k].l \in Indices(tree')
  BY <1>1 DEF ShapeInv, StackInv
<1>6. StackInv'
  BY <1>2, <1>3, <1>4, <1>5 DEF StackInv
<1>7. CallDepth' = Top.depth
  <2>1. CASE Len(stack) = 1
    <3>1. stack' = <<>>
      BY <1>1, <2>1, ReturnFacts
    <3>2. Top.depth = 0
      BY <1>1, <2>1 DEF ShapeInv, StackInv
    <3>3. QED
      BY <3>1, <3>2 DEF CallDepth
  <2>2. CASE Len(stack) # 1
    <3>1. stack' # <<>> /\ Top' = stack'[Len(stack) - 1]
      BY <1>1, <2>2 DEF Top
    <3>2. CallDepth' = ChildDepth(stack'[Len(stack) - 1])
      <4>1. \A d : NextVarDepth(d)' = NextVarDepth(d)
        BY DEF NextVarDepth, OrderRva, order, n
      <4>2. QED
        BY <3>1, <4>1 DEF CallDepth, ChildDepth
    <3>3. Top.depth = ChildDepth(stack[Len(stack) - 1])
      BY <1>1, <2>2 DEF ShapeInv, StackInv
    <3>4. QED
      BY <1>1, <2>2, <3>2, <3>3
  <2>3. QED
    BY <2>1, <2>2
<1>8. QED
  BY <1>6, <1>7

LEMMA ShapePropagate == ShapeInv /\ Propagate => ShapeInv'
<1> SUFFICES ASSUME ShapeInv, Propagate PROVE ShapeInv'
  OBVIOUS
<1>1. /\ UNCHANGED <<input, tree, frame, depth, ret, pc, bdd>> /\ stack' = Pop
      /\ stack # <<>> /\ pc = "return" /\ ret = NoNode
  BY DEF Propagate
<1>2. order' = order /\ n' = n /\ IsRvaOrder(order)' /\ (input.sat \subseteq SUBSET RvasOf(order))'
  BY <1>1, InputUnchanged
<1>3. StackInv'
  BY <1>1, PopChain
<1>4. TypeOK'
  <2>1. Record' = Record /\ Frame' = Frame /\ Indices(tree') = Indices(tree)
    BY <1>1, <1>2 DEF Record, Frame
  <2>2. stack' \in Seq(Record)
    BY <1>1, ReturnFacts
  <2>3. QED
    BY <1>1, <1>2, <2>1, <2>2 DEF ShapeInv, TypeOK
<1>5. TreeInv' /\ PhaseInv'
  BY <1>1 DEF ShapeInv, TreeInv, PhaseInv
<1>6. QED
  BY <1>3, <1>4, <1>5 DEF ShapeInv

LEMMA ShapeLowReturned == ShapeInv /\ LowReturned => ShapeInv'
<1> SUFFICES ASSUME ShapeInv, LowReturned PROVE ShapeInv'
  OBVIOUS
<1> DEFINE rec == [Top EXCEPT !.at = "high", !.l = ret]
<1>1. /\ UNCHANGED <<input, tree, ret, bdd>> /\ pc' = "build" /\ pc = "return"
      /\ stack # <<>> /\ Top.at = "low" /\ ret # NoNode
      /\ depth' = NextVarDepth(Top.depth) /\ stack' = Append(Pop, rec)
      /\ frame' = SetHigh(Top.depth)
  BY DEF LowReturned, Returning
<1>2. order' = order /\ n' = n /\ n \in Nat /\ IsRvaOrder(order)' /\ (input.sat \subseteq SUBSET RvasOf(order))'
  BY <1>1, InputUnchanged
<1>3. /\ Len(stack) \in Nat /\ Len(stack) >= 1 /\ Top = stack[Len(stack)] /\ Top \in Record
      /\ Top.depth \in 0 .. n - 1 /\ Pop \in Seq(Record) /\ Len(Pop) = Len(stack) - 1
      /\ \A k \in 1 .. Len(stack) - 1 : Pop[k] = stack[k]
  BY <1>1, ReturnFacts
<1>4. ret \in Indices(tree)
  BY <1>1 DEF ShapeInv, TypeOK
<1>5. rec \in Record /\ rec.depth = Top.depth /\ rec.at = "high" /\ rec.l = ret
  BY <1>3, <1>4 DEF Record
<1> HIDE DEF rec
<1>6. /\ stack' \in Seq(Record) /\ Len(stack') = Len(stack)
      /\ \A k \in 1 .. Len(stack) - 1 : stack'[k] = stack[k]
      /\ stack'[Len(stack)] = rec
  BY <1>1, <1>3, <1>5
<1>7. \A k \in 1 .. Len(stack) : stack'[k].depth = stack[k].depth
  <2> TAKE k \in 1 .. Len(stack)
  <2>1. CASE k = Len(stack)
    BY <1>3, <1>5, <1>6, <2>1
  <2>2. CASE k # Len(stack)
    BY <1>3, <1>6, <2>2
  <2>3. QED
    BY <2>1, <2>2
<1>8. NextVarDepth(Top.depth) \in Top.depth + 1 .. n
  BY <1>3, NextVarDepthFacts DEF ShapeInv, TypeOK
<1>9. frame' \in [0 .. n -> Frame]
  <2>1. frame \in [0 .. n -> Frame]
    BY DEF ShapeInv, TypeOK
  <2>2. frame[Top.depth] \in Frame
    BY <1>2, <1>3, <2>1
  <2>3. \A k \in 0 .. n : SetHigh(Top.depth)[k] \in Frame
    BY <2>1, <2>2 DEF SetHigh, Frame
  <2>4. SetHigh(Top.depth) = [k \in 0 .. n |-> SetHigh(Top.depth)[k]]
    BY DEF SetHigh
  <2>5. QED
    BY <1>1, <2>3, <2>4
<1>10. TypeOK'
  <2>1. Record' = Record /\ Frame' = Frame
    BY <1>1, <1>2 DEF Record, Frame
  <2>2. depth' \in 0 .. n
    BY <1>1, <1>2, <1>3, <1>8
  <2>3. QED
    BY <1>1, <1>2, <1>6, <1>9, <2>1, <2>2 DEF ShapeInv, TypeOK
<1>11. StackInv'
  <2>1. \A k \in 1 .. Len(stack') : ChildDepth(stack[k - 1])' = ChildDepth(stack'[k - 1])
    BY <1>1, ChildDepthOnStack
  <2>2. \A k \in 1 .. Len(stack') : k # 1 => stack'[k - 1] = stack[k - 1]
    BY <1>3, <1>6
  <2>3. \A k \in 1 .. Len(stack') : stack'[k].depth = IF k = 1 THEN 0 ELSE ChildDepth(stack'[k - 1])
    BY <1>6, <1>7, <2>2 DEF ShapeInv, StackInv
  <2>4. \A j, k \in 1 .. Len(stack') : j < k => stack'[j].depth < stack'[k].depth
    BY <1>6, <1>7 DEF ShapeInv, StackInv
  <2>5. \A k \in 1 .. Len(stack') : stack'[k].at = "high" => stack'[k].l \in Indices(tree')
    <3> TAKE k \in 1 .. Len(stack')
    <3>1. CASE k = Len(stack)
      BY <1>1, <1>4, <1>5, <1>6, <3>1
    <3>2. CASE k # Len(stack)
      BY <1>1, <1>3, <1>6, <3>2 DEF ShapeInv, StackInv
    <3>3. QED
      BY <3>1, <3>2
  <2>6. QED
    BY <2>1, <2>3, <2>4, <2>5 DEF StackInv
<1>12. TreeInv'
  BY <1>1 DEF ShapeInv, TreeInv
<1>13. PhaseInv'
  <2>1. stack' # <<>> /\ Top' = rec
    BY <1>3, <1>6 DEF Top
  <2>2. \A d : NextVarDepth(d)' = NextVarDepth(d)
    BY <1>1 DEF NextVarDepth, OrderRva, order, n
  <2>3. CallDepth' = NextVarDepth(Top.depth)
    BY <1>5, <2>1, <2>2 DEF CallDepth, ChildDepth
  <2>4. QED
    BY <1>1, <2>3 DEF ShapeInv, PhaseInv
<1>14. QED
  BY <1>10, <1>11, <1>12, <1>13 DEF ShapeInv

-----------------------------------------------------------------------------
(* The three outcomes of bdd_mk: the children are equal, the node exists,   *)
(* or it is created.                                                        *)
MkShared(rva, low, high) == low = high /\ ret' = high /\ tree' = tree
MkExists(rva, low, high) ==
  /\ low # high /\ tree' = tree
  /\ ret' \in Inner(tree) /\ NodeAt(tree, ret') = NodeRec(rva, low, high)
MkCreates(rva, low, high) ==
  /\ low # high /\ Matches(rva, low, high) = {}
  /\ tree' = Append(tree, NodeRec(rva, low, high))
  /\ ret' = IF Len(tree) >= NodeiMax THEN NoNode ELSE Len(tree)

LEMMA MkCases ==
  ASSUME NEW rva, NEW low \in Nat, NEW high \in Nat, Mk(rva, low, high), Len(tree) \in Nat
  PROVE  MkShared(rva, low, high) \/ MkExists(rva, low, high) \/ MkCreates(rva, low, high)
<1>1. CASE low = high
  BY <1>1 DEF Mk, MkShared
<1>2. CASE low # high /\ Matches(rva, low, high) # {}
  <2>1. PICK i \in Matches(rva, low, high) : \A j \in Matches(rva, low, high) : i <= j
    <3>1. Matches(rva, low, high) \in SUBSET Nat
      BY DEF Matches, Indices
    <3>2. QED
      BY <1>2, <3>1, LeastNatural
  <2>2. ret' \in Matches(rva, low, high) /\ tree' = tree
    BY <1>2, <2>1 DEF Mk
  <2>3. ret' \in Inner(tree) /\ NodeAt(tree, ret') = NodeRec(rva, low, high)
    BY <2>2 DEF Matches, Inner, IsLeaf, NodeRec
  <2>4. QED
    BY <1>2, <2>2, <2>3 DEF MkExists
<1>3. CASE low # high /\ Matches(rva, low, high) = {}
  BY <1>3 DEF Mk, Create, MkCreates
<1>4. QED
  BY <1>1, <1>2, <1>3

(* What a new node does to the vector. *)
LEMMA GrowFacts ==
  ASSUME NEW t \in Seq(BddNode), ChildrenEarlier(t), NEW u, NEW rva \in Rva,
         NEW low \in Indices(t), NEW high \in Indices(t), u = Append(t, NodeRec(rva, low, high))
  PROVE  /\ u \in Seq(BddNode) /\ Len(t) \in Nat /\ Len(u) = Len(t) + 1
         /\ \A i \in Indices(t) : i \in Indices(u) /\ NodeAt(u, i) = NodeAt(t, i)
         /\ NodeAt(u, Len(t)) = NodeRec(rva, low, high)
         /\ Indices(u) = Indices(t) \cup {Len(t)}
         /\ Inner(u) = Inner(t) \cup {Len(t)}
         /\ ChildrenEarlier(u)
<1> DEFINE new == NodeRec(rva, low, high)
<1>1. Len(t) \in Nat /\ low \in Nat /\ high \in Nat
  BY DEF Indices
<1>2. new \in BddNode /\ ~IsLeaf(new) /\ new.low = low /\ new.high = high
  BY <1>1 DEF BddNode, NodeRec, IsLeaf
<1> HIDE DEF new
<1>3. u = Append(t, new)
  BY DEF new
<1>4. u \in Seq(BddNode) /\ Len(u) = Len(t) + 1
  BY <1>2, <1>3
<1>5. Indices(u) = Indices(t) \cup {Len(t)}
  BY <1>1, <1>4 DEF Indices
<1>6. \A i \in Indices(t) : NodeAt(u, i) = NodeAt(t, i)
  BY <1>1, <1>3 DEF NodeAt, Indices
<1>7. NodeAt(u, Len(t)) = new
  BY <1>1, <1>3 DEF NodeAt
<1>8. Inner(u) = Inner(t) \cup {Len(t)}
  BY <1>2, <1>5, <1>6, <1>7 DEF Inner
<1>9. ChildrenEarlier(u)
  <2> SUFFICES ASSUME NEW i \in Inner(u)
               PROVE  NodeAt(u, i).low \in 0 .. i - 1 /\ NodeAt(u, i).high \in 0 .. i - 1
    BY DEF ChildrenEarlier
  <2>1. CASE i \in Inner(t)
    BY <1>6, <2>1 DEF ChildrenEarlier, Inner
  <2>2. CASE i = Len(t)
    BY <1>1, <1>2, <1>7, <2>2 DEF Indices
  <2>3. QED
    BY <1>8, <2>1, <2>2
<1>10. QED
  BY <1>1, <1>4, <1>5, <1>6, <1>7, <1>8, <1>9 DEF new

LEMMA ShapeHighReturned == ShapeInv /\ HighReturned => ShapeInv'
<1> SUFFICES ASSUME ShapeInv, HighReturned PROVE ShapeInv'
  OBVIOUS
<1> DEFINE rva == OrderRva(Top.depth)
<1>1. /\ UNCHANGED <<input, frame, depth, pc, bdd>> /\ pc = "return" /\ stack # <<>>
      /\ Top.at = "high" /\ ret # NoNode /\ stack' = Pop /\ Mk(rva, Top.l, ret)
  BY DEF HighReturned, Returning
<1>2. order' = order /\ n' = n /\ n \in Nat /\ IsRvaOrder(order)' /\ (input.sat \subseteq SUBSET RvasOf(order))'
  BY <1>1, InputUnchanged
<1>3. /\ Len(stack) >= 1 /\ Len(stack) \in Nat /\ Top = stack[Len(stack)]
      /\ Top.depth \in 0 .. n - 1 /\ Pop \in Seq(Record) /\ Len(Pop) = Len(stack) - 1
  BY <1>1, ReturnFacts
<1>4. ret \in Indices(tree) /\ Top.l \in Indices(tree)
  BY <1>1, <1>3 DEF ShapeInv, TypeOK, StackInv
<1>5. rva \in Rva
  BY <1>3, OrderFacts DEF ShapeInv, TypeOK
<1> HIDE DEF rva
<1>6. tree \in Seq(BddNode) /\ Len(tree) \in Nat /\ Len(tree) >= 2 /\ ChildrenEarlier(tree)
  BY <1>1 DEF ShapeInv, TypeOK, TreeInv
<1>7. MkShared(rva, Top.l, ret) \/ MkExists(rva, Top.l, ret) \/ MkCreates(rva, Top.l, ret)
  BY <1>1, <1>4, <1>6, MkCases DEF Indices
<1>8. CASE MkCreates(rva, Top.l, ret)
  <2>1. /\ tree' = Append(tree, NodeRec(rva, Top.l, ret))
        /\ ret' = IF Len(tree) >= NodeiMax THEN NoNode ELSE Len(tree)
    BY <1>8 DEF MkCreates
  <2>2. /\ tree' \in Seq(BddNode) /\ Len(tree') = Len(tree) + 1
        /\ \A i \in Indices(tree) : i \in Indices(tree') /\ NodeAt(tree', i) = NodeAt(tree, i)
        /\ Indices(tree') = Indices(tree) \cup {Len(tree)}
        /\ Inner(tree') = Inner(tree) \cup {Len(tree)}
        /\ ChildrenEarlier(tree')
    <3> DEFINE low == Top.l
               u == Append(tree, NodeRec(rva, low, ret))
    <3>1. low \in Indices(tree)
      BY <1>4
    <3> HIDE DEF low
    <3>2. /\ u \in Seq(BddNode) /\ Len(u) = Len(tree) + 1
          /\ \A i \in Indices(tree) : i \in Indices(u) /\ NodeAt(u, i) = NodeAt(tree, i)
          /\ Indices(u) = Indices(tree) \cup {Len(tree)}
          /\ Inner(u) = Inner(tree) \cup {Len(tree)}
          /\ ChildrenEarlier(u)
      BY <1>4, <1>5, <1>6, <3>1, GrowFacts
    <3>3. tree' = u
      BY <2>1 DEF low
    <3>4. QED
      BY <3>2, <3>3
  <2>3. StackInv'
    BY <1>1, <2>2, PopChain
  <2>4. TreeInv'
    <3>1. 0 \in Indices(tree) /\ 1 \in Indices(tree)
      BY <1>6 DEF Indices
    <3>2. tree # <<>>
      BY <1>6
    <3>3. NodeAt(tree', 0) = LeafRec(0) /\ NodeAt(tree', 1) = LeafRec(1)
      BY <1>6, <2>2, <3>1 DEF ShapeInv, TreeInv
    <3>4. \A i \in Indices(tree') : i >= 2 => i \in Inner(tree')
      BY <2>2 DEF ShapeInv, TreeInv
    <3>5. QED
      BY <1>6, <2>2, <3>3, <3>4 DEF TreeInv
  <2>5. TypeOK'
    <3>1. Frame' = Frame
      BY <1>2 DEF Frame
    <3>2. Pop \in Seq(Record')
      <4>1. Record \subseteq Record'
        BY <1>2, <2>2 DEF Record
      <4>2. QED
        BY <1>3, <4>1, SeqMonotonic
    <3>3. ret' # NoNode => ret' \in Indices(tree')
      BY <1>6, <2>1, <2>2
    <3>4. bdd' = NoBdd
      BY <1>1 DEF ShapeInv, PhaseInv
    <3>5. QED
      BY <1>1, <1>2, <1>6, <2>1, <2>2, <3>1, <3>2, <3>3, <3>4 DEF ShapeInv, TypeOK
  <2>6. PhaseInv'
    BY <1>1 DEF ShapeInv, PhaseInv
  <2>7. QED
    BY <2>3, <2>4, <2>5, <2>6 DEF ShapeInv
<1>9. CASE MkShared(rva, Top.l, ret) \/ MkExists(rva, Top.l, ret)
  <2>1. tree' = tree /\ ret' \in Indices(tree)
    BY <1>4, <1>9 DEF MkShared, MkExists, Inner
  <2>2. StackInv'
    BY <1>1, <2>1, PopChain
  <2>3. TypeOK'
    <3>1. Record' = Record /\ Frame' = Frame /\ Indices(tree') = Indices(tree)
      BY <1>2, <2>1 DEF Record, Frame
    <3>2. QED
      BY <1>1, <1>2, <1>3, <2>1, <3>1 DEF ShapeInv, TypeOK, Indices
  <2>4. TreeInv' /\ PhaseInv'
    BY <1>1, <2>1 DEF ShapeInv, TreeInv, PhaseInv
  <2>5. QED
    BY <2>2, <2>3, <2>4 DEF ShapeInv
<1>10. QED
  BY <1>7, <1>8, <1>9

LEMMA ShapeFinish == ShapeInv /\ Finish => ShapeInv'
<1> SUFFICES ASSUME ShapeInv, Finish PROVE ShapeInv'
  OBVIOUS
<1>1. /\ UNCHANGED <<input, frame, stack, depth, ret>> /\ pc = "return" /\ stack = <<>> /\ pc' = "done"
      /\ tree' = (IF ret # NoNode /\ Len(tree) = 2 THEN <<LeafRec(ret)>> ELSE tree)
      /\ bdd' = (IF ret = NoNode THEN NoBdd ELSE tree')
  BY DEF Finish
<1>2. order' = order /\ n' = n /\ n \in Nat /\ IsRvaOrder(order)' /\ (input.sat \subseteq SUBSET RvasOf(order))'
  BY <1>1, InputUnchanged
<1>3. StackInv' /\ PhaseInv'
  BY <1>1 DEF StackInv, PhaseInv
<1>4. CASE ret # NoNode /\ Len(tree) = 2
  <2>1. ret \in {0, 1}
    BY <1>1, <1>4 DEF ShapeInv, TypeOK, Indices
  <2>2. tree' = <<LeafRec(ret)>> /\ LeafRec(ret) \in BddNode
    BY <1>1, <1>4, <2>1 DEF BddNode
  <2>3. tree' \in Seq(BddNode) /\ Len(tree') = 1 /\ NodeAt(tree', 0) = LeafRec(ret) /\ Indices(tree') = {0}
    BY <2>2 DEF NodeAt, Indices
  <2>4. Inner(tree') = {}
    BY <2>3 DEF Inner, IsLeaf, LeafRec, NodeRec
  <2>5. TreeInv'
    <3>1. \E b \in {0, 1} : NodeAt(tree', 0) = LeafRec(b)
      BY <2>1, <2>3
    <3>2. \A i \in Indices(tree') : ~(i >= 2)
      BY <2>3
    <3>3. ChildrenEarlier(tree')
      BY <2>4 DEF ChildrenEarlier
    <3>4. ~(Len(tree') >= 2) /\ Len(tree') >= 1 /\ Len(tree') # 2
      BY <2>3
    <3>5. pc' = "done"
      BY <1>1
    <3>6. QED
      BY <3>5, <3>1, <3>2, <3>3, <3>4 DEF TreeInv
  <2>6. TypeOK'
    BY <1>1, <1>2, <2>3 DEF ShapeInv, TypeOK, Frame, Record
  <2>7. QED
    BY <1>3, <2>5, <2>6 DEF ShapeInv
<1>5. CASE ~(ret # NoNode /\ Len(tree) = 2)
  <2>1. tree' = tree
    BY <1>1, <1>5
  <2>2. TreeInv'
    BY <1>1, <1>5, <2>1 DEF ShapeInv, TreeInv
  <2>3. TypeOK'
    BY <1>1, <1>2, <2>1 DEF ShapeInv, TypeOK, Frame, Record
  <2>4. QED
    BY <1>3, <2>2, <2>3 DEF ShapeInv
<1>6. QED
  BY <1>4, <1>5

LEMMA ShapeStep == ShapeInv /\ [Next]_vars => ShapeInv'
<1>1. ShapeInv /\ UNCHANGED vars => ShapeInv'
  <2> SUFFICES ASSUME ShapeInv, UNCHANGED vars PROVE ShapeInv'
    OBVIOUS
  <2>1. UNCHANGED <<input, tree, frame, stack, depth, ret, pc, bdd>>
    BY DEF vars
  <2>2. TypeOK'
    BY <2>1 DEF ShapeInv, TypeOK, Frame, Record, order, n, Indices
  <2>3. CallDepth' = CallDepth
    BY <2>1 DEF CallDepth, Top, ChildDepth, NextVarDepth, OrderRva, order, n
  <2>4. \A k \in 1 .. Len(stack) : ChildDepth(stack[k - 1])' = ChildDepth(stack[k - 1])
    BY <2>1, ChildDepthOnStack
  <2>5. StackInv' /\ TreeInv' /\ PhaseInv'
    BY <2>1, <2>3, <2>4 DEF ShapeInv, StackInv, TreeInv, PhaseInv
  <2>6. QED
    BY <2>2, <2>5 DEF ShapeInv
<1>2. QED
  BY <1>1, ShapeStart, ShapeEvaluate, ShapeDescend, ShapePropagate, ShapeLowReturned,
     ShapeHighReturned, ShapeFinish DEF Next

LEMMA ShapeAlways == Spec => []ShapeInv
BY ShapeInit, ShapeStep, PTL DEF Spec

(* Type correctness of the construction for every expression: whatever is   *)
(* still to be used as a node index names a node, frames hold only truth    *)
(* values and what was never written, activation records stay in range.     *)
THEOREM TypeCorrect == Spec => []TypeOK
<1>1. ShapeInv => TypeOK
  BY DEF ShapeInv
<1>2. QED
  BY <1>1, ShapeAlways, PTL

-----------------------------------------------------------------------------
(***************************************************************************)
(* The vector create_bdd builds stays reduced and ordered, every node it   *)
(* holds is in use, and the stored diagram ends in its root.               *)
(***************************************************************************)

(* The tests of the diagram under node i start at depth d or below it.      *)
TestsFrom(i, d) ==
  i \in Inner(tree) => \E p \in d + 1 .. n : NodeAt(tree, i).rva = order[p]

(* AlwaysReduced, strengthened by where in the order the nodes still to be  *)
(* linked have their tests: that is what puts a new node above them.        *)
OrderInv ==
  /\ IsReduced(tree) /\ IsOrdered(tree)
  /\ pc = "return" => TestsFrom(ret, CallDepth)
  /\ \A k \in 1 .. Len(stack) :
       stack[k].at = "high" => TestsFrom(stack[k].l, stack[k].depth + 1)

(* A leaf tests nothing. *)
LEMMA LeavesAreNotInner ==
  ASSUME ShapeInv, pc \in {"build", "return"}
  PROVE  0 \notin Inner(tree) /\ 1 \notin Inner(tree) /\ NoNode \notin Inner(tree)
<1>1. \A b : IsLeaf(LeafRec(b))
  BY DEF IsLeaf, LeafRec, NodeRec
<1>2. Len(tree) \in Nat /\ Len(tree) >= 2
  BY DEF ShapeInv, TypeOK, TreeInv
<1>3. NodeAt(tree, 0) = LeafRec(0) /\ NodeAt(tree, 1) = LeafRec(1)
  BY <1>2 DEF ShapeInv, TreeInv
<1>4. NoNode \notin Indices(tree)
  BY <1>2 DEF Indices
<1>5. QED
  BY <1>1, <1>3, <1>4 DEF Inner

LEMMA OrderInit == Init => OrderInv
<1> SUFFICES ASSUME Init PROVE OrderInv
  OBVIOUS
<1>1. Inner(tree) = {} /\ Indices(tree) = {}
  BY DEF Init, Inner, Indices
<1>2. QED
  BY <1>1 DEF Init, OrderInv, IsReduced, IsOrdered

(* The steps that leave the vector alone and return nothing new. *)
LEMMA OrderDescend == ShapeInv /\ OrderInv /\ Descend => OrderInv'
<1> SUFFICES ASSUME ShapeInv, OrderInv, Descend PROVE OrderInv'
  OBVIOUS
<1>1. UNCHANGED <<input, tree, ret, pc>> /\ pc = "build" /\ order' = order /\ n' = n
  BY DEF Descend, order, n
<1>2. \A k \in 1 .. Len(stack') :
        stack'[k].at = "high" => k \in 1 .. Len(stack) /\ stack'[k] = stack[k]
  <2>1. stack \in Seq(Record)
    BY DEF ShapeInv, TypeOK
  <2>2. QED
    BY <2>1 DEF Descend
<1>3. \A k \in 1 .. Len(stack') :
        stack'[k].at = "high" => TestsFrom(stack[k].l, stack[k].depth + 1)'
  BY <1>1, <1>2 DEF OrderInv, TestsFrom
<1>4. QED
  BY <1>1, <1>3 DEF OrderInv

LEMMA OrderLowReturned == ShapeInv /\ OrderInv /\ LowReturned => OrderInv'
<1> SUFFICES ASSUME ShapeInv, OrderInv, LowReturned PROVE OrderInv'
  OBVIOUS
<1> DEFINE rec == [Top EXCEPT !.at = "high", !.l = ret]
<1>1. /\ UNCHANGED <<input, tree, ret>> /\ pc = "return" /\ pc' = "build" /\ stack # <<>>
      /\ order' = order /\ n' = n /\ Top.at = "low" /\ stack' = Append(Pop, rec)
  BY DEF LowReturned, Returning, order, n
<1>2. /\ Len(stack) \in Nat /\ Len(stack) >= 1 /\ Top = stack[Len(stack)] /\ Top \in Record
      /\ Pop \in Seq(Record) /\ Len(Pop) = Len(stack) - 1
      /\ \A k \in 1 .. Len(stack) - 1 : Pop[k] = stack[k]
  BY <1>1, ReturnFacts
<1>3. rec.depth = Top.depth /\ rec.l = ret
  BY <1>2 DEF Record
<1> HIDE DEF rec
<1>4. /\ Len(stack') = Len(stack) /\ stack'[Len(stack)] = rec
      /\ \A k \in 1 .. Len(stack) - 1 : stack'[k] = stack[k]
  BY <1>1, <1>2
<1>5. TestsFrom(ret, Top.depth + 1)
  BY <1>1 DEF OrderInv, CallDepth, ChildDepth
<1>6. ASSUME NEW k \in 1 .. Len(stack'), stack'[k].at = "high"
      PROVE  TestsFrom(stack[k].l, stack[k].depth + 1)'
  <2>1. CASE k = Len(stack)
    BY <1>1, <1>3, <1>4, <1>5, <2>1 DEF TestsFrom
  <2>2. CASE k # Len(stack)
    <3>1. stack'[k] = stack[k] /\ k \in 1 .. Len(stack)
      BY <1>2, <1>4, <2>2
    <3>2. QED
      BY <1>1, <1>6, <3>1 DEF OrderInv, TestsFrom
  <2>3. QED
    BY <2>1, <2>2
<1>7. QED
  BY <1>1, <1>6 DEF OrderInv

(* The new node stands above its children in the order.                     *)
LEMMA NewNodeOrdered ==
  ASSUME ShapeInv, OrderInv, pc = "return", stack # <<>>, Top.at = "high"
  PROVE  LET rva == OrderRva(Top.depth) IN
         /\ Top.l \in Inner(tree) => RvaBefore(rva, NodeAt(tree, Top.l).rva)
         /\ ret \in Inner(tree) => rva.var < NodeAt(tree, ret).rva.var
<1>1. /\ IsRvaOrder(order) /\ n \in Nat /\ Top.depth \in 0 .. n - 1 /\ Top = stack[Len(stack)]
      /\ Len(stack) \in Nat /\ Len(stack) >= 1
  BY ReturnFacts DEF ShapeInv, TypeOK
<1>2. TestsFrom(Top.l, Top.depth + 1)
  BY <1>1 DEF OrderInv
<1>3. TestsFrom(ret, NextVarDepth(Top.depth))
  BY DEF OrderInv, CallDepth, ChildDepth
<1>4. QED
  BY <1>1, <1>2, <1>3, OrderFacts DEF TestsFrom

LEMMA OrderHighReturned == ShapeInv /\ OrderInv /\ HighReturned => OrderInv'
<1> SUFFICES ASSUME ShapeInv, OrderInv, HighReturned PROVE OrderInv'
  OBVIOUS
<1> DEFINE d == Top.depth
           rva == OrderRva(d)
           low == Top.l
<1>1. /\ UNCHANGED <<input, pc>> /\ pc = "return" /\ stack # <<>> /\ order' = order /\ n' = n
      /\ Top.at = "high" /\ ret # NoNode /\ stack' = Pop /\ Mk(rva, low, ret)
  BY DEF HighReturned, Returning, order, n
<1>2. /\ Len(stack) >= 1 /\ Len(stack) \in Nat /\ Top = stack[Len(stack)] /\ n \in Nat
      /\ d \in 0 .. n - 1 /\ ChildDepth(Top) \in d + 1 .. n /\ Len(stack') = Len(stack) - 1
      /\ \A k \in 1 .. Len(stack) - 1 : stack'[k] = stack[k]
  BY <1>1, ReturnFacts
<1>3. ret \in Indices(tree) /\ low \in Indices(tree)
  BY <1>1, <1>2 DEF ShapeInv, TypeOK, StackInv
<1>4. rva \in Rva
  BY <1>2, OrderFacts DEF ShapeInv, TypeOK
<1>5. tree \in Seq(BddNode) /\ Len(tree) \in Nat /\ ChildrenEarlier(tree)
  BY <1>1 DEF ShapeInv, TypeOK, TreeInv
<1>6. /\ low \in Inner(tree) => RvaBefore(rva, NodeAt(tree, low).rva)
      /\ ret \in Inner(tree) => rva.var < NodeAt(tree, ret).rva.var
  BY <1>1, NewNodeOrdered
<1>7. TestsFrom(ret, ChildDepth(Top))
  BY <1>1 DEF OrderInv, CallDepth
<1>8. \A i \in Indices(tree) : i \in Indices(tree') => CallDepth' = d
  <2>1. CASE \A i \in Indices(tree) : i \in Indices(tree')
    BY <1>1, <2>1, PopChain
  <2>2. MkShared(rva, low, ret) \/ MkExists(rva, low, ret) \/ MkCreates(rva, low, ret)
    BY <1>1, <1>3, <1>5, MkCases DEF Indices
  <2>3. \A i \in Indices(tree) : i \in Indices(tree')
    BY <1>5, <2>2 DEF MkShared, MkExists, MkCreates, Indices
  <2>4. QED
    BY <2>1, <2>3
<1>9. rva = order[d + 1]
  BY DEF OrderRva
<1> HIDE DEF rva, low, d
<1>10. CallDepth' = d
  <2>1. MkShared(rva, low, ret) \/ MkExists(rva, low, ret) \/ MkCreates(rva, low, ret)
    BY <1>1, <1>3, <1>5, MkCases DEF Indices
  <2>2. ret \in Indices(tree')
    BY <1>3, <1>5, <2>1 DEF MkShared, MkExists, MkCreates, Indices
  <2>3. QED
    BY <1>3, <1>8, <2>2
<1>11. ASSUME NEW k \in 1 .. Len(stack'), stack'[k].at = "high"
       PROVE  /\ k \in 1 .. Len(stack) /\ stack'[k] = stack[k]
              /\ TestsFrom(stack[k].l, stack[k].depth + 1) /\ stack[k].l \in Indices(tree)
  BY <1>2, <1>11 DEF OrderInv, ShapeInv, StackInv
<1>12. CASE MkShared(rva, low, ret) \/ MkExists(rva, low, ret)
  <2>1. tree' = tree
    BY <1>12 DEF MkShared, MkExists
  <2>2. TestsFrom(ret, CallDepth)'
    <3>1. CASE MkShared(rva, low, ret)
      BY <1>1, <1>2, <1>7, <1>10, <2>1, <3>1 DEF MkShared, TestsFrom
    <3>2. CASE MkExists(rva, low, ret)
      BY <1>1, <1>2, <1>9, <1>10, <2>1, <3>2 DEF MkExists, TestsFrom, NodeRec
    <3>3. QED
      BY <1>12, <3>1, <3>2
  <2>3. \A k \in 1 .. Len(stack') : stack'[k].at = "high" => TestsFrom(stack[k].l, stack[k].depth + 1)'
    BY <1>1, <1>11, <2>1 DEF TestsFrom
  <2>4. QED
    BY <2>1, <2>2, <2>3 DEF OrderInv
<1>13. CASE MkCreates(rva, low, ret)
  <2> DEFINE u == Append(tree, NodeRec(rva, low, ret))
  <2>1. /\ u \in Seq(BddNode) /\ Len(u) = Len(tree) + 1
        /\ \A i \in Indices(tree) : i \in Indices(u) /\ NodeAt(u, i) = NodeAt(tree, i)
        /\ NodeAt(u, Len(tree)) = NodeRec(rva, low, ret)
        /\ Indices(u) = Indices(tree) \cup {Len(tree)}
        /\ Inner(u) = Inner(tree) \cup {Len(tree)}
    <3>1. /\ u \in Seq(BddNode) /\ Len(u) = Len(tree) + 1
          /\ \A i \in Indices(tree) : i \in Indices(u) /\ NodeAt(u, i) = NodeAt(tree, i)
          /\ Indices(u) = Indices(tree) \cup {Len(tree)}
          /\ Inner(u) = Inner(tree) \cup {Len(tree)}
      BY <1>3, <1>4, <1>5, GrowFacts
    <3>2. NodeAt(u, Len(tree)) = NodeRec(rva, low, ret)
      BY <1>5 DEF NodeAt
    <3>3. QED
      BY <3>1, <3>2
  <2> DEFINE new == NodeRec(rva, low, ret)
  <2>2. new.low = low /\ new.high = ret /\ new.rva = rva
    BY DEF NodeRec
  <2>3. tree' = u /\ low # ret /\ Matches(rva, low, ret) = {}
    BY <1>13 DEF MkCreates
  <2>4. Len(tree) \notin Indices(tree) /\ Inner(tree) \subseteq Indices(tree)
    BY <1>5 DEF Indices, Inner
  <2>5. \A i \in Indices(tree) : NodeAt(tree, i) # new
    <3> SUFFICES ASSUME NEW i \in Indices(tree), NodeAt(tree, i) = new PROVE FALSE
      OBVIOUS
    <3>1. low \in 0 .. i - 1 /\ ret \in 0 .. i - 1
      <4>1. ret # NoNode
        BY <1>1
      <4>2. ~IsLeaf(NodeAt(tree, i))
        BY <2>2, <4>1 DEF IsLeaf
      <4>3. QED
        BY <1>5, <2>2, <4>2 DEF ChildrenEarlier, Inner
    <3>2. i \in Matches(rva, low, ret)
      BY <3>1 DEF Matches, Indices
    <3>3. QED
      BY <2>3, <3>2
  <2>12. NodeAt(u, Len(tree)) = new
    BY <2>1
  <2> HIDE DEF new, u
  <2>6. IsReduced(u)
    <3>1. \A i \in Inner(u) : NodeAt(u, i).low # NodeAt(u, i).high
      <4> TAKE i \in Inner(u)
      <4>1. CASE i = Len(tree)
        BY <2>12, <2>2, <2>3, <4>1
      <4>2. CASE i \in Inner(tree)
        BY <2>1, <2>4, <4>2 DEF OrderInv, IsReduced
      <4>3. QED
        BY <2>1, <4>1, <4>2
    <3>2. \A i, j \in Indices(u) : NodeAt(u, i) = NodeAt(u, j) => i = j
      <4> TAKE i, j \in Indices(u)
      <4>1. CASE i \in Indices(tree) /\ j \in Indices(tree)
        BY <2>1, <4>1 DEF OrderInv, IsReduced
      <4>2. CASE i = Len(tree) \/ j = Len(tree)
        BY <2>1, <2>5, <2>12, <4>2
      <4>3. QED
        BY <2>1, <4>1, <4>2
    <3>3. QED
      BY <3>1, <3>2 DEF IsReduced
  <2>7. IsOrdered(u)
    <3> SUFFICES ASSUME NEW i \in Inner(u)
                 PROVE  /\ NodeAt(u, i).low \in Inner(u)
                             => RvaBefore(NodeAt(u, i).rva, NodeAt(u, NodeAt(u, i).low).rva)
                        /\ NodeAt(u, i).high \in Inner(u)
                             => NodeAt(u, i).rva.var < NodeAt(u, NodeAt(u, i).high).rva.var
      BY DEF IsOrdered
    <3>1. CASE i = Len(tree)
      BY <1>3, <1>6, <2>1, <2>2, <2>4, <2>12, <3>1
    <3>2. CASE i \in Inner(tree)
      <4>1. NodeAt(tree, i).low \in Indices(tree) /\ NodeAt(tree, i).high \in Indices(tree)
        <5>1. NodeAt(tree, i).low \in 0 .. i - 1 /\ NodeAt(tree, i).high \in 0 .. i - 1
          BY <1>5, <3>2 DEF ChildrenEarlier
        <5>2. i \in 0 .. Len(tree) - 1
          BY <3>2 DEF Inner, Indices
        <5>3. QED
          BY <1>5, <5>1, <5>2 DEF Indices
      <4>2. NodeAt(u, i) = NodeAt(tree, i)
        BY <2>1, <2>4, <3>2
      <4>3. QED
        BY <2>1, <2>4, <3>2, <4>1, <4>2 DEF OrderInv, IsOrdered
    <3>3. QED
      BY <2>1, <3>1, <3>2
  <2>8. ret' \in Inner(u) => NodeAt(u, ret').rva = rva
    <3>1. ret' = NoNode \/ ret' = Len(tree)
      BY <1>13 DEF MkCreates
    <3>2. NoNode \notin Inner(u)
      BY <1>5, <2>1 DEF Inner, Indices
    <3>3. QED
      BY <2>12, <2>2, <3>1, <3>2
  <2>9. TestsFrom(ret, CallDepth)'
    BY <1>1, <1>2, <1>9, <1>10, <2>3, <2>8 DEF TestsFrom
  <2>10. \A k \in 1 .. Len(stack') : stack'[k].at = "high" => TestsFrom(stack[k].l, stack[k].depth + 1)'
    BY <1>1, <1>11, <2>1, <2>3, <2>4 DEF TestsFrom
  <2>11. QED
    BY <2>3, <2>6, <2>7, <2>9, <2>10 DEF OrderInv
<1>14. QED
  BY <1>1, <1>3, <1>5, <1>12, <1>13, MkCases DEF Indices

LEMMA OrderStart == ShapeInv /\ OrderInv /\ StartBuild => OrderInv'
<1> SUFFICES ASSUME ShapeInv, StartBuild PROVE OrderInv'
  OBVIOUS
<1>1. stack' = <<>> /\ pc' = "build" /\ tree' = <<LeafRec(0), LeafRec(1)>>
  BY DEF StartBuild, ShapeInv, PhaseInv
<1>2. Indices(tree') = 0 .. 1 /\ NodeAt(tree', 0) = LeafRec(0) /\ NodeAt(tree', 1) = LeafRec(1)
  BY <1>1 DEF Indices, NodeAt
<1>3. Inner(tree') = {}
  BY <1>2 DEF Inner, IsLeaf, LeafRec, NodeRec
<1>4. LeafRec(0) # LeafRec(1)
  <2>1. LeafRec(0).rva.var = 0 /\ LeafRec(1).rva.var = 1
    BY DEF LeafRec, NodeRec, RvaLeaf
  <2>2. QED
    BY <2>1
<1>5. IsReduced(tree') /\ IsOrdered(tree')
  BY <1>2, <1>3, <1>4 DEF IsReduced, IsOrdered
<1>6. QED
  BY <1>1, <1>5 DEF OrderInv

LEMMA OrderEvaluate == ShapeInv /\ OrderInv /\ Evaluate => OrderInv'
<1> SUFFICES ASSUME ShapeInv, OrderInv, Evaluate PROVE OrderInv'
  OBVIOUS
<1>1. UNCHANGED <<input, tree, stack>> /\ ret' \in {0, 1} /\ pc = "build" /\ order' = order /\ n' = n
  BY DEF Evaluate, order, n
<1>2. ret' \notin Inner(tree')
  BY <1>1, LeavesAreNotInner
<1>3. QED
  BY <1>1, <1>2 DEF OrderInv, TestsFrom

LEMMA OrderPropagate == ShapeInv /\ OrderInv /\ Propagate => OrderInv'
<1> SUFFICES ASSUME ShapeInv, OrderInv, Propagate PROVE OrderInv'
  OBVIOUS
<1>1. /\ UNCHANGED <<input, tree, ret, pc>> /\ pc = "return" /\ stack # <<>> /\ stack' = Pop
      /\ ret = NoNode /\ order' = order /\ n' = n
  BY DEF Propagate, order, n
<1>2. ret' \notin Inner(tree')
  BY <1>1, LeavesAreNotInner
<1>3. \A k \in 1 .. Len(stack') : k \in 1 .. Len(stack) /\ stack'[k] = stack[k]
  BY <1>1, ReturnFacts
<1>4. QED
  BY <1>1, <1>2, <1>3 DEF OrderInv, TestsFrom

LEMMA OrderFinish == ShapeInv /\ OrderInv /\ Finish => OrderInv'
<1> SUFFICES ASSUME ShapeInv, OrderInv, Finish PROVE OrderInv'
  OBVIOUS
<1>1. /\ stack' = <<>> /\ pc' = "done"
      /\ tree' = (IF ret # NoNode /\ Len(tree) = 2 THEN <<LeafRec(ret)>> ELSE tree)
  BY DEF Finish
<1>2. CASE tree' = <<LeafRec(ret)>>
  <2>1. Indices(tree') = {0} /\ NodeAt(tree', 0) = LeafRec(ret)
    BY <1>2 DEF Indices, NodeAt
  <2>2. Inner(tree') = {}
    BY <2>1 DEF Inner, IsLeaf, LeafRec, NodeRec
  <2>3. QED
    BY <1>1, <2>1, <2>2 DEF OrderInv, IsReduced, IsOrdered
<1>3. CASE tree' = tree
  BY <1>1, <1>3 DEF OrderInv
<1>4. QED
  BY <1>1, <1>2, <1>3

LEMMA OrderStep == ShapeInv /\ OrderInv /\ [Next]_vars => OrderInv'
<1>1. OrderInv /\ UNCHANGED vars => OrderInv'
  <2> SUFFICES ASSUME OrderInv, UNCHANGED vars PROVE OrderInv'
    OBVIOUS
  <2>1. UNCHANGED <<input, tree, frame, stack, depth, ret, pc, bdd>>
    BY DEF vars
  <2>2. order' = order /\ n' = n /\ CallDepth' = CallDepth
    BY <2>1 DEF CallDepth, Top, ChildDepth, NextVarDepth, OrderRva, order, n
  <2>3. QED
    BY <2>1, <2>2 DEF OrderInv, TestsFrom
<1>2. QED
  BY <1>1, OrderStart, OrderEvaluate, OrderDescend, OrderPropagate, OrderLowReturned,
     OrderHighReturned, OrderFinish DEF Next

(* At every moment of the construction of any expression the vector is      *)
(* reduced, ordered and topologically sorted (bdd_mk, lookup_bdd_node).     *)
THEOREM Reduced == Spec => []AlwaysReduced
<1>1. Spec => []OrderInv
  BY OrderInit, OrderStep, ShapeAlways, PTL DEF Spec
<1>2. ShapeInv /\ OrderInv => AlwaysReduced
  BY DEF ShapeInv, TreeInv, OrderInv, AlwaysReduced
<1>3. QED
  BY <1>1, <1>2, ShapeAlways, PTL

-----------------------------------------------------------------------------
(***************************************************************************)
(* No node is created in vain.                                             *)
(***************************************************************************)
InUse(i) ==
  \/ \E j \in Inner(tree) : Points(tree, j, i)
  \/ pc \in {"return", "done"} /\ ret = i
  \/ \E k \in 1 .. Len(stack) : stack[k].at = "high" /\ stack[k].l = i

LEMMA OrphanInit == Init => NoOrphan
BY DEF Init, NoOrphan, Inner, Indices

LEMMA OrphanHighReturned == ShapeInv /\ NoOrphan /\ HighReturned => NoOrphan'
<1> SUFFICES ASSUME ShapeInv, NoOrphan, HighReturned, ~Failed', NEW i \in Inner(tree')
             PROVE  InUse(i)'
  BY DEF NoOrphan, InUse
<1> DEFINE rva == OrderRva(Top.depth)
           low == Top.l
<1>1. /\ UNCHANGED <<input, pc>> /\ pc = "return" /\ stack # <<>>
      /\ Top.at = "high" /\ ret # NoNode /\ stack' = Pop /\ Mk(rva, low, ret)
  BY DEF HighReturned, Returning
<1>2. /\ Len(stack) >= 1 /\ Len(stack) \in Nat /\ Top = stack[Len(stack)]
      /\ Top.depth \in 0 .. n - 1 /\ Len(stack') = Len(stack) - 1
      /\ \A k \in 1 .. Len(stack) - 1 : stack'[k] = stack[k]
  BY <1>1, ReturnFacts
<1>3. ret \in Indices(tree) /\ low \in Indices(tree)
  BY <1>1, <1>2 DEF ShapeInv, TypeOK, StackInv
<1>4. rva \in Rva
  BY <1>2, OrderFacts DEF ShapeInv, TypeOK
<1>5. tree \in Seq(BddNode) /\ Len(tree) \in Nat /\ ChildrenEarlier(tree)
  BY <1>1 DEF ShapeInv, TypeOK, TreeInv
<1>6. \A k \in 1 .. Len(stack) : stack[k].at = "high" =>
         stack[k].l = low \/ (k \in 1 .. Len(stack') /\ stack'[k] = stack[k])
  BY <1>2
<1>7. ret' # NoNode /\ pc' = "return"
  BY <1>1 DEF Failed
<1> HIDE DEF rva, low
(* What was in use is in use still, or is one of the two children. *)
<1>8. ASSUME \A j \in Inner(tree) : j \in Inner(tree') /\ NodeAt(tree', j) = NodeAt(tree, j),
             i \in Inner(tree)
      PROVE  InUse(i)' \/ i = low \/ i = ret
  <2>1. InUse(i)
    BY <1>1, <1>8 DEF NoOrphan, InUse, Failed
  <2>2. CASE \E j \in Inner(tree) : Points(tree, j, i)
    BY <1>8, <2>2 DEF InUse, Points
  <2>3. CASE \E k \in 1 .. Len(stack) : stack[k].at = "high" /\ stack[k].l = i
    BY <1>6, <2>3 DEF InUse
  <2>4. QED
    BY <2>1, <2>2, <2>3 DEF InUse
<1>9. CASE MkShared(rva, low, ret)
  BY <1>7, <1>8, <1>9 DEF MkShared, InUse
<1>10. CASE MkExists(rva, low, ret)
  <2>1. Points(tree', ret', low) /\ Points(tree', ret', ret) /\ ret' \in Inner(tree') /\ tree' = tree
    BY <1>10 DEF MkExists, Points, NodeRec
  <2>2. i = low \/ i = ret => InUse(i)'
    BY <2>1 DEF InUse
  <2>3. QED
    BY <1>8, <2>1, <2>2
<1>11. CASE MkCreates(rva, low, ret)
  <2> DEFINE u == Append(tree, NodeRec(rva, low, ret))
  <2>1. /\ \A j \in Indices(tree) : j \in Indices(u) /\ NodeAt(u, j) = NodeAt(tree, j)
        /\ Inner(u) = Inner(tree) \cup {Len(tree)}
    BY <1>3, <1>4, <1>5, GrowFacts
  <2>2. NodeAt(u, Len(tree)) = NodeRec(rva, low, ret)
    BY <1>5 DEF NodeAt
  <2>3. Points(u, Len(tree), low) /\ Points(u, Len(tree), ret)
    BY <2>2 DEF Points, NodeRec
  <2> HIDE DEF u
  <2>4. tree' = u /\ ret' = Len(tree)
    BY <1>7, <1>11 DEF MkCreates, u
  <2>5. i = low \/ i = ret => InUse(i)'
    BY <2>1, <2>3, <2>4 DEF InUse
  <2>6. i = Len(tree) => InUse(i)'
    BY <1>7, <2>4 DEF InUse
  <2>7. \A j \in Inner(tree) : j \in Inner(tree') /\ NodeAt(tree', j) = NodeAt(tree, j)
    BY <2>1, <2>4 DEF Inner
  <2>8. i \in Inner(tree) \/ i = Len(tree)
    BY <2>1, <2>4
  <2>9. QED
    BY <1>8, <2>5, <2>6, <2>7, <2>8
<1>12. QED
  BY <1>1, <1>3, <1>5, <1>9, <1>10, <1>11, MkCases DEF Indices

LEMMA OrphanLowReturned == ShapeInv /\ NoOrphan /\ LowReturned => NoOrphan'
<1> SUFFICES ASSUME ShapeInv, NoOrphan, LowReturned, NEW i \in Inner(tree')
             PROVE  InUse(i)'
  BY DEF NoOrphan, InUse
<1> DEFINE rec == [Top EXCEPT !.at = "high", !.l = ret]
<1>1. /\ UNCHANGED <<tree, ret>> /\ pc = "return" /\ stack # <<>> /\ ret # NoNode
      /\ Top.at = "low" /\ stack' = Append(Pop, rec)
  BY DEF LowReturned, Returning
<1>2. /\ Len(stack) \in Nat /\ Len(stack) >= 1 /\ Top = stack[Len(stack)] /\ Top \in Record
      /\ Pop \in Seq(Record) /\ Len(Pop) = Len(stack) - 1
      /\ \A k \in 1 .. Len(stack) - 1 : Pop[k] = stack[k]
  BY <1>1, ReturnFacts
<1>3. rec.at = "high" /\ rec.l = ret
  BY <1>2 DEF Record
<1> HIDE DEF rec
<1>4. /\ Len(stack') = Len(stack) /\ stack'[Len(stack)] = rec
      /\ \A k \in 1 .. Len(stack) - 1 : stack'[k] = stack[k]
  BY <1>1, <1>2
<1>5. \A k \in 1 .. Len(stack) : stack[k].at = "high" => k \in 1 .. Len(stack') /\ stack'[k] = stack[k]
  BY <1>1, <1>2, <1>4
<1>6. InUse(i)
  BY <1>1 DEF NoOrphan, InUse, Failed
<1>7. ret = i => InUse(i)'
  BY <1>2, <1>3, <1>4 DEF InUse
<1>8. QED
  BY <1>1, <1>5, <1>6, <1>7 DEF InUse

(* The other steps that find inner nodes in the vector keep what uses them. *)
LEMMA OrphanStep == ShapeInv /\ NoOrphan /\ [Next]_vars => NoOrphan'
<1> SUFFICES ASSUME ShapeInv, NoOrphan, [Next]_vars PROVE NoOrphan'
  OBVIOUS
<1>1. CASE StartBuild
  <2>1. tree' = <<LeafRec(0), LeafRec(1)>>
    BY <1>1 DEF StartBuild
  <2>2. Inner(tree') = {}
    BY <2>1 DEF Inner, Indices, NodeAt, IsLeaf, LeafRec, NodeRec
  <2>3. QED
    BY <2>2 DEF NoOrphan
<1>2. CASE Evaluate
  BY <1>2 DEF Evaluate, NoOrphan, Failed
<1>3. CASE Descend
  <2>1. stack \in Seq(Record) /\ pc = "build" /\ UNCHANGED <<tree, pc>>
    BY <1>3 DEF ShapeInv, TypeOK, Descend
  <2>2. \A k \in 1 .. Len(stack) : k \in 1 .. Len(stack') /\ stack'[k] = stack[k]
    BY <1>3, <2>1 DEF Descend
  <2>3. QED
    BY <2>1, <2>2 DEF NoOrphan, Failed
<1>4. CASE Propagate
  BY <1>4 DEF Propagate, NoOrphan, Failed
<1>5. CASE Finish
  <2>1. CASE tree' = tree
    BY <1>5, <2>1 DEF Finish, NoOrphan, Failed
  <2>2. CASE tree' = <<LeafRec(ret)>>
    <3>1. Inner(tree') = {}
      BY <2>2 DEF Inner, Indices, NodeAt, IsLeaf, LeafRec, NodeRec
    <3>2. QED
      BY <3>1 DEF NoOrphan
  <2>3. QED
    BY <1>5, <2>1, <2>2 DEF Finish
<1>6. CASE UNCHANGED vars
  BY <1>6 DEF vars, NoOrphan, Failed
<1>7. QED
  BY <1>1, <1>2, <1>3, <1>4, <1>5, <1>6, OrphanLowReturned, OrphanHighReturned DEF Next

(* Whatever bdd_create_node adds to the vector stays in use while           *)
(* create_bdd does not fail.                                                *)
THEOREM NothingOrphaned == Spec => []NoOrphan
BY OrphanInit, OrphanStep, ShapeAlways, PTL DEF Spec

-----------------------------------------------------------------------------
(***************************************************************************)
(* The limit of nodei.                                                     *)
(***************************************************************************)
LimitInv == Len(tree) > NodeiMax <=> Failed

LEMMA LimitInit == Init => LimitInv
BY DEF Init, LimitInv, Failed

LEMMA LimitStep == ShapeInv /\ LimitInv /\ [Next]_vars => LimitInv'
<1> SUFFICES ASSUME ShapeInv, LimitInv, [Next]_vars PROVE LimitInv'
  OBVIOUS
<1>1. CASE StartBuild
  BY <1>1 DEF StartBuild, LimitInv, Failed
<1>2. CASE Evaluate
  BY <1>2 DEF Evaluate, LimitInv, Failed
<1>3. CASE Descend
  BY <1>3 DEF Descend, LimitInv, Failed
<1>4. CASE Propagate
  BY <1>4 DEF Propagate, LimitInv, Failed
<1>5. CASE LowReturned
  BY <1>5 DEF LowReturned, LimitInv, Failed
<1>6. CASE HighReturned
  <2> DEFINE rva == OrderRva(Top.depth)
             low == Top.l
  <2>1. /\ pc = "return" /\ pc' = pc /\ stack # <<>> /\ Top.at = "high" /\ ret # NoNode
        /\ Mk(rva, low, ret)
    BY <1>6 DEF HighReturned, Returning
  <2>2. ret \in Indices(tree) /\ low \in Indices(tree) /\ Len(tree) \in Nat
    BY <2>1, ReturnFacts DEF ShapeInv, TypeOK, StackInv
  <2> HIDE DEF rva, low
  <2>3. MkShared(rva, low, ret) \/ MkExists(rva, low, ret) \/ MkCreates(rva, low, ret)
    BY <2>1, <2>2, MkCases DEF Indices
  <2>4. ~ (Len(tree) > NodeiMax)
    BY <2>1 DEF LimitInv, Failed
  <2>5. CASE MkShared(rva, low, ret) \/ MkExists(rva, low, ret)
    <3>1. tree' = tree /\ ret' \in Indices(tree)
      BY <2>2, <2>5 DEF MkShared, MkExists, Inner
    <3>2. ret' # NoNode
      BY <2>2, <3>1 DEF Indices
    <3>3. QED
      BY <2>4, <3>1, <3>2 DEF LimitInv, Failed
  <2>6. CASE MkCreates(rva, low, ret)
    <3>1. Len(tree') = Len(tree) + 1
      <4>1. tree' = Append(tree, NodeRec(rva, low, ret)) /\ tree \in Seq(BddNode)
        BY <2>6 DEF MkCreates, ShapeInv, TypeOK
      <4>2. QED
        BY <4>1
    <3>2. ret' = NoNode <=> Len(tree) >= NodeiMax
      BY <2>2, <2>6 DEF MkCreates
    <3>3. QED
      BY <2>1, <2>2, <2>4, <3>1, <3>2 DEF LimitInv, Failed
  <2>7. QED
    BY <2>3, <2>5, <2>6
<1>7. CASE Finish
  <2>1. ret' = ret /\ pc = "return" /\ pc' = "done"
    BY <1>7 DEF Finish
  <2>2. CASE ret # NoNode /\ Len(tree) = 2
    <3>1. Len(tree') = 1
      BY <1>7, <2>2 DEF Finish
    <3>2. QED
      BY <2>1, <2>2, <3>1 DEF LimitInv, Failed
  <2>3. CASE ~(ret # NoNode /\ Len(tree) = 2)
    BY <1>7, <2>1, <2>3 DEF Finish, LimitInv, Failed
  <2>4. QED
    BY <2>2, <2>3
<1>8. CASE UNCHANGED vars
  BY <1>8 DEF vars, LimitInv, Failed
<1>9. QED
  BY <1>1, <1>2, <1>3, <1>4, <1>5, <1>6, <1>7, <1>8 DEF Next

(* create_bdd fails exactly when its diagram outgrows the node type, for    *)
(* every expression and every limit (bdd_create_node, create_bdd).          *)
THEOREM FailsWhenFull == Spec => []FailsOnlyWhenFull
<1>1. Spec => []LimitInv
  BY LimitInit, LimitStep, ShapeAlways, PTL DEF Spec
<1>2. ShapeInv /\ LimitInv => FailsOnlyWhenFull
  <2>1. ASSUME ShapeInv, LimitInv, pc = "done"
        PROVE  bdd = NoBdd <=> Len(tree) > NodeiMax
    <3>1. bdd = (IF ret = NoNode THEN NoBdd ELSE tree)
      BY <2>1 DEF ShapeInv, PhaseInv
    <3>2. tree # NoBdd
      BY <2>1 DEF ShapeInv, TreeInv, NoBdd
    <3>3. QED
      BY <2>1, <3>1, <3>2 DEF LimitInv, Failed
  <2>2. QED
    BY <2>1 DEF FailsOnlyWhenFull
<1>3. QED
  BY <1>1, <1>2, ShapeAlways, PTL

-----------------------------------------------------------------------------
(***************************************************************************)
(* The root.                                                               *)
(***************************************************************************)

(* In a stored diagram of several nodes both leaves have a parent: the      *)
(* first inner node can only point to them, and its children differ.        *)
LEMMA LeavesUsed ==
  ASSUME NEW t \in Seq(BddNode), Len(t) > 2, ChildrenEarlier(t), IsReduced(t), 2 \in Inner(t)
  PROVE  Points(t, 2, 0) /\ Points(t, 2, 1)
<1>1. NodeAt(t, 2).low \in 0 .. 1 /\ NodeAt(t, 2).high \in 0 .. 1
  BY DEF ChildrenEarlier
<1>2. NodeAt(t, 2).low # NodeAt(t, 2).high
  BY DEF IsReduced
<1>3. QED
  BY <1>1, <1>2 DEF Points

LEMMA RootStep ==
  ShapeInv /\ OrderInv /\ NoOrphan /\ pc = "done" => RootIsLast
<1> SUFFICES ASSUME ShapeInv, OrderInv, NoOrphan, pc = "done", bdd # NoBdd
             PROVE  /\ Len(bdd) > 1 => BddRoot(bdd) = ret
                    /\ \A i \in Indices(bdd) :
                         i # BddRoot(bdd) => \E j \in Inner(bdd) : Points(bdd, j, i)
  BY DEF RootIsLast
<1>1. bdd = tree /\ ret # NoNode /\ stack = <<>> /\ tree # <<>>
  BY DEF ShapeInv, PhaseInv, TreeInv
<1>2. tree \in Seq(BddNode) /\ Len(tree) \in Nat /\ Len(tree) > 0 /\ ChildrenEarlier(tree)
  BY <1>1 DEF ShapeInv, TypeOK, TreeInv
<1>3. \A i \in Inner(tree) : ret = i \/ \E j \in Inner(tree) : Points(tree, j, i)
  BY <1>1 DEF NoOrphan, Failed
<1> DEFINE last == Len(tree) - 1
<1>4. \A j \in Inner(tree) : ~Points(tree, j, last)
  <2> SUFFICES ASSUME NEW j \in Inner(tree), Points(tree, j, last) PROVE FALSE
    OBVIOUS
  <2>1. j \in 0 .. last
    BY DEF Inner, Indices
  <2>2. NodeAt(tree, j).low \in 0 .. j - 1 /\ NodeAt(tree, j).high \in 0 .. j - 1
    BY <1>2 DEF ChildrenEarlier
  <2>3. QED
    BY <1>2, <2>1, <2>2 DEF Points
<1>5. CASE Len(tree) = 1
  BY <1>1, <1>5 DEF Indices, BddRoot
<1>6. CASE Len(tree) > 2
  <2>1. 2 \in Inner(tree) /\ last \in Inner(tree) /\ BddRoot(tree) = last
    BY <1>2, <1>6 DEF ShapeInv, TreeInv, Indices, BddRoot
  <2>2. ret = last
    BY <1>3, <1>4, <2>1
  <2>3. Points(tree, 2, 0) /\ Points(tree, 2, 1)
    BY <1>2, <1>6, <2>1, LeavesUsed DEF OrderInv
  <2>4. ASSUME NEW i \in Indices(tree), i # last
        PROVE  \E j \in Inner(tree) : Points(tree, j, i)
    <3>1. CASE i \in Inner(tree)
      BY <1>3, <2>2, <2>4, <3>1
    <3>2. CASE i \notin Inner(tree)
      <4>1. i = 0 \/ i = 1
        BY <1>2, <3>2 DEF ShapeInv, TreeInv, Indices
      <4>2. QED
        BY <2>1, <2>3, <4>1
    <3>3. QED
      BY <3>1, <3>2
  <2>5. QED
    BY <1>1, <2>1, <2>2, <2>4
<1>7. Len(tree) # 2
  BY <1>1 DEF ShapeInv, TreeInv
<1>8. Len(tree) = 1 \/ Len(tree) = 2 \/ Len(tree) > 2
  <2>1. \A m \in Nat : m > 0 => m = 1 \/ m = 2 \/ m > 2
    OBVIOUS
  <2>2. QED
    BY <1>2, <2>1
<1>9. QED
  BY <1>5, <1>6, <1>7, <1>8

(* A stored diagram's root is its last node and nothing in it is garbage,   *)
(* as the macro BDD_ROOT assumes of every bdd read back from the database.  *)
THEOREM RootFound == Spec => []RootIsLast
<1>1. Spec => []OrderInv
  BY OrderInit, OrderStep, ShapeAlways, PTL DEF Spec
<1>2. ShapeInv /\ OrderInv /\ NoOrphan => RootIsLast
  <2>1. ShapeInv /\ pc # "done" => RootIsLast
    BY DEF ShapeInv, PhaseInv, RootIsLast
  <2>2. QED
    BY <2>1, RootStep
<1>3. QED
  BY <1>1, <1>2, ShapeAlways, NothingOrphaned, PTL

-----------------------------------------------------------------------------
(***************************************************************************)
(* create_bdd computes its expression: every call finds in its frame what  *)
(* its callers decided, the node it returns has the expression's value in  *)
(* every world below it, the diagram stored at the end means the           *)
(* expression, and no two of its nodes mean the same.                      *)
(***************************************************************************)

-----------------------------------------------------------------------------
(***************************************************************************)
(* Frames.                                                                 *)
(***************************************************************************)

(* PathFrame as a function of the stack, so that the stacks before and      *)
(* after a step can be compared.                                            *)
Decided(s, k, p) == \E j \in 1 .. k : s[j].depth + 1 = p /\ s[j].at = "high"
PathOf(s, m, k, d) == [p \in 1 .. m |-> IF p > d \/ Decided(s, k, p) THEN 1 ELSE 0]

(* FramesIntact, with what the first frame holds before the first call.     *)
FramesInv ==
  /\ \A k \in 1 .. Len(stack) : frame[stack[k].depth] = PathOf(stack, n, k - 1, stack[k].depth)
  /\ pc \in {"build", "return"} => frame[CallDepth] = PathOf(stack, n, Len(stack), CallDepth)
  /\ pc = "start" => frame[0] = [p \in 1 .. n |-> 1]

(* The path to the first k records depends on those records only.           *)
LEMMA PathLocal ==
  ASSUME NEW s, NEW u, NEW m, NEW k, NEW d, \A j \in 1 .. k : u[j] = s[j]
  PROVE  PathOf(u, m, k, d) = PathOf(s, m, k, d)
<1>1. \A p : Decided(u, k, p) <=> Decided(s, k, p)
  BY DEF Decided
<1>2. QED
  BY <1>1 DEF PathOf

LEMMA FramesInit == Init => FramesInv
<1> SUFFICES ASSUME Init PROVE FramesInv
  OBVIOUS
<1>1. n \in Nat
  BY InputsAssumption DEF Init, order, n
<1>2. frame[0] = [p \in 1 .. n |-> 1]
  BY <1>1 DEF Init
<1>3. QED
  BY <1>2 DEF Init, FramesInv

(* A record deeper in the stack is deeper in the order.                     *)
LEMMA DepthsBelow ==
  ASSUME ShapeInv, NEW k \in 1 .. Len(stack)
  PROVE  /\ Top.depth \in 0 .. n - 1 /\ stack[k].depth \in 0 .. n - 1
         /\ k < Len(stack) => stack[k].depth < Top.depth
         /\ stack[k].depth < CallDepth
<1>1. stack # <<>> /\ Len(stack) \in Nat
  BY DEF ShapeInv, TypeOK
<1>2. /\ n \in Nat /\ Top = stack[Len(stack)] /\ Top.depth \in 0 .. n - 1
      /\ ChildDepth(Top) \in Top.depth + 1 .. n /\ Len(stack) >= 1
  BY <1>1, ReturnFacts
<1>3. stack[k].depth \in 0 .. n - 1
  BY RecordFacts
<1>4. k < Len(stack) => stack[k].depth < Top.depth
  BY <1>2 DEF ShapeInv, StackInv
<1>5. k = Len(stack) => stack[k].depth = Top.depth
  BY <1>2
<1>6. stack[k].depth < ChildDepth(Top)
  BY <1>1, <1>2, <1>3, <1>4, <1>5
<1>7. QED
  BY <1>1, <1>2, <1>3, <1>4, <1>6 DEF CallDepth

Above(s, k, d) == \A j \in 1 .. k : s[j].depth \in Nat /\ s[j].depth < d
IsCall(s, l, d, at) == s[l].depth = d /\ s[l].at = at

(* The frame that SetHigh leaves at depth e, from frame f at depth d. *)
Skipped(f, m, d, e) ==
  [p \in 1 .. m |-> IF p = d + 1 THEN 1 ELSE IF p \in d + 2 .. e THEN 0 ELSE f[p]]

(* The frame of the call below a record of the stack, from the record's own *)
(* frame: the calls in bdd_build.                                           *)
LEMMA PathLow ==
  ASSUME NEW s, NEW m \in Nat, NEW k \in Nat, NEW l, l = k + 1, NEW d \in 0 .. m - 1, NEW e, e = d + 1,
         Above(s, k, d), IsCall(s, l, d, "low")
  PROVE  PathOf(s, m, l, e) = [PathOf(s, m, k, d) EXCEPT ![e] = 0]
<1>1. \A p : Decided(s, k + 1, p) <=> Decided(s, k, p)
  BY DEF Decided, Above, IsCall
<1>2. ~Decided(s, k, d + 1)
  BY DEF Decided, Above, IsCall
<1>3. ASSUME NEW p \in 1 .. m
      PROVE  PathOf(s, m, k + 1, d + 1)[p] = [PathOf(s, m, k, d) EXCEPT ![d + 1] = 0][p]
  <2>1. CASE p = d + 1
    BY <1>1, <1>2, <2>1 DEF PathOf
  <2>2. CASE p # d + 1
    <3>1. p > d + 1 <=> p > d
      BY <2>2
    <3>2. QED
      BY <1>1, <2>2, <3>1 DEF PathOf
  <2>3. QED
    BY <2>1, <2>2
<1>4. QED
  BY <1>3 DEF PathOf

LEMMA PathHigh ==
  ASSUME NEW s, NEW m \in Nat, NEW k \in Nat, NEW l, l = k + 1, NEW d \in 0 .. m - 1, NEW e \in d + 1 .. m,
         Above(s, k, d), IsCall(s, l, d, "high")
  PROVE  PathOf(s, m, l, e) = Skipped(PathOf(s, m, k, d), m, d, e)
<1>1. \A p : Decided(s, k + 1, p) <=> (Decided(s, k, p) \/ p = d + 1)
  <2> TAKE p
  <2>1. Decided(s, k + 1, p) => Decided(s, k, p) \/ p = d + 1
    <3> SUFFICES ASSUME NEW j \in 1 .. k + 1, s[j].depth + 1 = p, s[j].at = "high"
                 PROVE  Decided(s, k, p) \/ p = d + 1
      BY DEF Decided, Above, IsCall
    <3>1. j = k + 1 \/ j \in 1 .. k
      OBVIOUS
    <3>2. QED
      BY <3>1 DEF Decided, Above, IsCall
  <2>2. p = d + 1 => Decided(s, k + 1, p)
    BY DEF Decided, Above, IsCall
  <2>3. Decided(s, k, p) => Decided(s, k + 1, p)
    BY DEF Decided, Above, IsCall
  <2>4. QED
    BY <2>1, <2>2, <2>3
<1>2. \A p \in Int : p > d + 1 => ~Decided(s, k, p)
  BY DEF Decided, Above, IsCall
<1>3. ASSUME NEW p \in 1 .. m
      PROVE  PathOf(s, m, l, e)[p] =
               IF p = d + 1 THEN 1 ELSE IF p \in d + 2 .. e THEN 0 ELSE PathOf(s, m, k, d)[p]
  <2>1. CASE p = d + 1
    BY <1>1, <2>1 DEF PathOf
  <2>2. CASE p \in d + 2 .. e
    BY <1>1, <1>2, <2>2 DEF PathOf
  <2>3. CASE p # d + 1 /\ p \notin d + 2 .. e
    <3>1. p > e <=> p > d
      BY <2>3
    <3>2. QED
      BY <1>1, <2>3, <3>1 DEF PathOf
  <2>4. QED
    BY <2>1, <2>2, <2>3
<1>4. QED
  BY <1>3 DEF PathOf, Skipped

LEMMA FramesDescend == ShapeInv /\ FramesInv /\ Descend => FramesInv'
<1> SUFFICES ASSUME ShapeInv, FramesInv, Descend PROVE FramesInv'
  OBVIOUS
<1> DEFINE rec == [depth |-> depth, at |-> "low", l |-> NoNode]
           L == Len(stack)
<1>1. /\ UNCHANGED <<input, pc>> /\ pc = "build" /\ frame' = SetLow(depth) /\ depth < n
      /\ stack' = Append(stack, rec) /\ order' = order /\ n' = n
  BY DEF Descend, order, n
<1>2. /\ n \in Nat /\ depth \in 0 .. n - 1 /\ depth = CallDepth /\ stack \in Seq(Record)
      /\ frame \in [0 .. n -> Frame]
  BY <1>1 DEF ShapeInv, TypeOK, PhaseInv, IsRvaOrder, n
<1>3. /\ L \in Nat /\ Len(stack') = L + 1 /\ stack'[L + 1] = rec
      /\ \A k \in 1 .. L : stack'[k] = stack[k]
  BY <1>1, <1>2
<1>4. \A k \in 1 .. L : stack[k].depth \in Nat /\ stack[k].depth < depth
  BY <1>2, RecordFacts, DepthsBelow
<1>5. frame[depth] = PathOf(stack, n, L, depth)
  BY <1>1, <1>2 DEF FramesInv
<1>6. frame'[depth + 1] = [frame[depth] EXCEPT ![depth + 1] = 0]
  BY <1>1, <1>2 DEF SetLow
<1>7. \A e \in 0 .. depth : frame'[e] = frame[e]
  BY <1>1, <1>2 DEF SetLow
<1>8. rec.depth = depth /\ rec.at = "low"
  OBVIOUS
<1>9. CallDepth' = depth + 1
  BY <1>3, <1>8 DEF CallDepth, Top, ChildDepth
<1> HIDE DEF rec, L
<1>10. \A k \in 1 .. L + 1 : frame'[stack'[k].depth] = PathOf(stack', n, k - 1, stack'[k].depth)
  <2> TAKE k \in 1 .. L + 1
  <2>1. \A j \in 1 .. k - 1 : stack'[j] = stack[j]
    BY <1>3
  <2>2. \A e : PathOf(stack', n, k - 1, e) = PathOf(stack, n, k - 1, e)
    BY <2>1, PathLocal
  <2>3. CASE k = L + 1
    BY <1>2, <1>3, <1>5, <1>7, <1>8, <2>2, <2>3
  <2>4. CASE k # L + 1
    <3>1. k \in 1 .. Len(stack) /\ stack'[k] = stack[k]
      BY <1>3, <2>4 DEF L
    <3>2. frame[stack[k].depth] = PathOf(stack, n, k - 1, stack[k].depth)
      BY <3>1 DEF FramesInv
    <3>3. stack[k].depth \in 0 .. depth
      BY <1>2, <1>4, <3>1 DEF L
    <3>4. QED
      BY <1>7, <2>2, <3>1, <3>2, <3>3
  <2>5. QED
    BY <2>3, <2>4
<1>11. frame'[depth + 1] = PathOf(stack', n, L + 1, depth + 1)
  <2>1. PathOf(stack', n, L + 1, depth + 1) = [PathOf(stack', n, L, depth) EXCEPT ![depth + 1] = 0]
    <3>1. Above(stack', L, depth)
      BY <1>3, <1>4 DEF L, Above
    <3>2. IsCall(stack', L + 1, depth, "low")
      BY <1>3, <1>8 DEF IsCall
    <3>3. n \in Nat /\ L \in Nat /\ depth \in 0 .. n - 1
      BY <1>2, <1>3
    <3>4. PICK s, l, e : s = stack' /\ l = L + 1 /\ e = depth + 1
      OBVIOUS
    <3>5. PathOf(s, n, l, e) = [PathOf(s, n, L, depth) EXCEPT ![e] = 0]
      BY <3>1, <3>2, <3>3, <3>4, PathLow
    <3>6. QED
      BY <3>4, <3>5
  <2>2. PathOf(stack', n, L, depth) = PathOf(stack, n, L, depth)
    BY <1>3, PathLocal
  <2>3. QED
    BY <1>5, <1>6, <2>1, <2>2
<1>12. QED
  BY <1>1, <1>3, <1>9, <1>10, <1>11 DEF FramesInv

LEMMA FramesLowReturned == ShapeInv /\ FramesInv /\ LowReturned => FramesInv'
<1> SUFFICES ASSUME ShapeInv, FramesInv, LowReturned PROVE FramesInv'
  OBVIOUS
<1> DEFINE rec == [Top EXCEPT !.at = "high", !.l = ret]
           L == Len(stack)
           d == Top.depth
           e == NextVarDepth(d)
<1>1. /\ UNCHANGED <<input, tree, ret>> /\ pc = "return" /\ pc' = "build" /\ stack # <<>>
      /\ order' = order /\ n' = n /\ Top.at = "low" /\ stack' = Append(Pop, rec)
      /\ frame' = SetHigh(d)
  BY DEF LowReturned, Returning, order, n
<1>2. /\ L \in Nat /\ L >= 1 /\ Top = stack[L] /\ Top \in Record /\ n \in Nat
      /\ Pop \in Seq(Record) /\ Len(Pop) = L - 1 /\ d \in 0 .. n - 1
      /\ \A k \in 1 .. L - 1 : Pop[k] = stack[k]
  BY <1>1, ReturnFacts
<1>3. rec.depth = d /\ rec.at = "high"
  BY <1>2 DEF Record
<1>4. e \in d + 1 .. n
  BY <1>2, NextVarDepthFacts DEF ShapeInv, TypeOK
<1> HIDE DEF rec
<1>5. /\ Len(stack') = L /\ stack'[L] = rec
      /\ \A k \in 1 .. L - 1 : stack'[k] = stack[k]
  BY <1>1, <1>2
<1>6. /\ \A k \in 0 .. d : frame'[k] = frame[k]
      /\ frame'[e] = Skipped(frame[d], n, d, e)
  BY <1>1, <1>2, <1>4 DEF SetHigh, Skipped
<1>7. frame[d] = PathOf(stack, n, L - 1, d)
  BY <1>2 DEF FramesInv
<1>8. CallDepth' = e
  <2>1. stack' # <<>> /\ Top' = rec
    BY <1>2, <1>5 DEF Top
  <2>2. \A c : NextVarDepth(c)' = NextVarDepth(c)
    BY <1>1 DEF NextVarDepth, OrderRva, order, n
  <2>3. QED
    BY <1>3, <2>1, <2>2 DEF CallDepth, ChildDepth
<1>9. \A k \in 1 .. L - 1 : stack[k].depth \in Nat /\ stack[k].depth < d
  BY <1>2, RecordFacts, DepthsBelow
<1> HIDE DEF L, d, e
<1>10. \A k \in 1 .. L : frame'[stack'[k].depth] = PathOf(stack', n, k - 1, stack'[k].depth)
  <2> TAKE k \in 1 .. L
  <2>1. \A j \in 1 .. k - 1 : stack'[j] = stack[j]
    BY <1>2, <1>5
  <2>2. \A c : PathOf(stack', n, k - 1, c) = PathOf(stack, n, k - 1, c)
    BY <2>1, PathLocal
  <2>3. CASE k = L
    BY <1>2, <1>3, <1>5, <1>6, <1>7, <2>2, <2>3
  <2>4. CASE k # L
    <3>1. k \in 1 .. L - 1 /\ k \in 1 .. Len(stack) /\ stack'[k] = stack[k]
      BY <1>2, <1>5, <2>4 DEF L
    <3>2. frame[stack[k].depth] = PathOf(stack, n, k - 1, stack[k].depth)
      BY <3>1 DEF FramesInv
    <3>3. stack[k].depth \in 0 .. d
      BY <1>2, <1>9, <3>1
    <3>4. QED
      BY <1>6, <2>2, <3>1, <3>2, <3>3
  <2>5. QED
    BY <2>3, <2>4
<1>11. frame'[e] = PathOf(stack', n, L, e)
  <2>0. PICK s, m : s = stack' /\ m = L - 1
    OBVIOUS
  <2>1. /\ n \in Nat /\ m \in Nat /\ d \in 0 .. n - 1 /\ e \in d + 1 .. n /\ L = m + 1
        /\ Above(s, m, d) /\ IsCall(s, L, d, "high")
    BY <1>2, <1>3, <1>4, <1>5, <1>9, <2>0 DEF Above, IsCall
  <2>2. PathOf(s, n, m, d) = PathOf(stack, n, m, d)
    BY <1>5, <2>0, PathLocal
  <2>3. PathOf(s, n, L, e) = Skipped(PathOf(s, n, m, d), n, d, e)
    BY <2>1, PathHigh
  <2>4. frame[d] = PathOf(s, n, m, d)
    BY <1>7, <2>0, <2>2
  <2>5. frame'[e] = PathOf(s, n, L, e)
    BY <1>6, <2>3, <2>4
  <2>6. QED
    BY <2>0, <2>1, <2>5
<1>12. QED
  BY <1>1, <1>5, <1>8, <1>10, <1>11 DEF FramesInv

(* A call that ends leaves its caller's frame as the caller left it.        *)
LEMMA FramesPop ==
  ASSUME ShapeInv, FramesInv, UNCHANGED <<input, frame, pc>>, pc = "return", stack # <<>>,
         stack' = Pop, CallDepth' = Top.depth
  PROVE  FramesInv'
<1>1. /\ Len(stack) \in Nat /\ Len(stack) >= 1 /\ Top = stack[Len(stack)]
      /\ Len(stack') = Len(stack) - 1 /\ n' = n
      /\ \A k \in 1 .. Len(stack) - 1 : stack'[k] = stack[k]
  BY ReturnFacts DEF n, order
<1>2. \A k \in 1 .. Len(stack) : frame[stack[k].depth] = PathOf(stack, n, k - 1, stack[k].depth)
  BY DEF FramesInv
<1>3. \A k \in 1 .. Len(stack) : \A c : PathOf(stack', n, k - 1, c) = PathOf(stack, n, k - 1, c)
  <2> TAKE k \in 1 .. Len(stack)
  <2> TAKE c
  <2>1. \A j \in 1 .. k - 1 : stack'[j] = stack[j]
    BY <1>1
  <2>2. QED
    BY <2>1, PathLocal
<1>4. \A k \in 1 .. Len(stack') : frame'[stack'[k].depth] = PathOf(stack', n, k - 1, stack'[k].depth)
  BY <1>1, <1>2, <1>3
<1>5. frame'[Top.depth] = PathOf(stack', n, Len(stack'), Top.depth)
  <2>1. Len(stack) \in 1 .. Len(stack) /\ Len(stack') = Len(stack) - 1
    BY <1>1
  <2>2. QED
    BY <1>1, <1>2, <1>3, <2>1
<1>6. QED
  BY <1>1, <1>4, <1>5 DEF FramesInv

(* What bdd_mk leaves of the vector: nothing is taken away. *)
LEMMA HighReturnedPops ==
  ASSUME ShapeInv, HighReturned
  PROVE  /\ UNCHANGED <<input, frame, depth, pc, bdd>> /\ pc = "return" /\ stack # <<>>
         /\ stack' = Pop /\ StackInv' /\ CallDepth' = Top.depth
         /\ order' = order /\ n' = n
         /\ Top.at = "high" /\ Top.l \in Indices(tree) /\ ret \in Indices(tree)
         /\ OrderRva(Top.depth) \in Rva
         /\ \/ MkShared(OrderRva(Top.depth), Top.l, ret)
            \/ MkExists(OrderRva(Top.depth), Top.l, ret)
            \/ MkCreates(OrderRva(Top.depth), Top.l, ret)
<1> DEFINE rva == OrderRva(Top.depth)
           low == Top.l
<1>1. /\ UNCHANGED <<input, frame, depth, pc, bdd>> /\ pc = "return" /\ stack # <<>>
      /\ order' = order /\ n' = n
      /\ Top.at = "high" /\ ret # NoNode /\ stack' = Pop /\ Mk(rva, low, ret)
  BY DEF HighReturned, Returning, order, n
<1>2. /\ Len(stack) >= 1 /\ Len(stack) \in Nat /\ Top = stack[Len(stack)] /\ Top.depth \in 0 .. n - 1
  BY <1>1, ReturnFacts
<1>3. ret \in Indices(tree) /\ low \in Indices(tree)
  BY <1>1, <1>2 DEF ShapeInv, TypeOK, StackInv
<1>4. rva \in Rva
  BY <1>2, OrderFacts DEF ShapeInv, TypeOK
<1>5. tree \in Seq(BddNode) /\ Len(tree) \in Nat
  BY <1>1 DEF ShapeInv, TypeOK
<1> HIDE DEF rva, low
<1>6. MkShared(rva, low, ret) \/ MkExists(rva, low, ret) \/ MkCreates(rva, low, ret)
  BY <1>1, <1>3, <1>5, MkCases DEF Indices
<1>7. \A i \in Indices(tree) : i \in Indices(tree')
  BY <1>5, <1>6 DEF MkShared, MkExists, MkCreates, Indices
<1>8. StackInv' /\ CallDepth' = Top.depth
  BY <1>1, <1>7, PopChain
<1>9. QED
  BY <1>1, <1>3, <1>4, <1>6, <1>8 DEF rva, low

LEMMA FramesStep == ShapeInv /\ FramesInv /\ [Next]_vars => FramesInv'
<1> SUFFICES ASSUME ShapeInv, FramesInv, [Next]_vars PROVE FramesInv'
  OBVIOUS
<1>1. CASE StartBuild
  <2>1. stack = <<>> /\ stack' = <<>> /\ pc' = "build" /\ UNCHANGED <<input, frame>> /\ pc = "start"
    BY <1>1 DEF StartBuild, ShapeInv, PhaseInv
  <2>2. n' = n /\ n \in Nat
    BY <2>1 DEF n, order, ShapeInv, TypeOK, IsRvaOrder
  <2>3. frame'[0] = [p \in 1 .. n |-> 1] /\ CallDepth' = 0
    BY <2>1 DEF FramesInv, CallDepth
  <2>4. PathOf(stack', n, 0, 0) = [p \in 1 .. n |-> 1]
    BY <2>2 DEF PathOf
  <2>5. QED
    BY <2>1, <2>2, <2>3, <2>4 DEF FramesInv
<1>2. CASE Evaluate
  <2>1. UNCHANGED <<input, frame, stack>> /\ pc = "build" /\ pc' = "return" /\ order' = order /\ n' = n
    BY <1>2 DEF Evaluate, order, n
  <2>2. CallDepth' = CallDepth
    BY <2>1 DEF CallDepth, Top, ChildDepth, NextVarDepth, OrderRva
  <2>3. QED
    BY <2>1, <2>2 DEF FramesInv
<1>3. CASE Descend
  BY <1>3, FramesDescend
<1>4. CASE Propagate
  <2>1. /\ UNCHANGED <<input, tree, frame, pc>> /\ pc = "return" /\ stack # <<>> /\ stack' = Pop
    BY <1>4 DEF Propagate
  <2>2. CallDepth' = Top.depth
    BY <2>1, PopChain
  <2>3. QED
    BY <2>1, <2>2, FramesPop
<1>5. CASE LowReturned
  BY <1>5, FramesLowReturned
<1>6. CASE HighReturned
  BY <1>6, HighReturnedPops, FramesPop
<1>7. CASE Finish
  BY <1>7 DEF Finish, FramesInv
<1>8. CASE UNCHANGED vars
  <2>1. UNCHANGED <<input, frame, stack, pc>> /\ order' = order /\ n' = n
    BY <1>8 DEF vars, order, n
  <2>2. CallDepth' = CallDepth
    BY <2>1 DEF CallDepth, Top, ChildDepth, NextVarDepth, OrderRva
  <2>3. QED
    BY <2>1, <2>2 DEF FramesInv
<1>9. QED
  BY <1>1, <1>2, <1>3, <1>4, <1>5, <1>6, <1>7, <1>8 DEF Next

LEMMA FramesAlways == Spec => []FramesInv
BY FramesInit, FramesStep, ShapeAlways, PTL DEF Spec

(* The evaluation frames are private to their calls although they share one *)
(* block of memory: whatever the expression, a call of bdd_build reads in   *)
(* its frame what its callers decided, and nothing stale.                   *)
THEOREM FramesKept == Spec => []FramesIntact
<1>1. ShapeInv /\ FramesInv => FramesIntact
  <2>1. \A k, d : PathFrame(k, d) = PathOf(stack, n, k, d)
    BY DEF PathFrame, PathOf, Decided
  <2>2. QED
    BY <2>1 DEF ShapeInv, PhaseInv, FramesInv, FramesIntact
<1>2. QED
  BY <1>1, ShapeAlways, FramesAlways, PTL

-----------------------------------------------------------------------------
(***************************************************************************)
(* The contract of bdd_build.                                              *)
(***************************************************************************)

(* WorldsBelow and Decides as functions of the state they read.             *)
Below(o, f, d) == {w \in WorldsOver(RvasOf(o)) : \A p \in 1 .. d : f[p] = 1 <=> o[p] \in w}
Says(t, s, i, w) == NodeValues(t, w)[i] = IF w \in s THEN 1 ELSE 0

ContractInv ==
  /\ pc = "return" /\ ret # NoNode =>
       \A w \in Below(order, frame[CallDepth], CallDepth) : Says(tree, input.sat, ret, w)
  /\ \A k \in 1 .. Len(stack) : stack[k].at = "high" =>
       \A w \in Below(order, frame[stack[k].depth], stack[k].depth) :
         OrderRva(stack[k].depth) \notin w => Says(tree, input.sat, stack[k].l, w)

(* Once every rva is decided one world is left: the one the frame spells.   *)
LEMMA OneWorld ==
  ASSUME n \in Nat, NEW f, NEW w \in Below(order, f, n)
  PROVE  w = TrueRvas(f)
<1>1. w \subseteq RvasOf(order) /\ \A p \in 1 .. n : f[p] = 1 <=> order[p] \in w
  BY DEF Below, WorldsOver
<1>2. RvasOf(order) = {order[p] : p \in 1 .. n}
  BY DEF RvasOf, n
<1>3. \A a \in w : a \in TrueRvas(f)
  BY <1>1, <1>2 DEF TrueRvas
<1>4. \A a \in TrueRvas(f) : a \in w
  BY <1>1 DEF TrueRvas
<1>5. QED
  BY <1>3, <1>4

(* A world in which rva d is false is below the first call, one in which it *)
(* is true is below the second: there, the variable has its value and none  *)
(* of the values _bctx_skip_samevar passes over.                            *)
LEMMA WorldsLow ==
  ASSUME NEW m \in Nat, NEW d \in 0 .. m - 1, NEW S, NEW f \in [1 .. m -> S], NEW o,
         NEW w \in Below(o, f, d), o[d + 1] \notin w
  PROVE  w \in Below(o, [f EXCEPT ![d + 1] = 0], d + 1)
<1> DEFINE g == [f EXCEPT ![d + 1] = 0]
<1>1. w \in WorldsOver(RvasOf(o)) /\ \A p \in 1 .. d : f[p] = 1 <=> o[p] \in w
  BY DEF Below
<1>2. \A p \in 1 .. d : g[p] = f[p]
  OBVIOUS
<1>3. g[d + 1] = 0
  OBVIOUS
<1> HIDE DEF g
<1>4. \A p \in 1 .. d + 1 : g[p] = 1 <=> o[p] \in w
  <2> TAKE p \in 1 .. d + 1
  <2>1. CASE p = d + 1
    BY <1>3, <2>1
  <2>2. CASE p # d + 1
    <3>1. p \in 1 .. d
      BY <2>2
    <3>2. QED
      BY <1>1, <1>2, <3>1
  <2>3. QED
    BY <2>1, <2>2
<1>5. w \in Below(o, g, d + 1)
  BY <1>1, <1>4 DEF Below
<1>6. QED
  BY <1>5 DEF g

LEMMA WorldsHigh ==
  ASSUME IsRvaOrder(order), NEW d \in 0 .. n - 1, NEW f,
         NEW w \in Below(order, f, d), OrderRva(d) \in w
  PROVE  w \in Below(order, Skipped(f, n, d, NextVarDepth(d)), NextVarDepth(d))
<1> DEFINE e == NextVarDepth(d)
           g == Skipped(f, n, d, e)
<1>1. n \in Nat /\ \A p \in 1 .. n : order[p] \in Rva
  BY DEF n, IsRvaOrder
<1>2. e \in d + 1 .. n /\ \A k \in d + 1 .. e - 1 : IsSameVar(OrderRva(k), OrderRva(d))
  BY NextVarDepthFacts
<1>3. /\ w \in WorldsOver(RvasOf(order)) /\ Exclusive(w)
      /\ \A p \in 1 .. d : f[p] = 1 <=> order[p] \in w
  BY DEF Below, WorldsOver
<1> HIDE DEF e
<1>4. /\ \A p \in 1 .. d : g[p] = f[p]
      /\ g[d + 1] = 1
      /\ \A p \in d + 2 .. e : g[p] = 0
  BY <1>1, <1>2 DEF Skipped
<1> HIDE DEF g
<1>5. ASSUME NEW p \in d + 2 .. e
      PROVE  order[p] \notin w
  <2>1. RvaBefore(OrderRva(d), order[p]) /\ OrderRva(d) \in Rva
    BY <1>1, <1>2, OrderFacts
  <2>2. order[p] = OrderRva(p - 1) /\ p - 1 \in d + 1 .. e - 1
    BY <1>1, <1>2 DEF OrderRva
  <2>3. IsSameVar(order[p], OrderRva(d))
    BY <1>2, <2>2
  <2>4. OrderRva(d) # order[p]
    BY <2>1 DEF RvaBefore, Rva, VarName
  <2>5. QED
    BY <1>3, <2>3, <2>4 DEF Exclusive
<1>6. \A p \in 1 .. e : g[p] = 1 <=> order[p] \in w
  <2> TAKE p \in 1 .. e
  <2>1. CASE p \in 1 .. d
    BY <1>3, <1>4, <2>1
  <2>2. CASE p = d + 1
    BY <1>4, <2>2 DEF OrderRva
  <2>3. CASE p \in d + 2 .. e
    BY <1>4, <1>5, <2>3
  <2>4. QED
    BY <1>2, <2>1, <2>2, <2>3
<1>7. w \in Below(order, g, e)
  BY <1>3, <1>6 DEF Below
<1>8. QED
  BY <1>7 DEF g, e

(* The frame of the call that has returned, from its caller's.              *)
LEMMA CallFrame ==
  ASSUME ShapeInv, FramesInv, pc = "return", stack # <<>>
  PROVE  /\ Top.at = "low" => /\ CallDepth = Top.depth + 1
                              /\ frame[CallDepth] = [frame[Top.depth] EXCEPT ![Top.depth + 1] = 0]
         /\ Top.at = "high" => /\ CallDepth = NextVarDepth(Top.depth)
                               /\ frame[CallDepth] = Skipped(frame[Top.depth], n, Top.depth, CallDepth)
<1>1. PICK L, m, d, e : L = Len(stack) /\ m = L - 1 /\ d = Top.depth /\ e = CallDepth
  OBVIOUS
<1>2. /\ n \in Nat /\ L \in Nat /\ m \in Nat /\ L = m + 1 /\ Top = stack[L] /\ d \in 0 .. n - 1
      /\ L \in 1 .. Len(stack)
  BY <1>1, ReturnFacts
<1>3. frame[d] = PathOf(stack, n, m, d) /\ frame[e] = PathOf(stack, n, L, e)
  BY <1>1, <1>2 DEF FramesInv
<1>4. Above(stack, m, d)
  <2>1. \A j \in 1 .. m : j \in 1 .. Len(stack) /\ j < Len(stack)
    BY <1>1, <1>2
  <2>2. QED
    BY <1>1, <1>2, <2>1, RecordFacts, DepthsBelow DEF Above
<1>5. CASE Top.at = "low"
  <2>1. e = d + 1
    BY <1>1, <1>5 DEF CallDepth, ChildDepth
  <2>2. IsCall(stack, L, d, "low")
    BY <1>1, <1>2, <1>5 DEF IsCall
  <2>3. PathOf(stack, n, L, e) = [PathOf(stack, n, m, d) EXCEPT ![e] = 0]
    BY <1>2, <1>4, <2>1, <2>2, PathLow
  <2>4. QED
    BY <1>1, <1>3, <1>5, <2>1, <2>3
<1>6. CASE Top.at = "high"
  <2>1. e = NextVarDepth(d) /\ e \in d + 1 .. n
    BY <1>1, <1>2, <1>6, NextVarDepthFacts DEF CallDepth, ChildDepth, ShapeInv, TypeOK
  <2>2. IsCall(stack, L, d, "high")
    BY <1>1, <1>2, <1>6 DEF IsCall
  <2>3. PathOf(stack, n, L, e) = Skipped(PathOf(stack, n, m, d), n, d, e)
    BY <1>2, <1>4, <2>1, <2>2, PathHigh
  <2>4. QED
    BY <1>1, <1>3, <1>6, <2>1, <2>3
<1>7. QED
  BY <1>5, <1>6

(* A record that stays on the stack keeps its contract while nodes are      *)
(* added behind its low child.                                              *)
LEMMA ContractKept ==
  ASSUME ShapeInv, ContractInv, ShapeInv', UNCHANGED input, Len(tree) <= Len(tree'),
         \A i \in Indices(tree) : NodeAt(tree', i) = NodeAt(tree, i),
         NEW k \in 1 .. Len(stack), stack'[k] = stack[k], stack[k].at = "high",
         frame'[stack[k].depth] = frame[stack[k].depth],
         NEW w \in Below(order, frame[stack[k].depth], stack[k].depth),
         OrderRva(stack[k].depth) \notin w
  PROVE  Says(tree', input.sat, stack[k].l, w)
<1>1. Says(tree, input.sat, stack[k].l, w) /\ stack[k].l \in Indices(tree)
  BY DEF ContractInv, ShapeInv, StackInv
<1>2. /\ Len(tree) \in Nat /\ Len(tree') \in Nat
      /\ ChildrenEarlier(tree) /\ ChildrenEarlier(tree')
  BY DEF ShapeInv, TypeOK, TreeInv
<1>3. NodeValues(tree', w)[stack[k].l] = NodeValues(tree, w)[stack[k].l]
  BY <1>1, <1>2, NodeValuesAppend
<1>4. QED
  BY <1>1, <1>3 DEF Says

LEMMA ContractInit == Init => ContractInv
BY DEF Init, ContractInv

LEMMA ContractEvaluate ==
  ShapeInv /\ FramesInv /\ ContractInv /\ Evaluate /\ ShapeInv' => ContractInv'
<1> SUFFICES ASSUME ShapeInv, FramesInv, ContractInv, Evaluate, ShapeInv' PROVE ContractInv'
  OBVIOUS
<1>1. /\ UNCHANGED <<input, tree, frame, stack, depth, bdd>> /\ pc = "build" /\ depth = n
      /\ ret' = (IF TrueRvas(frame[depth]) \in input.sat THEN 1 ELSE 0)
      /\ order' = order /\ n' = n
  BY DEF Evaluate, order, n
<1>2. CallDepth = n /\ CallDepth' = n /\ n \in Nat
  <2>1. CallDepth' = CallDepth
    BY <1>1 DEF CallDepth, Top, ChildDepth, NextVarDepth, OrderRva
  <2>2. QED
    BY <1>1, <2>1 DEF ShapeInv, PhaseInv, TypeOK, IsRvaOrder, n
<1>3. ASSUME NEW w \in Below(order, frame[n], n)
      PROVE  Says(tree, input.sat, ret', w)
  <2>1. w = TrueRvas(frame[n])
    BY <1>2, OneWorld
  <2>2. ret' = (IF w \in input.sat THEN 1 ELSE 0)
    BY <1>1, <2>1
  <2>3. NodeAt(tree, ret') = LeafRec(ret') /\ ret' \in Indices(tree)
    BY <1>1, <2>2 DEF ShapeInv, TreeInv, TypeOK, Indices
  <2>4. NodeValues(tree, w)[ret'] = NodeStep(tree, w, NodeValues(tree, w), ret')
    BY <1>1, <2>3, NodeValuesDef DEF ShapeInv, TypeOK, TreeInv
  <2>5. NodeStep(tree, w, NodeValues(tree, w), ret') = ret'
    BY <2>3 DEF NodeStep, IsLeaf, LeafRec, NodeRec, LeafBoolValue, RvaLeaf
  <2>6. QED
    BY <2>2, <2>4, <2>5 DEF Says
<1>4. \A k \in 1 .. Len(stack') : stack'[k].at = "high" =>
        \A w \in Below(order', frame'[stack'[k].depth], stack'[k].depth) :
          OrderRva(stack[k].depth)' \notin w => Says(tree', input'.sat, stack'[k].l, w)
  BY <1>1 DEF ContractInv, OrderRva
<1>5. QED
  BY <1>1, <1>2, <1>3, <1>4 DEF ContractInv

LEMMA ContractDescend ==
  ShapeInv /\ FramesInv /\ ContractInv /\ Descend /\ ShapeInv' => ContractInv'
<1> SUFFICES ASSUME ShapeInv, FramesInv, ContractInv, Descend, ShapeInv' PROVE ContractInv'
  OBVIOUS
<1> DEFINE rec == [depth |-> depth, at |-> "low", l |-> NoNode]
<1>1. /\ UNCHANGED <<input, tree, pc>> /\ pc = "build" /\ frame' = SetLow(depth) /\ depth < n
      /\ stack' = Append(stack, rec) /\ order' = order /\ n' = n
  BY DEF Descend, order, n
<1>2. /\ n \in Nat /\ depth \in 0 .. n - 1 /\ depth = CallDepth /\ stack \in Seq(Record)
      /\ frame \in [0 .. n -> Frame] /\ Len(tree) \in Nat
  BY <1>1 DEF ShapeInv, TypeOK, PhaseInv, IsRvaOrder, n
<1>3. \A k \in 1 .. Len(stack') : stack'[k].at = "high" => k \in 1 .. Len(stack) /\ stack'[k] = stack[k]
  BY <1>1, <1>2
<1>4. \A k \in 1 .. Len(stack) : frame'[stack[k].depth] = frame[stack[k].depth]
  <2> TAKE k \in 1 .. Len(stack)
  <2>1. stack[k].depth \in 0 .. depth
    BY <1>2, RecordFacts, DepthsBelow
  <2>2. QED
    BY <1>1, <1>2, <2>1 DEF SetLow
<1>5. ASSUME NEW k \in 1 .. Len(stack'), stack'[k].at = "high",
             NEW w \in Below(order', frame'[stack'[k].depth], stack'[k].depth),
             OrderRva(stack'[k].depth) \notin w
      PROVE  Says(tree', input'.sat, stack'[k].l, w)
  <2>1. k \in 1 .. Len(stack) /\ stack'[k] = stack[k]
    BY <1>3, <1>5
  <2>2. /\ stack[k].at = "high" /\ frame'[stack[k].depth] = frame[stack[k].depth]
        /\ w \in Below(order, frame[stack[k].depth], stack[k].depth)
        /\ OrderRva(stack[k].depth) \notin w
    BY <1>1, <1>4, <1>5, <2>1
  <2>3. Len(tree) <= Len(tree') /\ \A i \in Indices(tree) : NodeAt(tree', i) = NodeAt(tree, i)
    BY <1>1, <1>2
  <2>4. UNCHANGED input
    BY <1>1
  <2>5. Says(tree', input.sat, stack[k].l, w)
    BY <2>1, <2>2, <2>3, <2>4, ContractKept
  <2>6. QED
    BY <2>1, <2>4, <2>5
<1>6. \A d : OrderRva(d)' = OrderRva(d)
  BY <1>1 DEF OrderRva
<1>7. QED
  BY <1>1, <1>5, <1>6 DEF ContractInv

LEMMA ContractLowReturned ==
  ShapeInv /\ FramesInv /\ ContractInv /\ LowReturned /\ ShapeInv' => ContractInv'
<1> SUFFICES ASSUME ShapeInv, FramesInv, ContractInv, LowReturned, ShapeInv' PROVE ContractInv'
  OBVIOUS
<1> DEFINE rec == [Top EXCEPT !.at = "high", !.l = ret]
           L == Len(stack)
           d == Top.depth
<1>1. /\ UNCHANGED <<input, tree, ret>> /\ pc = "return" /\ pc' = "build" /\ stack # <<>>
      /\ order' = order /\ n' = n /\ Top.at = "low" /\ stack' = Append(Pop, rec)
      /\ frame' = SetHigh(d) /\ ret # NoNode
  BY DEF LowReturned, Returning, order, n
<1>2. /\ L \in Nat /\ L >= 1 /\ Top = stack[L] /\ Top \in Record /\ n \in Nat
      /\ Pop \in Seq(Record) /\ Len(Pop) = L - 1 /\ d \in 0 .. n - 1
      /\ \A k \in 1 .. L - 1 : Pop[k] = stack[k]
      /\ frame \in [0 .. n -> Frame] /\ Len(tree) \in Nat
  BY <1>1, ReturnFacts DEF ShapeInv, TypeOK
<1>3. rec.depth = d /\ rec.l = ret
  BY <1>2 DEF Record
<1> HIDE DEF rec
<1>4. /\ Len(stack') = L /\ stack'[L] = rec
      /\ \A k \in 1 .. L - 1 : stack'[k] = stack[k]
  BY <1>1, <1>2
<1>5. \A k \in 1 .. L : frame'[stack[k].depth] = frame[stack[k].depth]
  <2> TAKE k \in 1 .. L
  <2>1. stack[k].depth \in 0 .. d
    BY <1>2, RecordFacts, DepthsBelow
  <2>2. QED
    BY <1>1, <1>2, <2>1 DEF SetHigh
<1>6. CallDepth = d + 1 /\ frame[CallDepth] = [frame[d] EXCEPT ![d + 1] = 0]
  BY <1>1, CallFrame
<1>7. ASSUME NEW w \in Below(order, frame[d], d), OrderRva(d) \notin w
      PROVE  Says(tree, input.sat, ret, w)
  <2>1. frame[d] \in [1 .. n -> {0, 1, Unwritten}] /\ order[d + 1] \notin w
    BY <1>2, <1>7 DEF Frame, OrderRva
  <2>2. w \in Below(order, [frame[d] EXCEPT ![d + 1] = 0], d + 1)
    BY <1>2, <2>1, WorldsLow
  <2>3. QED
    BY <1>1, <1>6, <2>2 DEF ContractInv
<1>8. ASSUME NEW k \in 1 .. L, stack'[k].at = "high",
             NEW w \in Below(order', frame'[stack'[k].depth], stack'[k].depth),
             OrderRva(stack'[k].depth) \notin w
      PROVE  Says(tree', input'.sat, stack'[k].l, w)
  <2>1. CASE k = L
    <3>1. frame'[d] = frame[d]
      BY <1>2, <1>5
    <3>2. QED
      BY <1>1, <1>3, <1>4, <1>7, <1>8, <2>1, <3>1
  <2>2. CASE k # L
    <3>1. k \in 1 .. L - 1 /\ k \in 1 .. Len(stack) /\ stack'[k] = stack[k]
      BY <1>2, <1>4, <2>2
    <3>2. /\ stack[k].at = "high" /\ frame'[stack[k].depth] = frame[stack[k].depth]
          /\ w \in Below(order, frame[stack[k].depth], stack[k].depth)
          /\ OrderRva(stack[k].depth) \notin w
      BY <1>1, <1>5, <1>8, <3>1
    <3>3. Len(tree) <= Len(tree') /\ \A i \in Indices(tree) : NodeAt(tree', i) = NodeAt(tree, i)
      BY <1>1, <1>2
    <3>4. UNCHANGED input
      BY <1>1
    <3>5. Says(tree', input.sat, stack[k].l, w)
      BY <3>1, <3>2, <3>3, <3>4, ContractKept
    <3>6. QED
      BY <3>1, <3>4, <3>5
  <2>3. QED
    BY <2>1, <2>2
<1>9. \A c : OrderRva(c)' = OrderRva(c)
  BY <1>1 DEF OrderRva
<1>10. QED
  BY <1>1, <1>4, <1>8, <1>9 DEF ContractInv

LEMMA ContractPropagate ==
  ShapeInv /\ FramesInv /\ ContractInv /\ Propagate /\ ShapeInv' => ContractInv'
<1> SUFFICES ASSUME ShapeInv, ContractInv, Propagate PROVE ContractInv'
  OBVIOUS
<1>1. /\ UNCHANGED <<input, tree, frame, ret, pc>> /\ stack # <<>> /\ stack' = Pop
      /\ ret = NoNode /\ order' = order
  BY DEF Propagate, order
<1>2. \A k \in 1 .. Len(stack') : k \in 1 .. Len(stack) /\ stack'[k] = stack[k]
  BY <1>1, ReturnFacts
<1>3. \A c : OrderRva(c)' = OrderRva(c)
  BY <1>1 DEF OrderRva
<1>4. QED
  BY <1>1, <1>2, <1>3 DEF ContractInv

(* The vector before and after bdd_mk.                                      *)
LEMMA MkKeeps ==
  ASSUME ShapeInv, HighReturned
  PROVE  /\ tree \in Seq(BddNode) /\ Len(tree) \in Nat /\ ChildrenEarlier(tree)
         /\ Len(tree') \in Nat /\ ChildrenEarlier(tree') /\ Len(tree) <= Len(tree')
         /\ \A i \in Indices(tree) : i \in Indices(tree') /\ NodeAt(tree', i) = NodeAt(tree, i)
<1> DEFINE rva == OrderRva(Top.depth)
           low == Top.l
<1>1. /\ low \in Indices(tree) /\ ret \in Indices(tree) /\ rva \in Rva /\ pc = "return"
      /\ MkShared(rva, low, ret) \/ MkExists(rva, low, ret) \/ MkCreates(rva, low, ret)
  BY HighReturnedPops
<1>2. tree \in Seq(BddNode) /\ Len(tree) \in Nat /\ ChildrenEarlier(tree)
  BY <1>1 DEF ShapeInv, TypeOK, TreeInv
<1> HIDE DEF rva, low
<1>3. CASE tree' = tree
  BY <1>2, <1>3
<1>4. CASE MkCreates(rva, low, ret)
  <2> DEFINE u == Append(tree, NodeRec(rva, low, ret))
  <2>1. /\ Len(tree) \in Nat /\ Len(u) = Len(tree) + 1 /\ ChildrenEarlier(u)
        /\ \A i \in Indices(tree) : i \in Indices(u) /\ NodeAt(u, i) = NodeAt(tree, i)
    BY <1>1, <1>2, GrowFacts
  <2> HIDE DEF u
  <2>2. tree' = u
    BY <1>4 DEF MkCreates, u
  <2>3. QED
    BY <1>2, <2>1, <2>2
<1>5. QED
  BY <1>1, <1>3, <1>4 DEF MkShared, MkExists

(* bdd_mk returns a node that tests rva and has the children it was given,  *)
(* or the child that both are.                                              *)
LEMMA MkSays ==
  ASSUME ShapeInv, HighReturned, ret' # NoNode, NEW s, NEW w,
         OrderRva(Top.depth) \notin w => Says(tree, s, Top.l, w),
         OrderRva(Top.depth) \in w => Says(tree, s, ret, w)
  PROVE  Says(tree', s, ret', w)
<1> DEFINE rva == OrderRva(Top.depth)
           low == Top.l
           v == NodeValues(tree', w)
<1>1. /\ low \in Indices(tree) /\ ret \in Indices(tree) /\ rva \in Rva
      /\ MkShared(rva, low, ret) \/ MkExists(rva, low, ret) \/ MkCreates(rva, low, ret)
  BY HighReturnedPops
<1>2. /\ tree \in Seq(BddNode) /\ Len(tree) \in Nat /\ ChildrenEarlier(tree)
      /\ Len(tree') \in Nat /\ ChildrenEarlier(tree') /\ Len(tree) <= Len(tree')
      /\ \A i \in Indices(tree) : i \in Indices(tree') /\ NodeAt(tree', i) = NodeAt(tree, i)
  BY MkKeeps
<1>3. /\ v[low] = NodeValues(tree, w)[low]
      /\ v[ret] = NodeValues(tree, w)[ret]
  BY <1>1, <1>2, NodeValuesAppend
<1>4. v = [i \in Indices(tree') |-> NodeStep(tree', w, v, i)]
  BY <1>2, NodeValuesDef
<1>5. /\ rva \notin w => Says(tree, s, low, w)
      /\ rva \in w => Says(tree, s, ret, w)
  OBVIOUS
<1> HIDE DEF rva, low, v
<1>6. CASE MkShared(rva, low, ret)
  BY <1>3, <1>5, <1>6 DEF MkShared, Says, v
<1>7. ASSUME ret' \in Indices(tree'), NodeAt(tree', ret') = NodeRec(rva, low, ret)
      PROVE  Says(tree', s, ret', w)
  <2>1. ~IsLeaf(NodeRec(rva, low, ret))
    BY <1>1 DEF IsLeaf, NodeRec, Indices
  <2>2. v[ret'] = IF rva \in w THEN v[ret] ELSE v[low]
    BY <1>4, <1>7, <2>1 DEF NodeStep, NodeRec
  <2>3. QED
    BY <1>3, <1>5, <2>2 DEF Says, v
<1>8. CASE MkExists(rva, low, ret)
  BY <1>2, <1>7, <1>8 DEF MkExists, Inner
<1>9. CASE MkCreates(rva, low, ret)
  <2>1. ret' = Len(tree) /\ tree' = Append(tree, NodeRec(rva, low, ret))
    BY <1>9 DEF MkCreates
  <2>2. Len(tree') = Len(tree) + 1 /\ NodeAt(tree', ret') = NodeRec(rva, low, ret)
    BY <1>2, <2>1 DEF NodeAt
  <2>3. ret' \in Indices(tree')
    BY <1>2, <2>1, <2>2 DEF Indices
  <2>4. QED
    BY <1>7, <2>2, <2>3
<1>10. QED
  BY <1>1, <1>6, <1>8, <1>9

LEMMA ContractHighReturned ==
  ShapeInv /\ FramesInv /\ ContractInv /\ HighReturned /\ ShapeInv' => ContractInv'
<1> SUFFICES ASSUME ShapeInv, FramesInv, ContractInv, HighReturned, ShapeInv' PROVE ContractInv'
  OBVIOUS
<1> DEFINE L == Len(stack)
           d == Top.depth
<1>1. /\ UNCHANGED <<input, frame, pc>> /\ pc = "return" /\ stack # <<>> /\ stack' = Pop
      /\ CallDepth' = d /\ order' = order /\ Top.at = "high" /\ ret # NoNode
  BY HighReturnedPops DEF HighReturned
<1>2. /\ L \in Nat /\ L >= 1 /\ Top = stack[L] /\ d \in 0 .. n - 1 /\ Len(stack') = L - 1
      /\ \A k \in 1 .. L - 1 : stack'[k] = stack[k]
  BY <1>1, ReturnFacts
<1>3. CallDepth = NextVarDepth(d) /\ frame[CallDepth] = Skipped(frame[d], n, d, NextVarDepth(d))
  BY <1>1, CallFrame
<1>4. ASSUME NEW w \in Below(order, frame[d], d)
      PROVE  /\ OrderRva(d) \notin w => Says(tree, input.sat, Top.l, w)
             /\ OrderRva(d) \in w => Says(tree, input.sat, ret, w)
  <2>1. OrderRva(d) \notin w => Says(tree, input.sat, Top.l, w)
    <3>1. PICK k \in 1 .. Len(stack) : stack[k] = Top
      BY <1>2
    <3>2. stack[k].at = "high" /\ w \in Below(order, frame[stack[k].depth], stack[k].depth)
      BY <1>1, <1>4, <3>1
    <3>3. OrderRva(stack[k].depth) \notin w => Says(tree, input.sat, stack[k].l, w)
      BY <3>2 DEF ContractInv
    <3>4. QED
      BY <3>1, <3>3
  <2>2. ASSUME OrderRva(d) \in w
        PROVE  w \in Below(order, frame[CallDepth], CallDepth)
    BY <1>2, <1>3, <1>4, <2>2, WorldsHigh DEF ShapeInv, TypeOK
  <2>3. QED
    BY <1>1, <2>1, <2>2 DEF ContractInv
<1>5. ASSUME ret' # NoNode, NEW w \in Below(order, frame[d], d)
      PROVE  Says(tree', input.sat, ret', w)
  BY <1>4, <1>5, MkSays
<1>6. ASSUME NEW k \in 1 .. Len(stack'), stack'[k].at = "high",
             NEW w \in Below(order', frame'[stack'[k].depth], stack'[k].depth),
             OrderRva(stack'[k].depth) \notin w
      PROVE  Says(tree', input'.sat, stack'[k].l, w)
  <2>1. k \in 1 .. Len(stack) /\ stack'[k] = stack[k]
    BY <1>2
  <2>2. /\ stack[k].at = "high" /\ frame'[stack[k].depth] = frame[stack[k].depth]
        /\ w \in Below(order, frame[stack[k].depth], stack[k].depth)
        /\ OrderRva(stack[k].depth) \notin w
    BY <1>1, <1>6, <2>1
  <2>3. Len(tree) <= Len(tree') /\ \A i \in Indices(tree) : NodeAt(tree', i) = NodeAt(tree, i)
    BY MkKeeps
  <2>4. UNCHANGED input
    BY <1>1
  <2>5. Says(tree', input.sat, stack[k].l, w)
    BY <2>1, <2>2, <2>3, <2>4, ContractKept
  <2>6. QED
    BY <2>1, <2>4, <2>5
<1>7. \A c : OrderRva(c)' = OrderRva(c)
  BY <1>1 DEF OrderRva
<1>8. ret' # NoNode => \A w \in Below(order', frame'[d], d) : Says(tree', input'.sat, ret', w)
  BY <1>1, <1>5
<1>9. QED
  BY <1>1, <1>6, <1>7, <1>8 DEF ContractInv

LEMMA ContractStep ==
  ShapeInv /\ FramesInv /\ ContractInv /\ [Next]_vars /\ ShapeInv' => ContractInv'
<1> SUFFICES ASSUME ShapeInv, FramesInv, ContractInv, [Next]_vars, ShapeInv' PROVE ContractInv'
  OBVIOUS
<1>1. CASE StartBuild
  <2>1. stack' = <<>> /\ pc' = "build"
    BY <1>1 DEF StartBuild, ShapeInv, PhaseInv
  <2>2. QED
    BY <2>1 DEF ContractInv
<1>2. CASE Finish
  BY <1>2 DEF Finish, ContractInv
<1>3. CASE UNCHANGED vars
  <2>1. UNCHANGED <<input, tree, frame, stack, ret, pc>> /\ order' = order
    BY <1>3 DEF vars, order
  <2>2. CallDepth' = CallDepth /\ \A c : OrderRva(c)' = OrderRva(c)
    BY <2>1 DEF CallDepth, Top, ChildDepth, NextVarDepth, OrderRva, n
  <2>3. QED
    BY <2>1, <2>2 DEF ContractInv
<1>4. QED
  BY <1>1, <1>2, <1>3, ContractEvaluate, ContractDescend, ContractPropagate,
     ContractLowReturned, ContractHighReturned DEF Next

LEMMA ContractAlways == Spec => []ContractInv
BY ContractInit, ContractStep, FramesAlways, ShapeAlways, PTL DEF Spec

(* bdd_build is correct: the node a call returns has the value of the       *)
(* expression in every world that agrees with what its callers decided, and *)
(* a low child keeps its meaning while the high child is built.             *)
THEOREM BuildCorrect == Spec => []CallContract
<1>1. ContractInv => CallContract
  <2>1. \A f, d : WorldsBelow(f, d) = Below(order, f, d)
    BY DEF WorldsBelow, Below
  <2>2. \A i, w : Decides(i, w) <=> Says(tree, input.sat, i, w)
    BY DEF Decides, Says
  <2>3. QED
    BY <2>1, <2>2 DEF ContractInv, CallContract
<1>2. QED
  BY <1>1, ContractAlways, PTL

-----------------------------------------------------------------------------
(***************************************************************************)
(* create_bdd implements BddSpec.                                          *)
(***************************************************************************)

(* The node the outermost call returns has the expression's value in every  *)
(* world.                                                                   *)
LEMMA OutermostSays ==
  ASSUME ContractInv, pc = "return", stack = <<>>, ret # NoNode,
         NEW w \in WorldsOver(RvasOf(order))
  PROVE  Says(tree, input.sat, ret, w)
<1>1. CallDepth = 0
  BY DEF CallDepth
<1>2. w \in Below(order, frame[CallDepth], CallDepth)
  BY <1>1 DEF Below
<1>3. QED
  BY <1>2 DEF ContractInv

(* What Finish stores is true in exactly the worlds the expression is.      *)
LEMMA StoredMeaning ==
  ASSUME ShapeInv, ContractInv, Finish, ret # NoNode, ShapeInv', RootIsLast'
  PROVE  /\ bdd' # NoBdd
         /\ TrueWorlds(bdd', RvasOf(order)) = input.sat \cap WorldsOver(RvasOf(order))
<1>1. /\ UNCHANGED <<input, ret>> /\ pc = "return" /\ pc' = "done" /\ stack = <<>>
      /\ tree' = (IF Len(tree) = 2 THEN <<LeafRec(ret)>> ELSE tree)
      /\ bdd' = tree'
  BY DEF Finish
<1>2. /\ ret \in Indices(tree) /\ Len(tree) \in Nat /\ ChildrenEarlier(tree) /\ Len(tree) >= 2
      /\ Len(tree') \in Nat /\ ChildrenEarlier(tree') /\ Len(tree') >= 1
  BY <1>1 DEF ShapeInv, TypeOK, TreeInv
<1>3. bdd' # NoBdd
  BY <1>1, <1>2 DEF NoBdd
<1>4. ASSUME NEW w \in WorldsOver(RvasOf(order))
      PROVE  NodeValues(bdd', w)[BddRoot(bdd')] = 1 <=> w \in input.sat
  <2>1. Says(tree, input.sat, ret, w)
    BY <1>1, OutermostSays
  <2>2. CASE Len(tree) = 2
    <3>1. ret \in {0, 1} /\ bdd' = <<LeafRec(ret)>> /\ tree' = <<LeafRec(ret)>>
      BY <1>1, <1>2, <2>2 DEF Indices
    <3>2. Len(tree') = 1 /\ NodeAt(tree', 0) = LeafRec(ret)
      BY <3>1 DEF NodeAt
    <3>3. BddRoot(tree') = 0 /\ 0 \in Indices(tree')
      BY <3>2 DEF BddRoot, Indices
    <3>4. NodeAt(tree, ret) = LeafRec(ret)
      BY <2>2, <3>1 DEF ShapeInv, TreeInv
    <3>5. \A v : /\ NodeStep(tree, w, v, ret) = ret
                 /\ NodeStep(tree', w, v, 0) = ret
      BY <3>2, <3>4 DEF NodeStep, IsLeaf, LeafRec, NodeRec, LeafBoolValue, RvaLeaf
    <3>6. NodeValues(tree, w)[ret] = ret
      BY <1>2, <3>5, NodeValuesDef
    <3>7. NodeValues(tree', w)[0] = ret
      BY <1>2, <3>3, <3>5, NodeValuesDef
    <3>8. QED
      BY <1>1, <2>1, <3>3, <3>6, <3>7 DEF Says
  <2>3. CASE Len(tree) # 2
    <3>1. bdd' = tree /\ Len(tree) > 1
      BY <1>1, <1>2, <2>3
    <3>2. BddRoot(tree) = ret
      BY <1>1, <1>3, <3>1 DEF RootIsLast
    <3>3. QED
      BY <2>1, <3>1, <3>2 DEF Says
  <2>4. QED
    BY <2>2, <2>3
<1>5. QED
  BY <1>3, <1>4 DEF TrueWorlds

LEMMA PromiseInit == Init => Promise!Init
BY DEF Init, Promise!Init, Answer

LEMMA PromiseStep ==
  ShapeInv /\ ContractInv /\ RootIsLast' /\ ShapeInv' /\ [Next]_vars
    => [Promise!Next]_(Promise!specVars)
<1> SUFFICES ASSUME ShapeInv, ContractInv, RootIsLast', ShapeInv', [Next]_vars
             PROVE  [Promise!Next]_(Promise!specVars)
  OBVIOUS
<1>1. input' = input /\ order' = order
  BY DEF Next, StartBuild, Evaluate, Descend, Propagate, LowReturned, HighReturned, Finish,
         vars, order
<1>2. CASE Finish
  <2>1. pc = "return" /\ pc' = "done" /\ bdd = NoBdd
    BY <1>2 DEF Finish, ShapeInv, PhaseInv
  <2>2. CASE ret = NoNode
    <3>1. bdd' = NoBdd
      BY <1>2, <2>2 DEF Finish
    <3>2. Promise!GiveUp
      BY <1>1, <2>1, <3>1 DEF Promise!GiveUp, Answer
    <3>3. QED
      BY <3>2 DEF Promise!Next
  <2>3. CASE ret # NoNode
    <3>1. /\ bdd' # NoBdd
          /\ TrueWorlds(bdd', RvasOf(order)) = input.sat \cap WorldsOver(RvasOf(order))
      BY <1>2, <2>3, StoredMeaning
    <3>2. RvasOf(order) = {order[p] : p \in DOMAIN order}
      <4>1. order \in Seq(Rva)
        BY DEF ShapeInv, TypeOK, IsRvaOrder
      <4>2. QED
        BY <4>1 DEF RvasOf
    <3>3. \A S : Promise!WorldsOver(S) = WorldsOver(S)
      BY DEF Promise!WorldsOver, Promise!Exclusive, Promise!IsSameVar, WorldsOver, Exclusive, IsSameVar
    <3>4. Answer = "pending" /\ Answer' = "stored" /\ RvasOf(order') = RvasOf(order)
      BY <1>1, <2>1, <3>1 DEF Answer
    <3>5. TrueWorlds(bdd', RvasOf(order')) =
            input.sat \cap Promise!WorldsOver({order[p] : p \in DOMAIN order})
      BY <3>1, <3>2, <3>3, <3>4
    <3>6. Promise!Store
      BY <1>1, <3>4, <3>5 DEF Promise!Store
    <3>7. QED
      BY <3>6 DEF Promise!Next
  <2>4. QED
    BY <2>2, <2>3
<1>3. CASE ~Finish
  <2>1. bdd' = bdd /\ (pc = "done" <=> pc' = "done")
    BY <1>3 DEF Next, StartBuild, Evaluate, Descend, Propagate, LowReturned, HighReturned,
                Returning, vars
  <2>2. Answer' = Answer
    BY <2>1 DEF Answer
  <2>3. UNCHANGED Promise!specVars
    BY <1>1, <2>1, <2>2 DEF Promise!specVars
  <2>4. QED
    BY <2>3
<1>4. QED
  BY <1>2, <1>3

(* create_bdd keeps its promise for every expression: it answers once,      *)
(* with nothing or with a diagram that is true in exactly the worlds in     *)
(* which the expression is.                                                 *)
THEOREM KeepsPromise == Spec => ImplementsBddSpec
<1>1. Spec => [](ShapeInv /\ ContractInv /\ RootIsLast)
  BY ShapeAlways, ContractAlways, RootFound, PTL
<1>2. QED
  BY <1>1, PromiseInit, PromiseStep, PTL DEF Spec, ImplementsBddSpec, Promise!Spec

-----------------------------------------------------------------------------
(***************************************************************************)
(* Canonicity.                                                             *)
(***************************************************************************)
TestsKnown == \A i \in Inner(tree) : NodeAt(tree, i).rva \in RvasOf(order)

LEMMA TestsInit == Init => TestsKnown
BY DEF Init, TestsKnown, Inner, Indices

LEMMA TestsStep == ShapeInv /\ TestsKnown /\ [Next]_vars => TestsKnown'
<1> SUFFICES ASSUME ShapeInv, TestsKnown, [Next]_vars PROVE TestsKnown'
  OBVIOUS
<1>1. order' = order
  BY DEF Next, StartBuild, Evaluate, Descend, Propagate, LowReturned, HighReturned, Finish,
         vars, order
<1>2. CASE tree' = tree
  BY <1>1, <1>2 DEF TestsKnown
<1>3. CASE Inner(tree') = {}
  BY <1>3 DEF TestsKnown
<1>4. CASE StartBuild
  <2>1. Inner(tree') = {}
    BY <1>4 DEF StartBuild, Inner, Indices, NodeAt, IsLeaf, LeafRec, NodeRec
  <2>2. QED
    BY <1>3, <2>1
<1>5. CASE Finish
  <2>1. CASE tree' = <<LeafRec(ret)>>
    <3>1. Inner(tree') = {}
      BY <2>1 DEF Inner, Indices, NodeAt, IsLeaf, LeafRec, NodeRec
    <3>2. QED
      BY <1>3, <3>1
  <2>2. QED
    BY <1>2, <1>5, <2>1 DEF Finish
<1>6. CASE HighReturned
  <2> DEFINE rva == OrderRva(Top.depth)
             low == Top.l
  <2>1. /\ stack # <<>> /\ low \in Indices(tree) /\ ret \in Indices(tree) /\ rva \in Rva
        /\ MkShared(rva, low, ret) \/ MkExists(rva, low, ret) \/ MkCreates(rva, low, ret)
    BY <1>6, HighReturnedPops
  <2>2. rva \in RvasOf(order)
    <3>1. n \in Nat /\ Top.depth \in 0 .. n - 1
      BY <2>1, ReturnFacts
    <3>2. Top.depth + 1 \in 1 .. Len(order)
      BY <3>1 DEF n
    <3>3. QED
      BY <3>2 DEF OrderRva, RvasOf
  <2>3. tree \in Seq(BddNode) /\ ChildrenEarlier(tree)
    BY <1>6, MkKeeps
  <2> HIDE DEF rva, low
  <2>4. CASE MkCreates(rva, low, ret)
    <3> DEFINE u == Append(tree, NodeRec(rva, low, ret))
    <3>1. tree' = u
      BY <2>4 DEF MkCreates
    <3>2. NodeAt(u, Len(tree)) = NodeRec(rva, low, ret)
      BY <2>3 DEF NodeAt
    <3>3. /\ \A i \in Indices(tree) : i \in Indices(u) /\ NodeAt(u, i) = NodeAt(tree, i)
          /\ Inner(u) = Inner(tree) \cup {Len(tree)}
      <4>1. low \in Indices(tree) /\ ret \in Indices(tree) /\ rva \in Rva /\ Len(tree) \in Nat
        BY <2>1, <2>3
      <4>2. QED
        BY <2>3, <4>1, GrowFacts
    <3>4. NodeRec(rva, low, ret).rva = rva
      BY DEF NodeRec
    <3> HIDE DEF u
    <3>5. \A i \in Inner(u) : NodeAt(u, i).rva \in RvasOf(order)
      BY <2>2, <3>2, <3>3, <3>4 DEF TestsKnown, Inner
    <3>6. QED
      BY <1>1, <3>1, <3>5 DEF TestsKnown
  <2>5. QED
    BY <1>2, <2>1, <2>4 DEF MkShared, MkExists
<1>7. QED
  BY <1>2, <1>4, <1>5, <1>6 DEF Next, Evaluate, Descend, Propagate, LowReturned, vars

(* No two nodes of a stored diagram mean the same, for any expression: the  *)
(* lookup of lookup_bdd_node misses none, although it starts behind the     *)
(* children and not at the front of the vector.                             *)
THEOREM DiagramCanonical == Spec => []Canonical
<1>1. Spec => []TestsKnown
  BY TestsInit, TestsStep, ShapeAlways, PTL DEF Spec
<1>2. Spec => []OrderInv
  BY OrderInit, OrderStep, ShapeAlways, PTL DEF Spec
<1>3. ShapeInv /\ OrderInv /\ TestsKnown => Canonical
  <2> SUFFICES ASSUME ShapeInv, OrderInv, TestsKnown, bdd # NoBdd,
                      NEW i \in Indices(bdd), NEW j \in Indices(bdd),
                      \A w \in SUBSET RvasOf(order) : NodeValues(bdd, w)[i] = NodeValues(bdd, w)[j]
               PROVE  i = j
    BY DEF Canonical
  <2>1. bdd = tree
    BY DEF ShapeInv, PhaseInv
  <2>2. DiagramOver(bdd, RvasOf(order))
    BY <2>1 DEF DiagramOver, ShapeInv, TypeOK, TreeInv, OrderInv, TestsKnown
  <2>3. SameFunction(bdd, RvasOf(order), i, j)
    BY DEF SameFunction
  <2>4. QED
    BY <2>2, <2>3, FunctionsDistinct
<1>4. QED
  BY <1>1, <1>2, <1>3, ShapeAlways, PTL
-----------------------------------------------------------------------------
(***************************************************************************)
(* The recursion made call by call and the function of BddValue.  A call   *)
(* waits for another one; what it returns is determined by what that one   *)
(* does.  So each open call is known, at any time, to return what the      *)
(* function says, although it was called with a vector that is gone.       *)
(***************************************************************************)

(* The rvas that the first k records of the stack s have set to 1.          *)
Trues(in, s, k) == {in.order[s[j].depth + 1] : j \in {i \in 1 .. k : s[i].at = "high"}}

(* What the call of record k returns, once the one it waits for returns r.  *)
Resumed(in, s, k, r) ==
  LET d == s[k].depth + 1
      rva == in.order[d]
      h == AtOnce!Built(in)[AtOnce!NextVar(in.order, d)][Trues(in, s, k - 1) \cup {rva}][r.tree]
  IN  IF s[k].at = "high" THEN AtOnce!Mk(r.tree, rva, s[k].l, r.node)
      ELSE AtOnce!Mk(h.tree, rva, r.node, h.node)

(* f lists what the open calls are going to return, the outermost first.    *)
Returns(in, s, f) ==
  /\ f[1] = AtOnce!Built(in)[1][{}][AtOnce!Leaves]
  /\ \A k \in 1 .. Len(s) : f[k] = Resumed(in, s, k, f[k + 1])

(* If the innermost call returns r, the outermost one will return what the  *)
(* function does.                                                           *)
OnTrack(in, s, r) == \E f : Returns(in, s, f) /\ f[Len(s) + 1] = r

Extends(u, s) == Len(s) \in Nat /\ Len(u) = Len(s) + 1 /\ \A k \in 1 .. Len(s) : u[k] = s[k]

LEMMA TruesLocal ==
  ASSUME NEW in, NEW s, NEW u, NEW k, \A j \in 1 .. k : u[j] = s[j]
  PROVE  Trues(in, u, k) = Trues(in, s, k)
  BY DEF Trues

LEMMA ResumedLocal ==
  ASSUME NEW in, NEW s, NEW u, NEW k, k \in Nat, k >= 1, \A j \in 1 .. k : u[j] = s[j], NEW r
  PROVE  Resumed(in, u, k, r) = Resumed(in, s, k, r)
<1>1. u[k] = s[k] /\ \A j \in 1 .. k - 1 : u[j] = s[j]
  OBVIOUS
<1>2. Trues(in, u, k - 1) = Trues(in, s, k - 1)
  BY <1>1, TruesLocal
<1>3. QED
  BY <1>1, <1>2 DEF Resumed

LEMMA OpenCalls ==
  ASSUME NEW in, NEW u, NEW s, Extends(u, s), NEW f
  PROVE  Returns(in, u, f) <=> Returns(in, s, f) /\ f[Len(u)] = Resumed(in, u, Len(u), f[Len(u) + 1])
<1>1. Len(s) \in Nat /\ Len(u) = Len(s) + 1 /\ \A k \in 1 .. Len(s) : u[k] = s[k]
  BY DEF Extends
<1>2. \A k \in 1 .. Len(s) : \A r : Resumed(in, u, k, r) = Resumed(in, s, k, r)
  <2> TAKE k \in 1 .. Len(s)
  <2> TAKE r
  <2>1. k \in Nat /\ k >= 1 /\ \A j \in 1 .. k : u[j] = s[j]
    BY <1>1
  <2>2. QED
    BY <2>1, ResumedLocal
<1>3. 1 .. Len(u) = (1 .. Len(s)) \cup {Len(u)}
  BY <1>1
<1>4. QED
  BY <1>2, <1>3 DEF Returns

(* A call is made.                                                          *)
LEMMA Called ==
  ASSUME NEW in, NEW u, NEW s, Extends(u, s), NEW r, OnTrack(in, s, Resumed(in, u, Len(u), r))
  PROVE  OnTrack(in, u, r)
<1>1. PICK f : Returns(in, s, f) /\ f[Len(s) + 1] = Resumed(in, u, Len(u), r)
  BY DEF OnTrack
<1>2. Len(s) \in Nat /\ Len(u) = Len(s) + 1
  BY DEF Extends
<1> DEFINE g == [k \in 1 .. Len(u) + 1 |-> IF k = Len(u) + 1 THEN r ELSE f[k]]
<1>3. /\ g[Len(u) + 1] = r /\ g[Len(u)] = f[Len(u)] /\ g[1] = f[1]
      /\ \A k \in 1 .. Len(s) : g[k] = f[k] /\ g[k + 1] = f[k + 1]
  BY <1>2
<1> HIDE DEF g
<1>4. Returns(in, s, g)
  BY <1>1, <1>3 DEF Returns
<1>5. Returns(in, u, g)
  BY <1>1, <1>2, <1>3, <1>4, OpenCalls
<1>6. QED
  BY <1>3, <1>5 DEF OnTrack

(* A call returns.                                                          *)
LEMMA Ended ==
  ASSUME NEW in, NEW u, NEW s, Extends(u, s), NEW r, OnTrack(in, u, r)
  PROVE  OnTrack(in, s, Resumed(in, u, Len(u), r))
<1>1. PICK f : Returns(in, u, f) /\ f[Len(u) + 1] = r
  BY DEF OnTrack
<1>2. Returns(in, s, f) /\ f[Len(u)] = Resumed(in, u, Len(u), r)
  BY <1>1, OpenCalls
<1>3. Len(u) = Len(s) + 1
  BY DEF Extends
<1>4. QED
  BY <1>2, <1>3 DEF OnTrack

-----------------------------------------------------------------------------
(* The names BddValue shares with BddBuild, and its bdd_mk.                 *)
LEMMA SameNames ==
  /\ AtOnce!Rva = Rva /\ AtOnce!BddNode = BddNode /\ AtOnce!Leaves = <<LeafRec(0), LeafRec(1)>>
  /\ \A t, i : AtOnce!Result(t, i).tree = t /\ AtOnce!Result(t, i).node = i
  BY DEF AtOnce!Rva, Rva, AtOnce!VarName, VarName, AtOnce!BddNode, BddNode, AtOnce!LeafRec, LeafRec, AtOnce!NodeRec, NodeRec,
         AtOnce!RvaLeaf, RvaLeaf, AtOnce!NoNode, NoNode, AtOnce!Leaves, AtOnce!Result

LEMMA SameMk ==
  ASSUME NEW rva, NEW low, NEW high, Mk(rva, low, high), ret' # NoNode
  PROVE  AtOnce!Mk(tree, rva, low, high) = AtOnce!Result(tree', ret')
<1>1. AtOnce!Mk(tree, rva, low, high) =
        IF low = high THEN AtOnce!Result(tree, high)
        ELSE IF Matches(rva, low, high) # {}
             THEN AtOnce!Result(tree, CHOOSE i \in Matches(rva, low, high) : \A j \in Matches(rva, low, high) : i <= j)
        ELSE AtOnce!Result(Append(tree, NodeRec(rva, low, high)), Len(tree))
  BY DEF AtOnce!Mk, Matches, AtOnce!Indices, Indices, AtOnce!NodeAt, NodeAt, AtOnce!NodeRec, NodeRec
<1>2. QED
  BY <1>1 DEF Mk, Create

(* Both skip the other values of a variable, counting from one and zero.    *)
LEMMA SameSkip ==
  ASSUME IsRvaOrder(order), NEW d, d \in 0 .. n - 1
  PROVE  AtOnce!NextVar(order, d + 1) = NextVarDepth(d) + 1
<1>1. PICK e, c : e = AtOnce!NextVar(order, d + 1) /\ c = NextVarDepth(d) + 1
  OBVIOUS
<1>2. n \in Nat /\ Len(order) = n /\ d + 1 \in 1 .. Len(order)
  BY DEF n, IsRvaOrder
<1>3. PICK p : p = d + 1 /\ p \in 1 .. Len(order)
  BY <1>2
<1>4. /\ e \in d + 2 .. n + 1
      /\ \A k \in d + 2 .. e - 1 : order[k].var = order[d + 1].var
      /\ e <= n => order[e].var # order[d + 1].var
  <2>1. /\ AtOnce!NextVar(order, p) \in p + 1 .. Len(order) + 1
        /\ \A k \in p + 1 .. AtOnce!NextVar(order, p) - 1 : AtOnce!IsSameVar(order[k], order[p])
        /\ AtOnce!NextVar(order, p) <= Len(order) => ~AtOnce!IsSameVar(order[AtOnce!NextVar(order, p)], order[p])
    BY <1>2, <1>3, NextVarFacts
  <2>2. QED
    BY <1>1, <1>2, <1>3, <2>1 DEF AtOnce!IsSameVar
<1>5. /\ c \in d + 2 .. n + 1
      /\ \A k \in d + 2 .. c - 1 : order[k].var = order[d + 1].var
      /\ c <= n => order[c].var # order[d + 1].var
  <2>1. /\ c - 1 \in d + 1 .. n /\ c \in Int
        /\ \A k \in d + 1 .. c - 2 : IsSameVar(OrderRva(k), OrderRva(d))
        /\ c - 1 < n => ~IsSameVar(OrderRva(c - 1), OrderRva(d))
    BY <1>1, <1>2, NextVarDepthFacts
  <2>2. \A k \in d + 2 .. c - 1 : order[k].var = order[d + 1].var
    <3> TAKE k \in d + 2 .. c - 1
    <3>1. PICK j \in d + 1 .. c - 2 : j = k - 1 /\ j + 1 = k
      BY <1>2, <2>1
    <3>2. QED
      BY <2>1, <3>1 DEF IsSameVar, OrderRva
  <2>3. c - 1 + 1 = c
    BY <1>2, <2>1
  <2>4. QED
    BY <1>2, <2>1, <2>2, <2>3 DEF IsSameVar, OrderRva
<1>6. ~(e < c) /\ ~(c < e)
  BY <1>2, <1>4, <1>5
<1>7. QED
  BY <1>1, <1>2, <1>4, <1>5, <1>6

LEMMA BuiltHere ==
  ASSUME IsRvaOrder(order), NEW d, d \in 1 .. n + 1, NEW w, w \in SUBSET Rva, NEW t, t \in Seq(BddNode)
  PROVE  AtOnce!Built(input)[d][w][t] = BuildCall(input, AtOnce!Built(input), d, w, t)
<1>1. input.order \in Seq(AtOnce!Rva) /\ d \in 1 .. Len(input.order) + 1
  BY SameNames DEF IsRvaOrder, order, n
<1>2. w \in SUBSET AtOnce!Rva /\ t \in Seq(AtOnce!BddNode)
  BY SameNames
<1>3. QED
  BY <1>1, <1>2, BuiltAt

(* Every open call is on track to return what the function says.            *)
AgreeInv ==
  /\ pc = "build" => OnTrack(input, stack, AtOnce!Built(input)[depth + 1][Trues(input, stack, Len(stack))][tree])
  /\ pc = "return" /\ ret # NoNode => OnTrack(input, stack, AtOnce!Result(tree, ret))
  /\ pc = "done" /\ ret # NoNode => bdd = AtOnce!CreateBdd(input)

LEMMA TruesRvas ==
  ASSUME ShapeInv
  PROVE  Trues(input, stack, Len(stack)) \in SUBSET Rva
<1>1. IsRvaOrder(order) /\ n \in Nat
  BY DEF ShapeInv, TypeOK, IsRvaOrder, n
<1>2. \A j \in 1 .. Len(stack) : input.order[stack[j].depth + 1] \in Rva
  <2> TAKE j \in 1 .. Len(stack)
  <2>1. PICK d : d = stack[j].depth /\ d \in 0 .. n - 1
    BY RecordFacts
  <2>2. OrderRva(d) \in Rva
    BY <1>1, <2>1, OrderFacts
  <2>3. QED
    BY <2>1, <2>2 DEF OrderRva, order
<1>3. QED
  BY <1>2 DEF Trues

LEMMA AgreeStart == ShapeInv /\ AgreeInv /\ StartBuild => AgreeInv'
<1> SUFFICES ASSUME ShapeInv, StartBuild PROVE AgreeInv'
  OBVIOUS
<1>1. /\ input' = input /\ stack' = <<>> /\ depth' = 0 /\ pc' = "build" /\ tree' = AtOnce!Leaves
  BY SameNames DEF StartBuild, ShapeInv, PhaseInv
<1>2. Len(stack') = 0 /\ Trues(input, stack', 0) = {}
  BY <1>1 DEF Trues
<1>3. PICK r : r = AtOnce!Built(input)[1][{}][AtOnce!Leaves]
  OBVIOUS
<1> DEFINE f == [k \in {1} |-> r]
<1>4. Returns(input, stack', f) /\ f[Len(stack') + 1] = r
  BY <1>2, <1>3 DEF Returns
<1>5. OnTrack(input, stack', r)
  <2> HIDE DEF f
  <2>1. QED
    BY <1>4 DEF OnTrack
<1>6. 0 + 1 = 1
  OBVIOUS
<1>7. QED
  BY <1>1, <1>2, <1>3, <1>5, <1>6 DEF AgreeInv

LEMMA AgreeEvaluate == ShapeInv /\ FramesInv /\ AgreeInv /\ Evaluate => AgreeInv'
<1> SUFFICES ASSUME ShapeInv, FramesInv, AgreeInv, Evaluate PROVE AgreeInv'
  OBVIOUS
<1>1. /\ UNCHANGED <<input, tree, stack>> /\ pc = "build" /\ depth = n /\ pc' = "return"
      /\ ret' = IF TrueRvas(frame[depth]) \in input.sat THEN 1 ELSE 0
  BY DEF Evaluate
<1>2. IsRvaOrder(order) /\ n \in Nat /\ tree \in Seq(BddNode) /\ depth = CallDepth /\ Len(stack) \in Nat
  BY <1>1 DEF ShapeInv, TypeOK, PhaseInv, IsRvaOrder, n
<1>3. PICK w \in SUBSET Rva : w = Trues(input, stack, Len(stack))
  BY TruesRvas
<1>4. frame[n] = PathOf(stack, n, Len(stack), n)
  BY <1>1, <1>2 DEF FramesInv
<1>5. TrueRvas(frame[n]) = w
  <2>1. \A p \in 1 .. n : frame[n][p] = 1 <=> Decided(stack, Len(stack), p)
    BY <1>2, <1>4 DEF PathOf
  <2>2. TrueRvas(frame[n]) = {order[p] : p \in {q \in 1 .. n : Decided(stack, Len(stack), q)}}
    BY <2>1 DEF TrueRvas
  <2>3. \A j \in 1 .. Len(stack) : stack[j].depth + 1 \in 1 .. n
    BY <1>2, RecordFacts
  <2>4. QED
    BY <1>3, <2>2, <2>3 DEF Trues, Decided, order
<1>6. AtOnce!Built(input)[n + 1][w][tree] = AtOnce!Result(tree, ret')
  <2>1. n + 1 \in 1 .. n + 1 /\ n + 1 > Len(input.order)
    BY <1>2 DEF n, order
  <2>2. AtOnce!Built(input)[n + 1][w][tree] = BuildCall(input, AtOnce!Built(input), n + 1, w, tree)
    BY <1>2, <1>3, <2>1, BuiltHere
  <2>3. QED
    BY <1>1, <1>5, <2>1, <2>2 DEF BuildCall
<1>7. OnTrack(input, stack, AtOnce!Result(tree, ret'))
  BY <1>1, <1>3, <1>6 DEF AgreeInv
<1>8. QED
  BY <1>1, <1>7 DEF AgreeInv

LEMMA AgreeDescend == ShapeInv /\ AgreeInv /\ Descend => AgreeInv'
<1> SUFFICES ASSUME ShapeInv, AgreeInv, Descend PROVE AgreeInv'
  OBVIOUS
<1> DEFINE rec == [depth |-> depth, at |-> "low", l |-> NoNode]
           L == Len(stack)
<1>1. /\ UNCHANGED <<input, tree, pc>> /\ pc = "build" /\ depth < n /\ depth' = depth + 1
      /\ stack' = Append(stack, rec)
  BY DEF Descend
<1>2. /\ IsRvaOrder(order) /\ n \in Nat /\ depth \in 0 .. n - 1 /\ tree \in Seq(BddNode)
      /\ stack \in Seq(Record) /\ L \in Nat
  BY <1>1 DEF ShapeInv, TypeOK, IsRvaOrder, n
<1>3. Extends(stack', stack) /\ Len(stack') = L + 1 /\ stack'[L + 1] = rec
  BY <1>1, <1>2 DEF Extends
<1>4. rec.depth = depth /\ rec.at = "low"
  OBVIOUS
<1>5. PICK w \in SUBSET Rva : w = Trues(input, stack, L)
  BY TruesRvas
<1> HIDE DEF rec, L
<1>6. Trues(input, stack', L) = w
  BY <1>3, <1>5, TruesLocal DEF L, Extends
<1>7. Trues(input, stack', L + 1) = w
  <2>1. {i \in 1 .. L + 1 : stack'[i].at = "high"} = {i \in 1 .. L : stack'[i].at = "high"}
    BY <1>2, <1>3, <1>4
  <2>2. QED
    BY <1>6, <2>1 DEF Trues
<1>8. PICK d : d = depth + 1 /\ d \in 1 .. n + 1 /\ ~(d > n)
  BY <1>2
<1>9. PICK r : r = AtOnce!Built(input)[d + 1][w][tree]
  OBVIOUS
<1>10. AtOnce!Built(input)[d][w][tree] = Resumed(input, stack', L + 1, r)
  <2>1. AtOnce!Built(input)[d][w][tree] = BuildCall(input, AtOnce!Built(input), d, w, tree)
    BY <1>2, <1>8, BuiltHere
  <2>2. ~(d > Len(input.order))
    BY <1>8 DEF n, order
  <2>3. PICK u, k : /\ u = stack' /\ k = L + 1 /\ k - 1 = L
                    /\ u[k].depth + 1 = d /\ u[k].at # "high"
    BY <1>2, <1>3, <1>4, <1>8
  <2>4. Trues(input, u, k - 1) = w
    BY <1>6, <2>3
  <2>5. Resumed(input, u, k, r) = AtOnce!Built(input)[d][w][tree]
    BY <1>9, <2>1, <2>2, <2>3, <2>4, Zenon DEF BuildCall, Resumed
  <2>6. QED
    BY <2>3, <2>5
<1>11. OnTrack(input, stack, Resumed(input, stack', Len(stack'), r))
  BY <1>1, <1>3, <1>5, <1>8, <1>10 DEF AgreeInv, L
<1>12. OnTrack(input, stack', r)
  BY <1>3, <1>11, Called
<1>13. QED
  BY <1>1, <1>3, <1>7, <1>8, <1>9, <1>12 DEF AgreeInv

LEMMA AgreeLowReturned == ShapeInv /\ AgreeInv /\ LowReturned => AgreeInv'
<1> SUFFICES ASSUME ShapeInv, AgreeInv, LowReturned PROVE AgreeInv'
  OBVIOUS
<1> DEFINE rec == [Top EXCEPT !.at = "high", !.l = ret]
           L == Len(stack)
<1>1. /\ UNCHANGED <<input, tree, ret>> /\ pc = "return" /\ pc' = "build" /\ stack # <<>> /\ ret # NoNode
      /\ Top.at = "low" /\ stack' = Append(Pop, rec) /\ depth' = NextVarDepth(Top.depth)
  BY DEF LowReturned, Returning
<1>2. /\ L \in Nat /\ L >= 1 /\ Top = stack[L] /\ Top \in Record /\ n \in Nat
      /\ Pop \in Seq(Record) /\ Len(Pop) = L - 1 /\ Top.depth \in 0 .. n - 1
      /\ \A k \in 1 .. L - 1 : Pop[k] = stack[k]
  BY <1>1, ReturnFacts
<1>3. IsRvaOrder(order) /\ tree \in Seq(BddNode)
  BY DEF ShapeInv, TypeOK
<1>4. rec.depth = Top.depth /\ rec.at = "high" /\ rec.l = ret
  BY <1>2 DEF Record
<1> HIDE DEF rec
<1>5. /\ Len(stack') = L /\ stack'[L] = rec
      /\ \A k \in 1 .. L - 1 : stack'[k] = stack[k]
  BY <1>1, <1>2
<1>6. Extends(stack, Pop) /\ Extends(stack', Pop)
  BY <1>2, <1>5 DEF Extends
<1> HIDE DEF L
<1>7. OnTrack(input, Pop, Resumed(input, stack, L, AtOnce!Result(tree, ret)))
  BY <1>1, <1>6, Ended DEF AgreeInv, L
<1>8. PICK d, rva, w, e : /\ d = Top.depth + 1 /\ rva = input.order[d] /\ w = Trues(input, stack, L - 1)
                          /\ e = AtOnce!NextVar(input.order, d)
  OBVIOUS
<1>9. Trues(input, stack', L - 1) = w
  BY <1>5, <1>8, TruesLocal
<1>10. Trues(input, stack', L) = w \cup {rva}
  <2>1. {i \in 1 .. L : stack'[i].at = "high"} = {i \in 1 .. L - 1 : stack'[i].at = "high"} \cup {L}
    BY <1>2, <1>4, <1>5
  <2>2. Trues(input, stack', L) = Trues(input, stack', L - 1) \cup {input.order[stack'[L].depth + 1]}
    BY <2>1 DEF Trues
  <2>3. QED
    BY <1>4, <1>5, <1>8, <1>9, <2>2
<1>11. PICK r : r = AtOnce!Built(input)[e][w \cup {rva}][tree]
  OBVIOUS
<1>12. Resumed(input, stack, L, AtOnce!Result(tree, ret)) = Resumed(input, stack', L, r)
  <2>1. Resumed(input, stack, L, AtOnce!Result(tree, ret)) = AtOnce!Mk(r.tree, rva, ret, r.node)
    BY <1>1, <1>2, <1>8, <1>11, SameNames DEF Resumed
  <2>2. Resumed(input, stack', L, r) = AtOnce!Mk(r.tree, rva, ret, r.node)
    BY <1>4, <1>5, <1>8 DEF Resumed
  <2>3. QED
    BY <2>1, <2>2
<1>13. OnTrack(input, stack', r)
  BY <1>5, <1>6, <1>7, <1>12, Called
<1>14. e = depth' + 1
  BY <1>1, <1>2, <1>3, <1>8, SameSkip DEF order
<1>15. QED
  BY <1>1, <1>5, <1>10, <1>11, <1>13, <1>14 DEF AgreeInv

LEMMA AgreeHighReturned == ShapeInv /\ AgreeInv /\ HighReturned => AgreeInv'
<1> SUFFICES ASSUME ShapeInv, AgreeInv, HighReturned PROVE AgreeInv'
  OBVIOUS
<1>1. /\ UNCHANGED <<input, pc>> /\ pc = "return" /\ stack # <<>> /\ stack' = Pop /\ ret # NoNode
      /\ Top.at = "high" /\ Mk(OrderRva(Top.depth), Top.l, ret)
  BY DEF HighReturned, Returning
<1>2. PICK L : /\ L = Len(stack) /\ L \in Nat /\ L >= 1 /\ Top = stack[L] /\ Len(Pop) = L - 1
               /\ \A k \in 1 .. L - 1 : Pop[k] = stack[k]
  BY <1>1, ReturnFacts
<1>3. Extends(stack, Pop)
  BY <1>2 DEF Extends
<1>4. OnTrack(input, Pop, Resumed(input, stack, L, AtOnce!Result(tree, ret)))
  BY <1>1, <1>2, <1>3, Ended DEF AgreeInv
<1>5. SUFFICES ASSUME ret' # NoNode
               PROVE  OnTrack(input, Pop, AtOnce!Result(tree', ret'))
  BY <1>1 DEF AgreeInv
<1>6. Resumed(input, stack, L, AtOnce!Result(tree, ret)) = AtOnce!Mk(tree, OrderRva(Top.depth), Top.l, ret)
  BY <1>1, <1>2, SameNames DEF Resumed, OrderRva, order
<1>7. AtOnce!Mk(tree, OrderRva(Top.depth), Top.l, ret) = AtOnce!Result(tree', ret')
  BY <1>1, <1>5, SameMk
<1>8. QED
  BY <1>4, <1>6, <1>7

LEMMA AgreeFinish == ShapeInv /\ AgreeInv /\ Finish => AgreeInv'
<1> SUFFICES ASSUME ShapeInv, AgreeInv, Finish PROVE AgreeInv'
  OBVIOUS
<1>1. /\ UNCHANGED <<input, ret>> /\ pc = "return" /\ pc' = "done" /\ stack = <<>>
      /\ tree' = (IF ret # NoNode /\ Len(tree) = 2 THEN <<LeafRec(ret)>> ELSE tree)
      /\ bdd' = IF ret = NoNode THEN NoBdd ELSE tree'
  BY DEF Finish
<1>2. SUFFICES ASSUME ret # NoNode PROVE bdd' = AtOnce!CreateBdd(input)
  BY <1>1 DEF AgreeInv
<1>3. PICK f : Returns(input, stack, f) /\ f[Len(stack) + 1] = AtOnce!Result(tree, ret)
  BY <1>1, <1>2 DEF AgreeInv, OnTrack
<1>4. AtOnce!Built(input)[1][{}][AtOnce!Leaves] = AtOnce!Result(tree, ret)
  BY <1>1, <1>3 DEF Returns
<1>5. Len(tree) = 2 => ret \in {0, 1}
  BY <1>1, <1>2 DEF ShapeInv, TypeOK, Indices
<1>6. \A b : AtOnce!LeafRec(b) = LeafRec(b)
  BY DEF AtOnce!LeafRec, LeafRec, AtOnce!NodeRec, NodeRec, AtOnce!RvaLeaf, RvaLeaf, AtOnce!NoNode
<1>7. AtOnce!CreateBdd(input) = IF Len(tree) = 2 THEN <<LeafRec(IF ret = 0 THEN 0 ELSE 1)>> ELSE tree
  BY <1>4, <1>6, SameNames DEF AtOnce!CreateBdd, AtOnce!Stored
<1>8. QED
  BY <1>1, <1>2, <1>5, <1>7

LEMMA AgreeStep == ShapeInv /\ FramesInv /\ AgreeInv /\ [Next]_vars => AgreeInv'
<1>1. AgreeInv /\ Propagate => AgreeInv'
  BY DEF Propagate, AgreeInv
<1>2. AgreeInv /\ UNCHANGED vars => AgreeInv'
  BY DEF vars, AgreeInv
<1>3. QED
  BY <1>1, <1>2, AgreeStart, AgreeEvaluate, AgreeDescend, AgreeLowReturned, AgreeHighReturned, AgreeFinish
  DEF Next

(* The calls of bdd_build, made one by one on a shared vector and shared    *)
(* frames, store what BddValue computes as a function, node for node: so    *)
(* the theorems about stored diagrams hold of what create_bdd stores.       *)
THEOREM BuildIsFunction == Spec => []AgreesWithCreateBdd
<1>1. Init => AgreeInv
  BY DEF Init, AgreeInv
<1>2. ShapeInv /\ AgreeInv => AgreesWithCreateBdd
  BY DEF ShapeInv, PhaseInv, AgreeInv, AgreesWithCreateBdd
<1>3. QED
  BY <1>1, <1>2, AgreeStep, ShapeAlways, FramesAlways, PTL DEF Spec
===============================================================================
