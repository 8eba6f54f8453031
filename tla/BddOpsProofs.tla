------------------------------ MODULE BddOpsProofs -----------------------------
(***************************************************************************)
(* What the functions of bdd.c make of stored diagrams (BddOps), for all   *)
(* literals, restrictions and sizes of BEE's stack.                        *)
(*                                                                         *)
(* A recursion threads the growing node vector through its calls.  What    *)
(* keeps is Growing, that the vector is a diagram which starts with the    *)
(* two leaves; what a call returns is Grows: the nodes there were are      *)
(* kept, and whatever it added hangs from the node it returns.  So what    *)
(* is stored is Whole.  The sections are:                                  *)
(*   - facts about any diagram, taken from BddBuildProofs;                 *)
(*   - vectors that grow, and bdd_mk;                                      *)
(*   - create_bdd, _bdd_not and restrict;                                  *)
(*   - the invariant of the statements and the questions about a diagram;  *)
(*   - the text of a diagram, which BEE reads as the diagram's value;      *)
(*   - the statements as operations on sets of worlds;                     *)
(*   - the numbering of the nodes, and equality.                           *)
(***************************************************************************)
EXTENDS BddOps, NatLemmas, FiniteSetTheorems, SequenceTheorems

(***************************************************************************)
(* Facts about any diagram, as BddBuildProofs proves them.                 *)
(***************************************************************************)
B == INSTANCE BddBuildProofs WITH
       Inputs <- {}, NodeiMax <- 2, Unwritten <- 2, input <- 0, tree <- 0, frame <- 0,
       stack <- 0, depth <- 0, ret <- 0, pc <- 0, bdd <- 0

(* The value of node i, given the values v of the nodes before it. *)
NodeStep(t, w, v, i) ==
  LET node == NodeAt(t, i)
  IN  IF IsLeaf(node) THEN LeafBoolValue(node)
      ELSE IF node.rva \in w THEN v[node.high] ELSE v[node.low]

(* Node i tests nothing up to x; it tests no value of x's variable.         *)
TestsAfter(t, x, i) == i \in Inner(t) => RvaBefore(x, NodeAt(t, i).rva)
VarAfter(t, x, i) == i \in Inner(t) => x.var < NodeAt(t, i).rva.var

(* Two worlds that may differ in x only.                                    *)
SameBut(x, w, u) == \A y : y # x => (y \in w <=> y \in u)

(* A reduced and ordered vector with tests of R.                            *)
Diagram(t, R) ==
  /\ t \in Seq(BddNode) /\ ChildrenEarlier(t) /\ IsReduced(t) /\ IsOrdered(t)
  /\ \A i \in Inner(t) : NodeAt(t, i).rva \in R

LEMMA SameShapes ==
  ASSUME NEW t
  PROVE  /\ B!ChildrenEarlier(t) = ChildrenEarlier(t)
         /\ B!IsReduced(t) = IsReduced(t)
         /\ B!IsOrdered(t) = IsOrdered(t)
         /\ B!Inner(t) = Inner(t)
         /\ B!Indices(t) = Indices(t)
         /\ \A i : B!NodeAt(t, i) = NodeAt(t, i)
  BY DEF B!ChildrenEarlier, B!IsReduced, B!IsOrdered, B!Inner, B!Indices, B!IsLeaf, B!NodeAt, B!RvaBefore,
     ChildrenEarlier, IsReduced, IsOrdered, Inner, Indices, IsLeaf, NodeAt, RvaBefore, B!NoNode, NoNode

LEMMA SameNodes ==
  /\ B!BddNode = BddNode /\ B!Rva = Rva
  /\ \A b : B!LeafRec(b) = LeafRec(b)
  /\ \A x, l, h : B!NodeRec(x, l, h) = NodeRec(x, l, h)
  BY DEF B!BddNode, BddNode, B!Rva, Rva, B!VarName, VarName, B!LeafRec, LeafRec, B!NodeRec, NodeRec,
     B!RvaLeaf, RvaLeaf, B!NoNode, NoNode

LEMMA SameValues ==
  ASSUME NEW t, NEW w
  PROVE  B!NodeValues(t, w) = NodeValues(t, w)
  BY DEF B!NodeValues, NodeValues, B!Indices, B!IsLeaf, B!NodeAt, B!LeafBoolValue,
     Indices, IsLeaf, NodeAt, LeafBoolValue, B!NoNode, NoNode

LEMMA SameDiagram ==
  ASSUME NEW t, NEW R
  PROVE  B!DiagramOver(t, R) = Diagram(t, R)
  BY SameShapes, SameNodes DEF B!DiagramOver, Diagram

LEMMA SameTests ==
  ASSUME NEW t
  PROVE  /\ \A x, i : B!TestsAfter(t, x, i) = TestsAfter(t, x, i)
         /\ \A x, w, u : B!SameBut(x, w, u) = SameBut(x, w, u)
  BY SameShapes DEF B!TestsAfter, TestsAfter, B!SameBut, SameBut, B!RvaBefore, RvaBefore

(* The values of the nodes satisfy their recursion. *)
LEMMA NodeValuesDef ==
  ASSUME NEW t, Len(t) \in Nat, ChildrenEarlier(t), NEW w
  PROVE  NodeValues(t, w) = [i \in Indices(t) |-> NodeStep(t, w, NodeValues(t, w), i)]
<1>1. B!ChildrenEarlier(t)
  BY SameShapes
<1>2. B!NodeValues(t, w) = [i \in B!Indices(t) |-> B!NodeStep(t, w, B!NodeValues(t, w), i)]
  BY <1>1, B!NodeValuesDef
<1>3. \A v, i : B!NodeStep(t, w, v, i) = NodeStep(t, w, v, i)
  BY DEF B!NodeStep, NodeStep, B!IsLeaf, IsLeaf, B!NodeAt, NodeAt, B!LeafBoolValue, LeafBoolValue, B!NoNode, NoNode
<1>4. QED
  BY <1>2, <1>3, SameShapes, SameValues

(* Nodes appended to the vector change no other node's value. *)
LEMMA NodeValuesAppend ==
  ASSUME NEW t, Len(t) \in Nat, ChildrenEarlier(t), NEW u, Len(u) \in Nat, ChildrenEarlier(u),
         Len(t) <= Len(u), \A i \in Indices(t) : NodeAt(u, i) = NodeAt(t, i),
         NEW w, NEW i \in Indices(t)
  PROVE  NodeValues(u, w)[i] = NodeValues(t, w)[i]
<1>1. B!ChildrenEarlier(t) /\ B!ChildrenEarlier(u) /\ i \in B!Indices(t)
  BY SameShapes
<1>2. \A j \in B!Indices(t) : B!NodeAt(u, j) = B!NodeAt(t, j)
  BY SameShapes
<1>3. B!NodeValues(u, w)[i] = B!NodeValues(t, w)[i]
  BY <1>1, <1>2, B!NodeValuesAppend
<1>4. QED
  BY <1>3, SameValues

(* The inner nodes of a diagram and their values.                           *)
LEMMA InnerFacts ==
  ASSUME NEW t, NEW R, Diagram(t, R), NEW i \in Inner(t)
  PROVE  LET node == NodeAt(t, i) IN
         /\ Len(t) \in Nat /\ i \in Nat /\ i < Len(t) /\ i \in Indices(t)
         /\ node = NodeRec(node.rva, node.low, node.high) /\ node.rva \in Rva /\ node.rva \in R
         /\ node.low \in Indices(t) /\ node.high \in Indices(t) /\ node.low < i /\ node.high < i
         /\ node.low # node.high
         /\ \A w : NodeValues(t, w)[i] = IF node.rva \in w THEN NodeValues(t, w)[node.high]
                                         ELSE NodeValues(t, w)[node.low]
<1>1. B!DiagramOver(t, R) /\ i \in B!Inner(t)
  BY SameDiagram, SameShapes
<1>2. LET node == B!NodeAt(t, i) IN
         /\ Len(t) \in Nat /\ i \in Nat /\ i < Len(t) /\ i \in B!Indices(t)
         /\ node = B!NodeRec(node.rva, node.low, node.high) /\ node.rva \in B!Rva /\ node.rva \in R
         /\ node.low \in B!Indices(t) /\ node.high \in B!Indices(t) /\ node.low < i /\ node.high < i
         /\ node.low # node.high
         /\ \A w : B!NodeValues(t, w)[i] = IF node.rva \in w THEN B!NodeValues(t, w)[node.high]
                                           ELSE B!NodeValues(t, w)[node.low]
  BY <1>1, B!InnerFacts
<1>3. QED
  BY <1>2, SameShapes, SameNodes, SameValues

(* A leaf's value is its name.                                              *)
LEMMA LeafFacts ==
  ASSUME NEW t, NEW R, Diagram(t, R), NEW i \in Indices(t), i \notin Inner(t)
  PROVE  \E b \in {0, 1} : NodeAt(t, i) = LeafRec(b) /\ \A w : NodeValues(t, w)[i] = b
<1>1. B!DiagramOver(t, R) /\ i \in B!Indices(t) /\ i \notin B!Inner(t)
  BY SameDiagram, SameShapes
<1>2. \E b \in {0, 1} : B!NodeAt(t, i) = B!LeafRec(b) /\ \A w : B!NodeValues(t, w)[i] = b
  BY <1>1, B!LeafFacts
<1>3. QED
  BY <1>2, SameShapes, SameNodes, SameValues

(* The children of a node that tests nothing up to x do not either, nor do  *)
(* the children of a node that tests x.                                     *)
LEMMA ChildrenTestAfter ==
  ASSUME NEW t, NEW R, Diagram(t, R), NEW i \in Inner(t), NEW x \in Rva,
         RvaBefore(x, NodeAt(t, i).rva) \/ x = NodeAt(t, i).rva
  PROVE  TestsAfter(t, x, NodeAt(t, i).low) /\ TestsAfter(t, x, NodeAt(t, i).high)
<1>1. B!DiagramOver(t, R) /\ i \in B!Inner(t) /\ x \in B!Rva
  BY SameDiagram, SameShapes, SameNodes
<1>2. B!RvaBefore(x, B!NodeAt(t, i).rva) \/ x = B!NodeAt(t, i).rva
  BY SameShapes DEF B!RvaBefore, RvaBefore
<1>3. B!TestsAfter(t, x, B!NodeAt(t, i).low) /\ B!TestsAfter(t, x, B!NodeAt(t, i).high)
  BY <1>1, <1>2, B!ChildrenTestAfter
<1>4. QED
  BY <1>3, SameShapes, SameTests

(* A node that tests nothing up to x has the same value whether x holds or  *)
(* not.                                                                     *)
LEMMA ValueIgnores ==
  ASSUME NEW t, NEW R, Diagram(t, R), NEW x \in Rva, NEW w, NEW u, SameBut(x, w, u),
         NEW i \in Indices(t), TestsAfter(t, x, i)
  PROVE  NodeValues(t, w)[i] = NodeValues(t, u)[i]
<1>1. B!DiagramOver(t, R) /\ i \in B!Indices(t) /\ x \in B!Rva /\ B!SameBut(x, w, u) /\ B!TestsAfter(t, x, i)
  BY SameDiagram, SameShapes, SameNodes, SameTests
<1>2. B!NodeValues(t, w)[i] = B!NodeValues(t, u)[i]
  BY <1>1, B!ValueIgnores
<1>3. QED
  BY <1>2, SameValues

(* Two nodes that mean the same are one. *)
LEMMA FunctionsDistinct ==
  ASSUME NEW t, NEW R, Diagram(t, R), NEW i \in Indices(t), NEW j \in Indices(t),
         \A w \in SUBSET R : NodeValues(t, w)[i] = NodeValues(t, w)[j]
  PROVE  i = j
<1>1. B!DiagramOver(t, R) /\ i \in B!Indices(t) /\ j \in B!Indices(t)
  BY SameDiagram, SameShapes
<1>2. B!SameFunction(t, R, i, j)
  BY SameValues DEF B!SameFunction
<1>3. QED
  BY <1>1, <1>2, B!FunctionsDistinct

-----------------------------------------------------------------------------
(***************************************************************************)
(* Growing vectors.                                                        *)
(***************************************************************************)

(* A vector under construction begins with both leaves. *)
Growing(t, R) == Diagram(t, R) /\ Len(t) >= 2 /\ t[1] = LeafRec(0) /\ t[2] = LeafRec(1)

(* u begins with t. *)
Kept(t, u) == Len(t) <= Len(u) /\ \A i \in Indices(t) : NodeAt(u, i) = NodeAt(t, i)

(* Of the nodes of u behind t only x may be unused. *)
UsedBut(t, u, x) ==
  \A i \in Len(t) .. Len(u) - 1 : i = x \/ \E j \in Inner(u) : Points(u, j, i)

(* r is what a construction on the vector t returns. *)
Grows(t, R, r) ==
  /\ Growing(r.tree, R) /\ r.node \in Indices(r.tree)
  /\ Kept(t, r.tree) /\ UsedBut(t, r.tree, r.node)

LEMMA GrowingFacts ==
  ASSUME NEW t, NEW R, Growing(t, R)
  PROVE  /\ t \in Seq(BddNode) /\ Len(t) \in Nat /\ Len(t) >= 2 /\ Diagram(t, R) /\ ChildrenEarlier(t)
         /\ 0 \in Indices(t) /\ 1 \in Indices(t)
         /\ NodeAt(t, 0) = LeafRec(0) /\ NodeAt(t, 1) = LeafRec(1)
         /\ \A w : NodeValues(t, w)[0] = 0 /\ NodeValues(t, w)[1] = 1
         /\ Inner(t) = 2 .. Len(t) - 1
<1>1. t \in Seq(BddNode) /\ Len(t) \in Nat /\ Len(t) >= 2 /\ Diagram(t, R) /\ ChildrenEarlier(t) /\ IsReduced(t)
  BY DEF Growing, Diagram
<1>2. 0 \in Indices(t) /\ 1 \in Indices(t) /\ NodeAt(t, 0) = LeafRec(0) /\ NodeAt(t, 1) = LeafRec(1)
  BY <1>1 DEF Indices, NodeAt, Growing
<1>3. 0 \notin Inner(t) /\ 1 \notin Inner(t)
  BY <1>2 DEF Inner, IsLeaf, LeafRec, NodeRec
<1>4. LeafRec(0) # LeafRec(1)
  BY DEF LeafRec, NodeRec, RvaLeaf
<1>5. \A w : NodeValues(t, w)[0] = 0 /\ NodeValues(t, w)[1] = 1
  <2>1. PICK a \in {0, 1} : NodeAt(t, 0) = LeafRec(a) /\ \A w : NodeValues(t, w)[0] = a
    BY <1>1, <1>2, <1>3, LeafFacts
  <2>2. PICK b \in {0, 1} : NodeAt(t, 1) = LeafRec(b) /\ \A w : NodeValues(t, w)[1] = b
    BY <1>1, <1>2, <1>3, LeafFacts
  <2>3. QED
    BY <1>2, <1>4, <2>1, <2>2
<1>6. \A i \in Indices(t) : i \notin Inner(t) => i \in {0, 1}
  <2>1. SUFFICES ASSUME NEW i \in Indices(t), i \notin Inner(t)
                 PROVE  i \in {0, 1}
    OBVIOUS
  <2>2. PICK b \in {0, 1} : NodeAt(t, i) = LeafRec(b)
    BY <1>1, <2>1, LeafFacts
  <2>3. QED
    BY <1>1, <1>2, <2>2 DEF IsReduced
<1>7. Inner(t) = 2 .. Len(t) - 1
  BY <1>1, <1>3, <1>6 DEF Inner, Indices
<1>8. QED
  BY <1>1, <1>2, <1>5, <1>7

LEMMA LeavesGrow ==
  ASSUME NEW R
  PROVE  Growing(Leaves, R)
<1>1. Leaves \in Seq(BddNode) /\ Len(Leaves) = 2 /\ Leaves[1] = LeafRec(0) /\ Leaves[2] = LeafRec(1)
  BY DEF Leaves, BddNode
<1>2. Indices(Leaves) = {0, 1} /\ NodeAt(Leaves, 0) = LeafRec(0) /\ NodeAt(Leaves, 1) = LeafRec(1)
  BY <1>1 DEF Indices, NodeAt
<1>3. Inner(Leaves) = {}
  BY <1>2 DEF Inner, IsLeaf, LeafRec, NodeRec
<1>4. LeafRec(0) # LeafRec(1)
  BY DEF LeafRec, NodeRec, RvaLeaf
<1>5. IsReduced(Leaves)
  BY <1>2, <1>3, <1>4 DEF IsReduced
<1>6. QED
  BY <1>1, <1>3, <1>5 DEF Growing, Diagram, ChildrenEarlier, IsOrdered

LEMMA KeptIs ==
  ASSUME NEW t, Len(t) \in Nat, NEW u, Len(u) \in Nat, Kept(t, u)
  PROVE  /\ \A i \in Indices(t) : i \in Indices(u) /\ NodeAt(u, i) = NodeAt(t, i)
         /\ \A i \in Indices(t) : i \in Inner(u) <=> i \in Inner(t)
         /\ \A x, i : i \in Indices(t) /\ TestsAfter(t, x, i) => TestsAfter(u, x, i)
         /\ \A x, i : i \in Indices(t) /\ VarAfter(t, x, i) => VarAfter(u, x, i)
         /\ \A i \in Indices(t) : \A j : Points(t, i, j) => Points(u, i, j)
<1>1. \A i \in Indices(t) : i \in Indices(u) /\ NodeAt(u, i) = NodeAt(t, i)
  BY DEF Kept, Indices
<1>2. \A i \in Indices(t) : i \in Inner(u) <=> i \in Inner(t)
  BY <1>1 DEF Inner
<1>3. QED
  BY <1>1, <1>2 DEF TestsAfter, VarAfter, Points

LEMMA KeptOn ==
  ASSUME NEW t, Len(t) \in Nat, NEW u, Len(u) \in Nat, NEW v, Len(v) \in Nat, Kept(t, u), Kept(u, v)
  PROVE  Kept(t, v)
<1>1. \A i \in Indices(t) : i \in Indices(u)
  BY KeptIs
<1>2. QED
  BY <1>1 DEF Kept

LEMMA KeptValues ==
  ASSUME NEW t, NEW u, NEW R, Growing(t, R), Growing(u, R), Kept(t, u), NEW w, NEW i \in Indices(t)
  PROVE  NodeValues(u, w)[i] = NodeValues(t, w)[i]
  BY GrowingFacts, NodeValuesAppend DEF Kept

(* bdd_mk keeps all of this. *)
LEMMA MkGrows ==
  ASSUME NEW t, NEW R, Growing(t, R), NEW rva, rva \in Rva, rva \in R,
         NEW low \in Indices(t), NEW high \in Indices(t), TestsAfter(t, rva, low), VarAfter(t, rva, high)
  PROVE  LET m == Mk(t, rva, low, high) IN
         /\ Growing(m.tree, R) /\ m.node \in Indices(m.tree) /\ Kept(t, m.tree)
         /\ \A i \in Len(t) .. Len(m.tree) - 1 : i = m.node
         /\ \/ low = high /\ m.tree = t /\ m.node = high
            \/ low # high /\ m.node \in Inner(m.tree) /\ NodeAt(m.tree, m.node) = NodeRec(rva, low, high)
<1> DEFINE equal == {i \in Indices(t) : i > low /\ i > high /\ NodeAt(t, i) = NodeRec(rva, low, high)}
           m == Mk(t, rva, low, high)
           new == NodeRec(rva, low, high)
<1>1. /\ t \in Seq(BddNode) /\ Len(t) \in Nat /\ Len(t) >= 2
      /\ Diagram(t, R) /\ ChildrenEarlier(t) /\ IsReduced(t) /\ IsOrdered(t)
      /\ \A i \in Inner(t) : NodeAt(t, i).rva \in R
      /\ t[1] = LeafRec(0) /\ t[2] = LeafRec(1)
  BY DEF Growing, Diagram
<1>2. Kept(t, t)
  BY <1>1 DEF Kept
<1>3. CASE low = high
  <2>1. m = Result(t, high)
    BY <1>3 DEF Mk
  <2>2. m.tree = t /\ m.node = high
    BY <2>1 DEF Result
  <2>3. QED
    BY <1>1, <1>2, <1>3, <2>2
<1>4. /\ low \in Nat /\ high \in Nat
      /\ new \in BddNode /\ ~IsLeaf(new) /\ new.rva = rva /\ new.low = low /\ new.high = high
  <2>1. low \in Nat /\ high \in Nat
    BY <1>1 DEF Indices
  <2>2. QED
    BY <2>1 DEF BddNode, NodeRec, IsLeaf, NoNode
<1>5. CASE low # high /\ equal # {}
  <2>1. PICK e \in equal : \A j \in equal : e <= j
    <3>1. equal \in SUBSET Nat
      BY <1>1 DEF Indices
    <3> HIDE DEF equal
    <3>2. QED
      BY <1>5, <3>1, LeastNatural
  <2>2. PICK c \in equal : c = CHOOSE i \in equal : \A j \in equal : i <= j
    BY <2>1
  <2>3. m = Result(t, c)
    BY <1>5, <2>2 DEF Mk
  <2>4. m.tree = t /\ m.node = c
    BY <2>3 DEF Result
  <2>5. c \in Indices(t) /\ NodeAt(t, c) = new
    BY <2>2
  <2>6. c \in Inner(t)
    BY <1>4, <2>5 DEF Inner
  <2> HIDE DEF m, equal, new
  <2>7. QED
    BY <1>1, <1>2, <1>5, <2>4, <2>5, <2>6 DEF new, m
<1>6. CASE low # high /\ equal = {}
  <2> DEFINE u == Append(t, new)
  <2>1. m = Result(u, Len(t))
    BY <1>6 DEF Mk
  <2>2. m.tree = u /\ m.node = Len(t)
    BY <2>1 DEF Result
  <2>3. /\ u \in Seq(BddNode) /\ Len(u) = Len(t) + 1 /\ u[Len(t) + 1] = new
        /\ \A k \in 1 .. Len(t) : u[k] = t[k]
    <3> HIDE DEF new
    <3>1. QED
      BY <1>1, <1>4
  <2> HIDE DEF u, m, new
  <2>4. /\ Indices(u) = 0 .. Len(t) /\ NodeAt(u, Len(t)) = new
        /\ \A i \in Indices(t) : i \in 0 .. Len(t) - 1 /\ NodeAt(u, i) = NodeAt(t, i)
    BY <1>1, <2>3 DEF Indices, NodeAt
  <2>5. Kept(t, u)
    BY <1>1, <2>3, <2>4 DEF Kept
  <2>6. \A i \in Inner(u) : i = Len(t) \/ i \in Inner(t)
    BY <2>4 DEF Inner, Indices
  <2>7. ChildrenEarlier(u)
    <3>1. SUFFICES ASSUME NEW i \in Inner(u)
                   PROVE  NodeAt(u, i).low \in 0 .. i - 1 /\ NodeAt(u, i).high \in 0 .. i - 1
      BY DEF ChildrenEarlier
    <3>2. CASE i = Len(t)
      BY <1>4, <2>4, <3>2 DEF Indices
    <3>3. CASE i \in Inner(t)
      BY <1>1, <2>4, <3>3 DEF ChildrenEarlier, Inner
    <3>4. QED
      BY <2>6, <3>2, <3>3
  <2>8. \A i \in Indices(t) : NodeAt(t, i) # new
    <3>1. SUFFICES ASSUME NEW i \in Indices(t), NodeAt(t, i) = new
                   PROVE  FALSE
      OBVIOUS
    <3>2. i \in Inner(t)
      BY <1>4, <3>1 DEF Inner
    <3>3. low \in 0 .. i - 1 /\ high \in 0 .. i - 1
      BY <1>1, <1>4, <3>1, <3>2 DEF ChildrenEarlier
    <3>4. i \in equal
      BY <1>4, <3>1, <3>3 DEF new, Indices
    <3>5. QED
      BY <1>6, <3>4
  <2>9. IsReduced(u)
    <3>1. \A i \in Inner(u) : NodeAt(u, i).low # NodeAt(u, i).high
      BY <1>1, <1>4, <1>6, <2>4, <2>6 DEF IsReduced, Inner
    <3>2. ASSUME NEW i \in Indices(u), NEW j \in Indices(u), NodeAt(u, i) = NodeAt(u, j)
          PROVE  i = j
      <4>1. \A k \in Indices(u) : k = Len(t) \/ k \in Indices(t)
        BY <1>1, <2>4 DEF Indices
      <4>2. QED
        BY <1>1, <2>4, <2>8, <3>2, <4>1 DEF IsReduced
    <3>3. QED
      BY <3>1, <3>2 DEF IsReduced
  <2>10. \A i \in Inner(u) : NodeAt(u, i).rva \in R
    BY <1>1, <1>4, <2>4, <2>6 DEF Inner
  <2>11. \A k \in Indices(t) : k \in Inner(u) <=> k \in Inner(t)
    BY <1>1, <2>3, <2>5, KeptIs
  <2>12. IsOrdered(u)
    <3>1. SUFFICES ASSUME NEW i \in Inner(u)
                   PROVE  /\ NodeAt(u, i).low \in Inner(u)
                               => RvaBefore(NodeAt(u, i).rva, NodeAt(u, NodeAt(u, i).low).rva)
                          /\ NodeAt(u, i).high \in Inner(u)
                               => NodeAt(u, i).rva.var < NodeAt(u, NodeAt(u, i).high).rva.var
      BY DEF IsOrdered
    <3>2. CASE i = Len(t)
      BY <1>4, <2>4, <2>11, <3>2 DEF TestsAfter, VarAfter
    <3>3. CASE i \in Inner(t)
      <4>1. i \in Indices(t) /\ NodeAt(u, i) = NodeAt(t, i)
        BY <2>4, <3>3 DEF Inner
      <4>2. NodeAt(t, i).low \in Indices(t) /\ NodeAt(t, i).high \in Indices(t)
        BY <1>1, <3>3, InnerFacts
      <4>3. QED
        BY <1>1, <2>4, <2>11, <3>3, <4>1, <4>2 DEF IsOrdered
    <3>4. QED
      BY <2>6, <3>2, <3>3
  <2>13. u[1] = LeafRec(0) /\ u[2] = LeafRec(1) /\ Len(u) >= 2
    BY <1>1, <2>3
  <2>14. Growing(u, R)
    BY <2>3, <2>7, <2>9, <2>10, <2>12, <2>13 DEF Growing, Diagram
  <2>15. Len(t) \in Indices(u) /\ Len(t) \in Inner(u)
    BY <1>1, <1>4, <2>4 DEF Inner
  <2>16. \A i \in Len(t) .. Len(u) - 1 : i = Len(t)
    BY <1>1, <2>3
  <2>17. QED
    BY <1>6, <2>2, <2>4, <2>5, <2>14, <2>15, <2>16 DEF new, m
<1>7. QED
  BY <1>3, <1>5, <1>6

(* A node made of the results of two calls, one after the other. *)
LEMMA JoinGrows ==
  ASSUME NEW t, NEW R, Growing(t, R), NEW a, Grows(t, R, a), NEW b, Grows(a.tree, R, b),
         NEW rva, rva \in Rva, rva \in R, NEW low, NEW high,
         (low = a.node /\ high = b.node) \/ (low = b.node /\ high = a.node),
         TestsAfter(b.tree, rva, low), VarAfter(b.tree, rva, high)
  PROVE  LET m == Mk(b.tree, rva, low, high) IN
         /\ Grows(t, R, m) /\ Kept(b.tree, m.tree)
         /\ low \in Indices(b.tree) /\ high \in Indices(b.tree)
         /\ \/ low = high /\ m.tree = b.tree /\ m.node = high
            \/ low # high /\ m.node \in Inner(m.tree) /\ NodeAt(m.tree, m.node) = NodeRec(rva, low, high)
<1> DEFINE m == Mk(b.tree, rva, low, high)
<1>1. /\ Len(t) \in Nat /\ Growing(a.tree, R) /\ Len(a.tree) \in Nat /\ Kept(t, a.tree)
      /\ a.node \in Indices(a.tree) /\ UsedBut(t, a.tree, a.node)
      /\ Growing(b.tree, R) /\ Len(b.tree) \in Nat /\ Kept(a.tree, b.tree)
      /\ b.node \in Indices(b.tree) /\ UsedBut(a.tree, b.tree, b.node)
  BY GrowingFacts DEF Grows
<1>2. a.node \in Indices(b.tree)
  BY <1>1, KeptIs
<1>3. low \in Indices(b.tree) /\ high \in Indices(b.tree)
  BY <1>1, <1>2
<1>4. /\ Growing(m.tree, R) /\ m.node \in Indices(m.tree) /\ Kept(b.tree, m.tree)
      /\ \A i \in Len(b.tree) .. Len(m.tree) - 1 : i = m.node
      /\ \/ low = high /\ m.tree = b.tree /\ m.node = high
         \/ low # high /\ m.node \in Inner(m.tree) /\ NodeAt(m.tree, m.node) = NodeRec(rva, low, high)
  BY <1>1, <1>3, MkGrows
<1> HIDE DEF m
<1>5. Len(m.tree) \in Nat /\ Len(t) <= Len(a.tree) /\ Len(a.tree) <= Len(b.tree) /\ Len(b.tree) <= Len(m.tree)
  BY <1>1, <1>4, GrowingFacts DEF Kept
<1>6. Kept(a.tree, m.tree)
  BY <1>1, <1>4, <1>5, KeptOn
<1>7. Kept(t, m.tree)
  BY <1>1, <1>5, <1>6, KeptOn
<1>8. \A i \in {a.node, b.node} : i = m.node \/ \E j \in Inner(m.tree) : Points(m.tree, j, i)
  <2>1. CASE low = high
    BY <1>4, <2>1
  <2>2. CASE low # high
    <3>1. m.node \in Inner(m.tree) /\ Points(m.tree, m.node, low) /\ Points(m.tree, m.node, high)
      BY <1>4, <2>2 DEF Points, NodeRec
    <3>2. QED
      BY <3>1
  <2>3. QED
    BY <2>1, <2>2
<1>9. UsedBut(t, m.tree, m.node)
  <2>1. SUFFICES ASSUME NEW i \in Len(t) .. Len(m.tree) - 1
                 PROVE  i = m.node \/ \E j \in Inner(m.tree) : Points(m.tree, j, i)
    BY DEF UsedBut
  <2>2. CASE i < Len(a.tree)
    <3>1. i \in Len(t) .. Len(a.tree) - 1
      BY <1>1, <1>5, <2>2
    <3>2. CASE i = a.node
      BY <1>8, <3>2
    <3>3. ASSUME NEW j \in Inner(a.tree), Points(a.tree, j, i)
          PROVE  \E k \in Inner(m.tree) : Points(m.tree, k, i)
      <4>1. j \in Indices(a.tree)
        BY DEF Inner
      <4>2. j \in Inner(m.tree) /\ Points(m.tree, j, i)
        BY <1>1, <1>5, <1>6, <3>3, <4>1, KeptIs
      <4>3. QED
        BY <4>2
    <3>4. QED
      BY <1>1, <3>1, <3>2, <3>3 DEF UsedBut
  <2>3. CASE i >= Len(a.tree) /\ i < Len(b.tree)
    <3>1. i \in Len(a.tree) .. Len(b.tree) - 1
      BY <1>1, <1>5, <2>3
    <3>2. CASE i = b.node
      BY <1>8, <3>2
    <3>3. ASSUME NEW j \in Inner(b.tree), Points(b.tree, j, i)
          PROVE  \E k \in Inner(m.tree) : Points(m.tree, k, i)
      <4>1. j \in Indices(b.tree)
        BY DEF Inner
      <4>2. j \in Inner(m.tree) /\ Points(m.tree, j, i)
        BY <1>1, <1>4, <1>5, <3>3, <4>1, KeptIs
      <4>3. QED
        BY <4>2
    <3>4. QED
      BY <1>1, <3>1, <3>2, <3>3 DEF UsedBut
  <2>4. CASE i >= Len(b.tree)
    <3>1. i \in Len(b.tree) .. Len(m.tree) - 1
      BY <1>1, <1>5, <2>4
    <3>2. QED
      BY <1>4, <3>1
  <2>5. QED
    BY <1>1, <1>5, <2>2, <2>3, <2>4
<1>10. Grows(t, R, m)
  BY <1>4, <1>7, <1>9 DEF Grows
<1>11. QED
  BY <1>3, <1>4, <1>10 DEF m

(* The value of the node that mk returns. *)
LEMMA JoinValue ==
  ASSUME NEW u, NEW m, NEW R, Growing(u, R), Growing(m.tree, R), Kept(u, m.tree), NEW rva,
         NEW low \in Indices(u), NEW high \in Indices(u),
         \/ low = high /\ m.tree = u /\ m.node = high
         \/ low # high /\ m.node \in Inner(m.tree) /\ NodeAt(m.tree, m.node) = NodeRec(rva, low, high),
         NEW w
  PROVE  NodeValues(m.tree, w)[m.node]
           = IF rva \in w THEN NodeValues(u, w)[high] ELSE NodeValues(u, w)[low]
<1>1. CASE low = high
  BY <1>1
<1>2. CASE low # high
  <2>1. NodeValues(m.tree, w)[m.node]
          = IF rva \in w THEN NodeValues(m.tree, w)[high] ELSE NodeValues(m.tree, w)[low]
    <3>1. m.node \in Inner(m.tree) /\ NodeAt(m.tree, m.node) = NodeRec(rva, low, high) /\ Diagram(m.tree, R)
      BY <1>2, GrowingFacts
    <3> DEFINE node == NodeAt(m.tree, m.node)
    <3>2. \A v : NodeValues(m.tree, v)[m.node] = IF node.rva \in v THEN NodeValues(m.tree, v)[node.high]
                                                  ELSE NodeValues(m.tree, v)[node.low]
      BY <3>1, InnerFacts
    <3>3. node.rva = rva /\ node.low = low /\ node.high = high
      BY <3>1 DEF NodeRec
    <3> HIDE DEF node
    <3>4. QED
      BY <3>2, <3>3
  <2>2. NodeValues(m.tree, w)[high] = NodeValues(u, w)[high] /\ NodeValues(m.tree, w)[low] = NodeValues(u, w)[low]
    BY KeptValues
  <2>3. QED
    BY <2>1, <2>2
<1>3. QED
  BY <1>1, <1>2

-----------------------------------------------------------------------------
(***************************************************************************)
(* The recursion of bdd_build.                                             *)
(***************************************************************************)
SortedRvas(o) == o \in Seq(Rva) /\ \A p, q \in DOMAIN o : p < q => RvaBefore(o[p], o[q])

Res == [tree : Seq(BddNode), node : Nat]

(* Its equations hold, as BddBuildProofs proves.                            *)
LEMMA SameBuild ==
  /\ B!AtOnce!BddNode = BddNode /\ B!AtOnce!Rva = Rva
  /\ \A t, i : B!AtOnce!Result(t, i) = Result(t, i)
  /\ \A t, rva, low, high : B!AtOnce!Mk(t, rva, low, high) = Mk(t, rva, low, high)
  /\ \A o, d : B!AtOnce!NextVar(o, d) = NextVar(o, d)
  /\ \A l, r : B!AtOnce!IsSameVar(l, r) = IsSameVar(l, r)
  /\ \A in : B!AtOnce!Built(in) = Built(in)
  BY DEF B!AtOnce!Built, Built, B!AtOnce!Mk, Mk, B!AtOnce!Result, Result, B!AtOnce!NextVar, NextVar,
         B!AtOnce!NodeAt, NodeAt, B!AtOnce!NodeRec, NodeRec, B!AtOnce!Indices, Indices, B!AtOnce!IsSameVar, IsSameVar,
         B!AtOnce!Rva, Rva, B!AtOnce!VarName, VarName, B!AtOnce!BddNode, BddNode, B!AtOnce!LeafRec, LeafRec,
         B!AtOnce!RvaLeaf, RvaLeaf, B!AtOnce!NoNode, NoNode

LEMMA MkTypes ==
  ASSUME NEW t \in Seq(BddNode), NEW rva \in Rva, NEW low \in Nat, NEW high \in Nat
  PROVE  Mk(t, rva, low, high) \in Res
<1>1. t \in Seq(B!AtOnce!BddNode) /\ rva \in B!AtOnce!Rva
  BY SameBuild
<1>2. B!AtOnce!Mk(t, rva, low, high) \in B!Results
  BY <1>1, B!MkTypes
<1>3. B!Results = Res
  BY SameBuild DEF B!Results, Res
<1>4. QED
  BY <1>2, <1>3, SameBuild

LEMMA NextVarFacts ==
  ASSUME NEW o, Len(o) \in Nat, NEW d \in 1 .. Len(o)
  PROVE  /\ NextVar(o, d) \in d + 1 .. Len(o) + 1
         /\ \A k \in d + 1 .. NextVar(o, d) - 1 : IsSameVar(o[k], o[d])
         /\ NextVar(o, d) <= Len(o) => ~IsSameVar(o[NextVar(o, d)], o[d])
  BY SameBuild, B!NextVarFacts

BuildCall(in, g, d, w, t) ==
  IF d > Len(in.order) THEN Result(t, IF w \in in.sat THEN 1 ELSE 0)
  ELSE LET rva == in.order[d]
           l == g[d + 1][w][t]
           h == g[NextVar(in.order, d)][w \cup {rva}][l.tree]
       IN  Mk(h.tree, rva, l.node, h.node)

Below(o, d) == {o[k] : k \in 1 .. d - 1}

(* What a call of bdd_build at depth d - 1 returns on the vector t: a node  *)
(* that tests the rvas left only, and decides the expression in each world  *)
(* that makes just those of w true among the rvas decided.                  *)
Builds(in, R, d, w, t, r) ==
  /\ Grows(t, R, r)
  /\ r.node \in Inner(r.tree) => \E k \in d .. Len(in.order) : NodeAt(r.tree, r.node).rva = in.order[k]
  /\ \A v : Exclusive(v) /\ (\A k \in 1 .. d - 1 : in.order[k] \in v <=> in.order[k] \in w) =>
       NodeValues(r.tree, v)[r.node] = IF v \cap ToSet(in.order) \in in.sat THEN 1 ELSE 0

BuildsAt(in, R, d) ==
  \A w \in SUBSET Below(in.order, d) : \A t : Growing(t, R) => Builds(in, R, d, w, t, Built(in)[d][w][t])

LEMMA BuiltAt ==
  ASSUME NEW in, in.order \in Seq(Rva), NEW d, d \in 1 .. Len(in.order) + 1,
         NEW w, w \in SUBSET Rva, NEW t, t \in Seq(BddNode)
  PROVE  Built(in)[d][w][t] = BuildCall(in, Built(in), d, w, t)
<1>1. B!AtOnce!Built(in)[d][w][t] = B!BuildCall(in, B!AtOnce!Built(in), d, w, t)
  BY SameBuild, B!BuiltAt
<1>2. QED
  BY <1>1, SameBuild DEF B!BuildCall, BuildCall

LEMMA SortedDiffer ==
  ASSUME NEW o, SortedRvas(o), NEW p, p \in 1 .. Len(o), NEW q, q \in 1 .. Len(o), o[p] = o[q]
  PROVE  p = q
<1>1. o \in Seq(Rva) /\ Len(o) \in Nat
  BY LenProperties DEF SortedRvas
<1>2. o[p] \in Rva /\ DOMAIN o = 1 .. Len(o)
  BY <1>1
<1>3. ~RvaBefore(o[p], o[q]) /\ ~RvaBefore(o[q], o[p])
  BY <1>2 DEF RvaBefore, Rva, VarName
<1>4. ~(p < q) /\ ~(q < p)
  BY <1>2, <1>3 DEF SortedRvas
<1>5. QED
  BY <1>1, <1>4

LEMMA SameGrows ==
  ASSUME NEW t, NEW R, Growing(t, R), NEW i \in Indices(t)
  PROVE  Grows(t, R, Result(t, i))
<1>1. Len(t) \in Nat
  BY GrowingFacts
<1>2. Kept(t, t) /\ UsedBut(t, t, i)
  BY <1>1 DEF Kept, UsedBut
<1>3. Result(t, i).tree = t /\ Result(t, i).node = i
  BY DEF Result
<1>4. QED
  BY <1>2, <1>3 DEF Grows

LEMMA BuildEnds ==
  ASSUME NEW in, SortedRvas(in.order), NEW R, ToSet(in.order) \subseteq R
  PROVE  BuildsAt(in, R, Len(in.order) + 1)
<1> DEFINE o == in.order
           d == Len(o) + 1
<1>1. o \in Seq(Rva) /\ Len(o) \in Nat /\ d \in 1 .. Len(o) + 1
  BY LenProperties DEF SortedRvas
<1>2. SUFFICES ASSUME NEW w \in SUBSET Below(o, d), NEW t, Growing(t, R)
               PROVE  Builds(in, R, d, w, t, Built(in)[d][w][t])
  BY DEF BuildsAt
<1>3. Below(o, d) \subseteq Rva /\ Below(o, d) = ToSet(o)
  BY <1>1 DEF Below, ToSet
<1>4. w \in SUBSET Rva /\ t \in Seq(BddNode) /\ 0 \in Indices(t) /\ 1 \in Indices(t)
  BY <1>2, <1>3, GrowingFacts
<1> DEFINE i == IF w \in in.sat THEN 1 ELSE 0
<1>5. Built(in)[d][w][t] = Result(t, i)
  <2>1. in.order \in Seq(Rva) /\ d > Len(in.order)
    BY <1>1
  <2> HIDE DEF d
  <2>2. Built(in)[d][w][t] = BuildCall(in, Built(in), d, w, t)
    BY <1>1, <1>4, <2>1, BuiltAt
  <2>3. QED
    BY <2>1, <2>2 DEF BuildCall
<1>6. Grows(t, R, Result(t, i))
  BY <1>2, <1>4, SameGrows
<1>7. i \notin Inner(t) /\ \A v : NodeValues(t, v)[i] = i
  BY <1>2, GrowingFacts
<1>8. \A v : (\A k \in 1 .. d - 1 : o[k] \in v <=> o[k] \in w) => v \cap ToSet(o) = w
  BY <1>1, <1>3 DEF ToSet
<1>9. Result(t, i).tree = t /\ Result(t, i).node = i
  BY DEF Result
<1>10. \A v : (\A k \in 1 .. d - 1 : o[k] \in v <=> o[k] \in w) =>
         NodeValues(t, v)[i] = IF v \cap ToSet(o) \in in.sat THEN 1 ELSE 0
  <2>1. \A v : NodeValues(t, v)[i] = i
    BY <1>7
  <2> HIDE DEF d
  <2>2. SUFFICES ASSUME NEW v, \A k \in 1 .. d - 1 : o[k] \in v <=> o[k] \in w
                 PROVE  i = IF v \cap ToSet(o) \in in.sat THEN 1 ELSE 0
    BY <2>1
  <2>3. v \cap ToSet(o) = w
    BY <1>8, <2>2
  <2>4. QED
    BY <2>3
<1> HIDE DEF d, i
<1>11. Builds(in, R, d, w, t, Result(t, i))
  BY <1>6, <1>7, <1>9, <1>10 DEF Builds
<1>12. QED
  BY <1>5, <1>11

(* l and h are what the two calls of bdd_build at depth d - 1 return on t,  *)
(* the second with rva set to 1; a node is made of them.                    *)
Joins(in, R, d, w, t, rva, x, l, h) ==
  /\ rva = in.order[d] /\ rva \in Rva /\ rva \in R /\ rva \notin w
  /\ x = w \cup {rva} /\ l = Built(in)[d + 1][w][t] /\ h = Built(in)[NextVar(in.order, d)][x][l.tree]
  /\ w \in SUBSET Below(in.order, d + 1) /\ x \in SUBSET Below(in.order, NextVar(in.order, d))
  /\ Grows(t, R, l) /\ Grows(l.tree, R, h)
  /\ TestsAfter(h.tree, rva, l.node) /\ VarAfter(h.tree, rva, h.node)
  /\ Built(in)[d][w][t] = Mk(h.tree, rva, l.node, h.node)

LEMMA BuildJoins ==
  ASSUME NEW in, SortedRvas(in.order), NEW R, ToSet(in.order) \subseteq R, NEW d, d \in 1 .. Len(in.order),
         BuildsAt(in, R, d + 1), BuildsAt(in, R, NextVar(in.order, d)),
         NEW w, w \in SUBSET Below(in.order, d), NEW t, Growing(t, R)
  PROVE  \E rva, x, l, h : Joins(in, R, d, w, t, rva, x, l, h)
<1> DEFINE o == in.order
           e == NextVar(o, d)
           rva == o[d]
<1>1. /\ o \in Seq(Rva) /\ Len(o) \in Nat /\ d \in 1 .. Len(o) + 1
      /\ \A p, q \in 1 .. Len(o) : p < q => RvaBefore(o[p], o[q])
      /\ \A p \in 1 .. Len(o) : o[p] \in Rva /\ o[p] \in R
  BY LenProperties DEF SortedRvas, ToSet
<1>2. /\ e \in d + 1 .. Len(o) + 1
      /\ \A k \in d + 1 .. e - 1 : IsSameVar(o[k], o[d])
      /\ e <= Len(o) => ~IsSameVar(o[e], o[d])
  BY <1>1, NextVarFacts
<1>3. \A p, q \in 1 .. Len(o) : p # q => o[p] # o[q]
  BY SortedDiffer
<1>4. w \in SUBSET Below(o, d)
  OBVIOUS
<1> DEFINE l == Built(in)[d + 1][w][t]
           x == w \cup {rva}
           h == Built(in)[e][x][l.tree]
           m == Mk(h.tree, rva, l.node, h.node)
<1>5. /\ \A y \in w : \E k \in 1 .. d - 1 : y = o[k]
      /\ w \in SUBSET Rva /\ x \in SUBSET Rva /\ rva \in Rva /\ rva \in R
      /\ w \in SUBSET Below(o, d + 1) /\ x \in SUBSET Below(o, e)
  <2> HIDE DEF e
  <2>1. \A y \in w : \E k \in 1 .. d - 1 : y = o[k]
    BY <1>4 DEF Below
  <2>2. \A k \in 1 .. d - 1 : k \in 1 .. Len(o) /\ k \in 1 .. e - 1 /\ k \in 1 .. (d + 1) - 1
    BY <1>1, <1>2
  <2>3. d \in 1 .. e - 1
    BY <1>1, <1>2
  <2>4. w \in SUBSET Rva /\ rva \in Rva /\ rva \in R
    BY <1>1, <2>1, <2>2
  <2>5. w \in SUBSET Below(o, d + 1)
    BY <2>1, <2>2 DEF Below
  <2>6. x \in SUBSET Below(o, e)
    BY <2>1, <2>2, <2>3 DEF Below
  <2>7. QED
    BY <2>1, <2>4, <2>5, <2>6
<1>6. rva \notin w
  BY <1>1, <1>3, <1>5
<1>7. Built(in)[d][w][t] = m
  <2>1. t \in Seq(BddNode) /\ ~(d > Len(o))
    BY <1>1, <1>4, GrowingFacts
  <2>2. Built(in)[d][w][t] = BuildCall(in, Built(in), d, w, t)
    BY <1>1, <1>5, <2>1, BuiltAt
  <2>3. QED
    BY <2>1, <2>2 DEF BuildCall
<1>8. Builds(in, R, d + 1, w, t, l)
  BY <1>4, <1>5 DEF BuildsAt
<1>9. Grows(t, R, l) /\ Growing(l.tree, R)
  BY <1>8 DEF Builds, Grows
<1>10. Builds(in, R, e, x, l.tree, h)
  BY <1>5, <1>9, Zenon DEF BuildsAt
<1>11. Grows(l.tree, R, h) /\ Growing(h.tree, R) /\ Kept(l.tree, h.tree) /\ l.node \in Indices(l.tree)
  <2>1. l.node \in Indices(l.tree)
    BY <1>9 DEF Grows
  <2>2. Grows(l.tree, R, h)
    BY <1>10, Zenon DEF Builds
  <2>3. QED
    BY <2>1, <2>2, Zenon DEF Grows
<1>12. Len(l.tree) \in Nat /\ Len(h.tree) \in Nat
  BY <1>9, <1>11, GrowingFacts, Zenon
<1> HIDE DEF l, h, m, x, e, rva
<1>13. TestsAfter(l.tree, rva, l.node)
  <2>1. SUFFICES ASSUME l.node \in Inner(l.tree)
                 PROVE  RvaBefore(rva, NodeAt(l.tree, l.node).rva)
    BY DEF TestsAfter
  <2>2. PICK k \in d + 1 .. Len(o) : NodeAt(l.tree, l.node).rva = o[k]
    BY <1>8, <2>1 DEF Builds
  <2>3. k \in 1 .. Len(o) /\ d < k
    BY <1>1, <2>2
  <2>4. QED
    BY <1>1, <2>2, <2>3 DEF rva
<1>14. VarAfter(h.tree, rva, h.node)
  <2>1. SUFFICES ASSUME h.node \in Inner(h.tree)
                 PROVE  rva.var < NodeAt(h.tree, h.node).rva.var
    BY DEF VarAfter
  <2>2. PICK k \in e .. Len(o) : NodeAt(h.tree, h.node).rva = o[k]
    BY <1>10, <2>1 DEF Builds
  <2>3. k \in 1 .. Len(o) /\ e \in 1 .. Len(o) /\ d < e /\ (e = k \/ e < k)
    BY <1>1, <1>2, <2>2
  <2>4. RvaBefore(o[d], o[e]) /\ ~IsSameVar(o[e], o[d]) /\ (e = k \/ RvaBefore(o[e], o[k]))
    BY <1>1, <1>2, <2>3
  <2>5. o[d] \in Rva /\ o[e] \in Rva /\ o[k] \in Rva
    BY <1>1, <2>3
  <2>6. o[d].var < o[k].var
    BY <2>4, <2>5 DEF RvaBefore, IsSameVar, Rva, VarName
  <2>7. QED
    BY <2>2, <2>6 DEF rva
<1>15. TestsAfter(h.tree, rva, l.node)
  BY <1>11, <1>12, <1>13, KeptIs
<1>16. QED
  <2>1. m = Mk(h.tree, rva, l.node, h.node) /\ x = w \cup {rva} /\ rva = in.order[d]
        /\ l = Built(in)[d + 1][w][t] /\ h = Built(in)[NextVar(in.order, d)][x][l.tree] /\ e = NextVar(in.order, d)
    BY DEF m, x, rva, l, h, e
  <2>2. Joins(in, R, d, w, t, rva, x, l, h)
    BY <1>5, <1>6, <1>7, <1>9, <1>11, <1>14, <1>15, <2>1, Zenon DEF Joins
  <2>3. QED
    BY <2>2

LEMMA BuildDescends ==
  ASSUME NEW in, SortedRvas(in.order), NEW R, ToSet(in.order) \subseteq R, NEW d, d \in 1 .. Len(in.order),
         BuildsAt(in, R, d + 1), BuildsAt(in, R, NextVar(in.order, d))
  PROVE  BuildsAt(in, R, d)
<1> DEFINE o == in.order
           e == NextVar(o, d)
<1>1. /\ o \in Seq(Rva) /\ Len(o) \in Nat /\ d \in 1 .. Len(o) + 1
      /\ \A p, q \in 1 .. Len(o) : p < q => RvaBefore(o[p], o[q])
      /\ \A p \in 1 .. Len(o) : o[p] \in Rva /\ o[p] \in R
  BY LenProperties DEF SortedRvas, ToSet
<1>2. /\ e \in d + 1 .. Len(o) + 1
      /\ \A k \in d + 1 .. e - 1 : IsSameVar(o[k], o[d])
      /\ e <= Len(o) => ~IsSameVar(o[e], o[d])
  BY <1>1, NextVarFacts
<1>3. \A p, q \in 1 .. Len(o) : p # q => o[p] # o[q]
  BY SortedDiffer
<1>4. SUFFICES ASSUME NEW w \in SUBSET Below(o, d), NEW t, Growing(t, R)
               PROVE  Builds(in, R, d, w, t, Built(in)[d][w][t])
  BY DEF BuildsAt
<1>5. PICK rva, x, l, h : Joins(in, R, d, w, t, rva, x, l, h)
  BY <1>4, BuildJoins, Zenon
<1>6. PICK m : m = Mk(h.tree, rva, l.node, h.node)
  OBVIOUS
<1>7. rva = o[d] /\ x = w \cup {o[d]} /\ \A y \in w : \E k \in 1 .. d - 1 : y = o[k]
  BY <1>4, <1>5, Zenon DEF Below, Joins
<1>8. Builds(in, R, d + 1, w, t, l)
  BY <1>4, <1>5, Zenon DEF BuildsAt, Joins
<1>9. /\ Grows(t, R, l) /\ Growing(l.tree, R) /\ l.node \in Indices(l.tree)
      /\ Grows(l.tree, R, h) /\ Growing(h.tree, R) /\ Kept(l.tree, h.tree)
  BY <1>5, Zenon DEF Grows, Joins
<1>10. Builds(in, R, e, x, l.tree, h)
  BY <1>5, <1>9, Zenon DEF BuildsAt, Joins
<1> HIDE DEF e
<1>11. /\ Grows(t, R, m) /\ Kept(h.tree, m.tree)
       /\ l.node \in Indices(h.tree) /\ h.node \in Indices(h.tree)
       /\ \/ l.node = h.node /\ m.tree = h.tree /\ m.node = h.node
          \/ l.node # h.node /\ m.node \in Inner(m.tree) /\ NodeAt(m.tree, m.node) = NodeRec(rva, l.node, h.node)
  <2>1. PICK low, high : low = l.node /\ high = h.node
    OBVIOUS
  <2>2. m = Mk(h.tree, rva, low, high)
    BY <1>6, <2>1
  <2>3. TestsAfter(h.tree, rva, low) /\ VarAfter(h.tree, rva, high)
    BY <1>5, <2>1, Zenon DEF Joins
  <2>4. rva \in Rva /\ rva \in R
    BY <1>5, Zenon DEF Joins
  <2>5. QED
    BY <1>4, <1>9, <2>1, <2>2, <2>3, <2>4, JoinGrows
<1>12. m.node \in Inner(m.tree) => \E k \in d .. Len(o) : NodeAt(m.tree, m.node).rva = o[k]
  <2>1. CASE l.node = h.node
    <3>1. m.tree = h.tree /\ m.node = h.node
      BY <1>11, <2>1
    <3>2. SUFFICES ASSUME h.node \in Inner(h.tree)
                   PROVE  \E k \in d .. Len(o) : NodeAt(h.tree, h.node).rva = o[k]
      BY <3>1
    <3>3. PICK k \in e .. Len(o) : NodeAt(h.tree, h.node).rva = o[k]
      BY <1>10, <3>2 DEF Builds
    <3>4. k \in d .. Len(o)
      BY <1>1, <1>2, <3>3
    <3>5. QED
      BY <3>3, <3>4
  <2>2. CASE l.node # h.node
    <3>1. NodeAt(m.tree, m.node).rva = o[d]
      BY <1>7, <1>11, <2>2 DEF NodeRec
    <3>2. d \in d .. Len(o)
      BY <1>1
    <3>3. QED
      BY <3>1, <3>2
  <2>3. QED
    BY <2>1, <2>2
<1>13. ASSUME NEW v, Exclusive(v), \A k \in 1 .. d - 1 : o[k] \in v <=> o[k] \in w
       PROVE  NodeValues(m.tree, v)[m.node] = IF v \cap ToSet(o) \in in.sat THEN 1 ELSE 0
  <2>1. Growing(m.tree, R)
    BY <1>11 DEF Grows
  <2>2. NodeValues(m.tree, v)[m.node]
          = IF rva \in v THEN NodeValues(h.tree, v)[h.node] ELSE NodeValues(h.tree, v)[l.node]
    <3>1. PICK low, high : low = l.node /\ high = h.node
      OBVIOUS
    <3>2. low \in Indices(h.tree) /\ high \in Indices(h.tree)
      BY <1>11, <3>1
    <3>3. NodeValues(m.tree, v)[m.node]
            = IF rva \in v THEN NodeValues(h.tree, v)[high] ELSE NodeValues(h.tree, v)[low]
      BY <1>9, <1>11, <2>1, <3>1, <3>2, JoinValue
    <3>4. QED
      BY <3>1, <3>3
  <2>3. CASE rva \in v
    <3>1. \A k \in 1 .. e - 1 : o[k] \in v <=> o[k] \in x
      <4>1. SUFFICES ASSUME NEW k \in 1 .. e - 1
                     PROVE  o[k] \in v <=> o[k] \in x
        OBVIOUS
      <4>2. k \in 1 .. Len(o)
        BY <1>1, <1>2
      <4>3. CASE k < d
        <5>1. k \in 1 .. d - 1 /\ o[k] # o[d]
          BY <1>1, <1>3, <4>2, <4>3
        <5>2. QED
          BY <1>7, <1>13, <5>1
      <4>4. CASE k = d
        BY <1>7, <2>3, <4>4
      <4>5. CASE k > d
        <5>1. k \in d + 1 .. e - 1 /\ o[k] # o[d]
          BY <1>1, <1>2, <1>3, <4>2, <4>5
        <5>2. IsSameVar(o[k], o[d])
          BY <1>2, <5>1
        <5>3. o[k] \notin v
          BY <1>7, <1>13, <2>3, <5>1, <5>2 DEF Exclusive
        <5>4. o[k] \notin w
          <6>1. SUFFICES ASSUME NEW j \in 1 .. d - 1, o[k] = o[j]
                         PROVE  FALSE
            BY <1>7
          <6>2. j \in 1 .. Len(o) /\ j # k
            BY <1>1, <4>5
          <6>3. QED
            BY <1>3, <4>2, <6>1, <6>2
        <5>5. QED
          BY <1>7, <5>1, <5>3, <5>4
      <4>6. QED
        BY <1>1, <1>2, <4>2, <4>3, <4>4, <4>5
    <3>2. NodeValues(h.tree, v)[h.node] = IF v \cap ToSet(o) \in in.sat THEN 1 ELSE 0
      BY <1>10, <1>13, <3>1 DEF Builds
    <3>3. QED
      BY <2>2, <2>3, <3>2
  <2>4. CASE rva \notin v
    <3>1. \A k \in 1 .. (d + 1) - 1 : o[k] \in v <=> o[k] \in w
      <4>1. SUFFICES ASSUME NEW k \in 1 .. (d + 1) - 1
                     PROVE  o[k] \in v <=> o[k] \in w
        OBVIOUS
      <4>2. k = d \/ k \in 1 .. d - 1
        BY <1>1
      <4>3. QED
        BY <1>5, <1>7, <1>13, <2>4, <4>2, Zenon DEF Joins
    <3>2. NodeValues(l.tree, v)[l.node] = IF v \cap ToSet(o) \in in.sat THEN 1 ELSE 0
      BY <1>8, <1>13, <3>1 DEF Builds
    <3>3. NodeValues(h.tree, v)[l.node] = NodeValues(l.tree, v)[l.node]
      BY <1>9, KeptValues
    <3>4. QED
      BY <2>2, <2>4, <3>2, <3>3
  <2>5. QED
    BY <2>3, <2>4
<1>14. Builds(in, R, d, w, t, m)
  BY <1>11, <1>12, <1>13 DEF Builds
<1>15. Built(in)[d][w][t] = m
  BY <1>5, <1>6, Zenon DEF Joins
<1>16. QED
  BY <1>14, <1>15

LEMMA BuildsAll ==
  ASSUME NEW in, SortedRvas(in.order), NEW R, ToSet(in.order) \subseteq R
  PROVE  BuildsAt(in, R, 1)
<1> DEFINE n == Len(in.order)
           T == {k \in Nat : k <= n => BuildsAt(in, R, n + 1 - k)}
<1>1. n \in Nat
  BY LenProperties DEF SortedRvas
<1>2. ASSUME NEW k \in Nat, \A j \in Nat : j < k => j \in T
      PROVE  k \in T
  <2>1. SUFFICES ASSUME k <= n
                 PROVE  BuildsAt(in, R, n + 1 - k)
    OBVIOUS
  <2>2. CASE k = 0
    <3>1. n + 1 - k = Len(in.order) + 1
      BY <1>1, <2>2
    <3>2. BuildsAt(in, R, Len(in.order) + 1)
      BY BuildEnds
    <3>3. QED
      BY <3>1, <3>2
  <2>3. CASE k # 0
    <3>0. n + 1 - k \in 1 .. n
      <4> HIDE DEF n, T
      <4>1. QED
        BY <1>1, <2>1, <2>3
    <3>1. PICK d : d = n + 1 - k /\ d \in 1 .. n
      BY <3>0
    <3>2. PICK e : e = NextVar(in.order, d) /\ e \in d + 1 .. n + 1
      BY <1>1, <3>1, NextVarFacts
    <3>3. /\ n + 1 - e \in Nat /\ n + 1 - e < k /\ n + 1 - e <= n /\ n + 1 - (n + 1 - e) = e
          /\ k - 1 \in Nat /\ k - 1 < k /\ k - 1 <= n /\ n + 1 - (k - 1) = d + 1
      BY <1>1, <2>1, <2>3, <3>1, <3>2
    <3>4. BuildsAt(in, R, d + 1) /\ BuildsAt(in, R, e)
      BY <1>2, <3>3
    <3>5. QED
      BY <3>1, <3>2, <3>4, BuildDescends
  <2>4. QED
    BY <2>2, <2>3
<1> HIDE DEF T
<1>3. n \in T
  BY <1>1, <1>2, Strongly
<1>4. n + 1 - n = 1 /\ n <= n
  BY <1>1
<1>5. QED
  BY <1>3, <1>4 DEF T

-----------------------------------------------------------------------------
(***************************************************************************)
(* What is stored.                                                         *)
(***************************************************************************)
Whole(b, R) ==
  /\ Diagram(b, R) /\ InUse(b)
  /\ b \in {<<LeafRec(0)>>, <<LeafRec(1)>>} \/ (Growing(b, R) /\ Len(b) > 2)

RootValue(b, w) == NodeValues(b, w)[BddRoot(b)]

LEMMA LeafWhole ==
  ASSUME NEW v \in {0, 1}, NEW R
  PROVE  Whole(<<LeafRec(v)>>, R) /\ \A w : RootValue(<<LeafRec(v)>>, w) = v
<1> DEFINE b == <<LeafRec(v)>>
<1>1. b \in Seq(BddNode) /\ Len(b) = 1 /\ b[1] = LeafRec(v)
  BY DEF BddNode
<1>2. Indices(b) = {0} /\ NodeAt(b, 0) = LeafRec(v) /\ BddRoot(b) = 0
  BY <1>1 DEF Indices, NodeAt, BddRoot
<1>3. Inner(b) = {}
  BY <1>2 DEF Inner, IsLeaf, LeafRec, NodeRec
<1>4. Diagram(b, R)
  BY <1>1, <1>2, <1>3 DEF Diagram, ChildrenEarlier, IsOrdered, IsReduced
<1>5. InUse(b)
  BY <1>1 DEF InUse
<1>6. Whole(b, R)
  BY <1>4, <1>5 DEF Whole
<1>7. PICK c \in {0, 1} : NodeAt(b, 0) = LeafRec(c) /\ \A w : NodeValues(b, w)[0] = c
  BY <1>2, <1>3, <1>4, LeafFacts
<1>8. c = v
  BY <1>2, <1>7 DEF LeafRec, NodeRec, RvaLeaf
<1>9. QED
  BY <1>2, <1>6, <1>7, <1>8 DEF RootValue

LEMMA StoredIs ==
  ASSUME NEW R, NEW r, Grows(Leaves, R, r)
  PROVE  /\ Whole(Stored(r), R) /\ \A w : RootValue(Stored(r), w) = NodeValues(r.tree, w)[r.node]
         /\ Len(Stored(r)) > 2 => Stored(r) = r.tree /\ BddRoot(r.tree) = r.node
<1>0. PICK t : t = r.tree
  OBVIOUS
<1>1. /\ Growing(t, R) /\ r.node \in Indices(t) /\ UsedBut(Leaves, t, r.node) /\ Len(Leaves) = 2
      /\ Len(t) \in Nat /\ Len(t) >= 2 /\ Diagram(t, R) /\ Inner(t) = 2 .. Len(t) - 1
      /\ \A w : NodeValues(t, w)[0] = 0 /\ NodeValues(t, w)[1] = 1
  BY <1>0, GrowingFacts DEF Grows, Leaves
<1>2. CASE Len(t) = 2
  <2>1. r.node \in {0, 1}
    BY <1>1, <1>2 DEF Indices
  <2>2. Stored(r) = <<LeafRec(r.node)>>
    BY <1>0, <1>2, <2>1 DEF Stored
  <2>3. Len(Stored(r)) = 1
    BY <2>2
  <2>4. QED
    BY <1>0, <1>1, <2>1, <2>2, <2>3, LeafWhole
<1>3. CASE Len(t) > 2
  <2>1. Stored(r) = t
    <3>1. Len(t) # 2
      <4>1. \A n \in Nat : n > 2 => n # 2
        OBVIOUS
      <4>2. QED
        BY <1>1, <1>3, <4>1
    <3>2. QED
      BY <1>0, <3>1 DEF Stored
  <2>2. \A i \in Inner(t) : NodeAt(t, i).low < i /\ NodeAt(t, i).high < i /\ NodeAt(t, i).low # NodeAt(t, i).high
                            /\ NodeAt(t, i).low \in Nat /\ NodeAt(t, i).high \in Nat
    <3>1. SUFFICES ASSUME NEW i \in Inner(t)
                   PROVE  NodeAt(t, i).low < i /\ NodeAt(t, i).high < i /\ NodeAt(t, i).low # NodeAt(t, i).high
                          /\ NodeAt(t, i).low \in Nat /\ NodeAt(t, i).high \in Nat
      OBVIOUS
    <3>2. QED
      BY <1>1, InnerFacts DEF Indices
  <2>3. r.node = Len(t) - 1
    <3>1. SUFFICES ASSUME r.node # Len(t) - 1
                   PROVE  FALSE
      OBVIOUS
    <3>2. Len(t) - 1 \in Len(Leaves) .. Len(t) - 1
      BY <1>1, <1>3
    <3>3. PICK j \in Inner(t) : Points(t, j, Len(t) - 1)
      BY <1>1, <3>1, <3>2 DEF UsedBut
    <3>4. Len(t) - 1 < j /\ j \in 2 .. Len(t) - 1
      BY <1>1, <2>2, <3>3 DEF Points
    <3>5. QED
      BY <1>1, <3>4
  <2>4. InUse(t)
    <3>1. SUFFICES ASSUME NEW i \in Indices(t), i # BddRoot(t)
                   PROVE  \E j \in Inner(t) : Points(t, j, i)
      BY DEF InUse
    <3>2. CASE i >= 2
      <4>1. i \in Len(Leaves) .. Len(t) - 1 /\ i # r.node
        BY <1>1, <2>3, <3>1, <3>2 DEF Indices, BddRoot
      <4>2. QED
        BY <1>1, <4>1 DEF UsedBut
    <3>3. CASE i < 2
      <4>1. 2 \in Inner(t) /\ i \in {0, 1}
        BY <1>1, <1>3, <3>3 DEF Indices
      <4>2. Points(t, 2, i)
        BY <2>2, <4>1 DEF Points
      <4>3. QED
        BY <4>1, <4>2
    <3>4. QED
      BY <1>1, <3>2, <3>3 DEF Indices
  <2>5. QED
    BY <1>0, <1>1, <1>3, <2>1, <2>3, <2>4 DEF Whole, RootValue, BddRoot
<1>4. Len(t) = 2 \/ Len(t) > 2
  <2>1. PICK n \in Nat : n = Len(t) /\ n >= 2
    BY <1>1
  <2>2. n = 2 \/ n > 2
    BY <2>1
  <2>3. QED
    BY <2>1, <2>2
<1>5. QED
  BY <1>2, <1>3, <1>4

LEMMA CreateIs ==
  ASSUME NEW in, SortedRvas(in.order), NEW R, ToSet(in.order) \subseteq R
  PROVE  /\ Whole(CreateBdd(in), R)
         /\ \A v : Exclusive(v) => RootValue(CreateBdd(in), v) = IF v \cap ToSet(in.order) \in in.sat THEN 1 ELSE 0
<1>1. BuildsAt(in, R, 1)
  BY BuildsAll
<1> DEFINE r == Built(in)[1][{}][Leaves]
<1>2. {} \in SUBSET Below(in.order, 1) /\ Growing(Leaves, R)
  BY LeavesGrow
<1>3. Builds(in, R, 1, {}, Leaves, r)
  BY <1>1, <1>2 DEF BuildsAt
<1> HIDE DEF r
<1>4. Grows(Leaves, R, r)
  BY <1>3 DEF Builds
<1>5. \A v : Exclusive(v) => NodeValues(r.tree, v)[r.node] = IF v \cap ToSet(in.order) \in in.sat THEN 1 ELSE 0
  <2>1. \A v : \A k \in 1 .. 1 - 1 : in.order[k] \in v <=> in.order[k] \in {}
    OBVIOUS
  <2>2. QED
    BY <1>3, <2>1 DEF Builds
<1>6. CreateBdd(in) = Stored(r)
  BY DEF CreateBdd, r
<1>7. QED
  BY <1>4, <1>5, <1>6, StoredIs

-----------------------------------------------------------------------------
(***************************************************************************)
(* _bdd_not.                                                               *)
(***************************************************************************)
LEMMA OtherLeafFacts ==
  /\ \A i \in Nat : OtherLeaf(i) \in Nat /\ OtherLeaf(OtherLeaf(i)) = i
  /\ \A i, j \in Nat : OtherLeaf(i) = OtherLeaf(j) => i = j
  /\ \A i, j \in Nat : j >= 2 /\ i < j => OtherLeaf(i) < j
  /\ \A i \in Nat : i >= 2 => OtherLeaf(i) = i
  /\ \A i \in Nat : i < 2 => OtherLeaf(i) < 2
  /\ OtherLeaf(0) = 1 /\ OtherLeaf(1) = 0
  BY DEF OtherLeaf

(* What the copy holds. *)
LEMMA NotNodes ==
  ASSUME NEW b, NEW R, Growing(b, R)
  PROVE  /\ BddNot(b) \in Seq(BddNode) /\ Len(BddNot(b)) = Len(b)
         /\ \A i \in {0, 1} : NodeAt(BddNot(b), i) = NodeAt(b, i)
         /\ \A i \in Inner(b) : NodeAt(BddNot(b), i)
              = NodeRec(NodeAt(b, i).rva, OtherLeaf(NodeAt(b, i).low), OtherLeaf(NodeAt(b, i).high))
         /\ Inner(BddNot(b)) = Inner(b)
<1>1. /\ b \in Seq(BddNode) /\ Len(b) \in Nat /\ Len(b) >= 2 /\ Diagram(b, R)
      /\ NodeAt(b, 0) = LeafRec(0) /\ NodeAt(b, 1) = LeafRec(1)
      /\ Inner(b) = 2 .. Len(b) - 1
  BY GrowingFacts
<1> DEFINE other(n) == NodeRec(n.rva, OtherLeaf(n.low), OtherLeaf(n.high))
           c == [p \in DOMAIN b |-> IF IsLeaf(b[p]) THEN b[p] ELSE other(b[p])]
<1>2. BddNot(b) = c
  <2>1. BddRoot(b) # 0
    <3>1. \A n \in Nat : n >= 2 => n - 1 # 0
      OBVIOUS
    <3>2. QED
      BY <1>1, <3>1 DEF BddRoot
  <2>2. QED
    BY <2>1 DEF BddNot
<1>3. DOMAIN b = 1 .. Len(b)
  BY <1>1
<1>4. \A i \in Indices(b) : i + 1 \in DOMAIN b /\ NodeAt(c, i) = IF IsLeaf(NodeAt(b, i)) THEN NodeAt(b, i) ELSE other(NodeAt(b, i))
  <2>1. SUFFICES ASSUME NEW i \in Indices(b)
                 PROVE  i + 1 \in DOMAIN b /\ NodeAt(c, i) = IF IsLeaf(NodeAt(b, i)) THEN NodeAt(b, i) ELSE other(NodeAt(b, i))
    OBVIOUS
  <2>2. PICK p \in DOMAIN b : p = i + 1
    BY <1>1, <1>3 DEF Indices
  <2>3. QED
    BY <2>2 DEF NodeAt
<1> HIDE DEF c
<1>5. \A i \in Inner(b) :
        /\ i \in Indices(b) /\ i >= 2 /\ ~IsLeaf(NodeAt(b, i))
        /\ NodeAt(c, i) = NodeRec(NodeAt(b, i).rva, OtherLeaf(NodeAt(b, i).low), OtherLeaf(NodeAt(b, i).high))
        /\ NodeAt(c, i) \in BddNode /\ ~IsLeaf(NodeAt(c, i))
  <2>1. SUFFICES ASSUME NEW i \in Inner(b)
                 PROVE  /\ i \in Indices(b) /\ i >= 2 /\ ~IsLeaf(NodeAt(b, i))
                        /\ NodeAt(c, i) = NodeRec(NodeAt(b, i).rva, OtherLeaf(NodeAt(b, i).low), OtherLeaf(NodeAt(b, i).high))
                        /\ NodeAt(c, i) \in BddNode /\ ~IsLeaf(NodeAt(c, i))
    OBVIOUS
  <2> DEFINE n == NodeAt(b, i)
  <2>2. i \in Indices(b) /\ i >= 2 /\ ~IsLeaf(n)
    BY <1>1, <2>1 DEF Inner
  <2>3. n = NodeRec(n.rva, n.low, n.high) /\ n.rva \in Rva /\ n.low \in Indices(b) /\ n.high \in Indices(b)
    BY <1>1, <2>1, InnerFacts
  <2>4. n.low \in Nat /\ n.high \in Nat
    BY <1>1, <2>3 DEF Indices
  <2>5. OtherLeaf(n.low) \in Nat /\ OtherLeaf(n.high) \in Nat
    BY <2>4, OtherLeafFacts
  <2>6. NodeAt(c, i) = other(n)
    BY <1>4, <2>2
  <2> HIDE DEF n
  <2>8. NodeRec(n.rva, OtherLeaf(n.low), OtherLeaf(n.high)) \in BddNode /\ ~IsLeaf(NodeRec(n.rva, OtherLeaf(n.low), OtherLeaf(n.high)))
    BY <2>3, <2>5 DEF NodeRec, BddNode, IsLeaf, NoNode
  <2>9. QED
    BY <2>2, <2>6, <2>8 DEF n
<1>6. \A i \in Indices(b) : i \notin Inner(b) => NodeAt(c, i) = NodeAt(b, i) /\ IsLeaf(NodeAt(b, i))
  BY <1>4 DEF Inner
<1>7. c \in Seq(BddNode) /\ Len(c) = Len(b)
  <2>1. \A p \in DOMAIN b : c[p] \in BddNode
    <3>1. SUFFICES ASSUME NEW p \in DOMAIN b
                   PROVE  c[p] \in BddNode
      OBVIOUS
    <3>2. PICK i \in Indices(b) : p = i + 1
      <4>1. p - 1 \in Indices(b) /\ p = (p - 1) + 1
        BY <1>1, <1>3 DEF Indices
      <4>2. QED
        BY <4>1
    <3>3. c[p] = NodeAt(c, i) /\ b[p] = NodeAt(b, i) /\ b[p] \in BddNode
      BY <1>1, <3>2 DEF NodeAt
    <3>4. CASE i \in Inner(b)
      BY <1>5, <3>3, <3>4
    <3>5. CASE i \notin Inner(b)
      BY <1>6, <3>3, <3>5
    <3>6. QED
      BY <3>4, <3>5
  <2>2. c \in [1 .. Len(b) -> BddNode]
    BY <1>3, <2>1 DEF c
  <2>3. QED
    BY <1>1, <2>2
<1>8. \A i \in {0, 1} : i \in Indices(b) /\ i \notin Inner(b)
  BY <1>1 DEF Indices
<1>9. Indices(c) = Indices(b)
  BY <1>7 DEF Indices
<1>10. Inner(c) = Inner(b)
  <2>1. \A i \in Indices(b) : ~IsLeaf(NodeAt(c, i)) <=> i \in Inner(b)
    BY <1>5, <1>6
  <2>2. \A i \in Inner(b) : i \in Indices(b)
    BY DEF Inner
  <2>3. QED
    BY <1>9, <2>1, <2>2 DEF Inner
<1>11. QED
  BY <1>2, <1>5, <1>6, <1>7, <1>8, <1>10

LEMMA NotGrows ==
  ASSUME NEW b, NEW R, Growing(b, R), Len(b) > 2, InUse(b)
  PROVE  Growing(BddNot(b), R) /\ InUse(BddNot(b))
<1>1. PICK c : c = BddNot(b)
  OBVIOUS
<1>2. /\ b \in Seq(BddNode) /\ Len(b) \in Nat /\ Diagram(b, R) /\ ChildrenEarlier(b) /\ IsReduced(b) /\ IsOrdered(b)
      /\ NodeAt(b, 0) = LeafRec(0) /\ NodeAt(b, 1) = LeafRec(1)
      /\ Inner(b) = 2 .. Len(b) - 1
  BY GrowingFacts DEF Diagram
<1>3. /\ c \in Seq(BddNode) /\ Len(c) = Len(b)
      /\ NodeAt(c, 0) = LeafRec(0) /\ NodeAt(c, 1) = LeafRec(1)
      /\ \A i \in Inner(b) : NodeAt(c, i) = NodeRec(NodeAt(b, i).rva, OtherLeaf(NodeAt(b, i).low), OtherLeaf(NodeAt(b, i).high))
      /\ Inner(c) = Inner(b)
  BY <1>1, <1>2, NotNodes
<1>4. \A i \in Inner(b) :
        LET n == NodeAt(b, i)
            m == NodeAt(c, i)
        IN  /\ i \in Nat /\ i >= 2 /\ i < Len(b) /\ n.rva \in Rva /\ n.rva \in R
            /\ n = NodeRec(n.rva, n.low, n.high)
            /\ n.low \in Nat /\ n.high \in Nat /\ n.low < i /\ n.high < i /\ n.low # n.high
            /\ m = NodeRec(m.rva, m.low, m.high)
            /\ m.rva = n.rva /\ m.low = OtherLeaf(n.low) /\ m.high = OtherLeaf(n.high)
            /\ m.low \in Nat /\ m.high \in Nat /\ m.low < i /\ m.high < i /\ m.low # m.high
  <2>1. SUFFICES ASSUME NEW i \in Inner(b)
        PROVE LET n == NodeAt(b, i)
                  m == NodeAt(c, i)
              IN  /\ i \in Nat /\ i >= 2 /\ i < Len(b) /\ n.rva \in Rva /\ n.rva \in R
                  /\ n = NodeRec(n.rva, n.low, n.high)
                  /\ n.low \in Nat /\ n.high \in Nat /\ n.low < i /\ n.high < i /\ n.low # n.high
                  /\ m = NodeRec(m.rva, m.low, m.high)
                  /\ m.rva = n.rva /\ m.low = OtherLeaf(n.low) /\ m.high = OtherLeaf(n.high)
                  /\ m.low \in Nat /\ m.high \in Nat /\ m.low < i /\ m.high < i /\ m.low # m.high
    OBVIOUS
  <2>2. PICK n : n = NodeAt(b, i)
    OBVIOUS
  <2>3. /\ i \in Nat /\ i < Len(b) /\ n.rva \in Rva /\ n.rva \in R /\ n = NodeRec(n.rva, n.low, n.high)
        /\ n.low \in Indices(b) /\ n.high \in Indices(b) /\ n.low < i /\ n.high < i /\ n.low # n.high
    BY <1>2, <2>1, <2>2, InnerFacts
  <2>4. i >= 2 /\ n.low \in Nat /\ n.high \in Nat
    BY <1>2, <2>1, <2>3 DEF Indices
  <2>5. PICK l, h : l = OtherLeaf(n.low) /\ h = OtherLeaf(n.high)
    OBVIOUS
  <2>6. l \in Nat /\ h \in Nat /\ l < i /\ h < i /\ l # h
    BY <2>3, <2>4, <2>5, OtherLeafFacts
  <2>7. NodeAt(c, i) = NodeRec(n.rva, l, h)
    BY <1>3, <2>1, <2>2, <2>5
  <2>8. PICK m : m = NodeAt(c, i)
    OBVIOUS
  <2>9. m = NodeRec(m.rva, m.low, m.high) /\ m.rva = n.rva /\ m.low = l /\ m.high = h
    BY <2>7, <2>8 DEF NodeRec
  <2>10. QED
    BY <2>2, <2>3, <2>4, <2>5, <2>6, <2>8, <2>9
<1>5. ChildrenEarlier(c)
  BY <1>3, <1>4 DEF ChildrenEarlier
<1>6. IsReduced(c)
  <2>1. \A i \in Inner(c) : NodeAt(c, i).low # NodeAt(c, i).high
    BY <1>3, <1>4
  <2>2. ASSUME NEW i \in Indices(c), NEW j \in Indices(c), NodeAt(c, i) = NodeAt(c, j)
        PROVE  i = j
    <3>1. i \in Indices(b) /\ j \in Indices(b) /\ (i \in Inner(b) <=> j \in Inner(b))
      BY <1>3, <2>2 DEF Inner, Indices
    <3>2. CASE i \in Inner(b)
      <4>1. NodeAt(b, i).rva = NodeAt(b, j).rva /\ NodeAt(b, i).low = NodeAt(b, j).low /\ NodeAt(b, i).high = NodeAt(b, j).high
        <5>1. OtherLeaf(NodeAt(b, i).low) = OtherLeaf(NodeAt(b, j).low) /\ OtherLeaf(NodeAt(b, i).high) = OtherLeaf(NodeAt(b, j).high)
              /\ NodeAt(b, i).rva = NodeAt(b, j).rva
          BY <1>4, <2>2, <3>1, <3>2
        <5>2. NodeAt(b, i).low \in Nat /\ NodeAt(b, j).low \in Nat /\ NodeAt(b, i).high \in Nat /\ NodeAt(b, j).high \in Nat
          BY <1>4, <3>1, <3>2
        <5>3. QED
          BY <5>1, <5>2, OtherLeafFacts
      <4>2. NodeAt(b, i) = NodeAt(b, j)
        BY <1>4, <3>1, <3>2, <4>1
      <4>3. QED
        BY <1>2, <3>1, <4>2 DEF IsReduced
    <3>3. CASE i \notin Inner(b)
      <4>1. i \in {0, 1} /\ j \in {0, 1}
        BY <1>2, <3>1, <3>3 DEF Indices
      <4>2. LeafRec(0) # LeafRec(1)
        BY DEF LeafRec, NodeRec, RvaLeaf
      <4>3. QED
        BY <1>3, <2>2, <4>1, <4>2
    <3>4. QED
      BY <3>2, <3>3
  <2>3. QED
    BY <2>1, <2>2 DEF IsReduced
<1>7. \A i \in Nat : OtherLeaf(i) \in Inner(b) => OtherLeaf(i) = i
  BY <1>2, OtherLeafFacts
<1>8. IsOrdered(c)
  <2>1. SUFFICES ASSUME NEW i \in Inner(b)
                 PROVE  /\ NodeAt(c, i).low \in Inner(b) => RvaBefore(NodeAt(c, i).rva, NodeAt(c, NodeAt(c, i).low).rva)
                        /\ NodeAt(c, i).high \in Inner(b) => NodeAt(c, i).rva.var < NodeAt(c, NodeAt(c, i).high).rva.var
    BY <1>3 DEF IsOrdered
  <2>2. NodeAt(c, i).rva = NodeAt(b, i).rva
    BY <1>4
  <2>3. ASSUME NodeAt(c, i).low \in Inner(b)
        PROVE  RvaBefore(NodeAt(c, i).rva, NodeAt(c, NodeAt(c, i).low).rva)
    <3>1. NodeAt(c, i).low = NodeAt(b, i).low
      BY <1>4, <1>7, <2>3
    <3>2. RvaBefore(NodeAt(b, i).rva, NodeAt(b, NodeAt(b, i).low).rva)
      BY <1>2, <2>3, <3>1 DEF IsOrdered
    <3>3. NodeAt(c, NodeAt(c, i).low).rva = NodeAt(b, NodeAt(b, i).low).rva
      BY <1>4, <2>3, <3>1
    <3>4. QED
      BY <2>2, <3>2, <3>3
  <2>4. ASSUME NodeAt(c, i).high \in Inner(b)
        PROVE  NodeAt(c, i).rva.var < NodeAt(c, NodeAt(c, i).high).rva.var
    <3>1. NodeAt(c, i).high = NodeAt(b, i).high
      BY <1>4, <1>7, <2>4
    <3>2. NodeAt(b, i).rva.var < NodeAt(b, NodeAt(b, i).high).rva.var
      BY <1>2, <2>4, <3>1 DEF IsOrdered
    <3>3. NodeAt(c, NodeAt(c, i).high).rva = NodeAt(b, NodeAt(b, i).high).rva
      BY <1>4, <2>4, <3>1
    <3>4. QED
      BY <2>2, <3>2, <3>3
  <2>5. QED
    BY <2>3, <2>4
<1>9. Growing(c, R)
  <2>1. c[1] = LeafRec(0) /\ c[2] = LeafRec(1)
    BY <1>3 DEF NodeAt
  <2>2. QED
    BY <1>2, <1>3, <1>4, <1>5, <1>6, <1>8, <2>1 DEF Growing, Diagram
<1>10. InUse(c)
  <2>1. SUFFICES ASSUME NEW i \in Indices(c), i # BddRoot(c)
                 PROVE  \E j \in Inner(c) : Points(c, j, i)
    BY DEF InUse
  <2>2. i \in Nat /\ i # Len(b) - 1 /\ i < Len(b)
    BY <1>2, <1>3, <2>1 DEF Indices, BddRoot
  <2>3. PICK k \in Nat : k = OtherLeaf(i)
    BY <2>2, OtherLeafFacts
  <2>4. k # Len(b) - 1 /\ k < Len(b) /\ OtherLeaf(k) = i
    BY <1>2, <2>2, <2>3, OtherLeafFacts DEF OtherLeaf
  <2>5. PICK j \in Inner(b) : Points(b, j, k)
    BY <1>2, <2>4 DEF InUse, Indices, BddRoot
  <2>6. Points(c, j, i)
    BY <1>4, <2>4, <2>5 DEF Points
  <2>7. QED
    BY <1>3, <2>5, <2>6
<1>11. QED
  BY <1>1, <1>9, <1>10

LEMMA NotValues ==
  ASSUME NEW b, NEW R, Growing(b, R), Len(b) > 2, InUse(b), NEW w
  PROVE  \A i \in Indices(b) : NodeValues(BddNot(b), w)[OtherLeaf(i)] = 1 - NodeValues(b, w)[i]
<1>1. PICK c : c = BddNot(b)
  OBVIOUS
<1>2. /\ Growing(c, R) /\ Diagram(b, R) /\ Diagram(c, R) /\ Len(b) \in Nat /\ Inner(b) = 2 .. Len(b) - 1
      /\ NodeValues(c, w)[0] = 0 /\ NodeValues(c, w)[1] = 1 /\ NodeValues(b, w)[0] = 0 /\ NodeValues(b, w)[1] = 1
  BY <1>1, NotGrows, GrowingFacts
<1>3. /\ Inner(c) = Inner(b)
      /\ \A i \in Inner(b) : NodeAt(c, i) = NodeRec(NodeAt(b, i).rva, OtherLeaf(NodeAt(b, i).low), OtherLeaf(NodeAt(b, i).high))
  BY <1>1, NotNodes
<1> DEFINE T == {i \in Nat : i \in Indices(b) => NodeValues(c, w)[OtherLeaf(i)] = 1 - NodeValues(b, w)[i]}
<1>4. ASSUME NEW i \in Nat, \A j \in Nat : j < i => j \in T
      PROVE  i \in T
  <2>1. SUFFICES ASSUME i \in Indices(b)
                 PROVE  NodeValues(c, w)[OtherLeaf(i)] = 1 - NodeValues(b, w)[i]
    OBVIOUS
  <2>2. CASE i = 0 \/ i = 1
    BY <1>2, <2>2, OtherLeafFacts
  <2>3. CASE i >= 2
    <3>1. i \in Inner(b) /\ i \in Inner(c) /\ OtherLeaf(i) = i
      BY <1>2, <1>3, <2>1, <2>3, OtherLeafFacts DEF Indices
    <3>2. PICK n : n = NodeAt(b, i)
      OBVIOUS
    <3>3. /\ n.low \in Indices(b) /\ n.high \in Indices(b) /\ n.low < i /\ n.high < i
          /\ NodeValues(b, w)[i] = IF n.rva \in w THEN NodeValues(b, w)[n.high] ELSE NodeValues(b, w)[n.low]
      BY <1>2, <3>1, <3>2, InnerFacts
    <3>4. n.low \in Nat /\ n.high \in Nat
      BY <1>2, <3>3 DEF Indices
    <3>5. /\ NodeValues(c, w)[OtherLeaf(n.low)] = 1 - NodeValues(b, w)[n.low]
          /\ NodeValues(c, w)[OtherLeaf(n.high)] = 1 - NodeValues(b, w)[n.high]
      BY <1>4, <3>3, <3>4
    <3>6. NodeValues(c, w)[i] = IF n.rva \in w THEN NodeValues(c, w)[OtherLeaf(n.high)] ELSE NodeValues(c, w)[OtherLeaf(n.low)]
      <4>1. PICK m : m = NodeAt(c, i)
        OBVIOUS
      <4>2. NodeValues(c, w)[i] = IF m.rva \in w THEN NodeValues(c, w)[m.high] ELSE NodeValues(c, w)[m.low]
        BY <1>2, <3>1, <4>1, InnerFacts
      <4>3. m.rva = n.rva /\ m.low = OtherLeaf(n.low) /\ m.high = OtherLeaf(n.high)
        BY <1>3, <3>1, <3>2, <4>1 DEF NodeRec
      <4>4. QED
        BY <4>2, <4>3
    <3>7. QED
      BY <3>1, <3>3, <3>5, <3>6
  <2>4. QED
    BY <2>2, <2>3
<1> HIDE DEF T
<1>5. \A i \in Nat : i \in T
  BY <1>4, Strongly
<1>6. \A i \in Indices(b) : i \in Nat
  BY <1>2 DEF Indices
<1>7. QED
  BY <1>1, <1>5, <1>6 DEF T

(* Negation keeps a diagram whole and turns its value over in every world.  *)
LEMMA NotIs ==
  ASSUME NEW b, NEW R, Whole(b, R)
  PROVE  Whole(BddNot(b), R) /\ \A w : RootValue(BddNot(b), w) = 1 - RootValue(b, w)
<1>1. ASSUME NEW v \in {0, 1}, b = <<LeafRec(v)>>
      PROVE  Whole(BddNot(b), R) /\ \A w : RootValue(BddNot(b), w) = 1 - RootValue(b, w)
  <2>1. Len(b) = 1 /\ b[1] = LeafRec(v)
    BY <1>1
  <2>2. BddRoot(b) = 0 /\ NodeAt(b, 0) = LeafRec(v)
    BY <2>1 DEF BddRoot, NodeAt
  <2>3. LeafBoolValue(LeafRec(v)) = v
    BY DEF LeafBoolValue, LeafRec, NodeRec, RvaLeaf
  <2>4. BddNot(b) = <<LeafRec(1 - v)>> /\ 1 - v \in {0, 1}
    BY <2>2, <2>3 DEF BddNot
  <2>5. QED
    BY <1>1, <2>4, LeafWhole
<1>2. CASE Growing(b, R) /\ Len(b) > 2
  <2>1. InUse(b) /\ Len(b) \in Nat /\ Len(BddNot(b)) = Len(b)
    BY <1>2, GrowingFacts, NotNodes DEF Whole
  <2>2. Growing(BddNot(b), R) /\ InUse(BddNot(b))
    BY <1>2, <2>1, NotGrows
  <2>3. Whole(BddNot(b), R)
    BY <1>2, <2>1, <2>2, GrowingFacts DEF Whole
  <2>4. ASSUME NEW w
        PROVE  RootValue(BddNot(b), w) = 1 - RootValue(b, w)
    <3>1. PICK i \in Indices(b) : i = BddRoot(b) /\ i \in Nat /\ i >= 2
      BY <1>2, <2>1 DEF Indices, BddRoot
    <3>2. OtherLeaf(i) = i /\ BddRoot(BddNot(b)) = i
      BY <2>1, <3>1, OtherLeafFacts DEF BddRoot
    <3>3. NodeValues(BddNot(b), w)[OtherLeaf(i)] = 1 - NodeValues(b, w)[i]
      BY <1>2, <2>1, NotValues
    <3>4. QED
      BY <3>1, <3>2, <3>3 DEF RootValue
  <2>5. QED
    BY <2>3, <2>4
<1>3. QED
  BY <1>1, <1>2 DEF Whole

-----------------------------------------------------------------------------
(***************************************************************************)
(* The recursion of _bdd_restrict.                                         *)
(***************************************************************************)
Fixes(r, rva) == rva.var = r.var /\ r.val \in {AnyVal, rva.val}

RestrictCall(b, r, g, u, t) ==
  LET node == NodeAt(b, u)
  IN  IF IsLeaf(node) THEN Result(t, u)
      ELSE IF node.rva.var = r.var /\ r.val \in {AnyVal, node.rva.val}
      THEN g[BranchFor(node, r.torf)][t]
      ELSE IF r.lowFirst
      THEN LET l == g[node.low][t]
               h == g[node.high][l.tree]
           IN  Mk(h.tree, node.rva, l.node, h.node)
      ELSE LET h == g[node.high][t]
               l == g[node.low][h.tree]
           IN  Mk(l.tree, node.rva, l.node, h.node)

RestrictStep(b, r, g, u) == [t \in Seq(BddNode) |-> RestrictCall(b, r, g, u, t)]

LEMMA RestrictedIs ==
  ASSUME NEW b, NEW R, Diagram(b, R), NEW r
  PROVE  \A u \in Indices(b) : Restricted(b, r)[u] = RestrictStep(b, r, Restricted(b, r), u)
<1> DEFINE D == Indices(b)
           V == [Seq(BddNode) -> Res]
           rank == [u \in D |-> u]
           S == [q \in [D -> V] \X D |-> RestrictStep(b, r, q[1], q[2])]
<1>1. Len(b) \in Nat /\ \A u \in D : u \in Nat
  BY LenProperties DEF Diagram, Indices
<1>2. \A u \in D : ~IsLeaf(NodeAt(b, u)) =>
         /\ NodeAt(b, u).low \in D /\ NodeAt(b, u).high \in D /\ NodeAt(b, u).low < u /\ NodeAt(b, u).high < u
         /\ NodeAt(b, u).rva \in Rva
  <2>1. SUFFICES ASSUME NEW u \in D, ~IsLeaf(NodeAt(b, u))
                 PROVE  /\ NodeAt(b, u).low \in D /\ NodeAt(b, u).high \in D
                        /\ NodeAt(b, u).low < u /\ NodeAt(b, u).high < u /\ NodeAt(b, u).rva \in Rva
    OBVIOUS
  <2>2. u \in Inner(b)
    BY <2>1 DEF Inner
  <2>3. QED
    BY <2>2, InnerFacts
<1>3. ASSUME NEW g \in [D -> V], NEW u \in D
      PROVE  RestrictStep(b, r, g, u) \in V
  <2>1. ASSUME NEW t \in Seq(BddNode)
        PROVE  RestrictCall(b, r, g, u, t) \in Res
    <3>1. PICK node : node = NodeAt(b, u)
      OBVIOUS
    <3>2. CASE IsLeaf(node)
      BY <1>1, <3>1, <3>2 DEF RestrictCall, Result, Res
    <3>3. ASSUME NEW i \in D, NEW s \in Seq(BddNode)
          PROVE  g[i][s] \in Res /\ g[i][s].tree \in Seq(BddNode) /\ g[i][s].node \in Nat
      <4>1. g[i] \in [Seq(BddNode) -> Res]
        <5> HIDE DEF D
        <5>1. QED
          OBVIOUS
      <4>2. g[i][s] \in Res
        BY <4>1
      <4>3. QED
        BY <4>2 DEF Res
    <3>4. CASE ~IsLeaf(node)
      <4>1. node.low \in D /\ node.high \in D /\ node.rva \in Rva
        BY <1>2, <3>1, <3>4
      <4>2. CASE node.rva.var = r.var /\ r.val \in {AnyVal, node.rva.val}
        <5>1. PICK i \in D : i = BranchFor(node, r.torf)
          BY <4>1 DEF BranchFor
        <5>2. RestrictCall(b, r, g, u, t) = g[i][t]
          BY <3>1, <3>4, <4>2, <5>1 DEF RestrictCall
        <5>3. QED
          BY <3>3, <5>2
      <4>3. CASE ~(node.rva.var = r.var /\ r.val \in {AnyVal, node.rva.val}) /\ r.lowFirst
        <5>1. PICK l : l = g[node.low][t] /\ l.tree \in Seq(BddNode) /\ l.node \in Nat
          BY <3>3, <4>1
        <5>2. PICK h : h = g[node.high][l.tree] /\ h.tree \in Seq(BddNode) /\ h.node \in Nat
          BY <3>3, <4>1, <5>1
        <5>5. PICK x \in Rva, lo \in Nat, hi \in Nat, s \in Seq(BddNode) :
                x = node.rva /\ lo = l.node /\ hi = h.node /\ s = h.tree
          BY <4>1, <5>1, <5>2
        <5>6. Mk(s, x, lo, hi) \in Res
          BY MkTypes
        <5>3. RestrictCall(b, r, g, u, t) = Mk(h.tree, node.rva, l.node, h.node)
          BY <3>1, <3>4, <4>3, <5>1, <5>2 DEF RestrictCall
        <5>4. QED
          BY <5>3, <5>5, <5>6
      <4>4. CASE ~(node.rva.var = r.var /\ r.val \in {AnyVal, node.rva.val}) /\ ~r.lowFirst
        <5>1. PICK h : h = g[node.high][t] /\ h.tree \in Seq(BddNode) /\ h.node \in Nat
          BY <3>3, <4>1
        <5>2. PICK l : l = g[node.low][h.tree] /\ l.tree \in Seq(BddNode) /\ l.node \in Nat
          BY <3>3, <4>1, <5>1
        <5>5. PICK x \in Rva, lo \in Nat, hi \in Nat, s \in Seq(BddNode) :
                x = node.rva /\ lo = l.node /\ hi = h.node /\ s = l.tree
          BY <4>1, <5>1, <5>2
        <5>6. Mk(s, x, lo, hi) \in Res
          BY MkTypes
        <5>3. RestrictCall(b, r, g, u, t) = Mk(l.tree, node.rva, l.node, h.node)
          BY <3>1, <3>4, <4>4, <5>1, <5>2 DEF RestrictCall
        <5>4. QED
          BY <5>3, <5>5, <5>6
      <4>5. QED
        BY <4>2, <4>3, <4>4
    <3>5. QED
      BY <3>2, <3>4
  <2> HIDE DEF D
  <2>2. QED
    BY <2>1 DEF RestrictStep
<1>4. V # {}
  <2>1. Result(<<>>, 0) \in Res
    BY DEF Res, Result
  <2>2. [t \in Seq(BddNode) |-> Result(<<>>, 0)] \in V
    BY <2>1
  <2>3. QED
    BY <2>2
<1>5. rank \in [D -> Nat]
  BY <1>1
<1>6. \A g \in [D -> V], u \in D : S[<<g, u>>] = RestrictStep(b, r, g, u)
  <2> HIDE DEF D, V
  <2>1. QED
    OBVIOUS
<1>7. S \in [[D -> V] \X D -> V]
  <2> HIDE DEF D, V
  <2>1. QED
    BY <1>3
<1>8. ASSUME NEW u \in D, NEW g, NEW h, \A y \in D : y < u => g[y] = h[y]
      PROVE  RestrictStep(b, r, g, u) = RestrictStep(b, r, h, u)
  <2>1. PICK node : node = NodeAt(b, u)
    OBVIOUS
  <2>2. CASE IsLeaf(node)
    BY <2>1, <2>2 DEF RestrictStep, RestrictCall
  <2>3. CASE ~IsLeaf(node)
    <3>1. g[node.low] = h[node.low] /\ g[node.high] = h[node.high]
      <4> HIDE DEF D
      <4>1. QED
        BY <1>2, <1>8, <2>1, <2>3
    <3>2. g[BranchFor(node, r.torf)] = h[BranchFor(node, r.torf)]
      BY <3>1 DEF BranchFor
    <3>3. ASSUME NEW t \in Seq(BddNode)
          PROVE  RestrictCall(b, r, g, u, t) = RestrictCall(b, r, h, u, t)
      BY <2>1, <2>3, <3>1, <3>2, Zenon DEF RestrictCall
    <3>4. QED
      BY <3>3, Zenon DEF RestrictStep
  <2>4. QED
    BY <2>2, <2>3
<1>9. \A u \in D : rank[u] = u
  OBVIOUS
<1>10. Descends(D, V, S, rank)
  <2> HIDE DEF D, V, rank, S
  <2>1. SUFFICES ASSUME NEW u \in D, NEW g \in [D -> V], NEW h \in [D -> V],
                        \A y \in D : rank[y] < rank[u] => g[y] = h[y]
                 PROVE  S[<<g, u>>] = S[<<h, u>>]
    BY DEF Descends
  <2>2. RestrictStep(b, r, g, u) = RestrictStep(b, r, h, u)
    BY <1>8, <1>9, <2>1
  <2>3. QED
    BY <1>6, <2>2
<1>11. PICK f \in [D -> V] : \A u \in D : f[u] = RestrictStep(b, r, f, u)
  <2>1. Solvable(D, V, S)
    <3> HIDE DEF D, V, rank, S
    <3>1. QED
      BY <1>4, <1>5, <1>7, <1>10, Recursion
  <2> HIDE DEF D, V, S
  <2>2. QED
    BY <1>6, <2>1 DEF Solvable
<1>12. f = [u \in D |-> RestrictStep(b, r, f, u)]
  <2> HIDE DEF D, V
  <2>1. QED
    BY <1>11, Zenon
<1>13. Restricted(b, r) = [u \in D |-> RestrictStep(b, r, Restricted(b, r), u)]
  BY <1>12, Zenon DEF Restricted, RestrictStep, RestrictCall
<1>14. QED
  <2> DEFINE F == Restricted(b, r)
  <2>1. F = [u \in D |-> RestrictStep(b, r, F, u)]
    BY <1>13
  <2> HIDE DEF D, F
  <2>2. \A u \in D : F[u] = RestrictStep(b, r, F, u)
    BY <2>1
  <2>3. QED
    BY <2>2 DEF F, D

LEMMA RestrictedAt ==
  ASSUME NEW b, NEW R, Diagram(b, R), NEW r, NEW u, u \in Indices(b), NEW t, t \in Seq(BddNode)
  PROVE  Restricted(b, r)[u][t] = RestrictCall(b, r, Restricted(b, r), u, t)
<1> DEFINE f == Restricted(b, r)
<1>1. f[u] = RestrictStep(b, r, f, u)
  BY RestrictedIs
<1> HIDE DEF f
<1>2. f[u][t] = RestrictCall(b, r, f, u, t)
  BY <1>1 DEF RestrictStep
<1>3. QED
  BY <1>2 DEF f

(* x is v with the restriction r made, as far as the rvas of R go.          *)
Substituted(R, r, v, x) ==
  /\ \A y \in R : Fixes(r, y) => IF r.torf THEN y \in x ELSE y \notin x
  /\ \A y \in R : ~Fixes(r, y) => (y \in x <=> y \in v)

(* q is what _bdd_restrict returns for node u of b on the vector t: a node  *)
(* that does not test before u, and has in v the value of u under r.        *)
Restricts(b, R, r, u, t, q) ==
  /\ Grows(t, R, q)
  /\ q.node \in Inner(q.tree) =>
       /\ u \in Inner(b)
       /\ NodeAt(q.tree, q.node).rva = NodeAt(b, u).rva \/ RvaBefore(NodeAt(b, u).rva, NodeAt(q.tree, q.node).rva)
  /\ \A v, x : Substituted(R, r, v, x) => NodeValues(q.tree, v)[q.node] = NodeValues(b, x)[u]

RestrictsAt(b, R, r, u) == \A t : Growing(t, R) => Restricts(b, R, r, u, t, Restricted(b, r)[u][t])

LEMMA BeforeFacts ==
  ASSUME NEW x, x \in Rva, NEW y, y \in Rva, NEW z, z \in Rva
  PROVE  /\ RvaBefore(x, y) /\ (z = y \/ RvaBefore(y, z)) => RvaBefore(x, z)
         /\ x.var < y.var /\ (z = y \/ RvaBefore(y, z)) => x.var < z.var
         /\ x.var < y.var => RvaBefore(x, y)
         /\ ~RvaBefore(x, x) /\ (x = y \/ RvaBefore(x, y) \/ RvaBefore(y, x))
  BY DEF RvaBefore, Rva, VarName

(* What the two children of a node give tests after the node.               *)
LEMMA RestrictedChild ==
  ASSUME NEW b, NEW R, Diagram(b, R), NEW r, NEW u \in Inner(b), NEW i, NEW t, NEW q, Restricts(b, R, r, i, t, q)
  PROVE  /\ i = NodeAt(b, u).low => TestsAfter(q.tree, NodeAt(b, u).rva, q.node)
         /\ i = NodeAt(b, u).high => VarAfter(q.tree, NodeAt(b, u).rva, q.node)
         /\ i \in {NodeAt(b, u).low, NodeAt(b, u).high} => TestsAfter(q.tree, NodeAt(b, u).rva, q.node)
<1>1. PICK x : x = NodeAt(b, u).rva /\ x \in Rva
  BY InnerFacts
<1>2. SUFFICES ASSUME q.node \in Inner(q.tree), i = NodeAt(b, u).low \/ i = NodeAt(b, u).high
               PROVE  /\ i = NodeAt(b, u).low => RvaBefore(x, NodeAt(q.tree, q.node).rva)
                      /\ i = NodeAt(b, u).high => x.var < NodeAt(q.tree, q.node).rva.var
                      /\ RvaBefore(x, NodeAt(q.tree, q.node).rva)
  BY <1>1 DEF TestsAfter, VarAfter
<1>3. PICK z : z = NodeAt(q.tree, q.node).rva /\ z \in Rva
  <2>1. Diagram(q.tree, R)
    BY GrowingFacts DEF Restricts, Grows
  <2>2. QED
    BY <1>2, <2>1, InnerFacts
<1>4. PICK y : y = NodeAt(b, i).rva /\ i \in Inner(b) /\ y \in Rva /\ (z = y \/ RvaBefore(y, z))
  BY <1>2, <1>3, InnerFacts DEF Restricts
<1>5. /\ i = NodeAt(b, u).low => RvaBefore(x, y)
      /\ i = NodeAt(b, u).high => x.var < y.var
  BY <1>1, <1>4 DEF Diagram, IsOrdered
<1>6. QED
  BY <1>1, <1>2, <1>3, <1>4, <1>5, BeforeFacts

(* A node that is not restricted, made of what its children give.           *)
LEMMA RestrictJoin ==
  ASSUME NEW b, NEW R, Growing(b, R), NEW r, NEW u \in Inner(b), ~Fixes(r, NodeAt(b, u).rva),
         NEW t, Growing(t, R), NEW i, NEW j, NEW a, NEW c, Restricts(b, R, r, i, t, a), Restricts(b, R, r, j, a.tree, c),
         NEW low, NEW high,
         \/ i = NodeAt(b, u).low /\ j = NodeAt(b, u).high /\ low = a.node /\ high = c.node
         \/ i = NodeAt(b, u).high /\ j = NodeAt(b, u).low /\ low = c.node /\ high = a.node
  PROVE  Restricts(b, R, r, u, t, Mk(c.tree, NodeAt(b, u).rva, low, high))
<1>1. PICK rva : rva = NodeAt(b, u).rva /\ rva \in Rva /\ rva \in R
  <2>1. Diagram(b, R)
    BY GrowingFacts
  <2>2. QED
    BY <2>1, InnerFacts
<1>2. PICK m : m = Mk(c.tree, rva, low, high)
  OBVIOUS
<1>3. /\ Diagram(b, R) /\ Grows(t, R, a) /\ Growing(a.tree, R) /\ Len(a.tree) \in Nat
      /\ Grows(a.tree, R, c) /\ Growing(c.tree, R) /\ Len(c.tree) \in Nat /\ Kept(a.tree, c.tree)
      /\ a.node \in Indices(a.tree) /\ c.node \in Indices(c.tree)
  BY GrowingFacts DEF Restricts, Grows
<1>4. TestsAfter(c.tree, rva, low) /\ VarAfter(c.tree, rva, high)
  <2>1. /\ i = NodeAt(b, u).low => TestsAfter(a.tree, rva, a.node)
        /\ i = NodeAt(b, u).high => VarAfter(a.tree, rva, a.node)
    BY <1>1, <1>3, RestrictedChild
  <2>2. /\ j = NodeAt(b, u).low => TestsAfter(c.tree, rva, c.node)
        /\ j = NodeAt(b, u).high => VarAfter(c.tree, rva, c.node)
    BY <1>1, <1>3, RestrictedChild
  <2>3. /\ TestsAfter(a.tree, rva, a.node) => TestsAfter(c.tree, rva, a.node)
        /\ VarAfter(a.tree, rva, a.node) => VarAfter(c.tree, rva, a.node)
    BY <1>3, KeptIs
  <2>4. QED
    BY <2>1, <2>2, <2>3
<1>5. /\ Grows(t, R, m) /\ Kept(c.tree, m.tree)
      /\ low \in Indices(c.tree) /\ high \in Indices(c.tree)
      /\ \/ low = high /\ m.tree = c.tree /\ m.node = high
         \/ low # high /\ m.node \in Inner(m.tree) /\ NodeAt(m.tree, m.node) = NodeRec(rva, low, high)
  BY <1>1, <1>2, <1>3, <1>4, JoinGrows
<1>6. m.node \in Inner(m.tree) =>
        NodeAt(m.tree, m.node).rva = rva \/ RvaBefore(rva, NodeAt(m.tree, m.node).rva)
  <2>1. CASE low = high
    <3>1. m.tree = c.tree /\ m.node = high
      BY <1>5, <2>1
    <3>2. TestsAfter(c.tree, rva, high)
      BY <1>4, <2>1
    <3>3. QED
      BY <3>1, <3>2 DEF TestsAfter
  <2>2. CASE low # high
    BY <1>5, <2>2 DEF NodeRec
  <2>3. QED
    BY <2>1, <2>2
<1>7. ASSUME NEW v, NEW x, Substituted(R, r, v, x)
      PROVE  NodeValues(m.tree, v)[m.node] = NodeValues(b, x)[u]
  <2>1. Growing(m.tree, R)
    BY <1>5 DEF Grows
  <2>2. NodeValues(m.tree, v)[m.node] = IF rva \in v THEN NodeValues(c.tree, v)[high] ELSE NodeValues(c.tree, v)[low]
    BY <1>3, <1>5, <2>1, JoinValue
  <2>3. /\ NodeValues(c.tree, v)[a.node] = NodeValues(a.tree, v)[a.node]
        /\ NodeValues(a.tree, v)[a.node] = NodeValues(b, x)[i]
        /\ NodeValues(c.tree, v)[c.node] = NodeValues(b, x)[j]
    <3>1. NodeValues(c.tree, v)[a.node] = NodeValues(a.tree, v)[a.node]
      BY <1>3, KeptValues
    <3>2. QED
      BY <1>7, <3>1 DEF Restricts
  <2>4. NodeValues(b, x)[u] = IF rva \in x THEN NodeValues(b, x)[NodeAt(b, u).high] ELSE NodeValues(b, x)[NodeAt(b, u).low]
    BY <1>1, <1>3, InnerFacts
  <2>5. rva \in x <=> rva \in v
    BY <1>1, <1>7 DEF Substituted
  <2>6. QED
    BY <2>2, <2>3, <2>4, <2>5
<1>8. Restricts(b, R, r, u, t, m)
  BY <1>1, <1>5, <1>6, <1>7 DEF Restricts
<1>9. QED
  BY <1>1, <1>2, <1>8

LEMMA RestrictDescends ==
  ASSUME NEW b, NEW R, Growing(b, R), NEW r, NEW u, u \in Indices(b),
         \A i \in Indices(b) : i < u => RestrictsAt(b, R, r, i)
  PROVE  RestrictsAt(b, R, r, u)
<1>1. SUFFICES ASSUME NEW t, Growing(t, R)
               PROVE  Restricts(b, R, r, u, t, Restricted(b, r)[u][t])
  BY DEF RestrictsAt
<1>2. /\ Diagram(b, R) /\ Len(b) \in Nat /\ Inner(b) = 2 .. Len(b) - 1
      /\ \A w : NodeValues(b, w)[0] = 0 /\ NodeValues(b, w)[1] = 1
      /\ t \in Seq(BddNode) /\ 0 \in Indices(t) /\ 1 \in Indices(t) /\ 0 \notin Inner(t) /\ 1 \notin Inner(t)
      /\ \A w : NodeValues(t, w)[0] = 0 /\ NodeValues(t, w)[1] = 1
  BY <1>1, GrowingFacts
<1>3. PICK q : q = Restricted(b, r)[u][t]
  OBVIOUS
<1>4. q = RestrictCall(b, r, Restricted(b, r), u, t)
  BY <1>2, <1>3, RestrictedAt
<1>5. CASE u \notin Inner(b)
  <2>1. u \in {0, 1}
    BY <1>2, <1>5 DEF Indices
  <2>2. q = Result(t, u)
    BY <1>4, <1>5 DEF RestrictCall, Inner
  <2>3. q.tree = t /\ q.node = u
    BY <2>2 DEF Result
  <2>4. Grows(t, R, q)
    BY <1>1, <1>2, <2>1, <2>2, SameGrows
  <2>5. Restricts(b, R, r, u, t, q)
    BY <1>2, <2>1, <2>3, <2>4 DEF Restricts
  <2>6. QED
    BY <1>3, <2>5
<1>6. CASE u \in Inner(b)
  <2>1. PICK node : node = NodeAt(b, u)
    OBVIOUS
  <2>2. /\ ~IsLeaf(node) /\ node.rva \in Rva /\ node.rva \in R
        /\ node.low \in Indices(b) /\ node.high \in Indices(b) /\ node.low < u /\ node.high < u
        /\ \A w : NodeValues(b, w)[u] = IF node.rva \in w THEN NodeValues(b, w)[node.high] ELSE NodeValues(b, w)[node.low]
    <3>1. ~IsLeaf(node)
      BY <1>6, <2>1 DEF Inner
    <3>2. QED
      BY <1>2, <1>6, <2>1, <3>1, InnerFacts
  <2>3. \A s : Growing(s, R) => /\ Restricts(b, R, r, node.low, s, Restricted(b, r)[node.low][s])
                                /\ Restricts(b, R, r, node.high, s, Restricted(b, r)[node.high][s])
    BY <2>2 DEF RestrictsAt
  <2>4. CASE Fixes(r, node.rva)
    <3>1. PICK i : i = BranchFor(node, r.torf) /\ i \in {node.low, node.high}
      BY DEF BranchFor
    <3>2. q = Restricted(b, r)[i][t]
      BY <1>4, <2>1, <2>2, <2>4, <3>1 DEF RestrictCall, Fixes
    <3>3. Restricts(b, R, r, i, t, q)
      BY <1>1, <2>3, <3>1, <3>2
    <3>4. ASSUME q.node \in Inner(q.tree)
          PROVE  RvaBefore(NodeAt(b, u).rva, NodeAt(q.tree, q.node).rva)
      BY <1>2, <1>6, <2>1, <3>1, <3>3, <3>4, RestrictedChild DEF TestsAfter
    <3>5. ASSUME NEW v, NEW x, Substituted(R, r, v, x)
          PROVE  NodeValues(q.tree, v)[q.node] = NodeValues(b, x)[u]
      <4>1. IF r.torf THEN node.rva \in x ELSE node.rva \notin x
        BY <2>2, <2>4, <3>5 DEF Substituted
      <4>2. NodeValues(b, x)[u] = NodeValues(b, x)[i]
        BY <2>2, <3>1, <4>1 DEF BranchFor
      <4>3. QED
        BY <3>3, <3>5, <4>2 DEF Restricts
    <3>6. Restricts(b, R, r, u, t, q)
      BY <1>6, <3>3, <3>4, <3>5 DEF Restricts
    <3>7. QED
      BY <1>3, <3>6
  <2>5. CASE ~Fixes(r, node.rva) /\ r.lowFirst
    <3>1. PICK l : l = Restricted(b, r)[node.low][t]
      OBVIOUS
    <3>2. Restricts(b, R, r, node.low, t, l) /\ Growing(l.tree, R)
      BY <1>1, <2>3, <3>1 DEF Restricts, Grows
    <3>3. PICK h : h = Restricted(b, r)[node.high][l.tree]
      OBVIOUS
    <3>4. Restricts(b, R, r, node.high, l.tree, h)
      BY <2>3, <3>2, <3>3
    <3>5. PICK low, high : low = l.node /\ high = h.node
      OBVIOUS
    <3>6. q = Mk(h.tree, node.rva, low, high)
      BY <1>4, <2>1, <2>2, <2>5, <3>1, <3>3, <3>5 DEF RestrictCall, Fixes
    <3>7. Restricts(b, R, r, u, t, Mk(h.tree, NodeAt(b, u).rva, low, high))
      BY <1>1, <1>6, <2>1, <2>5, <3>2, <3>4, <3>5, RestrictJoin
    <3>8. QED
      BY <1>3, <2>1, <3>6, <3>7
  <2>6. CASE ~Fixes(r, node.rva) /\ ~r.lowFirst
    <3>1. PICK h : h = Restricted(b, r)[node.high][t]
      OBVIOUS
    <3>2. Restricts(b, R, r, node.high, t, h) /\ Growing(h.tree, R)
      BY <1>1, <2>3, <3>1 DEF Restricts, Grows
    <3>3. PICK l : l = Restricted(b, r)[node.low][h.tree]
      OBVIOUS
    <3>4. Restricts(b, R, r, node.low, h.tree, l)
      BY <2>3, <3>2, <3>3
    <3>5. PICK low, high : low = l.node /\ high = h.node
      OBVIOUS
    <3>6. q = Mk(l.tree, node.rva, low, high)
      BY <1>4, <2>1, <2>2, <2>6, <3>1, <3>3, <3>5 DEF RestrictCall, Fixes
    <3>7. Restricts(b, R, r, u, t, Mk(l.tree, NodeAt(b, u).rva, low, high))
      BY <1>1, <1>6, <2>1, <2>6, <3>2, <3>4, <3>5, RestrictJoin
    <3>8. QED
      BY <1>3, <2>1, <3>6, <3>7
  <2>7. QED
    BY <2>4, <2>5, <2>6
<1>7. QED
  BY <1>5, <1>6

LEMMA RestrictsAll ==
  ASSUME NEW b, NEW R, Growing(b, R), NEW r, NEW u \in Indices(b)
  PROVE  RestrictsAt(b, R, r, u)
<1>1. Len(b) \in Nat
  BY GrowingFacts
<1>2. \A i \in Indices(b) : i \in Nat
  BY <1>1 DEF Indices
<1> DEFINE T == {i \in Nat : i \in Indices(b) => RestrictsAt(b, R, r, i)}
<1>3. ASSUME NEW i \in Nat, \A j \in Nat : j < i => j \in T
      PROVE  i \in T
  <2>1. ASSUME i \in Indices(b)
        PROVE  RestrictsAt(b, R, r, i)
    <3>1. \A j \in Indices(b) : j < i => RestrictsAt(b, R, r, j)
      BY <1>2, <1>3
    <3>2. QED
      BY <2>1, <3>1, RestrictDescends
  <2>2. QED
    BY <2>1
<1> HIDE DEF T
<1>4. u \in T
  BY <1>2, <1>3, Strongly
<1>5. QED
  BY <1>4 DEF T

(* bdd_restrict keeps a diagram whole; one that has inner nodes gets in     *)
(* each world the value it had in the world with the restriction made.      *)
LEMMA RestrictIs ==
  ASSUME NEW b, NEW R, Whole(b, R), NEW r
  PROVE  /\ Whole(BddRestrict(b, r), R)
         /\ Len(b) > 2 => \A v, x : Substituted(R, r, v, x) => RootValue(BddRestrict(b, r), v) = RootValue(b, x)
         /\ ~(Len(b) > 2) => BddRestrict(b, r) = <<LeafRec(0)>>
<1>1. PICK u : u = BddRoot(b)
  OBVIOUS
<1>2. PICK q : q = Restricted(b, r)[u][Leaves]
  OBVIOUS
<1>3. BddRestrict(b, r) = Stored(q) /\ Growing(Leaves, R) /\ Leaves \in Seq(BddNode)
  BY <1>1, <1>2, LeavesGrow, GrowingFacts DEF BddRestrict
<1>4. ASSUME NEW v \in {0, 1}, b = <<LeafRec(v)>>
      PROVE  Whole(BddRestrict(b, r), R) /\ BddRestrict(b, r) = <<LeafRec(0)>> /\ ~(Len(b) > 2)
  <2>1. Len(b) = 1 /\ b[1] = LeafRec(v) /\ Diagram(b, R)
    BY <1>4 DEF Whole
  <2>2. u = 0 /\ NodeAt(b, u) = LeafRec(v) /\ u \in Indices(b)
    BY <1>1, <2>1 DEF BddRoot, NodeAt, Indices
  <2>3. IsLeaf(LeafRec(v))
    BY DEF IsLeaf, LeafRec, NodeRec
  <2>4. q = RestrictCall(b, r, Restricted(b, r), u, Leaves)
    BY <1>2, <1>3, <2>1, <2>2, RestrictedAt
  <2>5. q = Result(Leaves, 0)
    BY <2>2, <2>3, <2>4 DEF RestrictCall
  <2>6. Stored(q) = <<LeafRec(0)>>
    BY <2>5 DEF Stored, Result, Leaves
  <2>7. QED
    BY <1>3, <2>1, <2>6, LeafWhole
<1>5. ASSUME Growing(b, R), Len(b) > 2
      PROVE  /\ Whole(BddRestrict(b, r), R)
             /\ \A v, x : Substituted(R, r, v, x) => RootValue(BddRestrict(b, r), v) = RootValue(b, x)
  <2>1. Len(b) \in Nat /\ u \in Indices(b) /\ u \in Nat
    <3>1. Len(b) \in Nat
      BY <1>5, GrowingFacts
    <3>2. QED
      BY <1>1, <1>5, <3>1 DEF BddRoot, Indices
  <2>4. RestrictsAt(b, R, r, u)
    BY <1>5, <2>1, RestrictsAll
  <2>5. Restricts(b, R, r, u, Leaves, q)
    BY <1>2, <1>3, <2>4 DEF RestrictsAt
  <2>6. Grows(Leaves, R, q)
    BY <2>5 DEF Restricts
  <2>7. Whole(Stored(q), R) /\ \A w : RootValue(Stored(q), w) = NodeValues(q.tree, w)[q.node]
    BY <2>6, StoredIs
  <2>8. \A w : RootValue(b, w) = NodeValues(b, w)[u]
    BY <1>1 DEF RootValue
  <2>9. QED
    BY <1>3, <2>5, <2>7, <2>8 DEF Restricts
<1>6. QED
  BY <1>4, <1>5 DEF Whole

-----------------------------------------------------------------------------
(***************************************************************************)
(* The rvas of a text in their order.                                      *)
(***************************************************************************)
LEMMA RvaOrderIs ==
  ASSUME NEW S, S \subseteq Rva, IsFiniteSet(S)
  PROVE  SortedRvas(RvaOrder(S)) /\ ToSet(RvaOrder(S)) = S
<1> DEFINE n == Cardinality(S)
           Before(x) == {y \in S : RvaBefore(y, x)}
           count == [x \in S |-> Cardinality(Before(x))]
           o == RvaOrder(S)
<1>1. n \in Nat
  BY FS_CardinalityType
<1>2. \A x \in S : x \in Rva /\ IsFiniteSet(Before(x)) /\ x \notin Before(x) /\ count[x] \in Nat
  <2>1. SUFFICES ASSUME NEW x \in S
                 PROVE  x \in Rva /\ IsFiniteSet(Before(x)) /\ x \notin Before(x) /\ count[x] \in Nat
    OBVIOUS
  <2>2. IsFiniteSet(Before(x))
    BY FS_Subset
  <2>3. x \notin Before(x)
    BY BeforeFacts
  <2>4. count[x] \in Nat
    BY <2>2, FS_CardinalityType
  <2>5. QED
    BY <2>2, <2>3, <2>4
<1>3. ASSUME NEW x \in S, NEW T \in SUBSET S, Before(x) \subseteq T, x \in T
      PROVE  count[x] < Cardinality(T)
  <2>1. IsFiniteSet(Before(x) \cup {x}) /\ Cardinality(Before(x) \cup {x}) = count[x] + 1
    BY <1>2, FS_AddElement
  <2>2. IsFiniteSet(T) /\ Before(x) \cup {x} \in SUBSET T
    BY <1>3, FS_Subset
  <2>3. Cardinality(Before(x) \cup {x}) <= Cardinality(T) /\ Cardinality(T) \in Nat
    BY <2>2, FS_Subset, FS_CardinalityType
  <2> HIDE DEF Before, count
  <2>4. QED
    BY <1>2, <2>1, <2>3
<1>4. \A x, y \in S : RvaBefore(x, y) => count[x] < count[y]
  <2>1. SUFFICES ASSUME NEW x \in S, NEW y \in S, RvaBefore(x, y)
                 PROVE  count[x] < count[y]
    OBVIOUS
  <2>2. Before(x) \subseteq Before(y) /\ x \in Before(y)
    BY <2>1, BeforeFacts
  <2>3. count[x] < Cardinality(Before(y))
    BY <1>3, <2>2
  <2>4. QED
    BY <2>3
<1>5. \A x \in S : count[x] \in 0 .. n - 1
  <2>1. SUFFICES ASSUME NEW x \in S
                 PROVE  count[x] \in 0 .. n - 1
    OBVIOUS
  <2>2. count[x] < n
    BY <1>3
  <2>3. \A a, k \in Nat : a < k => a \in 0 .. k - 1
    OBVIOUS
  <2> HIDE DEF count, n
  <2>4. QED
    BY <1>1, <1>2, <2>2, <2>3
<1>6. \A x, y \in S : x = y \/ RvaBefore(x, y) \/ RvaBefore(y, x)
  BY BeforeFacts
<1>7. \A x, y \in S : count[x] = count[y] => x = y
  <2>1. \A k \in Nat : ~(k < k)
    OBVIOUS
  <2> HIDE DEF count
  <2>2. SUFFICES ASSUME NEW x \in S, NEW y \in S, count[x] = count[y]
                 PROVE  x = y
    OBVIOUS
  <2>3. PICK k \in Nat : k = count[x] /\ k = count[y]
    BY <1>2, <2>2
  <2>4. ~(count[x] < count[y]) /\ ~(count[y] < count[x])
    BY <2>1, <2>3
  <2>5. QED
    BY <1>4, <1>6, <2>4
<1>8. count \in Surjection(S, 0 .. n - 1)
  <2>1. count \in Injection(S, 0 .. n - 1)
    <3>1. count \in [S -> 0 .. n - 1]
      BY <1>5
    <3> HIDE DEF count
    <3>2. QED
      BY <1>7, <3>1 DEF Injection, IsInjective
  <2>2. IsFiniteSet(0 .. n - 1) /\ Cardinality(0 .. n - 1) = n
    <3> HIDE DEF n
    <3>1. n - 1 \in Int /\ (IF 0 > n - 1 THEN 0 ELSE n - 1 - 0 + 1) = n
      BY <1>1
    <3>2. QED
      BY <3>1, FS_Interval
  <2>3. QED
    <3> HIDE DEF count
    <3>1. QED
      BY <2>1, <2>2, FS_Injection
<1>9. \A k \in 0 .. n - 1 : \E x \in S : count[x] = k
  <2> HIDE DEF count, n
  <2>1. QED
    BY <1>8 DEF Surjection
<1>10. o = [p \in 1 .. n |-> CHOOSE x \in S : Cardinality(Before(x)) = p - 1]
  BY DEF RvaOrder
<1>11. \A p \in 1 .. n : o[p] \in S /\ count[o[p]] = p - 1
  <2>1. SUFFICES ASSUME NEW p \in 1 .. n
                 PROVE  o[p] \in S /\ count[o[p]] = p - 1
    OBVIOUS
  <2>2. p - 1 \in 0 .. n - 1
    BY <1>1
  <2>3. PICK x \in S : Cardinality(Before(x)) = p - 1
    <3>1. PICK x \in S : count[x] = p - 1
      BY <1>9, <2>2
    <3>2. QED
      BY <3>1
  <2>4. o[p] = CHOOSE y \in S : Cardinality(Before(y)) = p - 1
    <3> HIDE DEF o, Before, n
    <3>1. QED
      BY <1>10
  <2>5. o[p] \in S /\ Cardinality(Before(o[p])) = p - 1
    <3> HIDE DEF o, Before
    <3>1. QED
      BY <2>3, <2>4
  <2>6. QED
    BY <2>5
<1>12. DOMAIN o = 1 .. n
  BY <1>10
<1>13. o \in Seq(Rva) /\ Len(o) = n
  <2>1. o \in [1 .. n -> Rva]
    <3>1. \A p \in 1 .. n : o[p] \in Rva
      BY <1>2, <1>11
    <3>2. o = [p \in 1 .. n |-> o[p]]
      BY <1>10
    <3> HIDE DEF o, n
    <3>3. QED
      BY <3>1, <3>2
  <2> HIDE DEF o, n
  <2>2. QED
    BY <1>1, <2>1
<1>14. SortedRvas(o)
  <2>1. SUFFICES ASSUME NEW p \in 1 .. n, NEW q \in 1 .. n, p < q
                 PROVE  RvaBefore(o[p], o[q])
    <3> HIDE DEF o, n
    <3>1. QED
      BY <1>12, <1>13 DEF SortedRvas
  <2>2. PICK x \in S, y \in S : x = o[p] /\ y = o[q] /\ count[x] = p - 1 /\ count[y] = q - 1
    BY <1>11
  <2>3. ~(count[y] < count[x]) /\ count[x] # count[y]
    <3> HIDE DEF count
    <3>1. QED
      BY <1>1, <2>1, <2>2
  <2>4. RvaBefore(x, y)
    <3> HIDE DEF count
    <3>1. QED
      BY <1>4, <1>6, <2>3
  <2>5. QED
    BY <2>2, <2>4
<1>15. ToSet(o) = S
  <2>1. ASSUME NEW x \in S
        PROVE  \E p \in 1 .. n : o[p] = x
    <3>1. PICK k \in 0 .. n - 1 : k = count[x]
      BY <1>5
    <3>2. k + 1 \in 1 .. n /\ k + 1 - 1 = k
      <4> HIDE DEF n
      <4>1. QED
        BY <1>1
    <3>3. o[k + 1] \in S /\ count[o[k + 1]] = count[x]
      BY <1>11, <3>1, <3>2
    <3>4. o[k + 1] = x
      <4> HIDE DEF count, o
      <4>1. QED
        BY <1>7, <3>3
    <3>5. QED
      BY <3>2, <3>4
  <2>2. \A p \in 1 .. n : o[p] \in S
    BY <1>11
  <2> HIDE DEF o, n
  <2>3. QED
    BY <1>12, <2>1, <2>2 DEF ToSet
<1>16. QED
  BY <1>14, <1>15

(* A diagram names finitely many rvas. *)
LEMMA RvasInIs ==
  ASSUME NEW b, NEW R, Diagram(b, R)
  PROVE  RvasIn(b) \subseteq Rva /\ RvasIn(b) \subseteq R /\ IsFiniteSet(RvasIn(b))
<1>1. \A i \in Inner(b) : NodeAt(b, i).rva \in Rva /\ NodeAt(b, i).rva \in R
  BY InnerFacts
<1>2. Len(b) \in Nat
  BY LenProperties DEF Diagram
<1>3. IsFiniteSet(Inner(b))
  <2>1. Len(b) - 1 \in Int /\ 0 \in Int
    BY <1>2
  <2>2. IsFiniteSet(0 .. Len(b) - 1)
    BY <2>1, FS_Interval
  <2>3. Inner(b) \in SUBSET (0 .. Len(b) - 1)
    BY DEF Inner, Indices
  <2>4. QED
    BY <2>2, <2>3, FS_Subset
<1> DEFINE f == [i \in Inner(b) |-> NodeAt(b, i).rva]
<1>4. f \in Surjection(Inner(b), RvasIn(b))
  BY DEF Surjection, RvasIn
<1> HIDE DEF f
<1>5. IsFiniteSet(RvasIn(b))
  BY <1>3, <1>4, FS_Surjection
<1>6. QED
  BY <1>1, <1>5 DEF RvasIn

(* What is read from a text with the rvas of two diagrams.                  *)
LEMMA ReadIs ==
  ASSUME NEW l, NEW r, NEW R, Diagram(l, R), Diagram(r, R), NEW op, ByText(op, l, r) # NoBdd
  PROVE  Whole(ByText(op, l, r), R)
<1> DEFINE S == RvasIn(l) \cup RvasIn(r)
           text == [w \in SUBSET S |-> Between(InParens(Text(l, w)), op, InParens(Text(r, w)))]
           in == [order |-> RvaOrder(S), sat |-> {w \in SUBSET S : Evaluate(text[w]) = 1}]
<1>1. S \subseteq Rva /\ S \subseteq R /\ IsFiniteSet(S)
  BY RvasInIs, FS_Union
<1>2. SortedRvas(RvaOrder(S)) /\ ToSet(RvaOrder(S)) = S
  BY <1>1, RvaOrderIs
<1>3. ByText(op, l, r) = CreateFrom(S, text)
  BY DEF ByText
<1>4. ByText(op, l, r) = CreateBdd(in)
  BY <1>3 DEF CreateFrom
<1>5. in.order = RvaOrder(S)
  OBVIOUS
<1> HIDE DEF in, S
<1>6. Whole(CreateBdd(in), R)
  BY <1>1, <1>2, <1>5, CreateIs
<1>7. QED
  BY <1>4, <1>6

-----------------------------------------------------------------------------
(***************************************************************************)
(* The statements.                                                         *)
(***************************************************************************)
LEMMA LiteralRvas ==
  ASSUME NEW e \in Literals
  PROVE  SortedRvas(e.order) /\ ToSet(e.order) \subseteq Rvas
<1>1. SortedRvas(e.order)
  BY LiteralsAssumption DEF SortedRvas
<1>2. ToSet(e.order) = {e.order[p] : p \in DOMAIN e.order}
  BY DEF ToSet
<1>3. QED
  BY <1>1, <1>2 DEF Rvas

LEMMA CreatedWhole ==
  ASSUME NEW b \in Created
  PROVE  Whole(b, Rvas)
<1>1. PICK e \in Literals : b = CreateBdd(e)
  BY DEF Created
<1>2. QED
  BY <1>1, LiteralRvas, CreateIs

WholeInv == Whole(stored, Rvas) /\ Whole(literal, Rvas)

LEMMA WholeHolds == Spec => []WholeInv
<1>1. Init => WholeInv
  BY CreatedWhole DEF Init, WholeInv
<1>2. WholeInv /\ [Next]_vars => WholeInv'
  <2>1. SUFFICES ASSUME WholeInv, [Next]_vars
                 PROVE  WholeInv'
    OBVIOUS
  <2>2. /\ Whole(stored, Rvas) /\ Whole(literal, Rvas) /\ Diagram(stored, Rvas) /\ Diagram(literal, Rvas)
    BY <2>1 DEF WholeInv, Whole
  <2>3. CASE Read
    BY <2>2, <2>3, CreatedWhole DEF Read, WholeInv
  <2>4. CASE Store
    BY <2>2, <2>4 DEF Store, WholeInv
  <2>5. CASE Negate
    BY <2>2, <2>5, NotIs DEF Negate, WholeInv
  <2>6. CASE Combine
    <3>1. PICK op \in {"&", "|"} : \/ ByText(op, stored, literal) # NoBdd /\ stored' = ByText(op, stored, literal)
                                   \/ stored' = stored
      BY <2>6 DEF Combine
    <3>2. literal' = literal
      BY <2>6 DEF Combine
    <3>3. Whole(stored', Rvas)
      BY <2>2, <3>1, ReadIs
    <3>4. QED
      BY <2>2, <3>2, <3>3 DEF WholeInv
  <2>7. CASE Assign
    <3>1. PICK r \in Restrictions : stored' = BddRestrict(stored, r) /\ literal' = literal
      BY <2>7 DEF Assign
    <3>2. Whole(stored', Rvas)
      BY <2>2, <3>1, RestrictIs
    <3>3. QED
      BY <2>2, <3>1, <3>2 DEF WholeInv
  <2>8. CASE UNCHANGED vars
    BY <2>2, <2>8 DEF vars, WholeInv
  <2>9. QED
    BY <2>1, <2>3, <2>4, <2>5, <2>6, <2>7, <2>8 DEF Next
<1>3. QED
  BY <1>1, <1>2, PTL DEF Spec

(* Whatever the statements, a stored diagram has children before parents,   *)
(* no test in vain or twice, tests in the rva order and only one value of a *)
(* variable true, and every node but the last in use.                       *)
THEOREM StoredWellFormed == Spec => []WellFormed
<1>1. WholeInv => WellFormed
  <2>1. SUFFICES ASSUME Whole(stored, Rvas)
                 PROVE  WellFormed
    BY DEF WholeInv
  <2>2. Diagram(stored, Rvas) /\ InUse(stored) /\ stored \in Seq(BddNode)
    BY <2>1 DEF Whole, Diagram
  <2>3. stored \in Seq(Node)
    <3>1. ASSUME NEW p \in DOMAIN stored
          PROVE  stored[p] \in Node
      <4>1. p \in 1 .. Len(stored) /\ Len(stored) \in Nat /\ stored[p] \in BddNode
        BY <2>2
      <4>2. PICK i \in Indices(stored) : p = i + 1
        <5>1. p - 1 \in Indices(stored) /\ p = (p - 1) + 1
          BY <4>1 DEF Indices
        <5>2. QED
          BY <5>1
      <4>3. stored[p] = NodeAt(stored, i)
        BY <4>2 DEF NodeAt
      <4>4. CASE i \in Inner(stored)
        <5>1. NodeAt(stored, i).rva \in Rvas
          BY <2>2, <4>4 DEF Diagram
        <5>2. stored[p] \notin {LeafRec(0), LeafRec(1)}
          BY <4>3, <4>4 DEF Inner, IsLeaf, LeafRec, NodeRec
        <5>3. PICK n \in [rva: Rva, low: Nat, high: Nat] : n = stored[p] /\ n.rva \in Rvas
          BY <4>1, <4>3, <5>1, <5>2 DEF BddNode
        <5>4. n \in [rva: Rvas, low: Nat, high: Nat]
          BY <5>3
        <5>5. QED
          BY <5>3, <5>4 DEF Node
      <4>5. CASE i \notin Inner(stored)
        <5>1. PICK v \in {0, 1} : NodeAt(stored, i) = LeafRec(v)
          BY <2>2, <4>5, LeafFacts
        <5>2. QED
          BY <4>3, <5>1 DEF Node
      <4>6. QED
        BY <4>4, <4>5
    <3>2. stored \in [1 .. Len(stored) -> Node] /\ Len(stored) \in Nat
      BY <2>2, <3>1
    <3>3. QED
      BY <3>2
  <2>4. QED
    BY <2>2, <2>3 DEF WellFormed, Diagram
<1>2. QED
  BY <1>1, WholeHolds, PTL

-----------------------------------------------------------------------------
(***************************************************************************)
(* The questions.                                                          *)
(***************************************************************************)
DependsOn(b, R, x, i) ==
  \E w \in SUBSET R : NodeValues(b, w \cup {x})[i] # NodeValues(b, w \ {x})[i]

(* Worlds that agree on the tests give the same values. *)
LEMMA UntestedIgnored ==
  ASSUME NEW b, NEW R, Diagram(b, R), NEW w, NEW u, \A x \in RvasIn(b) : x \in w <=> x \in u
  PROVE  \A i \in Indices(b) : NodeValues(b, w)[i] = NodeValues(b, u)[i]
<1>1. Len(b) \in Nat
  BY LenProperties DEF Diagram
<1> DEFINE T == {i \in Nat : i \in Indices(b) => NodeValues(b, w)[i] = NodeValues(b, u)[i]}
<1>2. ASSUME NEW i \in Nat, \A j \in Nat : j < i => j \in T
      PROVE  i \in T
  <2>1. SUFFICES ASSUME i \in Indices(b)
                 PROVE  NodeValues(b, w)[i] = NodeValues(b, u)[i]
    OBVIOUS
  <2>2. CASE i \notin Inner(b)
    BY <2>1, <2>2, LeafFacts
  <2>3. CASE i \in Inner(b)
    <3>1. PICK n : n = NodeAt(b, i)
      OBVIOUS
    <3>2. /\ n.low \in Indices(b) /\ n.high \in Indices(b) /\ n.low < i /\ n.high < i
          /\ \A v : NodeValues(b, v)[i] = IF n.rva \in v THEN NodeValues(b, v)[n.high] ELSE NodeValues(b, v)[n.low]
      BY <2>3, <3>1, InnerFacts
    <3>3. n.low \in Nat /\ n.high \in Nat
      BY <1>1, <3>2 DEF Indices
    <3>4. NodeValues(b, w)[n.low] = NodeValues(b, u)[n.low] /\ NodeValues(b, w)[n.high] = NodeValues(b, u)[n.high]
      BY <1>2, <3>2, <3>3
    <3>5. n.rva \in w <=> n.rva \in u
      BY <2>3, <3>1 DEF RvasIn
    <3>6. QED
      BY <3>2, <3>4, <3>5
  <2>4. QED
    BY <2>2, <2>3
<1> HIDE DEF T
<1>3. \A i \in Nat : i \in T
  BY <1>2, Strongly
<1>4. \A i \in Indices(b) : i \in Nat
  BY <1>1 DEF Indices
<1>5. QED
  BY <1>3, <1>4 DEF T

(* A node depends on what it tests. *)
LEMMA TestedMatters ==
  ASSUME NEW b, NEW R, Diagram(b, R), NEW i \in Inner(b)
  PROVE  DependsOn(b, R, NodeAt(b, i).rva, i)
<1>1. PICK n : n = NodeAt(b, i)
  OBVIOUS
<1>2. PICK x : x = n.rva
  OBVIOUS
<1>3. /\ x \in Rva /\ n.low \in Indices(b) /\ n.high \in Indices(b) /\ n.low # n.high
      /\ \A v : NodeValues(b, v)[i] = IF x \in v THEN NodeValues(b, v)[n.high] ELSE NodeValues(b, v)[n.low]
  BY <1>1, <1>2, InnerFacts
<1>4. PICK w \in SUBSET R : NodeValues(b, w)[n.low] # NodeValues(b, w)[n.high]
  BY <1>3, FunctionsDistinct
<1>5. TestsAfter(b, x, n.low) /\ TestsAfter(b, x, n.high)
  BY <1>1, <1>2, <1>3, ChildrenTestAfter
<1>6. PICK w1, w0 : w1 = w \cup {x} /\ w0 = w \ {x}
  OBVIOUS
<1>7. SameBut(x, w, w1) /\ SameBut(x, w, w0) /\ x \in w1 /\ x \notin w0
  BY <1>6 DEF SameBut
<1>8. NodeValues(b, w)[n.high] = NodeValues(b, w1)[n.high] /\ NodeValues(b, w)[n.low] = NodeValues(b, w0)[n.low]
  BY <1>3, <1>5, <1>7, ValueIgnores
<1>9. NodeValues(b, w1)[i] # NodeValues(b, w0)[i]
  BY <1>3, <1>4, <1>7, <1>8
<1>10. QED
  BY <1>1, <1>2, <1>6, <1>9 DEF DependsOn

(* A node depends on what a child of it depends on and does not test later. *)
LEMMA ParentDepends ==
  ASSUME NEW b, NEW R, Diagram(b, R), NEW x, x \in Rva, NEW i \in Inner(b), DependsOn(b, R, x, i),
         x = NodeAt(b, i).rva \/ RvaBefore(NodeAt(b, i).rva, x), NEW j \in Inner(b), Points(b, j, i)
  PROVE  DependsOn(b, R, x, j) /\ RvaBefore(NodeAt(b, j).rva, x)
<1>1. PICK n : n = NodeAt(b, j)
  OBVIOUS
<1>2. PICK y : y = n.rva
  OBVIOUS
<1>3. /\ y \in Rva /\ y \in R
      /\ \A v : NodeValues(b, v)[j] = IF y \in v THEN NodeValues(b, v)[n.high] ELSE NodeValues(b, v)[n.low]
  BY <1>1, <1>2, InnerFacts
<1>4. TestsAfter(b, y, i) /\ i \in Indices(b)
  BY <1>1, <1>2, <1>3, ChildrenTestAfter, InnerFacts DEF Points
<1>5. RvaBefore(y, x) /\ y # x
  <2>1. PICK z : z = NodeAt(b, i).rva /\ z \in Rva
    BY InnerFacts
  <2>2. RvaBefore(y, z)
    BY <1>4, <2>1 DEF TestsAfter
  <2>3. RvaBefore(y, x)
    BY <1>3, <2>1, <2>2, BeforeFacts
  <2>4. QED
    BY <1>3, <2>3, BeforeFacts
<1>6. PICK w \in SUBSET R : NodeValues(b, w \cup {x})[i] # NodeValues(b, w \ {x})[i]
  BY DEF DependsOn
<1>7. PICK u \in SUBSET R : /\ \A v : v # y => (v \in u <=> v \in w)
                            /\ \A v : NodeValues(b, v)[j] = NodeValues(b, v)[i] \/ ~(y \in v <=> y \in u)
  <2>1. CASE n.high = i
    <3>1. w \cup {y} \in SUBSET R
      BY <1>3
    <3>2. QED
      BY <1>3, <2>1, <3>1
  <2>2. CASE n.low = i
    <3>1. w \ {y} \in SUBSET R
      OBVIOUS
    <3>2. QED
      BY <1>3, <2>2, <3>1
  <2>3. QED
    BY <1>1, <2>1, <2>2 DEF Points
<1>8. PICK w1, w0, u1, u0 : w1 = w \cup {x} /\ w0 = w \ {x} /\ u1 = u \cup {x} /\ u0 = u \ {x}
  OBVIOUS
<1>9. SameBut(y, w1, u1) /\ SameBut(y, w0, u0) /\ (y \in u1 <=> y \in u) /\ (y \in u0 <=> y \in u)
  BY <1>5, <1>7, <1>8 DEF SameBut
<1>10. NodeValues(b, w1)[i] = NodeValues(b, u1)[i] /\ NodeValues(b, w0)[i] = NodeValues(b, u0)[i]
  BY <1>3, <1>4, <1>9, ValueIgnores
<1>11. NodeValues(b, u1)[j] = NodeValues(b, u1)[i] /\ NodeValues(b, u0)[j] = NodeValues(b, u0)[i]
  BY <1>7, <1>9
<1>12. NodeValues(b, u1)[j] # NodeValues(b, u0)[j]
  BY <1>6, <1>8, <1>10, <1>11
<1>13. QED
  BY <1>1, <1>2, <1>5, <1>8, <1>12 DEF DependsOn

(* So the root does, on all that is tested, when no node is out of use.     *)
LEMMA RootDepends ==
  ASSUME NEW b, NEW R, Growing(b, R), Len(b) > 2, InUse(b), NEW i \in Inner(b)
  PROVE  DependsOn(b, R, NodeAt(b, i).rva, BddRoot(b))
<1>1. /\ Diagram(b, R) /\ Len(b) \in Nat /\ Inner(b) = 2 .. Len(b) - 1 /\ i \in Indices(b)
  BY GrowingFacts, InnerFacts
<1>2. PICK x : x = NodeAt(b, i).rva /\ x \in Rva
  BY <1>1, InnerFacts
<1>3. PICK root \in Nat : root = BddRoot(b) /\ root = Len(b) - 1
  BY <1>1 DEF BddRoot
<1> DEFINE Q(j) == j \in Inner(b) /\ (x = NodeAt(b, j).rva \/ RvaBefore(NodeAt(b, j).rva, x)) /\ DependsOn(b, R, x, j)
           T == {k \in Nat : Q(root - k) => DependsOn(b, R, x, root)}
<1>4. ASSUME NEW k \in Nat, \A m \in Nat : m < k => m \in T
      PROVE  k \in T
  <2>1. SUFFICES ASSUME Q(root - k)
                 PROVE  DependsOn(b, R, x, root)
    OBVIOUS
  <2>2. PICK j \in Inner(b) : j = root - k /\ Q(j)
    BY <2>1
  <2>3. CASE k = 0
    <3>1. j = root
      BY <1>3, <2>2, <2>3
    <3>2. QED
      BY <2>2, <3>1
  <2>4. CASE k # 0
    <3>1. j \in Indices(b) /\ j # root /\ j \in Nat
      BY <1>1, <1>3, <2>2, <2>4 DEF Indices
    <3>2. PICK p \in Inner(b) : Points(b, p, j)
      BY <1>3, <3>1 DEF InUse
    <3>3. DependsOn(b, R, x, p) /\ RvaBefore(NodeAt(b, p).rva, x)
      BY <1>1, <1>2, <2>2, <3>2, ParentDepends
    <3>4. j < p /\ p \in Nat /\ p <= root
      BY <1>1, <1>3, <3>2, InnerFacts DEF Points
    <3>5. PICK m \in Nat : m = root - p /\ m < k /\ root - m = p
      <4>1. \A a, c, d, e \in Nat : e = a - c /\ e < d /\ d <= a => a - d \in Nat /\ a - d < c /\ a - (a - d) = d
        OBVIOUS
      <4>2. root - p \in Nat /\ root - p < k /\ root - (root - p) = p
        <5> HIDE DEF Q
        <5>1. QED
          BY <1>3, <2>2, <3>1, <3>4, <4>1
      <4>3. QED
        BY <4>2
    <3>6. m \in T
      BY <1>4, <3>5
    <3>7. Q(root - m)
      BY <3>2, <3>3, <3>5
    <3>8. QED
      BY <3>6, <3>7
  <2>5. QED
    BY <2>3, <2>4
<1> HIDE DEF T
<1>5. \A k \in Nat : k \in T
  BY <1>4, Strongly
<1>6. PICK k \in Nat : root - k = i
  <2>1. i \in Nat /\ i <= root
    BY <1>1, <1>3 DEF Indices
  <2>2. root - i \in Nat /\ root - (root - i) = i
    BY <1>3, <2>1
  <2>3. QED
    BY <2>2
<1>7. Q(root - k)
  BY <1>1, <1>2, <1>6, TestedMatters
<1>8. k \in T
  BY <1>5
<1>9. QED
  BY <1>2, <1>3, <1>7, <1>8 DEF T

(* contains finds the rvas the diagram's value depends on.                  *)
LEMMA ContainsIs ==
  ASSUME NEW b, NEW R, Whole(b, R), NEW x \in Rva
  PROVE  BddContains(b, x.var, x.val) <=> DependsOn(b, R, x, BddRoot(b))
<1>1. Diagram(b, R) /\ InUse(b) /\ Len(b) \in Nat
  BY LenProperties DEF Whole, Diagram
<1>2. BddContains(b, x.var, x.val) <=> \E i \in Inner(b) : NodeAt(b, i).rva = x
  <2>1. x.val # AnyVal
    BY DEF Rva, AnyVal
  <2>2. \A i \in Inner(b) : NodeAt(b, i).rva \in Rva
    BY <1>1, InnerFacts
  <2>3. \A y \in Rva : (y.var = x.var /\ x.val \in {AnyVal, y.val}) <=> y = x
    BY <2>1 DEF Rva
  <2>4. QED
    BY <2>2, <2>3 DEF BddContains
<1>3. ASSUME NEW i \in Inner(b), NodeAt(b, i).rva = x
      PROVE  DependsOn(b, R, x, BddRoot(b))
  <2>1. Growing(b, R) /\ Len(b) > 2
    <3>1. ASSUME NEW v \in {0, 1}, b = <<LeafRec(v)>>
          PROVE  FALSE
      <4>1. Len(b) = 1 /\ b[1] = LeafRec(v)
        BY <3>1
      <4>2. Indices(b) = {0} /\ NodeAt(b, 0) = LeafRec(v)
        BY <4>1 DEF Indices, NodeAt
      <4>3. QED
        BY <4>2 DEF Inner, IsLeaf, LeafRec, NodeRec
    <3>2. QED
      BY <3>1 DEF Whole
  <2>2. QED
    BY <1>1, <1>3, <2>1, RootDepends
<1>4. ASSUME \A i \in Inner(b) : NodeAt(b, i).rva # x
      PROVE  ~DependsOn(b, R, x, BddRoot(b))
  <2>1. BddRoot(b) \in Indices(b)
    <3>1. Len(b) >= 1
      <4>1. ASSUME NEW v \in {0, 1}, b = <<LeafRec(v)>>
            PROVE  Len(b) = 1
        BY <4>1
      <4>2. QED
        BY <1>1, <4>1 DEF Whole
    <3>2. QED
      BY <1>1, <3>1 DEF BddRoot, Indices
  <2>2. SUFFICES ASSUME NEW w \in SUBSET R
                 PROVE  NodeValues(b, w \cup {x})[BddRoot(b)] = NodeValues(b, w \ {x})[BddRoot(b)]
    BY DEF DependsOn
  <2>3. PICK w1, w0 : w1 = w \cup {x} /\ w0 = w \ {x} /\ SameBut(x, w1, w0)
    BY DEF SameBut
  <2>4. NodeValues(b, w1)[BddRoot(b)] = NodeValues(b, w0)[BddRoot(b)]
    <3>1. x \notin RvasIn(b)
      BY <1>4 DEF RvasIn
    <3>2. \A y \in RvasIn(b) : y \in w1 <=> y \in w0
      BY <2>3, <3>1 DEF SameBut
    <3>3. QED
      BY <1>1, <2>1, <3>2, UntestedIgnored
  <2>5. QED
    BY <2>3, <2>4
<1>5. QED
  BY <1>2, <1>3, <1>4

(* A test takes both values in worlds that make only rvas true from its own *)
(* on.                                                                      *)
Decides(b, R, i, c) ==
  \E w \in SUBSET R : /\ Exclusive(w) /\ NodeValues(b, w)[i] = c
                      /\ \A y \in w : y \in Rva /\ (y = NodeAt(b, i).rva \/ RvaBefore(NodeAt(b, i).rva, y))

LEMMA TestDecides ==
  ASSUME NEW b, NEW R, Growing(b, R), NEW i \in Inner(b),
         \A j \in Inner(b) : j < i => Decides(b, R, j, 0) /\ Decides(b, R, j, 1)
  PROVE  Decides(b, R, i, 0) /\ Decides(b, R, i, 1)
<1>1. /\ Diagram(b, R) /\ Len(b) \in Nat /\ Inner(b) = 2 .. Len(b) - 1
      /\ \A w : NodeValues(b, w)[0] = 0 /\ NodeValues(b, w)[1] = 1
  BY GrowingFacts
<1>2. PICK n : n = NodeAt(b, i)
  OBVIOUS
<1>3. PICK x : x = n.rva
  OBVIOUS
<1>4. /\ i \in Indices(b) /\ x \in Rva /\ x \in R /\ n.low # n.high
      /\ n.low \in Indices(b) /\ n.high \in Indices(b) /\ n.low < i /\ n.high < i
      /\ \A v : NodeValues(b, v)[i] = IF x \in v THEN NodeValues(b, v)[n.high] ELSE NodeValues(b, v)[n.low]
  BY <1>1, <1>2, <1>3, InnerFacts
<1>5. \A j \in Indices(b) : j \in Inner(b) \/ j = 0 \/ j = 1
  BY <1>1 DEF Indices
<1>6. SUFFICES ASSUME NEW c \in {0, 1}
               PROVE  Decides(b, R, i, c)
  OBVIOUS
<1>7. CASE n.low \in Inner(b)
  <2>1. PICK z : z = NodeAt(b, n.low).rva /\ z \in Rva
    BY <1>1, <1>7, InnerFacts
  <2>2. RvaBefore(x, z)
    BY <1>1, <1>2, <1>3, <1>7, <2>1 DEF Diagram, IsOrdered
  <2>3. PICK w \in SUBSET R : /\ Exclusive(w) /\ NodeValues(b, w)[n.low] = c
                              /\ \A y \in w : y \in Rva /\ (y = z \/ RvaBefore(z, y))
    BY <1>4, <1>6, <1>7, <2>1 DEF Decides
  <2>4. \A y \in w : y \in Rva /\ RvaBefore(x, y)
    BY <1>4, <2>1, <2>2, <2>3, BeforeFacts
  <2>5. x \notin w
    BY <1>4, <2>4, BeforeFacts
  <2>6. NodeValues(b, w)[i] = c
    BY <1>4, <2>3, <2>5
  <2>7. QED
    BY <1>2, <1>3, <2>3, <2>4, <2>6 DEF Decides
<1>8. CASE (n.low = 0 \/ n.low = 1) /\ n.low = c
  <2>1. NodeValues(b, {})[i] = c
    BY <1>1, <1>4, <1>8
  <2>2. Exclusive({})
    BY DEF Exclusive
  <2>3. QED
    BY <2>1, <2>2 DEF Decides
<1>9. CASE (n.low = 0 \/ n.low = 1) /\ n.low # c
  <2>1. CASE n.high \in Inner(b)
    <3>1. PICK z : z = NodeAt(b, n.high).rva /\ z \in Rva
      BY <1>1, <2>1, InnerFacts
    <3>2. x.var < z.var
      BY <1>1, <1>2, <1>3, <2>1, <3>1 DEF Diagram, IsOrdered
    <3>3. PICK w \in SUBSET R : /\ Exclusive(w) /\ NodeValues(b, w)[n.high] = c
                                /\ \A y \in w : y \in Rva /\ (y = z \/ RvaBefore(z, y))
      BY <1>4, <1>6, <2>1, <3>1 DEF Decides
    <3>4. \A y \in w : y \in Rva /\ x.var < y.var /\ RvaBefore(x, y)
      BY <1>4, <3>1, <3>2, <3>3, BeforeFacts
    <3>5. PICK u \in SUBSET R : u = w \cup {x}
      BY <1>4
    <3>6. Exclusive(u)
      <4>1. SUFFICES ASSUME NEW p \in u, NEW q \in u, p.var = q.var
                     PROVE  p = q
        BY DEF Exclusive, IsSameVar
      <4>2. p \in Rva /\ q \in Rva /\ x.var \in Nat
        BY <1>4, <3>4, <3>5 DEF Rva, VarName
      <4>3. CASE p \in w /\ q \in w
        BY <3>3, <4>1, <4>3 DEF Exclusive, IsSameVar
      <4>4. CASE p = x /\ q \in w
        <5>1. x.var < q.var /\ x.var = q.var
          BY <3>4, <4>1, <4>4
        <5>2. QED
          BY <4>2, <5>1
      <4>5. CASE q = x /\ p \in w
        <5>1. x.var < p.var /\ x.var = p.var
          BY <3>4, <4>1, <4>5
        <5>2. QED
          BY <4>2, <5>1
      <4>6. QED
        BY <3>5, <4>3, <4>4, <4>5
    <3>7. NodeValues(b, u)[n.high] = NodeValues(b, w)[n.high]
      <4>1. SameBut(x, u, w) /\ TestsAfter(b, x, n.high)
        BY <1>1, <1>2, <1>3, <1>4, <3>5, ChildrenTestAfter DEF SameBut
      <4>2. QED
        BY <1>1, <1>4, <4>1, ValueIgnores
    <3>8. NodeValues(b, u)[i] = c
      BY <1>4, <3>3, <3>5, <3>7
    <3>9. \A y \in u : y \in Rva /\ (y = x \/ RvaBefore(x, y))
      BY <1>4, <3>4, <3>5
    <3>10. QED
      BY <1>2, <1>3, <3>6, <3>8, <3>9 DEF Decides
  <2>2. CASE n.high = 0 \/ n.high = 1
    <3>1. NodeValues(b, {x})[i] = c
      BY <1>1, <1>4, <1>9, <2>2
    <3>2. Exclusive({x}) /\ {x} \in SUBSET R /\ \A y \in {x} : y \in Rva /\ y = x
      BY <1>4 DEF Exclusive
    <3>3. QED
      BY <1>2, <1>3, <3>1, <3>2 DEF Decides
  <2>3. QED
    BY <1>4, <1>5, <2>1, <2>2
<1>10. QED
  BY <1>4, <1>5, <1>7, <1>8, <1>9

(* istrue and isfalse recognize the diagrams without a choice.              *)
LEMMA ConstantIs ==
  ASSUME NEW b, NEW R, Whole(b, R), NEW c \in {0, 1}
  PROVE  IsConstant(b, c) <=> \A w \in WorldsOver(R) : RootValue(b, w) = c
<1>1. ASSUME NEW v \in {0, 1}, b = <<LeafRec(v)>>
      PROVE  IsConstant(b, c) <=> \A w \in WorldsOver(R) : RootValue(b, w) = c
  <2>1. Len(b) = 1 /\ NodeAt(b, 0) = LeafRec(v)
    BY <1>1 DEF NodeAt
  <2>2. LeafBoolValue(LeafRec(v)) = v
    BY DEF LeafBoolValue, LeafRec, NodeRec, RvaLeaf
  <2>3. {} \in WorldsOver(R)
    BY DEF WorldsOver, Exclusive
  <2>4. \A w : RootValue(b, w) = v
    BY <1>1, LeafWhole
  <2>5. QED
    BY <2>1, <2>2, <2>3, <2>4 DEF IsConstant
<1>2. ASSUME Growing(b, R), Len(b) > 2
      PROVE  IsConstant(b, c) <=> \A w \in WorldsOver(R) : RootValue(b, w) = c
  <2>1. Diagram(b, R) /\ Len(b) \in Nat /\ Inner(b) = 2 .. Len(b) - 1
    BY <1>2, GrowingFacts
  <2> DEFINE T == {i \in Nat : i \in Inner(b) => Decides(b, R, i, 0) /\ Decides(b, R, i, 1)}
  <2>2. ASSUME NEW i \in Nat, \A j \in Nat : j < i => j \in T
        PROVE  i \in T
    <3>1. \A j \in Inner(b) : j \in Nat
      BY <2>1
    <3>2. ASSUME i \in Inner(b)
          PROVE  Decides(b, R, i, 0) /\ Decides(b, R, i, 1)
      <4>1. \A j \in Inner(b) : j < i => Decides(b, R, j, 0) /\ Decides(b, R, j, 1)
        BY <2>2, <3>1
      <4>2. QED
        BY <1>2, <3>2, <4>1, TestDecides
    <3>3. QED
      BY <3>2
  <2> HIDE DEF T
  <2>3. \A i \in Nat : i \in T
    BY <2>2, Strongly
  <2>4. PICK i \in Nat : i = BddRoot(b) /\ i \in Inner(b)
    BY <1>2, <2>1 DEF BddRoot
  <2>5. Decides(b, R, i, 0) /\ Decides(b, R, i, 1)
    BY <2>3, <2>4 DEF T
  <2>6. \A a \in {0, 1} : \E w \in WorldsOver(R) : RootValue(b, w) = a
    BY <2>4, <2>5 DEF Decides, WorldsOver, RootValue
  <2>7. ~IsConstant(b, c)
    <3>1. \A k \in Nat : k > 2 => k # 1
      OBVIOUS
    <3>2. QED
      BY <1>2, <2>1, <3>1 DEF IsConstant
  <2>8. PICK a \in {0, 1} : a # c
    OBVIOUS
  <2>9. QED
    BY <2>6, <2>7, <2>8
<1>3. QED
  BY <1>1, <1>2 DEF Whole

(* No diagram is more than two-valued.                                      *)
LEMMA TwoValued ==
  ASSUME NEW b, NEW R, Diagram(b, R), NEW w
  PROVE  \A i \in Indices(b) : NodeValues(b, w)[i] \in {0, 1}
<1>1. Len(b) \in Nat
  BY LenProperties DEF Diagram
<1> DEFINE T == {i \in Nat : i \in Indices(b) => NodeValues(b, w)[i] \in {0, 1}}
<1>2. ASSUME NEW i \in Nat, \A j \in Nat : j < i => j \in T
      PROVE  i \in T
  <2>1. SUFFICES ASSUME i \in Indices(b)
                 PROVE  NodeValues(b, w)[i] \in {0, 1}
    OBVIOUS
  <2>2. CASE i \notin Inner(b)
    BY <2>1, <2>2, LeafFacts
  <2>3. CASE i \in Inner(b)
    <3>1. PICK n : n = NodeAt(b, i)
      OBVIOUS
    <3>2. /\ n.low \in Indices(b) /\ n.high \in Indices(b) /\ n.low < i /\ n.high < i
          /\ NodeValues(b, w)[i] = IF n.rva \in w THEN NodeValues(b, w)[n.high] ELSE NodeValues(b, w)[n.low]
      BY <2>3, <3>1, InnerFacts
    <3>3. n.low \in Nat /\ n.high \in Nat
      BY <1>1, <3>2 DEF Indices
    <3>4. NodeValues(b, w)[n.low] \in {0, 1} /\ NodeValues(b, w)[n.high] \in {0, 1}
      BY <1>2, <3>2, <3>3
    <3>5. QED
      BY <3>2, <3>4
  <2>4. QED
    BY <2>2, <2>3
<1> HIDE DEF T
<1>3. \A i \in Nat : i \in T
  BY <1>2, Strongly
<1>4. \A i \in Indices(b) : i \in Nat
  BY <1>1 DEF Indices
<1>5. QED
  BY <1>3, <1>4 DEF T

LEMMA RootTwoValued ==
  ASSUME NEW b, NEW R, Whole(b, R)
  PROVE  BddRoot(b) \in Indices(b) /\ \A w : RootValue(b, w) \in {0, 1} /\ (Holds(b, w) <=> RootValue(b, w) = 1)
<1>1. Diagram(b, R) /\ Len(b) \in Nat
  BY LenProperties DEF Whole, Diagram
<1>2. Len(b) >= 1
  <2>1. ASSUME NEW v \in {0, 1}, b = <<LeafRec(v)>>
        PROVE  Len(b) = 1
    BY <2>1
  <2>2. QED
    BY <1>1, <2>1 DEF Whole
<1>3. BddRoot(b) \in Indices(b)
  BY <1>1, <1>2 DEF BddRoot, Indices
<1>4. \A w : RootValue(b, w) \in {0, 1}
  BY <1>1, <1>3, TwoValued DEF RootValue
<1>5. QED
  BY <1>3, <1>4 DEF Holds, RootValue

(* The questions about a stored diagram are answered for what it means:     *)
(* contains finds exactly the rvas its value depends on, and istrue and     *)
(* isfalse recognize every diagram that is true, or false, in all worlds.   *)
THEOREM QuestionsAnswered == Spec => []QueriesDecide
<1>1. WholeInv => QueriesDecide
  <2>1. SUFFICES ASSUME Whole(stored, Rvas)
                 PROVE  QueriesDecide
    BY DEF WholeInv
  <2>2. \A w : RootValue(stored, w) \in {0, 1} /\ (Holds(stored, w) <=> RootValue(stored, w) = 1)
    BY <2>1, RootTwoValued
  <2>3. ASSUME NEW x \in Rvas
        PROVE  BddContains(stored, x.var, x.val)
                 <=> \E w \in SUBSET Rvas : Holds(stored, w \cup {x}) # Holds(stored, w \ {x})
    <3>1. x \in Rva
      <4>1. PICK e \in Literals : \E p \in DOMAIN e.order : x = e.order[p]
        BY DEF Rvas
      <4>2. e.order \in Seq(Rva)
        BY LiteralsAssumption
      <4>3. QED
        BY <4>1, <4>2
    <3>2. BddContains(stored, x.var, x.val)
            <=> \E w \in SUBSET Rvas : RootValue(stored, w \cup {x}) # RootValue(stored, w \ {x})
      BY <2>1, <3>1, ContainsIs DEF DependsOn, RootValue
    <3>3. \A w, u : RootValue(stored, w) # RootValue(stored, u) <=> Holds(stored, w) # Holds(stored, u)
      <4>1. \A w : Holds(stored, w) = (RootValue(stored, w) = 1)
        BY DEF Holds, RootValue
      <4>2. QED
        BY <2>2, <4>1
    <3>4. QED
      BY <3>2, <3>3
  <2>4. IsConstant(stored, 1) <=> \A w \in World : Holds(stored, w)
    BY <2>1, <2>2, ConstantIs DEF World
  <2>5. IsConstant(stored, 0) <=> \A w \in World : ~Holds(stored, w)
    <3>1. \A w : ~Holds(stored, w) <=> RootValue(stored, w) = 0
      BY <2>2
    <3>2. QED
      BY <2>1, <3>1, ConstantIs DEF World
  <2>6. QED
    BY <2>3, <2>4, <2>5 DEF QueriesDecide
<1>2. QED
  BY <1>1, WholeHolds, PTL

-----------------------------------------------------------------------------
(***************************************************************************)
(* Reading a text.                                                         *)
(***************************************************************************)
At(s, o) == [state |-> s, open |-> o]

LEMMA StateFacts ==
  /\ \A s \in Waiting : \A v \in Val : ValueBehind(s, v) \in Val /\ Complement(v) \in Val
  /\ \A s \in Waiting : Negation(s) \in Waiting
  /\ \A s \in Waiting : \A v \in Val : ValueBehind(Negation(s), v) = ValueBehind(s, Complement(v))
  /\ \A v \in Val : StateOf(v) \in {"s0", "s1"} /\ ValueOf(StateOf(v)) = v /\ ValueBehind("valstart", v) = v
<1>1. \A s \in Waiting : \A v \in Val : ValueBehind(s, v) \in Val /\ Complement(v) \in Val
  BY DEF Waiting, Val, ValueBehind, Complement
<1>2. \A s \in Waiting : Negation(s) \in Waiting
  BY DEF Waiting, Negation
<1>3. ASSUME NEW s \in Waiting, NEW v \in Val
      PROVE  ValueBehind(Negation(s), v) = ValueBehind(s, Complement(v))
  <2>1. CASE s = "not"
    BY <2>1 DEF Val, Negation, ValueBehind, Complement
  <2>2. CASE s \in {"0and", "always0"}
    BY <2>2 DEF Val, Negation, ValueBehind, Complement
  <2>3. CASE s \in {"1or", "always1"}
    BY <2>3 DEF Val, Negation, ValueBehind, Complement
  <2>4. CASE s \in {"0or", "1and", "valstart"}
    BY <2>4 DEF Val, Negation, ValueBehind, Complement
  <2>5. QED
    BY <2>1, <2>2, <2>3, <2>4 DEF Waiting
<1>4. \A v \in Val : StateOf(v) \in {"s0", "s1"} /\ ValueOf(StateOf(v)) = v /\ ValueBehind("valstart", v) = v
  BY DEF Val, StateOf, ValueOf, ValueBehind
<1>5. QED
  BY <1>1, <1>2, <1>3, <1>4

LEMMA FsmFacts ==
  /\ \A s \in Waiting : \A v \in Val : Fsm(s, v) = StateOf(ValueBehind(s, v))
  /\ \A s \in Waiting : Fsm(s, "!") = Negation(s) /\ Fsm(s, "(") = "paropen"
  /\ \A s \in {"s0", "s1"} : Fsm(s, ")") = "parclose"
  /\ Fsm("s0", "&") = "0and" /\ Fsm("s1", "&") = "1and" /\ Fsm("s0", "|") = "0or" /\ Fsm("s1", "|") = "1or"
  /\ Fsm("s0", "E") = "result0" /\ Fsm("s1", "E") = "result1"
<1>1. \A s \in Waiting : \A v \in Val : Fsm(s, v) = StateOf(ValueBehind(s, v))
  BY DEF Fsm, Val
<1>2. \A s \in Waiting : Fsm(s, "!") = Negation(s) /\ Fsm(s, "(") = "paropen"
  BY DEF Fsm, Val
<1>3. "s0" \notin Waiting /\ "s1" \notin Waiting
  BY DEF Waiting
<1>4. \A s \in {"s0", "s1"} : Fsm(s, ")") = "parclose"
  BY <1>3 DEF Fsm
<1>5. Fsm("s0", "&") = "0and" /\ Fsm("s1", "&") = "1and" /\ Fsm("s0", "|") = "0or" /\ Fsm("s1", "|") = "1or"
  BY <1>3 DEF Fsm
<1>6. Fsm("s0", "E") = "result0" /\ Fsm("s1", "E") = "result1"
  BY <1>3 DEF Fsm
<1>7. QED
  BY <1>1, <1>2, <1>4, <1>5, <1>6

(* A token that opens or closes no parenthesis. *)
LEMMA StepPlain ==
  ASSUME NEW s, s # "error", NEW o, NEW tok, Fsm(s, tok) # "paropen", Fsm(s, tok) # "parclose"
  PROVE  AfterToken(At(s, o), tok) = At(Fsm(s, tok), o)
<1>1. At(s, o).state = s /\ At(s, o).open = o
  BY DEF At
<1>2. AfterToken(At(s, o), tok) = [At(s, o) EXCEPT !.state = Fsm(s, tok)]
  BY <1>1 DEF AfterToken
<1>3. [At(s, o) EXCEPT !.state = Fsm(s, tok)] = At(Fsm(s, tok), o)
  BY DEF At
<1>4. QED
  BY <1>2, <1>3

LEMMA StepError ==
  ASSUME NEW o, NEW tok
  PROVE  AfterToken(At("error", o), tok) = At("error", o)
<1>1. At("error", o).state = "error"
  BY DEF At
<1>2. AfterToken(At("error", o), tok) = [At("error", o) EXCEPT !.state = "error"]
  BY <1>1 DEF AfterToken
<1>3. QED
  BY <1>2 DEF At

LEMMA StepOpen ==
  ASSUME NEW s \in Waiting, NEW o
  PROVE  AfterToken(At(s, o), "(") = At(IF Len(o) + 1 = StackMax THEN "error" ELSE "valstart", Append(o, s))
<1>1. At(s, o).state = s /\ At(s, o).open = o /\ s # "error"
  BY DEF At, Waiting
<1>2. Fsm(s, "(") = "paropen"
  BY FsmFacts
<1>3. QED
  BY <1>1, <1>2 DEF AfterToken, At

LEMMA StepClose ==
  ASSUME NEW s \in Waiting, NEW o \in Seq(Waiting), NEW v \in Val
  PROVE  AfterToken(At(StateOf(v), Append(o, s)), ")") = At(StateOf(ValueBehind(s, v)), o)
<1>1. PICK p : p = Append(o, s)
  OBVIOUS
<1>2. /\ p \in Seq(Waiting) /\ p # <<>> /\ Len(p) = Len(o) + 1 /\ Len(o) \in Nat
      /\ p[Len(p)] = s /\ \A k \in 1 .. Len(o) : p[k] = o[k]
  BY <1>1
<1>3. Last(p) = s
  BY <1>2 DEF Last
<1>4. Front(p) = o
  <2>1. Len(p) - 1 = Len(o) /\ Len(o) <= Len(p) /\ 1 \in 1 .. Len(p) + 1
    BY <1>2
  <2>2. Front(p) = SubSeq(p, 1, Len(o))
    BY <2>1 DEF Front
  <2>3. /\ SubSeq(p, 1, Len(o)) \in Seq(Waiting) /\ Len(SubSeq(p, 1, Len(o))) = Len(o)
        /\ \A k \in 1 .. Len(o) : SubSeq(p, 1, Len(o))[k] = p[k]
    BY <1>2
  <2>4. SubSeq(p, 1, Len(o)) = o
    BY <1>2, <2>3
  <2>5. QED
    BY <2>2, <2>4
<1>5. PICK c : c = StateOf(v) /\ c \in {"s0", "s1"} /\ ValueOf(c) = v
  BY StateFacts
<1>6. Fsm(c, ")") = "parclose" /\ Fsm(s, v) = StateOf(ValueBehind(s, v))
  BY <1>5, FsmFacts
<1>7. At(c, p).state = c /\ At(c, p).open = p /\ c # "error"
  BY <1>5 DEF At
<1>8. AfterToken(At(c, p), ")") = [state |-> Fsm(Last(p), ValueOf(c)), open |-> Front(p)]
  BY <1>2, <1>6, <1>7 DEF AfterToken
<1>9. QED
  BY <1>1, <1>3, <1>4, <1>5, <1>6, <1>8 DEF At

(* The machine gets from m to e by reading s. *)
Reads(m, s, e) ==
  \E f : /\ f = [k \in 0 .. Len(s) |-> f[k]]
         /\ f[0] = m /\ f[Len(s)] = e
         /\ \A k \in 1 .. Len(s) : f[k] = AfterToken(f[k - 1], s[k])

LEMMA ReadOne ==
  ASSUME NEW m, NEW tok
  PROVE  Reads(m, <<tok>>, AfterToken(m, tok))
<1> DEFINE f == [k \in 0 .. Len(<<tok>>) |-> IF k = 0 THEN m ELSE AfterToken(m, tok)]
<1>1. Len(<<tok>>) = 1 /\ <<tok>>[1] = tok
  OBVIOUS
<1>2. f = [k \in 0 .. Len(<<tok>>) |-> f[k]]
  OBVIOUS
<1>3. f[0] = m /\ f[1] = AfterToken(m, tok)
  BY <1>1
<1>4. \A k \in 1 .. Len(<<tok>>) : f[k] = AfterToken(f[k - 1], <<tok>>[k])
  <2> HIDE DEF f
  <2>1. \A k \in 1 .. Len(<<tok>>) : k = 1 /\ k - 1 = 0
    BY <1>1
  <2>2. QED
    BY <1>1, <1>3, <2>1
<1> HIDE DEF f
<1>5. QED
  BY <1>1, <1>2, <1>3, <1>4 DEF Reads

LEMMA ReadThen ==
  ASSUME NEW T, NEW s \in Seq(T), NEW t \in Seq(T), NEW m, NEW e, NEW d, Reads(m, s, e), Reads(e, t, d)
  PROVE  Reads(m, s \o t, d)
<1>1. PICK f : /\ f = [k \in 0 .. Len(s) |-> f[k]]
               /\ f[0] = m /\ f[Len(s)] = e
               /\ \A k \in 1 .. Len(s) : f[k] = AfterToken(f[k - 1], s[k])
  BY DEF Reads
<1>2. PICK g : /\ g = [k \in 0 .. Len(t) |-> g[k]]
               /\ g[0] = e /\ g[Len(t)] = d
               /\ \A k \in 1 .. Len(t) : g[k] = AfterToken(g[k - 1], t[k])
  BY DEF Reads
<1>3. PICK a \in Nat, b \in Nat : a = Len(s) /\ b = Len(t)
  OBVIOUS
<1>4. /\ Len(s \o t) = a + b
      /\ \A k \in 1 .. a : (s \o t)[k] = s[k]
      /\ \A k \in a + 1 .. a + b : (s \o t)[k] = t[k - a]
  BY <1>3
<1> DEFINE h == [k \in 0 .. Len(s \o t) |-> IF k <= a THEN f[k] ELSE g[k - a]]
<1>5. h = [k \in 0 .. Len(s \o t) |-> h[k]]
  OBVIOUS
<1>6. \A k \in 0 .. a + b : h[k] = IF k <= a THEN f[k] ELSE g[k - a]
  BY <1>4
<1> HIDE DEF h
<1>7. h[0] = m
  BY <1>1, <1>3, <1>6
<1>8. h[a + b] = d
  <2>1. CASE b = 0
    BY <1>1, <1>2, <1>3, <1>6, <2>1
  <2>2. CASE b > 0
    <3>1. a + b \in 0 .. a + b /\ ~(a + b <= a) /\ a + b - a = b
      BY <1>3, <2>2
    <3>2. QED
      BY <1>2, <1>3, <1>6, <3>1
  <2>3. QED
    BY <1>3, <2>1, <2>2
<1>9. ASSUME NEW k \in 1 .. a + b
      PROVE  h[k] = AfterToken(h[k - 1], (s \o t)[k])
  <2>1. CASE k <= a
    <3>1. k \in 1 .. a /\ k \in 0 .. a + b /\ k - 1 \in 0 .. a + b /\ k - 1 <= a
      BY <1>3, <2>1
    <3>2. QED
      BY <1>1, <1>3, <1>4, <1>6, <2>1, <3>1
  <2>2. CASE k = a + 1
    <3>1. k \in a + 1 .. a + b /\ k - 1 = a /\ k - a = 1 /\ ~(k <= a) /\ 1 \in 1 .. b /\ 1 - 1 = 0 /\ a \in 0 .. a + b /\ k \in 0 .. a + b
      BY <1>3, <2>2
    <3>2. h[k] = g[1] /\ h[k - 1] = e /\ (s \o t)[k] = t[1]
      BY <1>1, <1>3, <1>4, <1>6, <3>1
    <3>3. g[1] = AfterToken(g[0], t[1])
      BY <1>2, <1>3, <3>1
    <3>4. QED
      BY <1>2, <3>2, <3>3
  <2>3. CASE k > a + 1
    <3>1. PICK j \in 1 .. b : j = k - a /\ j - 1 = (k - 1) - a
      <4>1. \A i \in Nat : i > a + 1 /\ i <= a + b => i - a \in 1 .. b /\ (i - a) - 1 = (i - 1) - a
        BY <1>3
      <4>2. k \in Nat /\ k <= a + b
        BY <1>3
      <4>3. k - a \in 1 .. b /\ (k - a) - 1 = (k - 1) - a
        BY <2>3, <4>1, <4>2
      <4>4. QED
        BY <4>3
    <3>2. k \in a + 1 .. a + b /\ ~(k <= a) /\ ~(k - 1 <= a) /\ k \in 0 .. a + b /\ k - 1 \in 0 .. a + b
      BY <1>3, <2>3
    <3>3. h[k] = g[j] /\ h[k - 1] = g[j - 1] /\ (s \o t)[k] = t[j]
      BY <1>4, <1>6, <3>1, <3>2
    <3>4. g[j] = AfterToken(g[j - 1], t[j])
      BY <1>2, <1>3, <3>1
    <3>5. QED
      BY <3>3, <3>4
  <2>4. QED
    BY <1>3, <2>1, <2>2, <2>3
<1>10. QED
  BY <1>4, <1>5, <1>7, <1>8, <1>9 DEF Reads

LEMMA ReadError ==
  ASSUME NEW T, NEW s \in Seq(T), NEW o
  PROVE  Reads(At("error", o), s, At("error", o))
<1> DEFINE f == [k \in 0 .. Len(s) |-> At("error", o)]
<1>1. Len(s) \in Nat
  OBVIOUS
<1>2. f = [k \in 0 .. Len(s) |-> f[k]] /\ \A k \in 0 .. Len(s) : f[k] = At("error", o)
  OBVIOUS
<1>3. 0 \in 0 .. Len(s) /\ Len(s) \in 0 .. Len(s) /\ \A k \in 1 .. Len(s) : k \in 0 .. Len(s) /\ k - 1 \in 0 .. Len(s)
  BY <1>1
<1> HIDE DEF f
<1>4. \A k \in 1 .. Len(s) : f[k] = AfterToken(f[k - 1], s[k])
  BY <1>2, <1>3, StepError
<1>5. QED
  BY <1>2, <1>3, <1>4 DEF Reads

(* What an evaluation returns is what the machine got to. *)
LEMMA EvaluateIs ==
  ASSUME NEW T, NEW s \in Seq(T), NEW e, Reads(At("valstart", <<>>), Append(s, "E"), e)
  PROVE  Evaluate(s) = CASE e.open # <<>>                                   -> -1
                         [] e.open = <<>> /\ e.state = "result0"            -> 0
                         [] e.open = <<>> /\ e.state = "result1"            -> 1
                         [] e.open = <<>> /\ e.state \notin {"result0", "result1"} -> -1
<1>1. PICK in : in = Append(s, "E")
  OBVIOUS
<1>2. PICK n \in Nat : n = Len(in)
  BY <1>1
<1> DEFINE Run(f, k) == IF k = 0 THEN At("valstart", <<>>) ELSE AfterToken(f[k - 1], in[k])
<1>3. PICK f : /\ f = [k \in 0 .. Len(in) |-> f[k]]
               /\ f[0] = At("valstart", <<>>) /\ f[Len(in)] = e
               /\ \A k \in 1 .. Len(in) : f[k] = AfterToken(f[k - 1], in[k])
  BY <1>1 DEF Reads
<1>4. f = [k \in 0 .. Len(in) |-> Run(f, k)]
  <2>1. \A k \in 0 .. Len(in) : f[k] = Run(f, k)
    <3>1. \A k \in 0 .. Len(in) : k = 0 \/ k \in 1 .. Len(in)
      BY <1>2
    <3>2. QED
      BY <1>3, <3>1
  <2> HIDE DEF Run
  <2>2. QED
    BY <1>3, <2>1
<1> DEFINE after == CHOOSE g : g = [k \in 0 .. Len(in) |-> Run(g, k)]
<1>5. after = [k \in 0 .. Len(in) |-> Run(after, k)]
  <2> HIDE DEF Run
  <2>1. QED
    BY <1>4
<1> HIDE DEF after
<1>6. after[Len(in)] = e
  <2> DEFINE P == {k \in Nat : k <= n => after[k] = f[k]}
  <2>1. ASSUME NEW k \in Nat, \A j \in Nat : j < k => j \in P
        PROVE  k \in P
    <3>1. SUFFICES ASSUME k <= n
                   PROVE  after[k] = f[k]
      OBVIOUS
    <3>2. k \in 0 .. Len(in)
      BY <1>2, <3>1
    <3>3. CASE k = 0
      BY <1>3, <1>5, <3>2, <3>3
    <3>4. CASE k # 0
      <4>1. k - 1 \in Nat /\ k - 1 < k /\ k - 1 <= n /\ k \in 1 .. Len(in)
        BY <1>2, <3>1, <3>4
      <4>2. after[k - 1] = f[k - 1]
        BY <2>1, <4>1
      <4>3. after[k] = AfterToken(after[k - 1], in[k])
        BY <1>5, <3>2, <3>4
      <4>4. QED
        BY <1>3, <4>1, <4>2, <4>3
    <3>5. QED
      BY <3>3, <3>4
  <2> HIDE DEF P
  <2>2. n \in P
    BY <1>2, <2>1, Strongly
  <2>3. QED
    BY <1>2, <1>3, <2>2 DEF P
<1>7. Evaluate(s) = LET last == after[Len(in)]
                    IN  CASE last.open # <<>>                                   -> -1
                          [] last.open = <<>> /\ last.state = "result0"         -> 0
                          [] last.open = <<>> /\ last.state = "result1"         -> 1
                          [] last.open = <<>> /\ last.state \notin {"result0", "result1"} -> -1
  BY <1>1, Zenon DEF Evaluate, after, At
<1>8. QED
  BY <1>6, <1>7

(* A text that reads as the value v wherever a value may stand, or as an    *)
(* error where more than d parentheses are one too many.                    *)
ReadsAs(t, v, d) ==
  \A s \in Waiting : \A o \in Seq(Waiting) : Len(o) < StackMax =>
    IF Len(o) + d < StackMax THEN Reads(At(s, o), t, At(StateOf(ValueBehind(s, v)), o))
    ELSE \E x : Reads(At(s, o), t, At("error", x))

(* The same, at the start of a text or behind a parenthesis only.           *)
StartsAs(t, v, d) ==
  \A o \in Seq(Waiting) : Len(o) < StackMax =>
    IF Len(o) + d < StackMax THEN Reads(At("valstart", o), t, At(StateOf(v), o))
    ELSE \E x : Reads(At("valstart", o), t, At("error", x))

Bit(c) == IF c THEN "1" ELSE "0"

LEMMA TokenReads ==
  ASSUME NEW v \in Val
  PROVE  ReadsAs(<<v>>, v, 0)
<1>1. SUFFICES ASSUME NEW s \in Waiting, NEW o \in Seq(Waiting), Len(o) < StackMax
               PROVE  Reads(At(s, o), <<v>>, At(StateOf(ValueBehind(s, v)), o))
  BY DEF ReadsAs
<1>2. PICK c : c = StateOf(ValueBehind(s, v)) /\ c \in {"s0", "s1"}
  BY StateFacts
<1>3. Fsm(s, v) = c /\ s # "error"
  BY <1>2, FsmFacts DEF Waiting
<1>4. AfterToken(At(s, o), v) = At(c, o)
  BY <1>2, <1>3, StepPlain
<1>5. Reads(At(s, o), <<v>>, AfterToken(At(s, o), v))
  BY ReadOne
<1>6. QED
  BY <1>2, <1>4, <1>5

LEMMA NegatedReads ==
  ASSUME NEW t \in Seq(Token), NEW v \in Val, NEW d, ReadsAs(t, v, d)
  PROVE  ReadsAs(Negated(t), Complement(v), d) /\ Negated(t) \in Seq(Token)
<1>1. <<"!">> \in Seq(Token)
  BY DEF Token
<1>2. ASSUME NEW s \in Waiting, NEW o \in Seq(Waiting), Len(o) < StackMax
      PROVE  IF Len(o) + d < StackMax THEN Reads(At(s, o), Negated(t), At(StateOf(ValueBehind(s, Complement(v))), o))
             ELSE \E x : Reads(At(s, o), Negated(t), At("error", x))
  <2>1. PICK r \in Waiting : r = Negation(s)
    BY StateFacts
  <2>2. Fsm(s, "!") = r /\ s # "error" /\ r # "paropen" /\ r # "parclose"
    BY <2>1, FsmFacts DEF Waiting
  <2>3. AfterToken(At(s, o), "!") = At(r, o)
    BY <2>2, StepPlain
  <2>4. Reads(At(s, o), <<"!">>, At(r, o))
    BY <2>3, ReadOne
  <2>5. ValueBehind(r, v) = ValueBehind(s, Complement(v))
    BY <2>1, StateFacts
  <2>6. \A e : Reads(At(r, o), t, e) => Reads(At(s, o), Negated(t), e)
    <3>1. SUFFICES ASSUME NEW e, Reads(At(r, o), t, e)
                   PROVE  Reads(At(s, o), Negated(t), e)
      OBVIOUS
    <3>2. Reads(At(s, o), <<"!">> \o t, e)
      BY <1>1, <2>4, <3>1, ReadThen
    <3>3. QED
      BY <3>2 DEF Negated
  <2>7. QED
    BY <1>2, <2>5, <2>6 DEF ReadsAs
<1>3. QED
  BY <1>1, <1>2 DEF ReadsAs, Negated

LEMMA ReadsStarts ==
  ASSUME NEW t, NEW v \in Val, NEW d, ReadsAs(t, v, d)
  PROVE  StartsAs(t, v, d)
<1>1. "valstart" \in Waiting /\ ValueBehind("valstart", v) = v
  BY StateFacts DEF Waiting
<1>2. QED
  BY <1>1 DEF ReadsAs, StartsAs

LEMMA ParensRead ==
  ASSUME NEW t \in Seq(Token), NEW v \in Val, NEW d \in Nat, StartsAs(t, v, d)
  PROVE  ReadsAs(InParens(t), v, d + 1) /\ InParens(t) \in Seq(Token)
<1>1. <<"(">> \in Seq(Token) /\ <<")">> \in Seq(Token) /\ <<"(">> \o t \in Seq(Token) /\ StackMax \in Nat
  BY StackMaxAssumption DEF Token
<1>2. ASSUME NEW s \in Waiting, NEW o \in Seq(Waiting), Len(o) < StackMax
      PROVE  IF Len(o) + (d + 1) < StackMax THEN Reads(At(s, o), InParens(t), At(StateOf(ValueBehind(s, v)), o))
             ELSE \E x : Reads(At(s, o), InParens(t), At("error", x))
  <2>1. PICK p \in Seq(Waiting) : p = Append(o, s) /\ Len(p) = Len(o) + 1
    <3>1. Append(o, s) \in Seq(Waiting) /\ Len(Append(o, s)) = Len(o) + 1
      OBVIOUS
    <3>2. QED
      BY <3>1
  <2>2. AfterToken(At(s, o), "(") = At(IF Len(o) + 1 = StackMax THEN "error" ELSE "valstart", p)
    BY <2>1, StepOpen
  <2>3. Reads(At(s, o), <<"(">>, AfterToken(At(s, o), "("))
    BY ReadOne
  <2>4. \A e, x : Reads(At(s, o), <<"(">> \o t, e) /\ Reads(e, <<")">>, x) => Reads(At(s, o), InParens(t), x)
    <3>1. SUFFICES ASSUME NEW e, NEW x, Reads(At(s, o), <<"(">> \o t, e), Reads(e, <<")">>, x)
                   PROVE  Reads(At(s, o), InParens(t), x)
      OBVIOUS
    <3>2. PICK q \in Seq(Token) : q = <<"(">> \o t
      BY <1>1
    <3>3. Reads(At(s, o), q \o <<")">>, x)
      BY <1>1, <3>1, <3>2, ReadThen
    <3>4. (<<"(">> \o t) \o <<")">> = <<"(">> \o t \o <<")">>
      OBVIOUS
    <3>5. QED
      BY <3>2, <3>3, <3>4 DEF InParens
  <2>5. \A x : Reads(At("error", x), t, At("error", x)) /\ Reads(At("error", x), <<")">>, At("error", x))
    BY <1>1, ReadError
  <2>6. \A e : Reads(AfterToken(At(s, o), "("), t, e) => Reads(At(s, o), <<"(">> \o t, e)
    BY <1>1, <2>3, ReadThen
  <2>7. Len(o) \in Nat
    OBVIOUS
  <2>8. CASE Len(o) + 1 = StackMax
    <3>1. AfterToken(At(s, o), "(") = At("error", p)
      BY <2>2, <2>8
    <3>2. Reads(At(s, o), InParens(t), At("error", p))
      BY <2>4, <2>5, <2>6, <3>1
    <3>3. ~(Len(o) + (d + 1) < StackMax)
      BY <2>7, <2>8
    <3>4. QED
      BY <3>2, <3>3
  <2>9. CASE Len(o) + 1 # StackMax
    <3>1. AfterToken(At(s, o), "(") = At("valstart", p)
      BY <2>2, <2>9
    <3>2. Len(p) < StackMax
      BY <1>1, <1>2, <2>1, <2>7, <2>9
    <3>3. CASE Len(o) + (d + 1) < StackMax
      <4>1. Len(p) + d < StackMax
        BY <2>1, <2>7, <3>3
      <4>2. Reads(At("valstart", p), t, At(StateOf(v), p))
        BY <3>2, <4>1 DEF StartsAs
      <4>3. AfterToken(At(StateOf(v), p), ")") = At(StateOf(ValueBehind(s, v)), o)
        BY <2>1, StepClose
      <4>4. Reads(At(StateOf(v), p), <<")">>, At(StateOf(ValueBehind(s, v)), o))
        BY <4>3, ReadOne
      <4>5. Reads(At(s, o), InParens(t), At(StateOf(ValueBehind(s, v)), o))
        BY <2>4, <2>6, <3>1, <4>2, <4>4
      <4>6. QED
        BY <3>3, <4>5
    <3>4. CASE ~(Len(o) + (d + 1) < StackMax)
      <4>1. ~(Len(p) + d < StackMax)
        BY <1>1, <2>1, <2>7, <3>4
      <4>2. PICK x : Reads(At("valstart", p), t, At("error", x))
        BY <3>2, <4>1 DEF StartsAs
      <4>3. Reads(At(s, o), InParens(t), At("error", x))
        BY <2>4, <2>5, <2>6, <3>1, <4>2
      <4>4. QED
        BY <3>4, <4>3
    <3>5. QED
      BY <3>3, <3>4
  <2>10. QED
    BY <2>8, <2>9
<1>3. <<"(">> \o t \o <<")">> \in Seq(Token)
  BY <1>1
<1>4. QED
  BY <1>2, <1>3 DEF ReadsAs, InParens

LEMMA BetweenReads ==
  ASSUME NEW a \in Seq(Token), NEW b \in Seq(Token), NEW p \in BOOLEAN, NEW q \in BOOLEAN, NEW d \in Nat, NEW e \in Nat,
         StartsAs(a, Bit(p), d), ReadsAs(b, Bit(q), e), NEW op \in {"&", "|"}
  PROVE  /\ StartsAs(Between(a, op, b), Bit(Joined(op, p, q)), IF d < e THEN e ELSE d)
         /\ Between(a, op, b) \in Seq(Token)
<1>1. <<op>> \in Seq(Token) /\ a \o <<op>> \in Seq(Token) /\ StackMax \in Nat
  BY StackMaxAssumption DEF Token
<1>2. PICK m \in Nat : m = (IF d < e THEN e ELSE d) /\ d <= m /\ e <= m /\ (m = d \/ m = e)
  OBVIOUS
<1>3. PICK s : s = Fsm(StateOf(Bit(p)), op)
  OBVIOUS
<1>4. /\ s \in Waiting /\ Bit(p) \in Val /\ Bit(q) \in Val
      /\ StateOf(Bit(p)) # "error" /\ s # "paropen" /\ s # "parclose"
      /\ ValueBehind(s, Bit(q)) = Bit(Joined(op, p, q))
  <2>1. CASE op = "&" /\ p
    <3>1. StateOf(Bit(p)) = "s1" /\ s = "1and" /\ Bit(p) = "1" /\ Bit(q) \in Val
      BY <1>3, <2>1, FsmFacts DEF Bit, StateOf, Val
    <3>2. Joined(op, p, q) = q
      BY <2>1 DEF Joined
    <3>3. QED
      BY <3>1, <3>2 DEF Waiting, Val, ValueBehind
  <2>2. CASE op = "&" /\ ~p
    <3>1. StateOf(Bit(p)) = "s0" /\ s = "0and" /\ Bit(p) = "0" /\ Bit(q) \in Val
      BY <1>3, <2>2, FsmFacts DEF Bit, StateOf, Val
    <3>2. Joined(op, p, q) = FALSE
      BY <2>2 DEF Joined
    <3>3. QED
      BY <3>1, <3>2 DEF Waiting, Val, ValueBehind, Bit
  <2>3. CASE op = "|" /\ p
    <3>1. StateOf(Bit(p)) = "s1" /\ s = "1or" /\ Bit(p) = "1" /\ Bit(q) \in Val
      BY <1>3, <2>3, FsmFacts DEF Bit, StateOf, Val
    <3>2. Joined(op, p, q) = TRUE
      BY <2>3 DEF Joined
    <3>3. QED
      BY <3>1, <3>2 DEF Waiting, Val, ValueBehind, Bit
  <2>4. CASE op = "|" /\ ~p
    <3>1. StateOf(Bit(p)) = "s0" /\ s = "0or" /\ Bit(p) = "0" /\ Bit(q) \in Val
      BY <1>3, <2>4, FsmFacts DEF Bit, StateOf, Val
    <3>2. Joined(op, p, q) = q
      BY <2>4 DEF Joined
    <3>3. QED
      BY <3>1, <3>2 DEF Waiting, Val, ValueBehind, Bit
  <2>5. QED
    BY <2>1, <2>2, <2>3, <2>4
<1>5. ASSUME NEW o \in Seq(Waiting), Len(o) < StackMax
      PROVE  IF Len(o) + m < StackMax THEN Reads(At("valstart", o), Between(a, op, b), At(StateOf(Bit(Joined(op, p, q))), o))
             ELSE \E x : Reads(At("valstart", o), Between(a, op, b), At("error", x))
  <2>1. \A u, x, y : Reads(At("valstart", o), a, u) /\ Reads(u, <<op>>, x) /\ Reads(x, b, y)
                       => Reads(At("valstart", o), Between(a, op, b), y)
    <3>1. SUFFICES ASSUME NEW u, NEW x, NEW y, Reads(At("valstart", o), a, u), Reads(u, <<op>>, x), Reads(x, b, y)
                   PROVE  Reads(At("valstart", o), Between(a, op, b), y)
      OBVIOUS
    <3>2. PICK c \in Seq(Token) : c = a \o <<op>>
      BY <1>1
    <3>3. Reads(At("valstart", o), c, x)
      BY <1>1, <3>1, <3>2, ReadThen
    <3>4. Reads(At("valstart", o), c \o b, y)
      BY <3>1, <3>3, ReadThen
    <3>5. (a \o <<op>>) \o b = a \o <<op>> \o b
      OBVIOUS
    <3>6. QED
      BY <3>2, <3>4, <3>5 DEF Between
  <2>2. \A x : Reads(At("error", x), <<op>>, At("error", x)) /\ Reads(At("error", x), b, At("error", x))
    BY <1>1, ReadError
  <2>3. Reads(At(StateOf(Bit(p)), o), <<op>>, At(s, o))
    <3>1. PICK r : r = StateOf(Bit(p))
      OBVIOUS
    <3>2. AfterToken(At(r, o), op) = At(s, o)
      BY <1>3, <1>4, <3>1, StepPlain
    <3>3. Reads(At(r, o), <<op>>, AfterToken(At(r, o), op))
      BY ReadOne
    <3>4. QED
      BY <3>1, <3>2, <3>3
  <2>4. Len(o) \in Nat
    OBVIOUS
  <2>5. CASE ~(Len(o) + d < StackMax)
    <3>1. PICK x : Reads(At("valstart", o), a, At("error", x))
      BY <1>5, <2>5 DEF StartsAs
    <3>2. Reads(At("valstart", o), Between(a, op, b), At("error", x))
      BY <2>1, <2>2, <3>1
    <3>3. ~(Len(o) + m < StackMax)
      BY <1>1, <1>2, <2>4, <2>5
    <3>4. QED
      BY <3>2, <3>3
  <2>6. CASE Len(o) + d < StackMax /\ ~(Len(o) + e < StackMax)
    <3>1. Reads(At("valstart", o), a, At(StateOf(Bit(p)), o))
      BY <1>5, <2>6 DEF StartsAs
    <3>2. PICK x : Reads(At(s, o), b, At("error", x))
      BY <1>4, <1>5, <2>6 DEF ReadsAs
    <3>3. Reads(At("valstart", o), Between(a, op, b), At("error", x))
      BY <2>1, <2>3, <3>1, <3>2
    <3>4. ~(Len(o) + m < StackMax)
      BY <1>1, <1>2, <2>4, <2>6
    <3>5. QED
      BY <3>3, <3>4
  <2>7. CASE Len(o) + d < StackMax /\ Len(o) + e < StackMax
    <3>1. Reads(At("valstart", o), a, At(StateOf(Bit(p)), o))
      BY <1>5, <2>7 DEF StartsAs
    <3>2. Reads(At(s, o), b, At(StateOf(ValueBehind(s, Bit(q))), o))
      BY <1>4, <1>5, <2>7 DEF ReadsAs
    <3>3. Reads(At("valstart", o), Between(a, op, b), At(StateOf(Bit(Joined(op, p, q))), o))
      BY <1>4, <2>1, <2>3, <3>1, <3>2
    <3>4. Len(o) + m < StackMax
      BY <1>2, <2>7
    <3>5. QED
      BY <3>3, <3>4
  <2>8. QED
    BY <2>5, <2>6, <2>7
<1>6. a \o <<op>> \o b \in Seq(Token)
  BY <1>1
<1>7. QED
  BY <1>2, <1>5, <1>6 DEF StartsAs, Between

(* What an evaluation makes of such a text. *)
LEMMA StartsEvaluates ==
  ASSUME NEW t \in Seq(Token), NEW c \in BOOLEAN, NEW d \in Nat, StartsAs(t, Bit(c), d)
  PROVE  Evaluate(t) = IF d < StackMax THEN (IF c THEN 1 ELSE 0) ELSE -1
<1>1. <<"E">> \in Seq(Token) /\ Append(t, "E") = t \o <<"E">>
  BY DEF Token
<1>2. <<>> \in Seq(Waiting) /\ Len(<<>>) = 0 /\ StackMax \in Nat /\ 0 < StackMax
  BY StackMaxAssumption
<1>3. IF d < StackMax THEN Reads(At("valstart", <<>>), t, At(StateOf(Bit(c)), <<>>))
      ELSE \E x : Reads(At("valstart", <<>>), t, At("error", x))
  <2>1. PICK o \in Seq(Waiting) : o = <<>>
    BY <1>2
  <2>2. Len(o) < StackMax /\ Len(o) + d = d
    BY <1>2, <2>1
  <2>3. IF d < StackMax THEN Reads(At("valstart", o), t, At(StateOf(Bit(c)), o))
        ELSE \E x : Reads(At("valstart", o), t, At("error", x))
    BY <2>2 DEF StartsAs
  <2>4. QED
    BY <2>1, <2>3
<1>4. \A e, x : Reads(At("valstart", <<>>), t, e) /\ Reads(e, <<"E">>, x) => Reads(At("valstart", <<>>), Append(t, "E"), x)
  <2>1. SUFFICES ASSUME NEW e, NEW x, Reads(At("valstart", <<>>), t, e), Reads(e, <<"E">>, x)
                 PROVE  Reads(At("valstart", <<>>), t \o <<"E">>, x)
    BY <1>1
  <2>2. QED
    BY <1>1, <2>1, ReadThen
<1>5. CASE d < StackMax
  <2>1. PICK s : s = StateOf(Bit(c)) /\ s # "error"
    BY DEF StateOf
  <2>2. Reads(At("valstart", <<>>), t, At(s, <<>>))
    BY <1>5, <1>3, <2>1
  <2>3. PICK r : r = Fsm(s, "E") /\ r = (IF c THEN "result1" ELSE "result0")
    BY <2>1, FsmFacts DEF StateOf, Bit
  <2>4. AfterToken(At(s, <<>>), "E") = At(r, <<>>)
    BY <2>1, <2>3, StepPlain
  <2>5. Reads(At(s, <<>>), <<"E">>, At(r, <<>>))
    BY <2>4, ReadOne
  <2>6. Reads(At("valstart", <<>>), Append(t, "E"), At(r, <<>>))
    BY <1>4, <2>2, <2>5
  <2>7. PICK e : e = At(r, <<>>) /\ e.open = <<>> /\ e.state = r
    <3>1. At(r, <<>>).open = <<>> /\ At(r, <<>>).state = r
      BY DEF At
    <3>2. QED
      BY <3>1
  <2>8. Evaluate(t) = IF c THEN 1 ELSE 0
    BY <2>3, <2>6, <2>7, EvaluateIs
  <2>9. QED
    BY <1>5, <2>8
<1>6. CASE ~(d < StackMax)
  <2>1. PICK x : Reads(At("valstart", <<>>), t, At("error", x))
    BY <1>6, <1>3
  <2>2. Reads(At("error", x), <<"E">>, At("error", x))
    BY <1>1, ReadError
  <2>3. Reads(At("valstart", <<>>), Append(t, "E"), At("error", x))
    BY <1>4, <2>1, <2>2
  <2>4. PICK e : e = At("error", x) /\ e.state = "error"
    <3>1. At("error", x).state = "error"
      BY DEF At
    <3>2. QED
      BY <3>1
  <2>5. Evaluate(t) = -1
    BY <2>3, <2>4, EvaluateIs
  <2>6. QED
    BY <1>6, <2>5
<1>7. QED
  BY <1>5, <1>6

-----------------------------------------------------------------------------
(***************************************************************************)
(* The text of a diagram, read again.                                      *)
(***************************************************************************)
(* NodeText by cases. *)
LEMMA TextCases ==
  ASSUME NEW b, NEW w, NEW g, NEW i, NEW n, n = NodeAt(b, i), NEW test, test = <<Bit(n.rva \in w)>>
  PROVE  /\ IsLeaf(n) => NodeText(b, w, g, i) = IF LeafBoolValue(n) = 1 THEN <<"1">> ELSE <<"0">>
         /\ ~IsLeaf(n) /\ n.low \in Nat /\ n.high \in Nat =>
              /\ n.low = 0 /\ n.high < 2 => NodeText(b, w, g, i) = test
              /\ n.low = 1 /\ n.high < 2 => NodeText(b, w, g, i) = Negated(test)
              /\ n.low >= 2 /\ n.high = 1 => NodeText(b, w, g, i) = InParens(Between(test, "|", g[n.low]))
              /\ n.low >= 2 /\ n.high = 0 => NodeText(b, w, g, i) = InParens(Between(Negated(InParens(test)), "&", g[n.low]))
              /\ n.low = 0 /\ n.high >= 2 => NodeText(b, w, g, i) = InParens(Between(test, "&", g[n.high]))
              /\ n.low = 1 /\ n.high >= 2 => NodeText(b, w, g, i) = InParens(Between(Negated(test), "|", g[n.high]))
              /\ n.low >= 2 /\ n.high >= 2 => NodeText(b, w, g, i) = InParens(BothSides(test, g[n.high], g[n.low]))
<1>1. test = IF n.rva \in w THEN <<"1">> ELSE <<"0">>
  BY DEF Bit
<1>2. IsLeaf(n) => ~(n.low = 0) /\ ~(n.low = 1) /\ ~(n.low >= 2)
  BY DEF IsLeaf, NoNode
<1>3. IsLeaf(n) => NodeText(b, w, g, i) = IF LeafBoolValue(n) = 1 THEN <<"1">> ELSE <<"0">>
  BY <1>2 DEF NodeText
<1>4. ASSUME ~IsLeaf(n), n.low \in Nat, n.high \in Nat
      PROVE  /\ n.low = 0 /\ n.high < 2 => NodeText(b, w, g, i) = test
             /\ n.low = 1 /\ n.high < 2 => NodeText(b, w, g, i) = Negated(test)
             /\ n.low >= 2 /\ n.high = 1 => NodeText(b, w, g, i) = InParens(Between(test, "|", g[n.low]))
             /\ n.low >= 2 /\ n.high = 0 => NodeText(b, w, g, i) = InParens(Between(Negated(InParens(test)), "&", g[n.low]))
             /\ n.low = 0 /\ n.high >= 2 => NodeText(b, w, g, i) = InParens(Between(test, "&", g[n.high]))
             /\ n.low = 1 /\ n.high >= 2 => NodeText(b, w, g, i) = InParens(Between(Negated(test), "|", g[n.high]))
             /\ n.low >= 2 /\ n.high >= 2 => NodeText(b, w, g, i) = InParens(BothSides(test, g[n.high], g[n.low]))
  <2>1. PICK low \in Nat, high \in Nat : low = n.low /\ high = n.high
    BY <1>4
  <2>2. CASE low < 2 /\ high < 2
    BY <1>1, <1>4, <2>1, <2>2 DEF NodeText
  <2>3. CASE low >= 2 /\ high < 2
    BY <1>1, <1>4, <2>1, <2>3 DEF NodeText
  <2>4. CASE low < 2 /\ high >= 2
    BY <1>1, <1>4, <2>1, <2>4 DEF NodeText
  <2>5. CASE low >= 2 /\ high >= 2
    BY <1>1, <1>4, <2>1, <2>5 DEF NodeText
  <2>6. QED
    BY <2>1, <2>2, <2>3, <2>4, <2>5
<1>5. QED
  BY <1>3, <1>4

LEMMA TextTyped ==
  /\ \A c \in BOOLEAN : <<Bit(c)>> \in Seq(Token) /\ Bit(c) \in Val
  /\ \A t \in Seq(Token) : InParens(t) \in Seq(Token) /\ Negated(t) \in Seq(Token)
  /\ \A s, t \in Seq(Token) : \A op \in {"&", "|"} : Between(s, op, t) \in Seq(Token)
<1>1. \A x \in Token : <<x>> \in Seq(Token)
  OBVIOUS
<1>2. {"!", "(", ")", "&", "|", "0", "1"} \subseteq Token
  BY DEF Token
<1>3. \A s, t \in Seq(Token) : s \o t \in Seq(Token)
  OBVIOUS
<1>4. \A c \in BOOLEAN : <<Bit(c)>> \in Seq(Token) /\ Bit(c) \in Val
  BY <1>1, <1>2 DEF Bit, Val
<1>5. \A t \in Seq(Token) : InParens(t) \in Seq(Token) /\ Negated(t) \in Seq(Token)
  BY <1>1, <1>2, <1>3 DEF InParens, Negated
<1>6. \A s, t \in Seq(Token) : \A op \in {"&", "|"} : Between(s, op, t) \in Seq(Token)
  BY <1>1, <1>2, <1>3 DEF Between
<1>7. QED
  BY <1>4, <1>5, <1>6

LEMMA TextsIs ==
  ASSUME NEW b, NEW R, Diagram(b, R), NEW w
  PROVE  /\ \A i \in Indices(b) : NodeTexts(b, w)[i] = NodeText(b, w, NodeTexts(b, w), i)
         /\ Text(b, w) = NodeTexts(b, w)[BddRoot(b)]
<1> DEFINE D == Indices(b)
           V == Seq(Token)
           rank == [i \in D |-> i]
           S == [q \in [D -> V] \X D |-> NodeText(b, w, q[1], q[2])]
<1>1. Len(b) \in Nat /\ \A i \in D : i \in Nat
  BY LenProperties DEF Diagram, Indices
<1>2. \A i \in D : ~IsLeaf(NodeAt(b, i)) =>
         /\ NodeAt(b, i).low \in D /\ NodeAt(b, i).high \in D /\ NodeAt(b, i).low < i /\ NodeAt(b, i).high < i
         /\ NodeAt(b, i).low \in Nat /\ NodeAt(b, i).high \in Nat
  <2>1. SUFFICES ASSUME NEW i \in D, ~IsLeaf(NodeAt(b, i))
                 PROVE  /\ NodeAt(b, i).low \in D /\ NodeAt(b, i).high \in D
                        /\ NodeAt(b, i).low < i /\ NodeAt(b, i).high < i
    BY <1>1
  <2>2. i \in Inner(b)
    BY <2>1 DEF Inner
  <2>3. QED
    BY <2>2, InnerFacts
<1>3. ASSUME NEW g \in [D -> V], NEW i \in D
      PROVE  NodeText(b, w, g, i) \in V
  <2>1. PICK n : n = NodeAt(b, i)
    OBVIOUS
  <2>2. PICK test \in Seq(Token) : test = <<Bit(n.rva \in w)>>
    <3>1. Bit(n.rva \in w) = Bit(TRUE) \/ Bit(n.rva \in w) = Bit(FALSE)
      BY DEF Bit
    <3>2. <<Bit(TRUE)>> \in Seq(Token) /\ <<Bit(FALSE)>> \in Seq(Token)
      BY TextTyped
    <3>3. QED
      BY <3>1, <3>2
  <2>3. CASE IsLeaf(n)
    <3>1. <<"1">> \in Seq(Token) /\ <<"0">> \in Seq(Token)
      BY DEF Token
    <3>2. NodeText(b, w, g, i) = IF LeafBoolValue(n) = 1 THEN <<"1">> ELSE <<"0">>
      BY <2>1, <2>2, <2>3, TextCases
    <3>3. QED
      BY <3>1, <3>2
  <2>4. CASE ~IsLeaf(n)
    <3>1. PICK low \in Nat, high \in Nat : low = n.low /\ high = n.high /\ low \in D /\ high \in D
      BY <1>2, <2>1, <2>4
    <3>2. PICK l \in Seq(Token), h \in Seq(Token) : l = g[low] /\ h = g[high]
      <4> HIDE DEF D
      <4>1. QED
        BY <3>1
    <3>3. CASE low < 2 /\ high < 2
      <4>1. low = 0 \/ low = 1
        BY <3>3
      <4>2. NodeText(b, w, g, i) = test \/ NodeText(b, w, g, i) = Negated(test)
        BY <2>1, <2>2, <2>4, <3>1, <3>3, <4>1, TextCases
      <4>3. QED
        BY <4>2, TextTyped
    <3>4. CASE low >= 2 /\ high < 2
      <4>1. high = 0 \/ high = 1
        BY <3>4
      <4>2. \/ NodeText(b, w, g, i) = InParens(Between(test, "|", l))
            \/ NodeText(b, w, g, i) = InParens(Between(Negated(InParens(test)), "&", l))
        BY <2>1, <2>2, <2>4, <3>1, <3>2, <3>4, <4>1, TextCases
      <4>3. QED
        BY <4>2, TextTyped
    <3>5. CASE low < 2 /\ high >= 2
      <4>1. low = 0 \/ low = 1
        BY <3>5
      <4>2. \/ NodeText(b, w, g, i) = InParens(Between(test, "&", h))
            \/ NodeText(b, w, g, i) = InParens(Between(Negated(test), "|", h))
        BY <2>1, <2>2, <2>4, <3>1, <3>2, <3>5, <4>1, TextCases
      <4>3. QED
        BY <4>2, TextTyped
    <3>6. CASE low >= 2 /\ high >= 2
      <4>1. NodeText(b, w, g, i) = InParens(BothSides(test, h, l))
        BY <2>1, <2>2, <2>4, <3>1, <3>2, <3>6, TextCases
      <4>2. QED
        BY <4>1, TextTyped DEF BothSides
    <3>7. QED
      BY <3>3, <3>4, <3>5, <3>6
  <2>5. QED
    BY <2>3, <2>4
<1>4. V # {}
  <2>1. <<>> \in V
    OBVIOUS
  <2>2. QED
    BY <2>1
<1>5. rank \in [D -> Nat] /\ \A i \in D : rank[i] = i
  BY <1>1
<1>6. \A g \in [D -> V], i \in D : S[<<g, i>>] = NodeText(b, w, g, i)
  <2> HIDE DEF D, V
  <2>1. QED
    OBVIOUS
<1>7. S \in [[D -> V] \X D -> V]
  <2> HIDE DEF D, V
  <2>1. QED
    BY <1>3
<1>8. ASSUME NEW i \in D, NEW g, NEW h, \A y \in D : y < i => g[y] = h[y]
      PROVE  NodeText(b, w, g, i) = NodeText(b, w, h, i)
  <2>1. PICK n : n = NodeAt(b, i)
    OBVIOUS
  <2>2. CASE IsLeaf(n)
    <3>1. PICK test : test = <<Bit(n.rva \in w)>>
      OBVIOUS
    <3>2. QED
      BY <2>1, <2>2, <3>1, TextCases
  <2>3. CASE ~IsLeaf(n)
    <3>1. g[n.low] = h[n.low] /\ g[n.high] = h[n.high]
      <4> HIDE DEF D
      <4>1. QED
        BY <1>2, <1>8, <2>1, <2>3
    <3>2. QED
      BY <2>1, <3>1, Zenon DEF NodeText
  <2>4. QED
    BY <2>2, <2>3
<1>9. Descends(D, V, S, rank)
  <2> HIDE DEF D, V, rank, S
  <2>1. SUFFICES ASSUME NEW i \in D, NEW g \in [D -> V], NEW h \in [D -> V],
                        \A y \in D : rank[y] < rank[i] => g[y] = h[y]
                 PROVE  S[<<g, i>>] = S[<<h, i>>]
    BY DEF Descends
  <2>2. NodeText(b, w, g, i) = NodeText(b, w, h, i)
    BY <1>5, <1>8, <2>1
  <2>3. QED
    BY <1>6, <2>2
<1>10. PICK f \in [D -> V] : \A i \in D : f[i] = NodeText(b, w, f, i)
  <2>1. Solvable(D, V, S)
    <3> HIDE DEF D, V, rank, S
    <3>1. QED
      BY <1>4, <1>5, <1>7, <1>9, Recursion
  <2> HIDE DEF D, V, S
  <2>2. QED
    BY <1>6, <2>1 DEF Solvable
<1>11. f = [i \in D |-> NodeText(b, w, f, i)]
  <2> HIDE DEF D, V
  <2>1. QED
    BY <1>10
<1>12. NodeTexts(b, w) = [i \in D |-> NodeText(b, w, NodeTexts(b, w), i)]
  <2> DEFINE P(text) == text = [i \in D |-> NodeText(b, w, text, i)]
  <2>1. NodeTexts(b, w) = CHOOSE text : P(text)
    BY Zenon DEF NodeTexts
  <2>2. P(f)
    BY <1>11
  <2> HIDE DEF P
  <2>3. P(NodeTexts(b, w))
    BY <2>1, <2>2
  <2>4. QED
    BY <2>3 DEF P
<1>13. \A i \in D : NodeTexts(b, w)[i] = NodeText(b, w, NodeTexts(b, w), i)
  <2> DEFINE F == NodeTexts(b, w)
  <2>1. F = [i \in D |-> NodeText(b, w, F, i)]
    BY <1>12
  <2> HIDE DEF D, F
  <2>2. \A i \in D : F[i] = NodeText(b, w, F, i)
    BY <2>1
  <2>3. QED
    BY <2>2 DEF F
<1>14. Text(b, w) = NodeTexts(b, w)[BddRoot(b)]
  BY DEF Text
<1>15. QED
  BY <1>13, <1>14


(* What NodeText joins reads as the joint value.                            *)
LEMMA JoinReads ==
  ASSUME NEW a \in Seq(Token), NEW b \in Seq(Token), NEW p \in BOOLEAN, NEW q \in BOOLEAN, NEW d \in Nat, NEW e \in Nat,
         ReadsAs(a, Bit(p), d), ReadsAs(b, Bit(q), e), NEW op \in {"&", "|"},
         NEW m, m = (IF d < e THEN e ELSE d) + 1
  PROVE  /\ ReadsAs(InParens(Between(a, op, b)), Bit(Joined(op, p, q)), m)
         /\ InParens(Between(a, op, b)) \in Seq(Token) /\ m \in Nat
<1>1. Bit(p) \in Val
  BY TextTyped
<1>2. StartsAs(a, Bit(p), d)
  BY <1>1, ReadsStarts
<1>3. PICK t \in Seq(Token) : t = Between(a, op, b)
  BY TextTyped
<1>4. PICK f \in Nat : f = (IF d < e THEN e ELSE d)
  OBVIOUS
<1>5. StartsAs(t, Bit(Joined(op, p, q)), f)
  BY <1>2, <1>3, <1>4, BetweenReads
<1>6. Joined(op, p, q) \in BOOLEAN
  BY DEF Joined
<1>7. PICK v \in Val : v = Bit(Joined(op, p, q))
  BY <1>6, TextTyped
<1>8. ReadsAs(InParens(t), v, f + 1) /\ InParens(t) \in Seq(Token)
  BY <1>5, <1>7, ParensRead
<1>9. m = f + 1 /\ m \in Nat
  BY <1>4
<1>10. QED
  BY <1>3, <1>7, <1>8, <1>9

LEMMA TestReads ==
  ASSUME NEW c \in BOOLEAN
  PROVE  /\ <<Bit(c)>> \in Seq(Token) /\ ReadsAs(<<Bit(c)>>, Bit(c), 0)
         /\ Negated(<<Bit(c)>>) \in Seq(Token) /\ ReadsAs(Negated(<<Bit(c)>>), Bit(~c), 0)
         /\ Negated(InParens(<<Bit(c)>>)) \in Seq(Token) /\ ReadsAs(Negated(InParens(<<Bit(c)>>)), Bit(~c), 1)
<1>1. PICK v \in Val : v = Bit(c) /\ Complement(v) = Bit(~c)
  BY DEF Bit, Val, Complement
<1>2. PICK t \in Seq(Token) : t = <<v>>
  BY <1>1, TextTyped
<1>3. ReadsAs(t, v, 0)
  BY <1>2, TokenReads
<1>4. ReadsAs(Negated(t), Complement(v), 0) /\ Negated(t) \in Seq(Token)
  BY <1>3, NegatedReads
<1>5. StartsAs(t, v, 0)
  BY <1>3, ReadsStarts
<1>6. ReadsAs(InParens(t), v, 0 + 1) /\ InParens(t) \in Seq(Token)
  BY <1>5, ParensRead
<1>7. 0 + 1 = 1
  OBVIOUS
<1>8. PICK p \in Seq(Token) : p = InParens(t) /\ ReadsAs(p, v, 1)
  BY <1>6, <1>7
<1>9. ReadsAs(Negated(p), Complement(v), 1) /\ Negated(p) \in Seq(Token)
  BY <1>8, NegatedReads
<1>10. QED
  BY <1>1, <1>2, <1>3, <1>4, <1>8, <1>9

(* Truth values of tests and nodes.                                         *)
Tested(n, w) == IF n.rva \in w THEN TRUE ELSE FALSE
Truth(b, w, i) == IF NodeValues(b, w)[i] = 1 THEN TRUE ELSE FALSE

(* In every world, the text of node i reads as its value, with the same     *)
(* nesting.                                                                 *)
NodeReads(b, i, d) ==
  \A w : NodeTexts(b, w)[i] \in Seq(Token) /\ ReadsAs(NodeTexts(b, w)[i], Bit(Truth(b, w, i)), d)

LEMMA NodeReadsStep ==
  ASSUME NEW b, NEW R, Growing(b, R), NEW i \in Inner(b),
         \A j \in Inner(b) : j < i => \E d \in Nat : NodeReads(b, j, d)
  PROVE  \E d \in Nat : NodeReads(b, i, d)
<1>0. 0 \in Nat /\ 1 \in Nat /\ "&" \in {"&", "|"} /\ "|" \in {"&", "|"}
  OBVIOUS
<1>1. /\ Diagram(b, R) /\ Inner(b) = 2 .. Len(b) - 1 /\ Len(b) \in Nat
      /\ \A w : NodeValues(b, w)[0] = 0 /\ NodeValues(b, w)[1] = 1
  BY GrowingFacts
<1>2. PICK n : n = NodeAt(b, i)
  OBVIOUS
<1>3. /\ ~IsLeaf(n) /\ n.low \in Indices(b) /\ n.high \in Indices(b) /\ n.low < i /\ n.high < i /\ n.low # n.high
      /\ \A w : NodeValues(b, w)[i] = IF n.rva \in w THEN NodeValues(b, w)[n.high] ELSE NodeValues(b, w)[n.low]
      /\ i \in Indices(b)
  BY <1>1, <1>2, InnerFacts DEF Inner
<1>4. PICK low \in Nat, high \in Nat : low = n.low /\ high = n.high /\ low # high /\ low < i /\ high < i
                                      /\ low < Len(b) /\ high < Len(b)
  BY <1>1, <1>3 DEF Indices
<1>5. (low >= 2 => low \in Inner(b)) /\ (high >= 2 => high \in Inner(b))
  BY <1>1, <1>4
<1>6. \A w : Tested(n, w) \in BOOLEAN /\ \A j : Truth(b, w, j) \in BOOLEAN
  BY DEF Tested, Truth
<1>7. \A w : Truth(b, w, i) = IF Tested(n, w) THEN Truth(b, w, high) ELSE Truth(b, w, low)
  BY <1>3, <1>4 DEF Tested, Truth
<1>8. \A w : Truth(b, w, 0) = FALSE /\ Truth(b, w, 1) = TRUE
  BY <1>1 DEF Truth
<1>9. \A w : <<Bit(Tested(n, w))>> = <<Bit(n.rva \in w)>>
  BY DEF Bit, Tested
<1>10. ASSUME NEW w, NEW test, test = <<Bit(Tested(n, w))>>, NEW g, g = NodeTexts(b, w)
       PROVE  /\ low = 0 /\ high < 2 => g[i] = test
              /\ low = 1 /\ high < 2 => g[i] = Negated(test)
              /\ low >= 2 /\ high = 1 => g[i] = InParens(Between(test, "|", g[low]))
              /\ low >= 2 /\ high = 0 => g[i] = InParens(Between(Negated(InParens(test)), "&", g[low]))
              /\ low = 0 /\ high >= 2 => g[i] = InParens(Between(test, "&", g[high]))
              /\ low = 1 /\ high >= 2 => g[i] = InParens(Between(Negated(test), "|", g[high]))
              /\ low >= 2 /\ high >= 2 => g[i] = InParens(BothSides(test, g[high], g[low]))
  <2>1. test = <<Bit(n.rva \in w)>>
    BY <1>9, <1>10
  <2>2. g[i] = NodeText(b, w, g, i)
    BY <1>1, <1>3, <1>10, TextsIs
  <2>3. QED
    BY <1>2, <1>3, <1>4, <2>1, <2>2, TextCases
<1>11. CASE low < 2 /\ high < 2
  <2>1. (low = 0 /\ high = 1) \/ (low = 1 /\ high = 0)
    BY <1>4, <1>11
  <2>2. ASSUME NEW w
        PROVE  NodeTexts(b, w)[i] \in Seq(Token) /\ ReadsAs(NodeTexts(b, w)[i], Bit(Truth(b, w, i)), 0)
    <3>1. PICK c \in BOOLEAN : c = Tested(n, w)
      BY <1>6
    <3>2. CASE low = 0 /\ high = 1
      <4>1. NodeTexts(b, w)[i] = <<Bit(c)>>
        <5>1. PICK test, g : test = <<Bit(Tested(n, w))>> /\ g = NodeTexts(b, w)
          OBVIOUS
        <5>2. g[i] = test
          BY <1>10, <3>2, <5>1
        <5>3. QED
          BY <3>1, <5>1, <5>2
      <4>2. Truth(b, w, i) = c
        BY <1>7, <1>8, <3>1, <3>2
      <4>3. QED
        BY <4>1, <4>2, TestReads
    <3>3. CASE low = 1 /\ high = 0
      <4>1. NodeTexts(b, w)[i] = Negated(<<Bit(c)>>)
        BY <1>10, <3>1, <3>3
      <4>2. Truth(b, w, i) = ~c
        BY <1>7, <1>8, <3>1, <3>3
      <4>3. QED
        BY <4>1, <4>2, TestReads
    <3>4. QED
      BY <2>1, <3>2, <3>3
  <2>3. QED
    BY <2>2 DEF NodeReads
<1>12. CASE low >= 2 /\ high < 2
  <2>1. PICK e \in Nat : NodeReads(b, low, e)
    BY <1>4, <1>5, <1>12
  <2>2. CASE high = 1
    <3>1. PICK d : d = (IF 0 < e THEN e ELSE 0) + 1
      OBVIOUS
    <3>2. ASSUME NEW w
          PROVE  NodeTexts(b, w)[i] \in Seq(Token) /\ ReadsAs(NodeTexts(b, w)[i], Bit(Truth(b, w, i)), d) /\ d \in Nat
      <4>1. PICK c \in BOOLEAN, q \in BOOLEAN : c = Tested(n, w) /\ q = Truth(b, w, low)
        BY <1>6
      <4>2. PICK s \in Seq(Token), t \in Seq(Token) :
              s = <<Bit(c)>> /\ ReadsAs(s, Bit(c), 0) /\ t = NodeTexts(b, w)[low] /\ ReadsAs(t, Bit(q), e)
        BY <2>1, <4>1, TestReads DEF NodeReads
      <4>3. ReadsAs(InParens(Between(s, "|", t)), Bit(Joined("|", c, q)), d) /\ InParens(Between(s, "|", t)) \in Seq(Token) /\ d \in Nat
        <5>1. ReadsAs(s, Bit(c), 0) /\ ReadsAs(t, Bit(q), e)
          BY <4>2
        <5>2. QED
          BY <1>0, <3>1, <5>1, JoinReads
      <4>4. NodeTexts(b, w)[i] = InParens(Between(s, "|", t))
        BY <1>10, <1>12, <2>2, <4>1, <4>2
      <4>5. Truth(b, w, i) = Joined("|", c, q)
        BY <1>7, <1>8, <2>2, <4>1 DEF Joined
      <4>6. QED
        BY <4>3, <4>4, <4>5
    <3>3. QED
      BY <3>2 DEF NodeReads
  <2>3. CASE high = 0
    <3>1. PICK d : d = (IF 1 < e THEN e ELSE 1) + 1
      OBVIOUS
    <3>2. ASSUME NEW w
          PROVE  NodeTexts(b, w)[i] \in Seq(Token) /\ ReadsAs(NodeTexts(b, w)[i], Bit(Truth(b, w, i)), d) /\ d \in Nat
      <4>1. PICK c \in BOOLEAN, q \in BOOLEAN : c = Tested(n, w) /\ q = Truth(b, w, low)
        BY <1>6
      <4>2. PICK s \in Seq(Token), t \in Seq(Token), r \in BOOLEAN :
              /\ s = Negated(InParens(<<Bit(c)>>)) /\ r = ~c /\ ReadsAs(s, Bit(r), 1)
              /\ t = NodeTexts(b, w)[low] /\ ReadsAs(t, Bit(q), e)
        BY <2>1, <4>1, TestReads DEF NodeReads
      <4>3. ReadsAs(InParens(Between(s, "&", t)), Bit(Joined("&", r, q)), d) /\ InParens(Between(s, "&", t)) \in Seq(Token) /\ d \in Nat
        <5>1. ReadsAs(s, Bit(r), 1) /\ ReadsAs(t, Bit(q), e)
          BY <4>2
        <5>2. QED
          BY <1>0, <3>1, <5>1, JoinReads
      <4>4. NodeTexts(b, w)[i] = InParens(Between(s, "&", t))
        BY <1>10, <1>12, <2>3, <4>1, <4>2
      <4>5. Truth(b, w, i) = Joined("&", r, q)
        BY <1>7, <1>8, <2>3, <4>1, <4>2 DEF Joined
      <4>6. QED
        BY <4>3, <4>4, <4>5
    <3>3. QED
      BY <3>2 DEF NodeReads
  <2>4. QED
    BY <1>12, <2>2, <2>3
<1>13. CASE low < 2 /\ high >= 2
  <2>1. PICK e \in Nat : NodeReads(b, high, e)
    BY <1>4, <1>5, <1>13
  <2>2. PICK d : d = (IF 0 < e THEN e ELSE 0) + 1
    OBVIOUS
  <2>3. CASE low = 0
    <3>1. ASSUME NEW w
          PROVE  NodeTexts(b, w)[i] \in Seq(Token) /\ ReadsAs(NodeTexts(b, w)[i], Bit(Truth(b, w, i)), d) /\ d \in Nat
      <4>1. PICK c \in BOOLEAN, q \in BOOLEAN : c = Tested(n, w) /\ q = Truth(b, w, high)
        BY <1>6
      <4>2. PICK s \in Seq(Token), t \in Seq(Token) :
              s = <<Bit(c)>> /\ ReadsAs(s, Bit(c), 0) /\ t = NodeTexts(b, w)[high] /\ ReadsAs(t, Bit(q), e)
        BY <2>1, <4>1, TestReads DEF NodeReads
      <4>3. ReadsAs(InParens(Between(s, "&", t)), Bit(Joined("&", c, q)), d) /\ InParens(Between(s, "&", t)) \in Seq(Token) /\ d \in Nat
        <5>1. ReadsAs(s, Bit(c), 0) /\ ReadsAs(t, Bit(q), e)
          BY <4>2
        <5>2. QED
          BY <1>0, <2>2, <5>1, JoinReads
      <4>4. NodeTexts(b, w)[i] = InParens(Between(s, "&", t))
        BY <1>10, <1>13, <2>3, <4>1, <4>2
      <4>5. Truth(b, w, i) = Joined("&", c, q)
        BY <1>7, <1>8, <2>3, <4>1 DEF Joined
      <4>6. QED
        BY <4>3, <4>4, <4>5
    <3>2. QED
      BY <3>1 DEF NodeReads
  <2>4. CASE low = 1
    <3>1. ASSUME NEW w
          PROVE  NodeTexts(b, w)[i] \in Seq(Token) /\ ReadsAs(NodeTexts(b, w)[i], Bit(Truth(b, w, i)), d) /\ d \in Nat
      <4>1. PICK c \in BOOLEAN, q \in BOOLEAN : c = Tested(n, w) /\ q = Truth(b, w, high)
        BY <1>6
      <4>2. PICK s \in Seq(Token), t \in Seq(Token), r \in BOOLEAN :
              /\ s = Negated(<<Bit(c)>>) /\ r = ~c /\ ReadsAs(s, Bit(r), 0)
              /\ t = NodeTexts(b, w)[high] /\ ReadsAs(t, Bit(q), e)
        BY <2>1, <4>1, TestReads DEF NodeReads
      <4>3. ReadsAs(InParens(Between(s, "|", t)), Bit(Joined("|", r, q)), d) /\ InParens(Between(s, "|", t)) \in Seq(Token) /\ d \in Nat
        <5>1. ReadsAs(s, Bit(r), 0) /\ ReadsAs(t, Bit(q), e)
          BY <4>2
        <5>2. QED
          BY <1>0, <2>2, <5>1, JoinReads
      <4>4. NodeTexts(b, w)[i] = InParens(Between(s, "|", t))
        BY <1>10, <1>13, <2>4, <4>1, <4>2
      <4>5. Truth(b, w, i) = Joined("|", r, q)
        BY <1>7, <1>8, <2>4, <4>1, <4>2 DEF Joined
      <4>6. QED
        BY <4>3, <4>4, <4>5
    <3>2. QED
      BY <3>1 DEF NodeReads
  <2>5. QED
    BY <1>13, <2>3, <2>4
<1>14. CASE low >= 2 /\ high >= 2
  <2>1. PICK e \in Nat, f \in Nat : NodeReads(b, low, e) /\ NodeReads(b, high, f)
    BY <1>4, <1>5, <1>14
  <2>2. PICK k, m, d : k = (IF 0 < f THEN f ELSE 0) + 1 /\ m = (IF 0 < e THEN e ELSE 0) + 1 /\ d = (IF k < m THEN m ELSE k) + 1
    OBVIOUS
  <2>3. ASSUME NEW w
        PROVE  NodeTexts(b, w)[i] \in Seq(Token) /\ ReadsAs(NodeTexts(b, w)[i], Bit(Truth(b, w, i)), d) /\ d \in Nat
    <3>1. PICK c \in BOOLEAN, p \in BOOLEAN, q \in BOOLEAN :
            c = Tested(n, w) /\ p = Truth(b, w, high) /\ q = Truth(b, w, low)
      BY <1>6
    <3>2. PICK s \in Seq(Token), h \in Seq(Token) :
            s = <<Bit(c)>> /\ ReadsAs(s, Bit(c), 0) /\ h = NodeTexts(b, w)[high] /\ ReadsAs(h, Bit(p), f)
      BY <2>1, <3>1, TestReads DEF NodeReads
    <3>3. PICK z \in Seq(Token), l \in Seq(Token), r \in BOOLEAN :
            /\ z = Negated(s) /\ r = ~c /\ ReadsAs(z, Bit(r), 0)
            /\ l = NodeTexts(b, w)[low] /\ ReadsAs(l, Bit(q), e)
      BY <2>1, <3>1, <3>2, TestReads DEF NodeReads
    <3>4. Joined("&", c, p) \in BOOLEAN /\ Joined("&", r, q) \in BOOLEAN
      BY DEF Joined
    <3>5. PICK u \in Seq(Token), x \in BOOLEAN : u = InParens(Between(s, "&", h)) /\ x = Joined("&", c, p)
                                                 /\ ReadsAs(u, Bit(x), k) /\ k \in Nat
      <4>1. k = (IF 0 < f THEN f ELSE 0) + 1 /\ ReadsAs(s, Bit(c), 0) /\ ReadsAs(h, Bit(p), f)
        BY <2>2, <3>2
      <4>2. /\ ReadsAs(InParens(Between(s, "&", h)), Bit(Joined("&", c, p)), k)
            /\ InParens(Between(s, "&", h)) \in Seq(Token) /\ k \in Nat
        BY <1>0, <4>1, JoinReads
      <4>3. QED
        BY <3>4, <4>2
    <3>6. PICK v \in Seq(Token), y \in BOOLEAN : v = InParens(Between(z, "&", l)) /\ y = Joined("&", r, q)
                                                 /\ ReadsAs(v, Bit(y), m) /\ m \in Nat
      <4>1. m = (IF 0 < e THEN e ELSE 0) + 1 /\ ReadsAs(z, Bit(r), 0) /\ ReadsAs(l, Bit(q), e)
        BY <2>2, <3>3
      <4>2. /\ ReadsAs(InParens(Between(z, "&", l)), Bit(Joined("&", r, q)), m)
            /\ InParens(Between(z, "&", l)) \in Seq(Token) /\ m \in Nat
        BY <1>0, <4>1, JoinReads
      <4>3. QED
        BY <3>4, <4>2
    <3>7. ReadsAs(InParens(Between(u, "|", v)), Bit(Joined("|", x, y)), d) /\ InParens(Between(u, "|", v)) \in Seq(Token) /\ d \in Nat
      <4>1. /\ d = (IF k < m THEN m ELSE k) + 1 /\ ReadsAs(u, Bit(x), k) /\ ReadsAs(v, Bit(y), m)
            /\ k \in Nat /\ m \in Nat
        BY <2>2, <3>5, <3>6
      <4>2. QED
        BY <1>0, <4>1, JoinReads
    <3>8. NodeTexts(b, w)[i] = InParens(Between(u, "|", v))
      BY <1>10, <1>14, <3>1, <3>2, <3>3, <3>5, <3>6 DEF BothSides
    <3>9. Truth(b, w, i) = Joined("|", x, y)
      BY <1>7, <3>1, <3>3, <3>5, <3>6 DEF Joined
    <3>10. QED
      BY <3>7, <3>8, <3>9
  <2>4. QED
    BY <2>3 DEF NodeReads
<1>15. QED
  BY <1>4, <1>11, <1>12, <1>13, <1>14

LEMMA AllNodesRead ==
  ASSUME NEW b, NEW R, Growing(b, R)
  PROVE  \A i \in Inner(b) : \E d \in Nat : NodeReads(b, i, d)
<1> DEFINE T == {i \in Nat : i \in Inner(b) => \E d \in Nat : NodeReads(b, i, d)}
<1>1. ASSUME NEW i \in Nat, \A j \in Nat : j < i => j \in T
      PROVE  i \in T
  <2>1. SUFFICES ASSUME i \in Inner(b)
                 PROVE  \E d \in Nat : NodeReads(b, i, d)
    OBVIOUS
  <2>2. \A j \in Inner(b) : j < i => \E d \in Nat : NodeReads(b, j, d)
    <3>1. \A j \in Inner(b) : j \in Nat
      BY GrowingFacts
    <3>2. QED
      BY <1>1, <3>1
  <2>3. QED
    BY <2>1, <2>2, NodeReadsStep
<1>2. \A i \in Inner(b) : i \in Nat
  BY GrowingFacts
<1> HIDE DEF T
<1>3. \A i \in Nat : i \in T
  BY <1>1, Strongly
<1>4. QED
  BY <1>2, <1>3 DEF T

(* The text of a diagram reads as its value.                                *)
TextReads(b, d) == \A w : Text(b, w) \in Seq(Token) /\ ReadsAs(Text(b, w), Bit(Truth(b, w, BddRoot(b))), d)

LEMMA WholeReads ==
  ASSUME NEW b, NEW R, Whole(b, R)
  PROVE  \E d \in Nat : TextReads(b, d)
<1>1. CASE b \in {<<LeafRec(0)>>, <<LeafRec(1)>>}
  <2>1. PICK v \in {0, 1} : b = <<LeafRec(v)>>
    BY <1>1
  <2>2. Len(b) = 1 /\ b[1] = LeafRec(v) /\ Diagram(b, R)
    BY <2>1 DEF Whole
  <2>3. BddRoot(b) = 0 /\ NodeAt(b, 0) = LeafRec(v) /\ 0 \in Indices(b)
    BY <2>2 DEF BddRoot, NodeAt, Indices
  <2>4. IsLeaf(LeafRec(v)) /\ LeafBoolValue(LeafRec(v)) = v
    BY DEF IsLeaf, LeafBoolValue, LeafRec, NodeRec, RvaLeaf
  <2>5. PICK c \in BOOLEAN : c = (IF v = 1 THEN TRUE ELSE FALSE)
    OBVIOUS
  <2>6. ASSUME NEW w
        PROVE  Text(b, w) = <<Bit(c)>> /\ Truth(b, w, BddRoot(b)) = c
    <3>1. PICK g : g = NodeTexts(b, w)
      OBVIOUS
    <3>2. Text(b, w) = g[0] /\ g[0] = NodeText(b, w, g, 0)
      BY <2>2, <2>3, <3>1, TextsIs
    <3>3. PICK n, test : n = NodeAt(b, 0) /\ test = <<Bit(n.rva \in w)>>
      OBVIOUS
    <3>4. NodeText(b, w, g, 0) = IF LeafBoolValue(n) = 1 THEN <<"1">> ELSE <<"0">>
      BY <2>3, <2>4, <3>3, TextCases
    <3>5. RootValue(b, w) = v
      BY <2>1, LeafWhole
    <3>6. QED
      BY <2>3, <2>4, <2>5, <3>2, <3>3, <3>4, <3>5 DEF Bit, Truth, RootValue
  <2>7. TextReads(b, 0)
    BY <2>6, TestReads DEF TextReads
  <2>8. QED
    BY <2>7
<1>2. CASE Growing(b, R) /\ Len(b) > 2
  <2>1. Len(b) \in Nat /\ Inner(b) = 2 .. Len(b) - 1 /\ Diagram(b, R)
    BY <1>2, GrowingFacts
  <2>2. BddRoot(b) \in Inner(b)
    BY <1>2, <2>1 DEF BddRoot
  <2>3. PICK d \in Nat : NodeReads(b, BddRoot(b), d)
    BY <1>2, <2>2, AllNodesRead
  <2>4. \A w : Text(b, w) = NodeTexts(b, w)[BddRoot(b)]
    BY <2>1, TextsIs
  <2>5. QED
    BY <2>3, <2>4 DEF NodeReads, TextReads
<1>3. QED
  BY <1>1, <1>2 DEF Whole

-----------------------------------------------------------------------------
(***************************************************************************)
(* And and or by text.                                                     *)
(***************************************************************************)
(* The two texts in parentheses, joined by op, evaluate to the joint value  *)
(* in every world, or in none.                                              *)
LEMMA JoinedTexts ==
  ASSUME NEW l, NEW r, NEW R, Whole(l, R), Whole(r, R), NEW op \in {"&", "|"}
  PROVE  \E m \in Nat : \A w :
           Evaluate(Between(InParens(Text(l, w)), op, InParens(Text(r, w)))) =
             IF m < StackMax THEN (IF Joined(op, Truth(l, w, BddRoot(l)), Truth(r, w, BddRoot(r))) THEN 1 ELSE 0)
             ELSE -1
<1>1. PICK d \in Nat, e \in Nat : TextReads(l, d) /\ TextReads(r, e)
  BY WholeReads
<1>2. PICK k \in Nat, j \in Nat : k = d + 1 /\ j = e + 1
  OBVIOUS
<1>3. PICK m \in Nat : m = (IF k < j THEN j ELSE k)
  OBVIOUS
<1>4. ASSUME NEW w
      PROVE  Evaluate(Between(InParens(Text(l, w)), op, InParens(Text(r, w)))) =
               IF m < StackMax THEN (IF Joined(op, Truth(l, w, BddRoot(l)), Truth(r, w, BddRoot(r))) THEN 1 ELSE 0)
               ELSE -1
  <2>1. PICK p \in BOOLEAN, q \in BOOLEAN : p = Truth(l, w, BddRoot(l)) /\ q = Truth(r, w, BddRoot(r))
    BY DEF Truth
  <2>2. PICK s \in Seq(Token), t \in Seq(Token) :
          s = Text(l, w) /\ ReadsAs(s, Bit(p), d) /\ t = Text(r, w) /\ ReadsAs(t, Bit(q), e)
    BY <1>1, <2>1 DEF TextReads
  <2>3. Bit(p) \in Val /\ Bit(q) \in Val
    BY TextTyped
  <2>4. StartsAs(s, Bit(p), d) /\ StartsAs(t, Bit(q), e)
    BY <2>2, <2>3, ReadsStarts
  <2>5. PICK a \in Seq(Token) : a = InParens(s) /\ ReadsAs(a, Bit(p), k)
    BY <1>2, <2>3, <2>4, ParensRead
  <2>6. PICK b \in Seq(Token) : b = InParens(t) /\ ReadsAs(b, Bit(q), j)
    BY <1>2, <2>3, <2>4, ParensRead
  <2>7. StartsAs(a, Bit(p), k)
    BY <2>3, <2>5, ReadsStarts
  <2>8. StartsAs(Between(a, op, b), Bit(Joined(op, p, q)), m) /\ Between(a, op, b) \in Seq(Token)
    BY <1>3, <2>6, <2>7, BetweenReads
  <2>9. PICK c \in BOOLEAN, x \in Seq(Token) : c = Joined(op, p, q) /\ x = Between(a, op, b)
    BY <2>8 DEF Joined
  <2>10. StartsAs(x, Bit(c), m)
    BY <2>8, <2>9
  <2>11. Evaluate(x) = IF m < StackMax THEN (IF c THEN 1 ELSE 0) ELSE -1
    BY <2>10, StartsEvaluates
  <2>12. QED
    BY <2>1, <2>2, <2>5, <2>6, <2>9, <2>11
<1>5. QED
  BY <1>4

LEMMA ByTextIs ==
  ASSUME NEW l, NEW r, NEW R, Whole(l, R), Whole(r, R), NEW op \in {"&", "|"}, ByText(op, l, r) # NoBdd,
         NEW v, Exclusive(v)
  PROVE  RootValue(ByText(op, l, r), v) = IF Joined(op, Truth(l, v, BddRoot(l)), Truth(r, v, BddRoot(r))) THEN 1 ELSE 0
<1> DEFINE S == RvasIn(l) \cup RvasIn(r)
           Joint(w) == Between(InParens(Text(l, w)), op, InParens(Text(r, w)))
           text == [w \in SUBSET S |-> Joint(w)]
           in == [order |-> RvaOrder(S), sat |-> {w \in SUBSET S : Evaluate(text[w]) = 1}]
           Yes(w) == Joined(op, Truth(l, w, BddRoot(l)), Truth(r, w, BddRoot(r)))
<1>1. Diagram(l, R) /\ Diagram(r, R)
  BY DEF Whole
<1>2. S \subseteq Rva /\ S \subseteq R /\ IsFiniteSet(S)
  BY <1>1, RvasInIs, FS_Union
<1>3. SortedRvas(RvaOrder(S)) /\ ToSet(RvaOrder(S)) = S
  BY <1>2, RvaOrderIs
<1>4. ByText(op, l, r) = IF Evaluate(text[S]) = -1 THEN NoBdd ELSE CreateBdd(in)
  BY DEF ByText, CreateFrom
<1>5. Evaluate(text[S]) # -1 /\ ByText(op, l, r) = CreateBdd(in)
  BY <1>4
<1>6. PICK m \in Nat : \A w : Evaluate(Joint(w)) = IF m < StackMax THEN (IF Yes(w) THEN 1 ELSE 0) ELSE -1
  BY JoinedTexts
<1>7. \A w \in SUBSET S : text[w] = Joint(w)
  OBVIOUS
<1>8. m < StackMax
  <2> HIDE DEF text, Joint, Yes
  <2>1. S \in SUBSET S
    OBVIOUS
  <2>2. QED
    BY <1>5, <1>6, <1>7, <2>1
<1>9. v \cap S \in SUBSET S
  OBVIOUS
<1>10. (v \cap S \in in.sat) <=> Evaluate(text[v \cap S]) = 1
  BY <1>9
<1>11. Evaluate(text[v \cap S]) = IF Yes(v \cap S) THEN 1 ELSE 0
  <2> HIDE DEF text, Joint, Yes, S
  <2>1. QED
    BY <1>6, <1>7, <1>8, <1>9
<1>12. in.order = RvaOrder(S)
  OBVIOUS
<1>13. RootValue(CreateBdd(in), v) = IF v \cap S \in in.sat THEN 1 ELSE 0
  <2> HIDE DEF in, S
  <2>1. QED
    BY <1>2, <1>3, <1>12, CreateIs
<1>14. BddRoot(l) \in Indices(l) /\ BddRoot(r) \in Indices(r)
  BY RootTwoValued
<1>15. PICK u : u = v \cap S
  OBVIOUS
<1>16. NodeValues(l, u)[BddRoot(l)] = NodeValues(l, v)[BddRoot(l)]
  <2>1. \A x \in RvasIn(l) : x \in u <=> x \in v
    BY <1>15
  <2>2. QED
    BY <1>1, <1>14, <2>1, UntestedIgnored
<1>17. NodeValues(r, u)[BddRoot(r)] = NodeValues(r, v)[BddRoot(r)]
  <2>1. \A x \in RvasIn(r) : x \in u <=> x \in v
    BY <1>15
  <2>2. QED
    BY <1>1, <1>14, <2>1, UntestedIgnored
<1>18. Yes(v \cap S) <=> Yes(v)
  BY <1>15, <1>16, <1>17 DEF Truth
<1> HIDE DEF in, text, Joint, S
<1>19. RootValue(CreateBdd(in), v) = IF Yes(v) THEN 1 ELSE 0
  <2> HIDE DEF Yes
  <2>1. QED
    BY <1>10, <1>11, <1>13, <1>18
<1>20. QED
  BY <1>5, <1>19

-----------------------------------------------------------------------------
(***************************************************************************)
(* The algebra of the statements.                                          *)
(***************************************************************************)
LEMMA MeaningIs ==
  ASSUME NEW b, NEW R, Whole(b, R)
  PROVE  /\ \A w : w \in Meaning(b) <=> w \in World /\ RootValue(b, w) = 1
         /\ \A w : w \in Meaning(b) <=> w \in World /\ Truth(b, w, BddRoot(b))
         /\ \A w : RootValue(b, w) \in {0, 1}
<1>1. \A w : Holds(b, w) <=> RootValue(b, w) = 1
  BY RootTwoValued
<1>2. \A w : Truth(b, w, BddRoot(b)) <=> RootValue(b, w) = 1
  BY DEF Truth, RootValue
<1>3. \A w : RootValue(b, w) \in {0, 1}
  BY RootTwoValued
<1>4. QED
  BY <1>1, <1>2, <1>3 DEF Meaning

LEMMA WorldsExclude == \A w \in World : Exclusive(w)
  BY DEF World, WorldsOver

LEMMA NotMeans ==
  ASSUME NEW b, NEW R, Whole(b, R)
  PROVE  Meaning(BddNot(b)) = World \ Meaning(b)
<1>1. Whole(BddNot(b), R) /\ \A w : RootValue(BddNot(b), w) = 1 - RootValue(b, w)
  BY NotIs
<1>2. \A w : w \in Meaning(BddNot(b)) <=> w \in World /\ RootValue(BddNot(b), w) = 1
  BY <1>1, MeaningIs
<1>3. \A w : (w \in Meaning(b) <=> w \in World /\ RootValue(b, w) = 1) /\ RootValue(b, w) \in {0, 1}
  BY MeaningIs
<1>4. \A w : w \in Meaning(BddNot(b)) <=> w \in World \ Meaning(b)
  <2>1. TAKE w
  <2>2. PICK x, y : x = RootValue(b, w) /\ y = RootValue(BddNot(b), w)
    OBVIOUS
  <2>3. y = 1 - x /\ x \in {0, 1}
    BY <1>1, <1>3, <2>2
  <2>4. y = 1 <=> ~(x = 1)
    BY <2>3
  <2>5. QED
    BY <1>2, <1>3, <2>2, <2>4
<1>5. Meaning(BddNot(b)) \subseteq World
  BY DEF Meaning
<1>6. QED
  BY <1>4, <1>5

LEMMA ByTextMeans ==
  ASSUME NEW l, NEW r, NEW R, Whole(l, R), Whole(r, R), NEW op \in {"&", "|"}, ByText(op, l, r) # NoBdd
  PROVE  Meaning(ByText(op, l, r)) = IF op = "&" THEN Meaning(l) \cap Meaning(r) ELSE Meaning(l) \cup Meaning(r)
<1>1. PICK b : b = ByText(op, l, r)
  OBVIOUS
<1>2. Diagram(l, R) /\ Diagram(r, R)
  BY DEF Whole
<1>3. Whole(b, R)
  BY <1>1, <1>2, ReadIs
<1>4. \A w : w \in Meaning(b) <=> w \in World /\ RootValue(b, w) = 1
  BY <1>3, MeaningIs
<1>5. \A w : w \in Meaning(l) <=> w \in World /\ Truth(l, w, BddRoot(l))
  BY MeaningIs
<1>6. \A w : w \in Meaning(r) <=> w \in World /\ Truth(r, w, BddRoot(r))
  BY MeaningIs
<1>7. \A w \in World : RootValue(b, w) = IF Joined(op, Truth(l, w, BddRoot(l)), Truth(r, w, BddRoot(r))) THEN 1 ELSE 0
  BY <1>1, WorldsExclude, ByTextIs
<1>8. \A w \in World : w \in Meaning(b) <=> Joined(op, w \in Meaning(l), w \in Meaning(r))
  <2>1. TAKE w \in World
  <2>2. w \in Meaning(b) <=> Joined(op, Truth(l, w, BddRoot(l)), Truth(r, w, BddRoot(r)))
    BY <1>4, <1>7
  <2>3. QED
    BY <1>5, <1>6, <2>2 DEF Joined
<1>9. Meaning(b) \subseteq World /\ Meaning(l) \subseteq World /\ Meaning(r) \subseteq World
  BY DEF Meaning
<1>10. CASE op = "&"
  BY <1>1, <1>8, <1>9, <1>10 DEF Joined
<1>11. CASE op = "|"
  BY <1>1, <1>8, <1>9, <1>11 DEF Joined
<1>12. QED
  BY <1>10, <1>11

LEMMA FixSubstitutes ==
  ASSUME NEW r, NEW w, w \subseteq Rvas
  PROVE  Substituted(Rvas, r, w, FixRva(w, r.var, r.val, r.torf))
<1>1. PICK x : x = FixRva(w, r.var, r.val, r.torf)
  OBVIOUS
<1>2. \A y \in Rvas : Fixes(r, y) <=> y \in Affected(r.var, r.val)
  BY DEF Fixes, Affected
<1>3. CASE r.torf
  BY <1>1, <1>2, <1>3 DEF Substituted, FixRva
<1>4. CASE ~r.torf
  BY <1>1, <1>2, <1>4 DEF Substituted, FixRva
<1>5. QED
  BY <1>3, <1>4

LEMMA RestrictMeans ==
  ASSUME NEW b, Whole(b, Rvas), NEW r, Meaning(b) # World, NEW w \in World,
         FixRva(w, r.var, r.val, r.torf) \in World
  PROVE  w \in Meaning(BddRestrict(b, r)) <=> FixRva(w, r.var, r.val, r.torf) \in Meaning(b)
<1>1. PICK x \in World : x = FixRva(w, r.var, r.val, r.torf)
  OBVIOUS
<1>2. PICK c : c = BddRestrict(b, r) /\ Whole(c, Rvas)
  BY RestrictIs
<1>3. \A v : v \in Meaning(c) <=> v \in World /\ RootValue(c, v) = 1
  BY <1>2, MeaningIs
<1>4. \A v : v \in Meaning(b) <=> v \in World /\ RootValue(b, v) = 1
  BY MeaningIs
<1>5. CASE Len(b) > 2
  <2>1. w \subseteq Rvas
    BY DEF World, WorldsOver
  <2>2. Substituted(Rvas, r, w, x)
    BY <1>1, <2>1, FixSubstitutes
  <2>3. RootValue(c, w) = RootValue(b, x)
    BY <1>2, <1>5, <2>2, RestrictIs
  <2>4. QED
    BY <1>1, <1>2, <1>3, <1>4, <2>3
<1>6. CASE ~(Len(b) > 2)
  <2>1. c = <<LeafRec(0)>>
    BY <1>2, <1>6, RestrictIs
  <2>2. \A v : RootValue(c, v) = 0
    BY <2>1, LeafWhole
  <2>3. PICK k \in {0, 1} : b = <<LeafRec(k)>>
    BY <1>6 DEF Whole
  <2>4. \A v : RootValue(b, v) = k
    BY <2>3, LeafWhole
  <2>5. k = 0
    <3>1. CASE k = 1
      <4>1. Meaning(b) = World
        BY <1>4, <2>4, <3>1 DEF Meaning
      <4>2. QED
        BY <4>1
    <3>2. QED
      BY <3>1
  <2>6. w \notin Meaning(c) /\ x \notin Meaning(b)
    BY <1>3, <1>4, <2>2, <2>4, <2>5
  <2>7. QED
    BY <1>1, <1>2, <2>6
<1>7. QED
  BY <1>5, <1>6

LEMMA AlgebraStep ==
  ASSUME WholeInv, [Next]_vars
  PROVE  [Algebra!Next]_(Algebra!algebraVars)
<1>1. Whole(stored, Rvas) /\ Whole(literal, Rvas)
  BY DEF WholeInv
<1>2. \A b : Meaning(b) \subseteq World
  BY DEF Meaning
<1>3. CASE Read
  <2>1. stmt' = <<"literal">> /\ Meaning(stored)' = Meaning(stored) /\ Meaning(literal)' \subseteq World
    BY <1>3 DEF Read, Meaning
  <2>2. Algebra!Read
    BY <2>1 DEF Algebra!Read
  <2>3. QED
    BY <2>2 DEF Algebra!Next
<1>4. CASE Store
  <2>1. stmt' = <<"store">> /\ Meaning(stored)' = Meaning(literal) /\ Meaning(literal)' = Meaning(literal)
    BY <1>4 DEF Store, Meaning
  <2>2. Algebra!Store
    BY <2>1 DEF Algebra!Store
  <2>3. QED
    BY <2>2 DEF Algebra!Next
<1>5. CASE Negate
  <2>1. stmt' = <<"!">> /\ Meaning(stored)' = Meaning(BddNot(stored)) /\ Meaning(literal)' = Meaning(literal)
    BY <1>5 DEF Negate, Meaning
  <2>2. Meaning(BddNot(stored)) = World \ Meaning(stored)
    BY <1>1, NotMeans
  <2>3. Algebra!Negate
    BY <2>1, <2>2 DEF Algebra!Negate
  <2>4. QED
    BY <2>3 DEF Algebra!Next
<1>6. CASE Combine
  <2>1. PICK op \in {"&", "|"} :
          \/ ByText(op, stored, literal) # NoBdd /\ stored' = ByText(op, stored, literal) /\ stmt' = <<op>>
          \/ stored' = stored /\ stmt' = <<"error">>
    BY <1>6 DEF Combine
  <2>2. literal' = literal
    BY <1>6 DEF Combine
  <2>3. Meaning(literal)' = Meaning(literal)
    BY <2>2 DEF Meaning
  <2>4. CASE ByText(op, stored, literal) # NoBdd /\ stored' = ByText(op, stored, literal) /\ stmt' = <<op>>
    <3>1. Meaning(stored)' = Meaning(ByText(op, stored, literal))
      BY <2>4 DEF Meaning
    <3>2. Meaning(stored)' = IF op = "&" THEN Meaning(stored) \cap Meaning(literal) ELSE Meaning(stored) \cup Meaning(literal)
      BY <1>1, <2>4, <3>1, ByTextMeans
    <3>3. Algebra!And \/ Algebra!Or
      BY <2>3, <2>4, <3>2 DEF Algebra!And, Algebra!Or
    <3>4. QED
      BY <3>3 DEF Algebra!Next
  <2>5. CASE stored' = stored /\ stmt' = <<"error">>
    <3>1. Meaning(stored)' = Meaning(stored)
      BY <2>5 DEF Meaning
    <3>2. Algebra!Fail
      BY <2>3, <2>5, <3>1 DEF Algebra!Fail
    <3>3. QED
      BY <3>2 DEF Algebra!Next
  <2>6. QED
    BY <2>1, <2>4, <2>5
<1>7. CASE Assign
  <2>1. PICK r \in Restrictions : /\ stored' = BddRestrict(stored, r) /\ literal' = literal
                                  /\ stmt' = <<"restrict", r.var, r.val, r.torf>>
    BY <1>7 DEF Assign
  <2>2. stmt'[1] = "restrict" /\ stmt'[2] = r.var /\ stmt'[3] = r.val /\ stmt'[4] = r.torf
    BY <2>1
  <2>3. Meaning(literal)' = Meaning(literal) /\ Meaning(stored)' = Meaning(BddRestrict(stored, r))
    BY <2>1 DEF Meaning
  <2>4. ASSUME Meaning(stored) # World, NEW w \in World, FixRva(w, r.var, r.val, r.torf) \in World
        PROVE  w \in Meaning(stored)' <=> FixRva(w, r.var, r.val, r.torf) \in Meaning(stored)
    BY <1>1, <2>3, <2>4, RestrictMeans
  <2>5. Algebra!Restrict
    BY <2>2, <2>3, <2>4 DEF Algebra!Restrict
  <2>6. QED
    BY <2>5 DEF Algebra!Next
<1>8. CASE UNCHANGED vars
  <2>1. stored' = stored /\ literal' = literal /\ stmt' = stmt
    BY <1>8 DEF vars
  <2>2. UNCHANGED Algebra!algebraVars
    BY <2>1 DEF Algebra!algebraVars, Meaning
  <2>3. QED
    BY <2>2
<1>9. QED
  BY <1>3, <1>4, <1>5, <1>6, <1>7, <1>8 DEF Next

(* The SQL functions on diagrams are the Boolean operations on the worlds   *)
(* a diagram is true in, also where a text is read again, and restrict      *)
(* substitutes, whatever the literals and however deep BEE may nest.        *)
THEOREM StatementsMean == Spec => ImplementsBddAlgebra
<1>1. Init => Algebra!Init
  BY DEF Init, Algebra!Init, Meaning
<1>2. WholeInv /\ [Next]_vars => [Algebra!Next]_(Algebra!algebraVars)
  BY AlgebraStep
<1>3. QED
  BY <1>1, <1>2, WholeHolds, PTL DEF Spec, ImplementsBddAlgebra, Algebra!Spec

-----------------------------------------------------------------------------
(***************************************************************************)
(* Equality.                                                               *)
(*                                                                         *)
(* A restriction that fixes nothing copies a diagram, numbering its nodes  *)
(* anew, the nodes below low before those below high.  What a copy holds   *)
(* depends on the function of the node that is copied only, so a diagram   *)
(* that is its own copy is the only one with its meaning.  create_bdd      *)
(* makes no other, and _bdd_not keeps them so.                             *)
(***************************************************************************)
Nothing == [var |-> 0, val |-> 0, torf |-> TRUE, lowFirst |-> TRUE]

Copied(b) == Restricted(b, Nothing)

Copies(b, u, t, q) ==
  LET node == NodeAt(b, u)
  IN  \E l, h : /\ l = Copied(b)[node.low][t] /\ h = Copied(b)[node.high][l.tree]
                /\ q = Mk(h.tree, node.rva, l.node, h.node)

LEMMA CopiedLeaf ==
  ASSUME NEW b, NEW R, Diagram(b, R), NEW u, u \in Indices(b), u \notin Inner(b), NEW t, t \in Seq(BddNode)
  PROVE  Copied(b)[u][t] = Result(t, u)
<1>1. Copied(b)[u][t] = RestrictCall(b, Nothing, Copied(b), u, t)
  BY RestrictedAt DEF Copied
<1>2. QED
  BY <1>1 DEF RestrictCall, Inner

LEMMA CopiedInner ==
  ASSUME NEW b, NEW R, Diagram(b, R), NEW u, u \in Inner(b), NEW t, t \in Seq(BddNode)
  PROVE  Copies(b, u, t, Copied(b)[u][t])
<1>1. PICK f : f = Copied(b)
  OBVIOUS
<1>2. PICK node : node = NodeAt(b, u)
  OBVIOUS
<1>3. u \in Indices(b) /\ ~IsLeaf(node) /\ node.rva \in Rva
  BY <1>2, InnerFacts DEF Inner
<1>4. f[u][t] = RestrictCall(b, Nothing, f, u, t)
  BY <1>1, <1>3, RestrictedAt DEF Copied
<1>5. node.rva.var # Nothing.var /\ Nothing.lowFirst
  BY <1>3 DEF Nothing, Rva, VarName
<1>6. PICK l, h : l = f[node.low][t] /\ h = f[node.high][l.tree]
  OBVIOUS
<1>7. f[u][t] = Mk(h.tree, node.rva, l.node, h.node)
  BY <1>2, <1>3, <1>4, <1>5, <1>6 DEF RestrictCall
<1>8. QED
  BY <1>1, <1>2, <1>6, <1>7, Zenon DEF Copies

LEMMA CopiedGrows ==
  ASSUME NEW b, NEW R, Growing(b, R), NEW u, u \in Indices(b), NEW t, Growing(t, R)
  PROVE  Grows(t, R, Copied(b)[u][t]) /\ Growing(Copied(b)[u][t].tree, R)
<1>1. RestrictsAt(b, R, Nothing, u)
  BY RestrictsAll
<1>2. Grows(t, R, Copied(b)[u][t])
  BY <1>1 DEF RestrictsAt, Restricts, Copied
<1>3. QED
  BY <1>2 DEF Grows

(* Node u of b and node v of c have the same value in all worlds over R.    *)
Alike(b, c, R, u, v) == \A w \in SUBSET R : NodeValues(b, w)[u] = NodeValues(c, w)[v]

LEMMA AlikeLeaf ==
  ASSUME NEW b, NEW R, Growing(b, R), NEW c, Growing(c, R), NEW u, u \in Indices(b), u \notin Inner(b),
         NEW v, v \in Indices(c), Alike(b, c, R, u, v)
  PROVE  v = u
<1>1. u \in {0, 1} /\ \A w : NodeValues(b, w)[u] = u
  <2>1. /\ Len(b) \in Nat /\ Inner(b) = 2 .. Len(b) - 1
        /\ \A w : NodeValues(b, w)[0] = 0 /\ NodeValues(b, w)[1] = 1
    BY GrowingFacts
  <2>2. u \in {0, 1}
    BY <2>1 DEF Indices
  <2>3. QED
    BY <2>1, <2>2
<1>2. u \in Indices(c) /\ Diagram(c, R) /\ \A w : NodeValues(c, w)[u] = u
  BY <1>1, GrowingFacts
<1>3. \A w \in SUBSET R : NodeValues(c, w)[v] = NodeValues(c, w)[u]
  BY <1>1, <1>2 DEF Alike
<1>4. QED
  BY <1>2, <1>3, FunctionsDistinct

LEMMA AlikeOther ==
  ASSUME NEW b, NEW c, NEW R, NEW u, NEW v, Alike(b, c, R, u, v)
  PROVE  Alike(c, b, R, v, u)
  BY DEF Alike

LEMMA TestNotEarlier ==
  ASSUME NEW b, NEW R, Diagram(b, R), NEW c, Diagram(c, R), NEW u, u \in Inner(b), NEW v, v \in Inner(c),
         Alike(b, c, R, u, v)
  PROVE  ~RvaBefore(NodeAt(b, u).rva, NodeAt(c, v).rva)
<1>1. SUFFICES ASSUME RvaBefore(NodeAt(b, u).rva, NodeAt(c, v).rva)
               PROVE  FALSE
  OBVIOUS
<1>2. PICK x : x = NodeAt(b, u).rva /\ x \in Rva /\ x \in R
  BY InnerFacts
<1>3. TestsAfter(c, x, v) /\ v \in Indices(c)
  BY <1>1, <1>2 DEF TestsAfter, Inner
<1>4. PICK w \in SUBSET R : NodeValues(b, w \cup {x})[u] # NodeValues(b, w \ {x})[u]
  BY <1>2, TestedMatters DEF DependsOn
<1>5. PICK w1, w0 : w1 = w \cup {x} /\ w0 = w \ {x}
  OBVIOUS
<1>6. w1 \in SUBSET R /\ w0 \in SUBSET R /\ SameBut(x, w1, w0)
  BY <1>2, <1>5 DEF SameBut
<1>7. NodeValues(c, w1)[v] = NodeValues(c, w0)[v]
  BY <1>2, <1>3, <1>6, ValueIgnores
<1>8. QED
  BY <1>4, <1>5, <1>6, <1>7 DEF Alike

(* A child's value is the node's in a world in which the test leads there.  *)
LEMMA ChildValue ==
  ASSUME NEW b, NEW R, Diagram(b, R), NEW u, u \in Inner(b), NEW x, x = NodeAt(b, u).rva, NEW w
  PROVE  /\ NodeValues(b, w)[NodeAt(b, u).low] = NodeValues(b, w \ {x})[u]
         /\ NodeValues(b, w)[NodeAt(b, u).high] = NodeValues(b, w \cup {x})[u]
<1>1. PICK n : n = NodeAt(b, u)
  OBVIOUS
<1>2. /\ x \in Rva /\ n.low \in Indices(b) /\ n.high \in Indices(b)
      /\ \A v : NodeValues(b, v)[u] = IF x \in v THEN NodeValues(b, v)[n.high] ELSE NodeValues(b, v)[n.low]
  BY <1>1, InnerFacts
<1>3. TestsAfter(b, x, n.low) /\ TestsAfter(b, x, n.high)
  BY <1>1, <1>2, ChildrenTestAfter
<1>4. PICK w1, w0 : w1 = w \cup {x} /\ w0 = w \ {x}
  OBVIOUS
<1>5. SameBut(x, w, w1) /\ SameBut(x, w, w0) /\ x \in w1 /\ x \notin w0
  BY <1>4 DEF SameBut
<1>6. NodeValues(b, w)[n.high] = NodeValues(b, w1)[n.high] /\ NodeValues(b, w)[n.low] = NodeValues(b, w0)[n.low]
  BY <1>2, <1>3, <1>5, ValueIgnores
<1>7. QED
  BY <1>1, <1>2, <1>4, <1>5, <1>6

(* Inner nodes that are alike test the same, and their children are alike.  *)
LEMMA AlikeInner ==
  ASSUME NEW b, NEW R, Diagram(b, R), NEW c, Diagram(c, R), NEW u, u \in Inner(b), NEW v, v \in Inner(c),
         Alike(b, c, R, u, v)
  PROVE  /\ NodeAt(b, u).rva = NodeAt(c, v).rva
         /\ Alike(b, c, R, NodeAt(b, u).low, NodeAt(c, v).low)
         /\ Alike(b, c, R, NodeAt(b, u).high, NodeAt(c, v).high)
<1>1. PICK x, y : x = NodeAt(b, u).rva /\ y = NodeAt(c, v).rva
  OBVIOUS
<1>2. x \in Rva /\ x \in R /\ y \in Rva
  BY <1>1, InnerFacts
<1>3. ~RvaBefore(x, y)
  BY <1>1, TestNotEarlier
<1>4. ~RvaBefore(y, x)
  BY <1>1, AlikeOther, TestNotEarlier
<1>5. x = y
  BY <1>2, <1>3, <1>4, BeforeFacts
<1>6. ASSUME NEW w \in SUBSET R
      PROVE  /\ NodeValues(b, w)[NodeAt(b, u).low] = NodeValues(c, w)[NodeAt(c, v).low]
             /\ NodeValues(b, w)[NodeAt(b, u).high] = NodeValues(c, w)[NodeAt(c, v).high]
  <2>1. PICK w1, w0 : w1 = w \cup {x} /\ w0 = w \ {x}
    OBVIOUS
  <2>2. w1 \in SUBSET R /\ w0 \in SUBSET R
    BY <1>2, <2>1
  <2>3. NodeValues(b, w)[NodeAt(b, u).low] = NodeValues(b, w0)[u] /\ NodeValues(b, w)[NodeAt(b, u).high] = NodeValues(b, w1)[u]
    BY <1>1, <2>1, ChildValue
  <2>4. NodeValues(c, w)[NodeAt(c, v).low] = NodeValues(c, w0)[v] /\ NodeValues(c, w)[NodeAt(c, v).high] = NodeValues(c, w1)[v]
    BY <1>1, <1>5, <2>1, ChildValue
  <2>5. QED
    BY <2>2, <2>3, <2>4 DEF Alike
<1>7. QED
  BY <1>1, <1>5, <1>6 DEF Alike

(* The copy of a node depends on its function only.                         *)
SameCopy(b, c, R, u, v) == \A t : Growing(t, R) => Copied(b)[u][t] = Copied(c)[v][t]

LEMMA AlikeCopied ==
  ASSUME NEW b, NEW R, Growing(b, R), NEW c, Growing(c, R), NEW u, u \in Indices(b), NEW v, v \in Indices(c),
         Alike(b, c, R, u, v),
         \A i \in Indices(b) : i < u => \A j \in Indices(c) : Alike(b, c, R, i, j) => SameCopy(b, c, R, i, j)
  PROVE  SameCopy(b, c, R, u, v)
<1>1. SUFFICES ASSUME NEW t, Growing(t, R)
               PROVE  Copied(b)[u][t] = Copied(c)[v][t]
  BY DEF SameCopy
<1>2. Diagram(b, R) /\ Diagram(c, R) /\ t \in Seq(BddNode)
  BY <1>1, GrowingFacts
<1>3. CASE u \notin Inner(b) \/ v \notin Inner(c)
  <2>1. v = u /\ u \notin Inner(b) /\ v \notin Inner(c)
    <3>1. /\ Inner(b) = 2 .. Len(b) - 1 /\ Inner(c) = 2 .. Len(c) - 1 /\ Len(b) \in Nat /\ Len(c) \in Nat
      BY GrowingFacts
    <3>2. v = u
      <4>1. CASE u \notin Inner(b)
        BY <4>1, AlikeLeaf
      <4>2. CASE v \notin Inner(c)
        BY <4>2, AlikeOther, AlikeLeaf
      <4>3. QED
        BY <1>3, <4>1, <4>2
    <3>3. QED
      BY <1>3, <3>1, <3>2 DEF Indices
  <2>2. QED
    BY <1>2, <2>1, CopiedLeaf
<1>4. CASE u \in Inner(b) /\ v \in Inner(c)
  <2>1. PICK m, n : m = NodeAt(b, u) /\ n = NodeAt(c, v)
    OBVIOUS
  <2>2. /\ m.rva = n.rva /\ Alike(b, c, R, m.low, n.low) /\ Alike(b, c, R, m.high, n.high)
    BY <1>2, <1>4, <2>1, AlikeInner
  <2>3. m.low \in Indices(b) /\ m.high \in Indices(b) /\ m.low < u /\ m.high < u
    BY <1>2, <1>4, <2>1, InnerFacts
  <2>4. n.low \in Indices(c) /\ n.high \in Indices(c)
    BY <1>2, <1>4, <2>1, InnerFacts
  <2>5. SameCopy(b, c, R, m.low, n.low) /\ SameCopy(b, c, R, m.high, n.high)
    BY <2>2, <2>3, <2>4
  <2>6. PICK l, h : /\ l = Copied(b)[m.low][t] /\ h = Copied(b)[m.high][l.tree]
                    /\ Copied(b)[u][t] = Mk(h.tree, m.rva, l.node, h.node)
    BY <1>2, <1>4, <2>1, CopiedInner DEF Copies
  <2>7. PICK k, g : /\ k = Copied(c)[n.low][t] /\ g = Copied(c)[n.high][k.tree]
                    /\ Copied(c)[v][t] = Mk(g.tree, n.rva, k.node, g.node)
    BY <1>2, <1>4, <2>1, CopiedInner DEF Copies
  <2>8. l = k
    BY <1>1, <2>5, <2>6, <2>7 DEF SameCopy
  <2>9. Growing(l.tree, R)
    BY <1>1, <2>3, <2>6, CopiedGrows
  <2>10. h = g
    BY <2>5, <2>6, <2>7, <2>8, <2>9 DEF SameCopy
  <2>11. QED
    BY <2>2, <2>6, <2>7, <2>8, <2>10
<1>5. QED
  BY <1>3, <1>4

LEMMA CopiesAlike ==
  ASSUME NEW b, NEW R, Growing(b, R), NEW c, Growing(c, R), NEW u, u \in Indices(b), NEW v, v \in Indices(c),
         Alike(b, c, R, u, v), NEW t, Growing(t, R)
  PROVE  Copied(b)[u][t] = Copied(c)[v][t]
<1>1. \A i \in Indices(b) : i \in Nat
  <2>1. Len(b) \in Nat
    BY GrowingFacts
  <2>2. QED
    BY <2>1 DEF Indices
<1> DEFINE T == {i \in Nat : i \in Indices(b) =>
                   \A j \in Indices(c) : Alike(b, c, R, i, j) => SameCopy(b, c, R, i, j)}
<1>2. ASSUME NEW i \in Nat, \A j \in Nat : j < i => j \in T
      PROVE  i \in T
  <2>1. ASSUME i \in Indices(b), NEW j \in Indices(c), Alike(b, c, R, i, j)
        PROVE  SameCopy(b, c, R, i, j)
    <3>1. \A k \in Indices(b) : k < i => \A d \in Indices(c) : Alike(b, c, R, k, d) => SameCopy(b, c, R, k, d)
      BY <1>1, <1>2
    <3> HIDE DEF T
    <3>2. QED
      BY <2>1, <3>1, AlikeCopied
  <2>2. QED
    BY <2>1
<1> HIDE DEF T
<1>3. u \in T
  BY <1>1, <1>2, Strongly
<1>4. SameCopy(b, c, R, u, v)
  BY <1>3 DEF T
<1>5. QED
  BY <1>4 DEF SameCopy

(* The vector r.tree, built on t, is t with the copy of its node r.node.    *)
Rebuilds(t, r) == Copied(r.tree)[r.node][t] = Result(r.tree, r.node)

(* A call that returns a node there was adds none.                          *)
LEMMA NothingAdded ==
  ASSUME NEW t, NEW R, Growing(t, R), NEW r, Grows(t, R, r), r.node \in Indices(t)
  PROVE  r.tree = t
<1>1. PICK u : u = r.tree
  OBVIOUS
<1>2. /\ t \in Seq(BddNode) /\ Len(t) \in Nat /\ u \in Seq(BddNode) /\ Len(u) \in Nat /\ Kept(t, u)
      /\ Diagram(u, R) /\ UsedBut(t, u, r.node) /\ r.node < Len(t)
  <2>1. Growing(u, R) /\ Kept(t, u) /\ UsedBut(t, u, r.node)
    BY <1>1 DEF Grows
  <2>2. t \in Seq(BddNode) /\ Len(t) \in Nat /\ u \in Seq(BddNode) /\ Len(u) \in Nat /\ Diagram(u, R)
    BY <2>1, GrowingFacts
  <2>3. r.node < Len(t)
    BY <2>2 DEF Indices
  <2>4. QED
    BY <2>1, <2>2, <2>3
<1>3. Len(t) = Len(u)
  <2>1. SUFFICES ASSUME Len(t) # Len(u)
                 PROVE  FALSE
    OBVIOUS
  <2>2. PICK i : i = Len(u) - 1
    OBVIOUS
  <2>3. i \in Len(t) .. Len(u) - 1 /\ i # r.node
    <3>1. Len(t) <= Len(u)
      BY <1>2 DEF Kept
    <3>2. r.node \in Nat
      BY <1>2 DEF Indices
    <3>3. QED
      BY <1>2, <2>1, <2>2, <3>1, <3>2
  <2>4. PICK j \in Inner(u) : Points(u, j, i)
    BY <1>2, <2>3 DEF UsedBut
  <2>5. j \in Nat /\ j < Len(u) /\ NodeAt(u, j).low < j /\ NodeAt(u, j).high < j
    BY <1>2, InnerFacts
  <2>6. i < j
    BY <2>4, <2>5 DEF Points
  <2>7. QED
    BY <1>2, <2>2, <2>5, <2>6
<1>4. ASSUME NEW p \in 1 .. Len(t)
      PROVE  t[p] = u[p]
  <2>1. PICK i \in Indices(t) : p = i + 1
    <3>1. p - 1 \in Indices(t) /\ p = (p - 1) + 1
      BY <1>2 DEF Indices
    <3>2. QED
      BY <3>1
  <2>2. NodeAt(u, i) = NodeAt(t, i)
    BY <1>2 DEF Kept
  <2>3. QED
    BY <2>1, <2>2 DEF NodeAt
<1>5. t = u
  BY <1>2, <1>3, <1>4
<1>6. QED
  BY <1>1, <1>5

(* What is copied from a vector that grew is what was copied before.        *)
LEMMA CopiedKept ==
  ASSUME NEW t, NEW R, Growing(t, R), NEW u, Growing(u, R), Kept(t, u), NEW i, i \in Indices(t), NEW s, Growing(s, R)
  PROVE  Copied(u)[i][s] = Copied(t)[i][s]
<1>1. i \in Indices(u)
  <2>1. Len(t) \in Nat /\ Len(u) \in Nat
    BY GrowingFacts
  <2>2. QED
    BY <2>1, KeptIs
<1>2. Alike(u, t, R, i, i)
  BY KeptValues DEF Alike
<1>3. QED
  BY <1>1, <1>2, CopiesAlike

LEMMA JoinRebuilds ==
  ASSUME NEW t, NEW R, Growing(t, R), NEW l, Grows(t, R, l), NEW h, Grows(l.tree, R, h),
         Rebuilds(t, l), Rebuilds(l.tree, h),
         NEW rva, rva \in Rva, rva \in R, TestsAfter(h.tree, rva, l.node), VarAfter(h.tree, rva, h.node)
  PROVE  Rebuilds(t, Mk(h.tree, rva, l.node, h.node))
<1>1. PICK m : m = Mk(h.tree, rva, l.node, h.node)
  OBVIOUS
<1>2. PICK low, high : low = l.node /\ high = h.node
  OBVIOUS
<1>3. /\ Grows(t, R, m) /\ Kept(h.tree, m.tree)
      /\ low \in Indices(h.tree) /\ high \in Indices(h.tree)
      /\ \/ low = high /\ m.tree = h.tree /\ m.node = high
         \/ low # high /\ m.node \in Inner(m.tree) /\ NodeAt(m.tree, m.node) = NodeRec(rva, low, high)
  BY <1>1, <1>2, JoinGrows
<1>4. m = Result(m.tree, m.node)
  BY <1>1 DEF Mk, Result
<1>5. /\ Growing(l.tree, R) /\ l.node \in Indices(l.tree) /\ Len(l.tree) \in Nat
      /\ Growing(h.tree, R) /\ h.node \in Indices(h.tree) /\ Len(h.tree) \in Nat /\ Kept(l.tree, h.tree)
      /\ Growing(m.tree, R) /\ Len(m.tree) \in Nat /\ Diagram(m.tree, R) /\ t \in Seq(BddNode)
  BY <1>3, GrowingFacts DEF Grows
<1>6. CASE low = high
  <2>1. h.tree = l.tree
    BY <1>2, <1>5, <1>6, NothingAdded
  <2>2. m.tree = l.tree /\ m.node = l.node
    BY <1>2, <1>3, <1>6, <2>1
  <2>3. Rebuilds(t, m)
    BY <2>2 DEF Rebuilds
  <2>4. QED
    BY <1>1, <2>3
<1>7. CASE low # high
  <2>1. m.node \in Inner(m.tree) /\ NodeAt(m.tree, m.node) = NodeRec(rva, low, high)
    BY <1>3, <1>7
  <2>2. PICK k, g : /\ k = Copied(m.tree)[low][t] /\ g = Copied(m.tree)[high][k.tree]
                    /\ Copied(m.tree)[m.node][t] = Mk(g.tree, rva, k.node, g.node)
    <3>1. Copies(m.tree, m.node, t, Copied(m.tree)[m.node][t])
      BY <1>5, <2>1, CopiedInner
    <3>2. PICK node : node = NodeAt(m.tree, m.node) /\ node.rva = rva /\ node.low = low /\ node.high = high
      BY <2>1 DEF NodeRec
    <3>3. \E k, g : /\ k = Copied(m.tree)[node.low][t] /\ g = Copied(m.tree)[node.high][k.tree]
                    /\ Copied(m.tree)[m.node][t] = Mk(g.tree, node.rva, k.node, g.node)
      BY <3>1, <3>2 DEF Copies
    <3>4. QED
      BY <3>2, <3>3, Zenon
  <2>3. Kept(l.tree, m.tree)
    BY <1>3, <1>5, KeptOn
  <2>4. k = Result(l.tree, l.node)
    <3>1. Copied(m.tree)[l.node][t] = Copied(l.tree)[l.node][t]
      BY <1>5, <2>3, CopiedKept
    <3>2. QED
      BY <1>2, <2>2, <3>1 DEF Rebuilds
  <2>5. k.tree = l.tree /\ k.node = l.node
    BY <2>4 DEF Result
  <2>6. g = Result(h.tree, h.node)
    <3>1. Copied(m.tree)[h.node][l.tree] = Copied(h.tree)[h.node][l.tree]
      BY <1>3, <1>5, CopiedKept
    <3>2. QED
      BY <1>2, <2>2, <2>5, <3>1 DEF Rebuilds
  <2>7. g.tree = h.tree /\ g.node = h.node
    BY <2>6 DEF Result
  <2>8. Copied(m.tree)[m.node][t] = m
    BY <1>1, <2>2, <2>5, <2>7
  <2>9. QED
    BY <1>1, <1>4, <2>8 DEF Rebuilds
<1>8. QED
  BY <1>6, <1>7

(* bdd_build adds to the vector a copy of the node it returns.              *)
RebuildsAt(in, R, d) ==
  \A w \in SUBSET Below(in.order, d) : \A t : Growing(t, R) => Rebuilds(t, Built(in)[d][w][t])

LEMMA RebuildEnds ==
  ASSUME NEW in, SortedRvas(in.order), NEW R, ToSet(in.order) \subseteq R
  PROVE  RebuildsAt(in, R, Len(in.order) + 1)
<1>1. in.order \in Seq(Rva) /\ Len(in.order) \in Nat
  BY LenProperties DEF SortedRvas
<1>2. PICK d : d = Len(in.order) + 1 /\ d \in 1 .. Len(in.order) + 1 /\ d > Len(in.order)
  <2>1. PICK n \in Nat : n = Len(in.order)
    BY <1>1
  <2>2. n + 1 \in 1 .. n + 1 /\ n + 1 > n
    OBVIOUS
  <2>3. QED
    BY <2>1, <2>2
<1>3. SUFFICES ASSUME NEW w \in SUBSET Below(in.order, d), NEW t, Growing(t, R)
               PROVE  Rebuilds(t, Built(in)[d][w][t])
  BY <1>2 DEF RebuildsAt
<1>4. w \in SUBSET Rva
  BY <1>1, <1>2, <1>3 DEF Below
<1>5. Diagram(t, R) /\ t \in Seq(BddNode) /\ 0 \in Indices(t) /\ 1 \in Indices(t) /\ 0 \notin Inner(t) /\ 1 \notin Inner(t)
  BY <1>3, GrowingFacts
<1>6. PICK i : i = (IF w \in in.sat THEN 1 ELSE 0) /\ i \in {0, 1}
  OBVIOUS
<1>7. Built(in)[d][w][t] = BuildCall(in, Built(in), d, w, t)
  BY <1>1, <1>2, <1>4, <1>5, BuiltAt
<1>8. Built(in)[d][w][t] = Result(t, i)
  BY <1>2, <1>6, <1>7 DEF BuildCall
<1>9. Copied(t)[i][t] = Result(t, i)
  BY <1>5, <1>6, CopiedLeaf
<1>10. Result(t, i).tree = t /\ Result(t, i).node = i
  BY DEF Result
<1>11. Rebuilds(t, Result(t, i))
  BY <1>9, <1>10 DEF Rebuilds
<1>12. QED
  BY <1>8, <1>11

LEMMA RebuildDescends ==
  ASSUME NEW in, SortedRvas(in.order), NEW R, ToSet(in.order) \subseteq R, NEW d, d \in 1 .. Len(in.order),
         BuildsAt(in, R, d + 1), BuildsAt(in, R, NextVar(in.order, d)),
         RebuildsAt(in, R, d + 1), RebuildsAt(in, R, NextVar(in.order, d))
  PROVE  RebuildsAt(in, R, d)
<1>1. SUFFICES ASSUME NEW w \in SUBSET Below(in.order, d), NEW t, Growing(t, R)
               PROVE  Rebuilds(t, Built(in)[d][w][t])
  BY DEF RebuildsAt
<1>2. PICK rva, x, l, h : Joins(in, R, d, w, t, rva, x, l, h)
  BY <1>1, BuildJoins, Zenon
<1>3. Rebuilds(t, l)
  BY <1>1, <1>2, Zenon DEF RebuildsAt, Joins
<1>4. Grows(t, R, l) /\ Growing(l.tree, R) /\ Grows(l.tree, R, h)
  BY <1>2, Zenon DEF Joins, Grows
<1>5. Rebuilds(l.tree, h)
  BY <1>2, <1>4, Zenon DEF RebuildsAt, Joins
<1>6. /\ rva \in Rva /\ rva \in R /\ TestsAfter(h.tree, rva, l.node) /\ VarAfter(h.tree, rva, h.node)
      /\ Built(in)[d][w][t] = Mk(h.tree, rva, l.node, h.node)
  BY <1>2, Zenon DEF Joins
<1>7. Rebuilds(t, Mk(h.tree, rva, l.node, h.node))
  BY <1>1, <1>3, <1>4, <1>5, <1>6, JoinRebuilds
<1>8. QED
  BY <1>6, <1>7

LEMMA RebuildsAll ==
  ASSUME NEW in, SortedRvas(in.order), NEW R, ToSet(in.order) \subseteq R
  PROVE  RebuildsAt(in, R, 1)
<1> DEFINE n == Len(in.order)
           At1(d) == BuildsAt(in, R, d) /\ RebuildsAt(in, R, d)
           T == {k \in Nat : k <= n => At1(n + 1 - k)}
<1>1. n \in Nat
  BY LenProperties DEF SortedRvas
<1>2. ASSUME NEW k \in Nat, \A j \in Nat : j < k => j \in T
      PROVE  k \in T
  <2>1. SUFFICES ASSUME k <= n
                 PROVE  At1(n + 1 - k)
    OBVIOUS
  <2>2. CASE k = 0
    <3>1. n + 1 - k = Len(in.order) + 1
      BY <1>1, <2>2
    <3>2. BuildsAt(in, R, Len(in.order) + 1) /\ RebuildsAt(in, R, Len(in.order) + 1)
      BY BuildEnds, RebuildEnds
    <3>3. QED
      BY <3>1, <3>2
  <2>3. CASE k # 0
    <3>0. n + 1 - k \in 1 .. n
      <4> HIDE DEF n, T
      <4>1. QED
        BY <1>1, <2>1, <2>3
    <3>1. PICK d : d = n + 1 - k /\ d \in 1 .. n
      BY <3>0
    <3>2. PICK e : e = NextVar(in.order, d) /\ e \in d + 1 .. n + 1
      BY <1>1, <3>1, NextVarFacts
    <3>3. /\ n + 1 - e \in Nat /\ n + 1 - e < k /\ n + 1 - e <= n /\ n + 1 - (n + 1 - e) = e
          /\ k - 1 \in Nat /\ k - 1 < k /\ k - 1 <= n /\ n + 1 - (k - 1) = d + 1
      BY <1>1, <2>1, <2>3, <3>1, <3>2
    <3> HIDE DEF At1
    <3>4. At1(d + 1) /\ At1(e)
      BY <1>2, <3>3
    <3>5. BuildsAt(in, R, d)
      BY <3>1, <3>2, <3>4, BuildDescends DEF At1
    <3>6. RebuildsAt(in, R, d)
      BY <3>1, <3>2, <3>4, RebuildDescends DEF At1
    <3>7. QED
      BY <3>1, <3>5, <3>6 DEF At1
  <2>4. QED
    BY <2>2, <2>3
<1> HIDE DEF T
<1>3. n \in T
  BY <1>1, <1>2, Strongly
<1>4. n + 1 - n = 1 /\ n <= n
  BY <1>1
<1>5. QED
  BY <1>3, <1>4 DEF T

(* A diagram that is its own copy, built from the leaves.                   *)
Canonical(b) == Len(b) > 2 => Copied(b)[BddRoot(b)][Leaves] = Result(b, BddRoot(b))

LEMMA CreateCanonical ==
  ASSUME NEW in, SortedRvas(in.order), NEW R, ToSet(in.order) \subseteq R
  PROVE  Canonical(CreateBdd(in))
<1>1. PICK r : r = Built(in)[1][{}][Leaves]
  OBVIOUS
<1>2. BuildsAt(in, R, 1) /\ RebuildsAt(in, R, 1)
  BY BuildsAll, RebuildsAll
<1>3. {} \in SUBSET Below(in.order, 1) /\ Growing(Leaves, R)
  BY LeavesGrow
<1>4. Grows(Leaves, R, r) /\ Rebuilds(Leaves, r)
  BY <1>1, <1>2, <1>3 DEF BuildsAt, RebuildsAt, Builds
<1>5. CreateBdd(in) = Stored(r)
  BY <1>1 DEF CreateBdd
<1>6. Len(Stored(r)) > 2 => Stored(r) = r.tree /\ BddRoot(r.tree) = r.node
  BY <1>4, StoredIs
<1>7. QED
  BY <1>4, <1>5, <1>6 DEF Canonical, Rebuilds

(* Two canonical diagrams with the same meaning are equal.                  *)
LEMMA CanonicalEqual ==
  ASSUME NEW R, NEW b, Whole(b, R), Canonical(b), NEW c, Whole(c, R), Canonical(c),
         \A w \in SUBSET R : RootValue(b, w) = RootValue(c, w)
  PROVE  b = c
<1>1. ASSUME NEW x, Whole(x, R), NEW v \in {0, 1}, \A w \in SUBSET R : RootValue(x, w) = v
      PROVE  x = <<LeafRec(v)>>
  <2>1. \A w \in WorldsOver(R) : RootValue(x, w) = v
    BY <1>1 DEF WorldsOver
  <2>2. IsConstant(x, v)
    BY <1>1, <2>1, ConstantIs
  <2>3. Len(x) = 1 /\ LeafBoolValue(NodeAt(x, 0)) = v
    BY <2>2 DEF IsConstant
  <2>4. PICK a \in {0, 1} : x = <<LeafRec(a)>>
    BY <1>1, <2>3 DEF Whole
  <2>5. LeafBoolValue(LeafRec(a)) = a /\ NodeAt(x, 0) = LeafRec(a)
    BY <2>4 DEF LeafBoolValue, LeafRec, NodeRec, RvaLeaf, NodeAt
  <2>6. QED
    BY <2>3, <2>4, <2>5
<1>2. CASE b \in {<<LeafRec(0)>>, <<LeafRec(1)>>}
  <2>1. PICK v \in {0, 1} : b = <<LeafRec(v)>>
    BY <1>2
  <2>2. \A w : RootValue(b, w) = v
    BY <2>1, LeafWhole
  <2>3. c = <<LeafRec(v)>>
    BY <1>1, <2>2
  <2>4. QED
    BY <2>1, <2>3
<1>3. CASE c \in {<<LeafRec(0)>>, <<LeafRec(1)>>}
  <2>1. PICK v \in {0, 1} : c = <<LeafRec(v)>>
    BY <1>3
  <2>2. \A w : RootValue(c, w) = v
    BY <2>1, LeafWhole
  <2>3. b = <<LeafRec(v)>>
    BY <1>1, <2>2
  <2>4. QED
    BY <2>1, <2>3
<1>4. CASE Growing(b, R) /\ Len(b) > 2 /\ Growing(c, R) /\ Len(c) > 2
  <2>1. PICK u, v : u = BddRoot(b) /\ v = BddRoot(c)
    OBVIOUS
  <2>2. u \in Indices(b) /\ v \in Indices(c)
    BY <2>1, RootTwoValued
  <2>3. Alike(b, c, R, u, v)
    BY <2>1 DEF Alike, RootValue
  <2>4. Growing(Leaves, R)
    BY LeavesGrow
  <2>5. Copied(b)[u][Leaves] = Copied(c)[v][Leaves]
    BY <1>4, <2>2, <2>3, <2>4, CopiesAlike
  <2>6. Result(b, u) = Result(c, v)
    BY <1>4, <2>1, <2>5 DEF Canonical
  <2>7. QED
    BY <2>6 DEF Result
<1>5. QED
  BY <1>2, <1>3, <1>4 DEF Whole

(* mk in the copy with exchanged leaves.                                    *)
LEMMA MkNot ==
  ASSUME NEW t, NEW R, Growing(t, R), NEW rva, rva \in Rva, NEW low, low \in Indices(t), NEW high, high \in Indices(t),
         NEW m, m = Mk(t, rva, low, high)
  PROVE  Mk(BddNot(t), rva, OtherLeaf(low), OtherLeaf(high)) = Result(BddNot(m.tree), OtherLeaf(m.node))
<1>1. PICK u, l, h : u = BddNot(t) /\ l = OtherLeaf(low) /\ h = OtherLeaf(high)
  OBVIOUS
<1>2. /\ t \in Seq(BddNode) /\ Len(t) \in Nat /\ Len(t) >= 2 /\ Diagram(t, R) /\ Inner(t) = 2 .. Len(t) - 1
      /\ low \in Nat /\ high \in Nat /\ l \in Nat /\ h \in Nat /\ (low = high <=> l = h)
  <2>1. /\ t \in Seq(BddNode) /\ Len(t) \in Nat /\ Len(t) >= 2 /\ Diagram(t, R) /\ Inner(t) = 2 .. Len(t) - 1
    BY GrowingFacts
  <2>2. low \in Nat /\ high \in Nat
    BY <2>1 DEF Indices
  <2>3. QED
    BY <1>1, <2>1, <2>2, OtherLeafFacts
<1>3. /\ u \in Seq(BddNode) /\ Len(u) = Len(t) /\ Inner(u) = Inner(t)
      /\ \A i \in Inner(t) : NodeAt(u, i) = NodeRec(NodeAt(t, i).rva, OtherLeaf(NodeAt(t, i).low), OtherLeaf(NodeAt(t, i).high))
  BY <1>1, NotNodes
<1> DEFINE old == {i \in Indices(t) : i > low /\ i > high /\ NodeAt(t, i) = NodeRec(rva, low, high)}
           new == {i \in Indices(u) : i > l /\ i > h /\ NodeAt(u, i) = NodeRec(rva, l, h)}
<1>4. \A i \in Indices(t) : NodeAt(t, i) = NodeRec(rva, low, high) => i \in Inner(t)
  BY <1>2 DEF Inner, IsLeaf, NodeRec, NoNode
<1>5. \A i \in Indices(t) : NodeAt(u, i) = NodeRec(rva, l, h) => i \in Inner(t)
  <2>1. \A i \in Indices(u) : NodeAt(u, i) = NodeRec(rva, l, h) => i \in Inner(u)
    BY <1>2 DEF Inner, IsLeaf, NodeRec, NoNode
  <2>2. QED
    BY <1>3, <2>1 DEF Indices
<1>6. ASSUME NEW i \in Inner(t)
      PROVE  i \in old <=> i \in new
  <2>1. PICK n : n = NodeAt(t, i)
    OBVIOUS
  <2>2. /\ n = NodeRec(n.rva, n.low, n.high) /\ n.low \in Indices(t) /\ n.high \in Indices(t) /\ n.low < i /\ n.high < i
        /\ i \in Indices(t) /\ i \in Nat
    BY <1>2, <1>6, <2>1, InnerFacts
  <2>3. n.low \in Nat /\ n.high \in Nat /\ i >= 2 /\ i \in Indices(u)
    BY <1>2, <1>3, <1>6, <2>2 DEF Indices
  <2>4. PICK a, c : a = OtherLeaf(n.low) /\ c = OtherLeaf(n.high) /\ a < i /\ c < i
    BY <2>2, <2>3, OtherLeafFacts
  <2>5. NodeAt(u, i) = NodeRec(n.rva, a, c)
    BY <1>3, <2>1, <2>4
  <2>6. NodeAt(t, i) = NodeRec(rva, low, high) <=> n.rva = rva /\ n.low = low /\ n.high = high
    BY <2>1, <2>2 DEF NodeRec
  <2>7. NodeAt(u, i) = NodeRec(rva, l, h) <=> n.rva = rva /\ a = l /\ c = h
    BY <2>5 DEF NodeRec
  <2>8. (n.low = low <=> a = l) /\ (n.high = high <=> c = h)
    BY <1>1, <1>2, <2>3, <2>4, OtherLeafFacts
  <2>9. i \in old <=> n.rva = rva /\ n.low = low /\ n.high = high
    BY <2>2, <2>6
  <2>10. i \in new <=> n.rva = rva /\ a = l /\ c = h
    BY <2>3, <2>4, <2>7
  <2> HIDE DEF old, new
  <2>11. QED
    BY <2>8, <2>9, <2>10
<1>7. old = new
  <2>1. \A i \in old : i \in Inner(t)
    BY <1>4
  <2>2. \A i \in new : i \in Inner(t)
    BY <1>3, <1>5 DEF Indices
  <2> HIDE DEF old, new
  <2>3. QED
    BY <1>6, <2>1, <2>2
<1>8. CASE low = high
  <2>1. m = Result(t, high) /\ Mk(u, rva, l, h) = Result(u, h)
    BY <1>2, <1>8 DEF Mk
  <2>2. QED
    BY <1>1, <2>1 DEF Result
<1>9. CASE low # high /\ old # {}
  <2>1. PICK e : e = CHOOSE i \in old : \A j \in old : i <= j
    OBVIOUS
  <2>2. m = Result(t, e)
    BY <1>9, <2>1 DEF Mk
  <2>3. e = CHOOSE i \in new : \A j \in new : i <= j
    <3> HIDE DEF old, new
    <3>1. QED
      BY <1>7, <2>1
  <2>4. new # {} /\ l # h
    BY <1>2, <1>7, <1>9
  <2>5. Mk(u, rva, l, h) = Result(u, e)
    BY <2>3, <2>4 DEF Mk
  <2>6. e \in old
    <3>1. old \in SUBSET Nat
      BY <1>2 DEF Indices
    <3> HIDE DEF old
    <3>2. PICK k \in old : \A j \in old : k <= j
      BY <1>9, <3>1, LeastNatural
    <3>3. QED
      BY <2>1, <3>2
  <2>7. e \in Inner(t)
    BY <1>4, <2>6
  <2>8. e \in Nat /\ e >= 2
    BY <1>2, <2>7
  <2>9. OtherLeaf(e) = e
    BY <2>8, OtherLeafFacts
  <2> HIDE DEF old, new
  <2>10. QED
    BY <1>1, <2>2, <2>5, <2>9 DEF Result
<1>10. CASE low # high /\ old = {}
  <2>1. PICK x, y : x = NodeRec(rva, low, high) /\ y = NodeRec(rva, l, h)
    OBVIOUS
  <2>2. m = Result(Append(t, x), Len(t))
    BY <1>10, <2>1 DEF Mk
  <2>3. new = {} /\ l # h
    BY <1>2, <1>7, <1>10
  <2>4. Mk(u, rva, l, h) = Result(Append(u, y), Len(u))
    BY <2>1, <2>3 DEF Mk
  <2> HIDE DEF old, new
  <2>5. BddNot(Append(t, x)) = Append(u, y)
    <3>1. PICK s : s = Append(t, x)
      OBVIOUS
    <3>2. /\ x \in BddNode /\ ~IsLeaf(x) /\ y \in BddNode
          /\ y = NodeRec(x.rva, OtherLeaf(x.low), OtherLeaf(x.high))
      BY <1>1, <1>2, <2>1 DEF BddNode, NodeRec, IsLeaf, NoNode
    <3>3. /\ s \in Seq(BddNode) /\ Len(s) = Len(t) + 1 /\ DOMAIN s = 1 .. Len(t) + 1 /\ s[Len(t) + 1] = x
          /\ \A p \in 1 .. Len(t) : s[p] = t[p]
      BY <1>2, <3>1, <3>2
    <3> DEFINE other(n) == NodeRec(n.rva, OtherLeaf(n.low), OtherLeaf(n.high))
               f(v) == [p \in DOMAIN v |-> IF IsLeaf(v[p]) THEN v[p] ELSE other(v[p])]
    <3>4. BddNot(t) = f(t) /\ BddNot(s) = f(s)
      <4>1. \A n \in Nat : n >= 2 => n - 1 # 0 /\ n + 1 - 1 # 0
        OBVIOUS
      <4>2. BddRoot(t) # 0 /\ BddRoot(s) # 0
        BY <1>2, <3>3, <4>1 DEF BddRoot
      <4>3. QED
        BY <4>2 DEF BddNot
    <3>5. ASSUME NEW p \in 1 .. Len(t) + 1
          PROVE  f(s)[p] = Append(u, y)[p]
      <4>1. f(s)[p] = IF IsLeaf(s[p]) THEN s[p] ELSE other(s[p])
        BY <3>3
      <4>2. CASE p = Len(t) + 1
        <5>1. Append(u, y)[p] = y
          BY <1>2, <1>3, <3>2, <4>2
        <5>2. QED
          BY <3>2, <3>3, <4>1, <4>2, <5>1
      <4>3. CASE p # Len(t) + 1
        <5>1. p \in 1 .. Len(t) /\ p \in DOMAIN t
          BY <1>2, <4>3
        <5>2. Append(u, y)[p] = u[p]
          BY <1>2, <1>3, <3>2, <5>1
        <5>3. u[p] = IF IsLeaf(t[p]) THEN t[p] ELSE other(t[p])
          BY <1>1, <3>4, <5>1
        <5>4. s[p] = t[p]
          BY <3>3, <5>1
        <5>5. QED
          BY <4>1, <5>2, <5>3, <5>4
      <4>4. QED
        BY <4>2, <4>3
    <3>6. f(s) = [p \in 1 .. Len(t) + 1 |-> f(s)[p]]
      BY <3>3
    <3>7. Append(u, y) = [p \in 1 .. Len(t) + 1 |-> Append(u, y)[p]]
      BY <1>2, <1>3, <3>2
    <3>8. BddNot(s) = f(s)
      BY <3>4
    <3> HIDE DEF f
    <3>9. QED
      BY <3>1, <3>5, <3>6, <3>7, <3>8
  <2>6. OtherLeaf(Len(t)) = Len(t)
    BY <1>2, OtherLeafFacts
  <2>7. m.tree = Append(t, x) /\ m.node = Len(t)
    BY <2>2 DEF Result
  <2>8. BddNot(m.tree) = Append(u, y) /\ OtherLeaf(m.node) = Len(u)
    BY <1>3, <2>5, <2>6, <2>7
  <2>9. QED
    BY <1>1, <2>4, <2>8
<1>11. QED
  BY <1>8, <1>9, <1>10

(* So exchanging the leaves of a copy is copying with them exchanged.       *)
NotCopied(b, R, i) ==
  \A t : Growing(t, R) =>
    Copied(BddNot(b))[OtherLeaf(i)][BddNot(t)]
      = Result(BddNot(Copied(b)[i][t].tree), OtherLeaf(Copied(b)[i][t].node))

LEMMA NotCopiedStep ==
  ASSUME NEW b, NEW R, Growing(b, R), Growing(BddNot(b), R), NEW i, i \in Indices(b),
         \A j \in Indices(b) : j < i => NotCopied(b, R, j)
  PROVE  NotCopied(b, R, i)
<1>1. PICK c : c = BddNot(b)
  OBVIOUS
<1>2. /\ Diagram(b, R) /\ Diagram(c, R) /\ Len(b) \in Nat /\ Inner(b) = 2 .. Len(b) - 1
      /\ 0 \in Indices(c) /\ 1 \in Indices(c) /\ 0 \notin Inner(c) /\ 1 \notin Inner(c)
  BY <1>1, GrowingFacts
<1>3. /\ Inner(c) = Inner(b)
      /\ \A j \in Inner(b) : NodeAt(c, j) = NodeRec(NodeAt(b, j).rva, OtherLeaf(NodeAt(b, j).low), OtherLeaf(NodeAt(b, j).high))
  BY <1>1, NotNodes
<1>4. SUFFICES ASSUME NEW t, Growing(t, R)
               PROVE  Copied(c)[OtherLeaf(i)][BddNot(t)] = Result(BddNot(Copied(b)[i][t].tree), OtherLeaf(Copied(b)[i][t].node))
  BY <1>1 DEF NotCopied
<1>5. t \in Seq(BddNode) /\ BddNot(t) \in Seq(BddNode)
  BY <1>4, GrowingFacts, NotNodes
<1>6. CASE i \notin Inner(b)
  <2>1. i \in {0, 1}
    BY <1>2, <1>6 DEF Indices
  <2>2. PICK o : o = OtherLeaf(i) /\ o \in {0, 1}
    BY <2>1, OtherLeafFacts
  <2>3. Copied(b)[i][t] = Result(t, i)
    BY <1>2, <1>5, <1>6, CopiedLeaf
  <2>4. Copied(c)[o][BddNot(t)] = Result(BddNot(t), o)
    BY <1>2, <1>5, <2>2, CopiedLeaf
  <2>5. QED
    BY <2>2, <2>3, <2>4 DEF Result
<1>7. CASE i \in Inner(b)
  <2>1. PICK n : n = NodeAt(b, i)
    OBVIOUS
  <2>2. /\ n.rva \in Rva /\ n.low \in Indices(b) /\ n.high \in Indices(b) /\ n.low < i /\ n.high < i
    BY <1>2, <1>7, <2>1, InnerFacts
  <2>3. OtherLeaf(i) = i
    <3>1. i \in Nat /\ i >= 2
      BY <1>2, <1>7
    <3>2. QED
      BY <3>1, OtherLeafFacts
  <2>4. PICK l, h : /\ l = Copied(b)[n.low][t] /\ h = Copied(b)[n.high][l.tree]
                    /\ Copied(b)[i][t] = Mk(h.tree, n.rva, l.node, h.node)
    BY <1>2, <1>5, <1>7, <2>1, CopiedInner DEF Copies
  <2>5. PICK k, g : /\ k = Copied(c)[OtherLeaf(n.low)][BddNot(t)] /\ g = Copied(c)[OtherLeaf(n.high)][k.tree]
                    /\ Copied(c)[i][BddNot(t)] = Mk(g.tree, n.rva, k.node, g.node)
    <3>1. PICK node : node = NodeAt(c, i) /\ node.rva = n.rva /\ node.low = OtherLeaf(n.low) /\ node.high = OtherLeaf(n.high)
      BY <1>3, <1>7, <2>1 DEF NodeRec
    <3>2. Copies(c, i, BddNot(t), Copied(c)[i][BddNot(t)])
      BY <1>2, <1>3, <1>5, <1>7, CopiedInner
    <3>3. \E k, g : /\ k = Copied(c)[node.low][BddNot(t)] /\ g = Copied(c)[node.high][k.tree]
                    /\ Copied(c)[i][BddNot(t)] = Mk(g.tree, node.rva, k.node, g.node)
      BY <3>1, <3>2, Zenon DEF Copies
    <3>4. QED
      BY <3>1, <3>3, Zenon
  <2>6. /\ Grows(t, R, l) /\ Growing(l.tree, R) /\ l.node \in Indices(l.tree)
        /\ Grows(l.tree, R, h) /\ Growing(h.tree, R) /\ h.node \in Indices(h.tree)
    <3>1. Grows(t, R, l) /\ Growing(l.tree, R)
      BY <1>4, <2>2, <2>4, CopiedGrows
    <3>2. Grows(l.tree, R, h) /\ Growing(h.tree, R)
      BY <2>2, <2>4, <3>1, CopiedGrows
    <3>3. QED
      BY <3>1, <3>2 DEF Grows
  <2>7. k = Result(BddNot(l.tree), OtherLeaf(l.node))
    <3>1. NotCopied(b, R, n.low)
      BY <2>2
    <3>2. Copied(BddNot(b))[OtherLeaf(n.low)][BddNot(t)]
            = Result(BddNot(Copied(b)[n.low][t].tree), OtherLeaf(Copied(b)[n.low][t].node))
      BY <1>4, <3>1 DEF NotCopied
    <3>3. QED
      BY <1>1, <2>4, <2>5, <3>2
  <2>8. k.tree = BddNot(l.tree) /\ k.node = OtherLeaf(l.node)
    BY <2>7 DEF Result
  <2>9. g = Result(BddNot(h.tree), OtherLeaf(h.node))
    <3>1. NotCopied(b, R, n.high)
      BY <2>2
    <3>2. Copied(BddNot(b))[OtherLeaf(n.high)][BddNot(l.tree)]
            = Result(BddNot(Copied(b)[n.high][l.tree].tree), OtherLeaf(Copied(b)[n.high][l.tree].node))
      BY <2>6, <3>1 DEF NotCopied
    <3>3. QED
      BY <1>1, <2>4, <2>5, <2>8, <3>2, Zenon
  <2>10. g.tree = BddNot(h.tree) /\ g.node = OtherLeaf(h.node)
    BY <2>9 DEF Result
  <2>11. l.node \in Indices(h.tree)
    <3>1. Len(l.tree) \in Nat /\ Len(h.tree) \in Nat /\ Kept(l.tree, h.tree)
      BY <2>6, GrowingFacts DEF Grows
    <3>2. QED
      BY <2>6, <3>1, KeptIs
  <2>12. PICK m, low, high : low = l.node /\ high = h.node /\ m = Mk(h.tree, n.rva, low, high)
    OBVIOUS
  <2>13. low \in Indices(h.tree) /\ high \in Indices(h.tree) /\ m = Copied(b)[i][t]
    BY <2>4, <2>6, <2>11, <2>12, Zenon
  <2>14. Mk(BddNot(h.tree), n.rva, OtherLeaf(low), OtherLeaf(high)) = Result(BddNot(m.tree), OtherLeaf(m.node))
    <3>1. PICK s, rva : s = h.tree /\ rva = n.rva
      OBVIOUS
    <3>2. Growing(s, R) /\ rva \in Rva /\ low \in Indices(s) /\ high \in Indices(s) /\ m = Mk(s, rva, low, high)
      BY <2>2, <2>6, <2>12, <2>13, <3>1
    <3>3. Mk(BddNot(s), rva, OtherLeaf(low), OtherLeaf(high)) = Result(BddNot(m.tree), OtherLeaf(m.node))
      BY <3>2, MkNot
    <3>4. QED
      BY <3>1, <3>3
  <2>15. Copied(c)[i][BddNot(t)] = Mk(BddNot(h.tree), n.rva, OtherLeaf(low), OtherLeaf(high))
    BY <2>5, <2>8, <2>10, <2>12
  <2>16. QED
    BY <2>3, <2>13, <2>14, <2>15
<1>8. QED
  BY <1>6, <1>7

LEMMA NotLeaves == BddNot(Leaves) = Leaves
<1>1. /\ DOMAIN Leaves = {1, 2} /\ Len(Leaves) = 2 /\ Leaves = [p \in {1, 2} |-> Leaves[p]]
      /\ \A p \in {1, 2} : IsLeaf(Leaves[p])
  BY DEF Leaves, IsLeaf, LeafRec, NodeRec
<1>2. BddRoot(Leaves) # 0
  BY <1>1 DEF BddRoot
<1>3. BddNot(Leaves) = [p \in {1, 2} |-> Leaves[p]]
  BY <1>1, <1>2 DEF BddNot
<1>4. QED
  BY <1>1, <1>3

(* _bdd_not keeps the numbering.                                            *)
LEMMA NotCanonical ==
  ASSUME NEW b, NEW R, Whole(b, R), Canonical(b)
  PROVE  Canonical(BddNot(b))
<1>1. ASSUME NEW v \in {0, 1}, b = <<LeafRec(v)>>
      PROVE  Canonical(BddNot(b))
  <2>1. BddNot(b) = <<LeafRec(1 - LeafBoolValue(NodeAt(b, 0)))>>
    BY <1>1 DEF BddNot, BddRoot
  <2>2. Len(BddNot(b)) = 1
    BY <2>1
  <2>3. QED
    BY <2>2 DEF Canonical
<1>2. CASE Growing(b, R) /\ Len(b) > 2
  <2>1. PICK c : c = BddNot(b)
    OBVIOUS
  <2>2. Growing(c, R) /\ Len(c) = Len(b) /\ Len(b) \in Nat
    BY <1>2, <2>1, NotGrows, NotNodes, GrowingFacts DEF Whole
  <2>3. PICK u \in Nat : u = BddRoot(b) /\ u = BddRoot(c) /\ u \in Indices(b) /\ u >= 2
    BY <1>2, <2>2 DEF BddRoot, Indices
  <2>4. \A i \in Indices(b) : i \in Nat
    BY <2>2 DEF Indices
  <2> DEFINE T == {i \in Nat : i \in Indices(b) => NotCopied(b, R, i)}
  <2>5. ASSUME NEW i \in Nat, \A j \in Nat : j < i => j \in T
        PROVE  i \in T
    <3>1. ASSUME i \in Indices(b)
          PROVE  NotCopied(b, R, i)
      <4>1. \A j \in Indices(b) : j < i => NotCopied(b, R, j)
        BY <2>4, <2>5
      <4> HIDE DEF T
      <4>2. QED
        BY <1>2, <2>1, <2>2, <3>1, <4>1, NotCopiedStep
    <3>2. QED
      BY <3>1
  <2> HIDE DEF T
  <2>6. u \in T
    BY <2>5, Strongly
  <2>7. NotCopied(b, R, u)
    BY <2>3, <2>6 DEF T
  <2>8. OtherLeaf(u) = u
    BY <2>3, OtherLeafFacts
  <2>9. Copied(b)[u][Leaves] = Result(b, u)
    BY <1>2, <2>3 DEF Canonical
  <2>10. Copied(c)[u][Leaves] = Result(BddNot(Result(b, u).tree), OtherLeaf(Result(b, u).node))
    <3>1. Growing(Leaves, R)
      BY LeavesGrow
    <3>2. QED
      BY <2>1, <2>7, <2>8, <2>9, <3>1, NotLeaves DEF NotCopied
  <2>11. Copied(c)[u][Leaves] = Result(c, u)
    BY <2>1, <2>8, <2>10 DEF Result
  <2>12. QED
    BY <2>1, <2>3, <2>11 DEF Canonical
<1>3. QED
  BY <1>1, <1>2 DEF Whole

LEMMA ReadCanonical ==
  ASSUME NEW l, NEW r, NEW R, Diagram(l, R), Diagram(r, R), NEW op, ByText(op, l, r) # NoBdd
  PROVE  Canonical(ByText(op, l, r))
<1> DEFINE S == RvasIn(l) \cup RvasIn(r)
           text == [w \in SUBSET S |-> Between(InParens(Text(l, w)), op, InParens(Text(r, w)))]
           in == [order |-> RvaOrder(S), sat |-> {w \in SUBSET S : Evaluate(text[w]) = 1}]
<1>1. S \subseteq Rva /\ S \subseteq R /\ IsFiniteSet(S)
  BY RvasInIs, FS_Union
<1>2. SortedRvas(RvaOrder(S)) /\ ToSet(RvaOrder(S)) = S
  BY <1>1, RvaOrderIs
<1>3. ByText(op, l, r) = CreateFrom(S, text)
  BY DEF ByText
<1>4. ByText(op, l, r) = CreateBdd(in)
  BY <1>3 DEF CreateFrom
<1>5. in.order = RvaOrder(S)
  OBVIOUS
<1> HIDE DEF in, S
<1>6. Canonical(CreateBdd(in))
  BY <1>1, <1>2, <1>5, CreateCanonical
<1>7. QED
  BY <1>4, <1>6

LEMMA CreatedCanonical ==
  ASSUME NEW b \in Created
  PROVE  Canonical(b)
<1>1. PICK e \in Literals : b = CreateBdd(e)
  BY DEF Created
<1>2. QED
  BY <1>1, LiteralRvas, CreateCanonical

(* Until a restriction is stored all diagrams are canonical.                *)
CanonicalInv == Canonical(literal) /\ (~renumbered => Canonical(stored))

LEMMA CanonicalHolds == Spec => []CanonicalInv
<1>1. Init => CanonicalInv
  BY CreatedCanonical DEF Init, CanonicalInv
<1>2. WholeInv /\ CanonicalInv /\ [Next]_vars => CanonicalInv'
  <2>1. SUFFICES ASSUME WholeInv, CanonicalInv, [Next]_vars
                 PROVE  CanonicalInv'
    OBVIOUS
  <2>2. /\ Whole(stored, Rvas) /\ Diagram(stored, Rvas) /\ Diagram(literal, Rvas)
        /\ Canonical(literal) /\ (~renumbered => Canonical(stored))
    BY <2>1 DEF WholeInv, Whole, CanonicalInv
  <2>3. CASE Read
    BY <2>2, <2>3, CreatedCanonical DEF Read, CanonicalInv
  <2>4. CASE Store
    BY <2>2, <2>4 DEF Store, CanonicalInv
  <2>5. CASE Negate
    BY <2>2, <2>5, NotCanonical DEF Negate, CanonicalInv
  <2>6. CASE Combine
    <3>1. PICK op \in {"&", "|"} : \/ ByText(op, stored, literal) # NoBdd /\ stored' = ByText(op, stored, literal)
                                   \/ stored' = stored /\ renumbered' = renumbered
      BY <2>6 DEF Combine
    <3>2. literal' = literal
      BY <2>6 DEF Combine
    <3>3. ~renumbered' => Canonical(stored')
      BY <2>2, <3>1, ReadCanonical
    <3>4. QED
      BY <2>2, <3>2, <3>3 DEF CanonicalInv
  <2>7. CASE Assign
    BY <2>2, <2>7 DEF Assign, CanonicalInv
  <2>8. CASE UNCHANGED vars
    BY <2>2, <2>8 DEF vars, CanonicalInv
  <2>9. QED
    BY <2>1, <2>3, <2>4, <2>5, <2>6, <2>7, <2>8 DEF Next
<1>3. QED
  BY <1>1, <1>2, WholeHolds, PTL DEF Spec

(* bdd_equal, which compares node by node, finds two diagrams equal only if *)
(* they mean the same; and it finds all that mean the same equal as long as *)
(* no restriction was stored.                                               *)
THEOREM EqualIsDecided == Spec => []EqualDecides
<1>1. WholeInv /\ CanonicalInv => EqualDecides
  <2>1. SUFFICES ASSUME WholeInv, CanonicalInv
                 PROVE  EqualDecides
    OBVIOUS
  <2>2. BddEqual(stored, literal) => SameFunction(stored, literal)
    BY DEF BddEqual, SameFunction
  <2>3. ASSUME ~renumbered, SameFunction(stored, literal)
        PROVE  BddEqual(stored, literal)
    <3>1. Whole(stored, Rvas) /\ Whole(literal, Rvas) /\ Canonical(stored) /\ Canonical(literal)
      BY <2>1, <2>3 DEF WholeInv, CanonicalInv
    <3>2. ASSUME NEW w \in SUBSET Rvas
          PROVE  RootValue(stored, w) = RootValue(literal, w)
      <4>1. Holds(stored, w) = Holds(literal, w)
        BY <2>3 DEF SameFunction
      <4>2. /\ RootValue(stored, w) \in {0, 1} /\ (Holds(stored, w) <=> RootValue(stored, w) = 1)
            /\ RootValue(literal, w) \in {0, 1} /\ (Holds(literal, w) <=> RootValue(literal, w) = 1)
        BY <3>1, RootTwoValued
      <4>3. QED
        BY <4>1, <4>2
    <3>3. stored = literal
      BY <3>1, <3>2, CanonicalEqual
    <3>4. QED
      BY <3>3 DEF BddEqual
  <2>4. QED
    BY <2>2, <2>3 DEF EqualDecides
<1>2. QED
  BY <1>1, WholeHolds, CanonicalHolds, PTL
==============================================================================
