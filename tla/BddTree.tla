------------------------------- MODULE BddTree -------------------------------
(***************************************************************************)
(* The data structure of pgbdd/bdd.h: a reduced binary decision diagram    *)
(* kept as a growing vector of nodes.  A node tests one random variable    *)
(* alternative (an "rva", var=val) and points with low (the test is false) *)
(* and high (true) to nodes that stand EARLIER in the vector; the last     *)
(* node is the root.  Node indices are zero-based as in the code.          *)
(*                                                                         *)
(* Names are numbers in the order strcmp gives them.  The two leaves are   *)
(* named "0" and "1"; every variable name starts with a letter             *)
(* (_compute_order refuses a digit), so it sorts after both: VarName is    *)
(* the naturals from 2 on.                                                 *)
(***************************************************************************)
EXTENDS Integers, Sequences, FiniteSets

NoNode == -1                                  \* NODEI_NONE

VarName == Nat \ {0, 1}
Rva == [var: VarName, val: Nat]

RvaLeaf(b) == [var |-> b, val |-> -1]         \* RVA_0 and RVA_1

(* A serialised node: its test and its two children. *)
NodeRec(rva, low, high) == [rva |-> rva, low |-> low, high |-> high]
LeafRec(b) == NodeRec(RvaLeaf(b), NoNode, NoNode)

BddNode == [rva: Rva, low: Nat, high: Nat] \cup {LeafRec(0), LeafRec(1)}

NodeAt(t, i) == t[i + 1]                      \* BDD_NODE
Indices(t) == 0 .. Len(t) - 1
BddRoot(t) == Len(t) - 1                      \* BDD_ROOT

IsLeaf(n) == n.low = NoNode /\ n.high = NoNode
LeafBoolValue(n) == n.rva.var                 \* var[0] - '0'

IsSameVar(l, r) == l.var = r.var

(* cmpRva: the sign of the comparison, by name and then by value. *)
RvaBefore(l, r) == l.var < r.var \/ (l.var = r.var /\ l.val < r.val)

-----------------------------------------------------------------------------
(***************************************************************************)
(* Meaning.  A world is the set of rvas that hold in it; it is exclusive   *)
(* because a random variable takes at most one of its values.              *)
(***************************************************************************)
Exclusive(w) == \A a, b \in w : IsSameVar(a, b) => a = b
WorldsOver(rvas) == {w \in SUBSET rvas : Exclusive(w)}

(* The Boolean value of every node of t when exactly the rvas of w hold.   *)
NodeValues(t, w) ==
  LET v[i \in Indices(t)] ==
        LET n == NodeAt(t, i)
        IN  IF IsLeaf(n) THEN LeafBoolValue(n)
            ELSE IF n.rva \in w THEN v[n.high] ELSE v[n.low]
  IN  v

(* The worlds over rvas in which the diagram t is true. *)
TrueWorlds(t, rvas) == {w \in WorldsOver(rvas) : NodeValues(t, w)[BddRoot(t)] = 1}

-----------------------------------------------------------------------------
(***************************************************************************)
(* Shape.                                                                  *)
(***************************************************************************)
Inner(t) == {i \in Indices(t) : ~IsLeaf(NodeAt(t, i))}
Points(t, i, j) == NodeAt(t, i).low = j \/ NodeAt(t, i).high = j

(* Children stand before their parent: the vector is topologically sorted. *)
ChildrenEarlier(t) ==
  \A i \in Inner(t) : NodeAt(t, i).low \in 0 .. i - 1 /\ NodeAt(t, i).high \in 0 .. i - 1

(* No node tests in vain and no two nodes are equal. *)
IsReduced(t) ==
  /\ \A i \in Inner(t) : NodeAt(t, i).low # NodeAt(t, i).high
  /\ \A i, j \in Indices(t) : NodeAt(t, i) = NodeAt(t, j) => i = j

(* Tests follow the rva order downwards, and below the high edge of var=val *)
(* no other value of var is tested again.                                   *)
IsOrdered(t) ==
  \A i \in Inner(t) :
    LET n == NodeAt(t, i) IN
    /\ n.low \in Inner(t) => RvaBefore(n.rva, NodeAt(t, n.low).rva)
    /\ n.high \in Inner(t) => n.rva.var < NodeAt(t, n.high).rva.var
=============================================================================
