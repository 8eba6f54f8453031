------------------------------- MODULE BddValue ------------------------------
(***************************************************************************)
(* What the functions of pgbdd/bdd.c compute from diagrams, each call in   *)
(* one go.  BddBuild models the recursion of create_bdd step by step; here *)
(* it, and the recursions of restrict and apply, are functions that thread *)
(* the growing node vector through their two recursive calls and return it *)
(* together with a node.                                                   *)
(*                                                                         *)
(* The limit NODEI_MAX is left to BddBuild.                                *)
(***************************************************************************)
EXTENDS BddTree, SequencesExt

AnyVal == -1              \* val < 0: every value of the variable

Result(t, i) == [tree |-> t, node |-> i]
Leaves == <<LeafRec(0), LeafRec(1)>>

(* Slip: an equal node is looked for from index max(low, high) + 2 on. *)
MkSkipsOne(t, rva, low, high) ==
  LET equal == {i \in Indices(t) : i > low + 1 /\ i > high + 1 /\ NodeAt(t, i) = NodeRec(rva, low, high)}
  IN  IF low = high THEN Result(t, high)
      ELSE IF equal # {} THEN Result(t, CHOOSE i \in equal : \A j \in equal : i <= j)
      ELSE Result(Append(t, NodeRec(rva, low, high)), Len(t))

(* Slip: no test is made for equal children. *)
MkKeepsAll(t, rva, low, high) == Result(Append(t, NodeRec(rva, low, high)), Len(t))

(* bdd_mk, with lookup_bdd_node and bdd_create_node. *)
Mk(t, rva, low, high) ==
  LET equal == {i \in Indices(t) : i > low /\ i > high /\ NodeAt(t, i) = NodeRec(rva, low, high)}
  IN  IF low = high THEN Result(t, high)
      ELSE IF equal # {} THEN Result(t, CHOOSE i \in equal : \A j \in equal : i <= j)
      ELSE Result(Append(t, NodeRec(rva, low, high)), Len(t))

(* Slip: two nodes may be a constant and one inner node. *)
StoredOne(r) == IF Len(r.tree) <= 3 THEN <<LeafRec(r.node)>> ELSE r.tree

(* The end that create_bdd, bdd_apply and bdd_restrict share: without inner *)
(* nodes only the leaf is kept, chosen by the node's index.                 *)
Stored(r) == IF Len(r.tree) = 2 THEN <<LeafRec(IF r.node = 0 THEN 0 ELSE 1)>> ELSE r.tree

-----------------------------------------------------------------------------
(* _bctx_skip_samevar: the first position behind d of another variable. *)
NextVar(order, d) ==
  CHOOSE e \in d + 1 .. Len(order) + 1 :
    /\ \A k \in d + 1 .. e - 1 : IsSameVar(order[k], order[d])
    /\ e <= Len(order) => ~IsSameVar(order[e], order[d])

(* bdd_build at depth d - 1, when the rvas of w are set to 1 and the others *)
(* decided so far to 0, on the vector t.                                    *)
Built(in) ==
  LET build[d \in 1 .. Len(in.order) + 1] ==
        [w \in SUBSET Rva |-> [t \in Seq(BddNode) |->
          IF d > Len(in.order) THEN Result(t, IF w \in in.sat THEN 1 ELSE 0)
          ELSE LET rva == in.order[d]
                   l == build[d + 1][w][t]
                   h == build[NextVar(in.order, d)][w \cup {rva}][l.tree]
               IN  Mk(h.tree, rva, l.node, h.node)]]
  IN  build

(* create_bdd of the expression with the rvas in.order, sorted, that is     *)
(* true when exactly the rvas of one member of in.sat are.                  *)
CreateBdd(in) == Stored(Built(in)[1][{}][Leaves])

RvasIn(b) == {NodeAt(b, i).rva : i \in Inner(b)}
Holds(b, w) == NodeValues(b, w)[BddRoot(b)] = 1

Joined(op, p, q) == IF op = "&" THEN p /\ q ELSE p \/ q

-----------------------------------------------------------------------------
OtherLeaf(i) == IF i < 2 THEN 1 - i ELSE i

(* _bdd_not: in a copy, the pointers to the two leaves are exchanged. *)
BddNot(b) ==
  IF BddRoot(b) = 0 THEN <<LeafRec(1 - LeafBoolValue(NodeAt(b, 0)))>>
  ELSE [p \in DOMAIN b |->
          IF IsLeaf(b[p]) THEN b[p]
          ELSE NodeRec(b[p].rva, OtherLeaf(b[p].low), OtherLeaf(b[p].high))]

BranchFor(node, torf) == IF torf THEN node.high ELSE node.low

(* _bdd_restrict of node u, on the vector t.  Both recursive calls are      *)
(* arguments of one call of mk: C leaves open which is made first.  A leaf  *)
(* keeps the index it has in b.                                             *)
Restricted(b, r) ==
  LET from[u \in Indices(b)] ==
        LET node == NodeAt(b, u)
        IN  [t \in Seq(BddNode) |->
              IF IsLeaf(node) THEN Result(t, u)
              ELSE IF node.rva.var = r.var /\ r.val \in {AnyVal, node.rva.val}
              THEN from[BranchFor(node, r.torf)][t]
              ELSE IF r.lowFirst
              THEN LET l == from[node.low][t]
                       h == from[node.high][l.tree]
                   IN  Mk(h.tree, node.rva, l.node, h.node)
              ELSE LET h == from[node.high][t]
                       l == from[node.low][h.tree]
                   IN  Mk(l.tree, node.rva, l.node, h.node)]
  IN  from

(* bdd_restrict. *)
BddRestrict(b, r) == Stored(Restricted(b, r)[BddRoot(b)][Leaves])

-----------------------------------------------------------------------------
(* G, the table of the pairs of nodes that apply has done: entries linked   *)
(* into the buckets of a hash table, the latest of a bucket first.  NoNode  *)
(* ends a bucket.  The entries' memory grows by doubling (extend_G), which  *)
(* moves them as they are and is left out.                                  *)
WordModulo == 4

HashSz(szL, szR) == ((szL + szR + WordModulo - 1) \div WordModulo) * WordModulo
CreateG(szL, szR) == [tab |-> [k \in 0 .. HashSz(szL, szR) - 1 |-> NoNode], hb |-> <<>>]

HashG(G, l, r) == (l * r) % Cardinality(DOMAIN G.tab)

(* Slip: an entry of the bucket is taken by its left node alone. *)
LookupGLeft(G, l, r) ==
  LET from[p \in {NoNode} \cup Indices(G.hb)] ==
        IF p = NoNode THEN NoNode
        ELSE IF NodeAt(G.hb, p).l = l THEN NodeAt(G.hb, p).val
        ELSE from[NodeAt(G.hb, p).next]
  IN  from[G.tab[HashG(G, l, r)]]

LookupG(G, l, r) ==
  LET from[p \in {NoNode} \cup Indices(G.hb)] ==
        IF p = NoNode THEN NoNode
        ELSE IF NodeAt(G.hb, p).l = l /\ NodeAt(G.hb, p).r = r THEN NodeAt(G.hb, p).val
        ELSE from[NodeAt(G.hb, p).next]
  IN  from[G.tab[HashG(G, l, r)]]

StoreG(G, l, r, val) ==
  LET bucket == HashG(G, l, r)
  IN  [tab |-> [G.tab EXCEPT ![bucket] = Len(G.hb)],
       hb  |-> Append(G.hb, [l |-> l, r |-> r, val |-> val, next |-> G.tab[bucket]])]

ApplyState(szL, szR) ==
  [tree : Seq(BddNode), node : Int,
   G : [tab : [0 .. HashSz(szL, szR) - 1 -> Int], hb : Seq([l : Nat, r : Nat, val : Int, next : Int])]]

(* _bdd_apply of the nodes p on the state s: the vector s.tree, the table   *)
(* s.G, and in the result the node s.node.  Where the tests differ, that of *)
(* the LATER rva is made first.  The order of the two calls, which C leaves *)
(* open here too, only numbers the nodes.                                   *)
Applied(op, b1, b2) ==
  LET from[p \in Indices(b1) \X Indices(b2)] ==
        LET n1 == NodeAt(b1, p[1])
            n2 == NodeAt(b2, p[2])
            Split(s, rva, lo, hi) ==
              LET l == from[lo][s]
                  h == from[hi][l]
                  m == Mk(h.tree, rva, l.node, h.node)
              IN  [tree |-> m.tree, G |-> h.G, node |-> m.node]
            Done(s) ==
              IF IsLeaf(n1) /\ IsLeaf(n2)
              THEN [s EXCEPT !.node = IF Joined(op, LeafBoolValue(n1) = 1, LeafBoolValue(n2) = 1)
                                      THEN 1 ELSE 0]
              ELSE IF n1.rva = n2.rva THEN Split(s, n1.rva, <<n1.low, n2.low>>, <<n1.high, n2.high>>)
              ELSE IF RvaBefore(n1.rva, n2.rva)
              THEN Split(s, n2.rva, <<p[1], n2.low>>, <<p[1], n2.high>>)
              ELSE Split(s, n1.rva, <<n1.low, p[2]>>, <<n1.high, p[2]>>)
        IN  [s \in ApplyState(Len(b1), Len(b2)) |->
              LET known == LookupG(s.G, p[1], p[2])
                  done == Done(s)
              IN  IF known # NoNode THEN [s EXCEPT !.node = known]
                  ELSE [done EXCEPT !.G = StoreG(@, p[1], p[2], done.node)]]
  IN  from

(* bdd_apply, the alternative to ByText. *)
BddApply(op, b1, b2) ==
  Stored(Applied(op, b1, b2)[<<BddRoot(b1), BddRoot(b2)>>]
           [[tree |-> Leaves, node |-> NoNode, G |-> CreateG(Len(b1), Len(b2))]])

-----------------------------------------------------------------------------
(* bdd_equal compares node by node. *)
BddEqual(l, r) == l = r

(* _contains_rva, and bdd_property_check for BDD_IS_FALSE and BDD_IS_TRUE. *)
BddContains(b, var, val) ==
  \E i \in Inner(b) : NodeAt(b, i).rva.var = var /\ val \in {AnyVal, NodeAt(b, i).rva.val}

IsConstant(b, value) == Len(b) = 1 /\ LeafBoolValue(NodeAt(b, 0)) = value
=============================================================================
