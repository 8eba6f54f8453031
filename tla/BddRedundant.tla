----------------------------- MODULE BddRedundant ----------------------------
(***************************************************************************)
(* remove_redundancies of pgbdd/bdd.c, which bdd.h offers to repair the    *)
(* diagrams of bdd_apply: below the high edge of var=val the value of var  *)
(* is known, and a test of var there is passed over.  Nodes are changed in *)
(* place; those that are not in use any more are then deleted one by one,  *)
(* the indices behind each moving down.                                    *)
(***************************************************************************)
EXTENDS BddValue

(* What the high edge of node i is to point to. *)
PassedOver(b, i) ==
  LET node == NodeAt(b, i)
      tested == NodeAt(b, node.high)
  IN  IF ~IsSameVar(tested.rva, node.rva) THEN node.high
      ELSE IF tested.rva.val = node.rva.val THEN tested.high ELSE tested.low

(* _remove_redundancies from node i on: first low, then the high edge as it *)
(* is now.  s.changed is its result, joined over the calls.                 *)
Simplified(b) ==
  LET from[i \in Indices(b)] ==
        [s \in [tree : {t \in Seq(BddNode) : Len(t) = Len(b) /\ ChildrenEarlier(t)}, changed : BOOLEAN] |->
           LET node == NodeAt(s.tree, i)
               high == PassedOver(s.tree, i)
               here == [tree    |-> [s.tree EXCEPT ![i + 1].high = high],
                        changed |-> s.changed \/ high # node.high]
           IN  IF IsLeaf(node) THEN s
               ELSE IF node.high < 2 THEN from[node.low][s]
               ELSE from[high][from[node.low][here]]]
  IN  from

-----------------------------------------------------------------------------
(* A node is marked as unused by a negative low. *)
MarkedNode == [rva : Rva, low : Int, high : Nat] \cup {LeafRec(0), LeafRec(1)}

IsUsed(node) == node.low >= 0
Marked(node) == [node EXCEPT !.low = -(@ + 1)]          \* MARK_UNUSED
Unmarked(node) == [node EXCEPT !.low = -@ - 1]          \* MARK_USED

(* The children of a node are earlier, be it marked or not. *)
Markable(t) ==
  \A i \in 2 .. Len(t) - 1 :
    LET node == NodeAt(t, i) IN node.low \in - i .. i - 1 /\ node.high \in 0 .. i - 1

(* _mark_used_branches from node i on; the two leaves are always kept. *)
MarkUsed(b) ==
  LET mark[i \in Indices(b)] ==
        [t \in {u \in Seq(MarkedNode) : Len(u) = Len(b) /\ Markable(u)} |->
           LET node == Unmarked(NodeAt(t, i))
           IN  IF i < 2 \/ IsUsed(NodeAt(t, i)) THEN t
               ELSE mark[node.high][mark[node.low][[t EXCEPT ![i + 1] = node]]]]
  IN  mark

(* Slip: an index is passed over after each deletion. *)
AfterDeletionNext(i) == i + 1

(* The index that is looked at after node i was deleted: its own again.     *)
AfterDeletion(i) == i

(* Node i, which is unused, is deleted, and indices behind it move down. *)
Deleted(t, i) ==
  LET moved(k) == IF k > i THEN k - 1 ELSE k
      closed == [p \in DOMAIN t |->
                   IF p <= 2 \/ ~IsUsed(t[p]) THEN t[p]
                   ELSE [t[p] EXCEPT !.low = moved(@), !.high = moved(@)]]
  IN  RemoveAt(closed, i + 1)

(* The loop of _remove_unused_branches from index p[1] of the vector p[2] on. *)
Swept ==
  LET sweep[p \in Nat \X Seq(MarkedNode)] ==
        LET i == p[1]
            t == p[2]
        IN  IF i >= Len(t) THEN t
            ELSE IF IsUsed(NodeAt(t, i)) THEN sweep[<<i + 1, t>>]
            ELSE sweep[<<AfterDeletion(i), Deleted(t, i)>>]
  IN  sweep

RemoveUnused(t) ==
  LET marked == [p \in DOMAIN t |-> IF p <= 2 THEN t[p] ELSE Marked(t[p])]
  IN  Swept[<<2, MarkUsed(t)[BddRoot(t)][marked]>>]

(* remove_redundancies. *)
RemoveRedundancies(b) ==
  LET s == Simplified(b)[BddRoot(b)][[tree |-> b, changed |-> FALSE]]
  IN  IF s.changed THEN RemoveUnused(s.tree) ELSE b
=============================================================================
