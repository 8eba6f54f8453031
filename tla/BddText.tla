------------------------------- MODULE BddText -------------------------------
(***************************************************************************)
(* The text of a diagram (bdd2string in pgbdd/bdd.c) and what is read back *)
(* from it.  create_bdd keeps a text with its rvas overwritten by 0 or 1;  *)
(* so the text is modelled for a set w of true rvas, as the tokens BEE     *)
(* then reads.  A text names the rvas of all nodes that are reachable from *)
(* the root, that is of all nodes.                                         *)
(***************************************************************************)
EXTENDS BddValue, BeeTable

NoBdd == <<>>

Negated(s) == <<"!">> \o s
InParens(s) == <<"(">> \o s \o <<")">>
Between(s, op, t) == s \o <<op>> \o t

(* Slip: the test of an inner node is not negated on the side of low. *)
BothSidesPlain(test, high, low) ==
  Between(InParens(Between(test, "&", high)), "|", InParens(Between(test, "&", low)))

BothSides(test, high, low) ==
  Between(InParens(Between(test, "&", high)), "|", InParens(Between(Negated(test), "&", low)))

(* _bdd2string: a node whose children are both leaves is its test, perhaps  *)
(* negated; one leaf makes a conjunction or disjunction of the test with    *)
(* the text of the other child; no leaf a disjunction of both cases.  A     *)
(* child is a leaf if its index is 0 or 1; text has the texts of the nodes. *)
NodeText(b, w, text, i) ==
  LET node == NodeAt(b, i)
      test == IF node.rva \in w THEN <<"1">> ELSE <<"0">>
  IN  CASE IsLeaf(node) -> IF LeafBoolValue(node) = 1 THEN <<"1">> ELSE <<"0">>
        [] ~IsLeaf(node) /\ node.low < 2 /\ node.high < 2 ->
             IF node.low = 1 THEN Negated(test) ELSE test
        [] ~IsLeaf(node) /\ node.low >= 2 /\ node.high = 1 ->
             InParens(Between(test, "|", text[node.low]))
        [] ~IsLeaf(node) /\ node.low >= 2 /\ node.high = 0 ->
             InParens(Between(Negated(InParens(test)), "&", text[node.low]))
        [] node.low = 0 /\ node.high >= 2 ->
             InParens(Between(test, "&", text[node.high]))
        [] node.low = 1 /\ node.high >= 2 ->
             InParens(Between(Negated(test), "|", text[node.high]))
        [] node.low >= 2 /\ node.high >= 2 ->
             InParens(BothSides(test, text[node.high], text[node.low]))

NodeTexts(b, w) ==
  LET text[i \in Indices(b)] == NodeText(b, w, text, i) IN text

Text(b, w) == NodeTexts(b, w)[BddRoot(b)]

(* The rvas, each at the place behind those that are before it. *)
RvaOrder(rvas) ==
  [p \in 1 .. Cardinality(rvas) |->
     CHOOSE rva \in rvas : Cardinality({x \in rvas : RvaBefore(x, rva)}) = p - 1]

(* create_bdd of a text that names rvas and reads text[w] when those of w   *)
(* are true: refused by the dry run with all of them true, or built.        *)
CreateFrom(rvas, text) ==
  IF Evaluate(text[rvas]) = -1 THEN NoBdd
  ELSE CreateBdd([order |-> RvaOrder(rvas),
                  sat   |-> {w \in SUBSET rvas : Evaluate(text[w]) = 1}])

(* _bdd_binary_op_by_text: the texts in parentheses, joined by op, are read.*)
ByText(op, l, r) ==
  LET rvas == RvasIn(l) \cup RvasIn(r)
  IN  CreateFrom(rvas, [w \in SUBSET rvas |-> Between(InParens(Text(l, w)), op, InParens(Text(r, w)))])
=============================================================================
