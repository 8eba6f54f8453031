------------------------------- MODULE BddEquiv ------------------------------
(***************************************************************************)
(* The two equivalence tests of pgbdd/bdd.c: bdd_equiv, which evaluates    *)
(* the texts of both diagrams side by side, and bdd_fast_equiv.            *)
(*                                                                         *)
(* The fast one copies both diagrams into one table, the rows of the right *)
(* one behind those of the left, and replaces each rva by the index of its *)
(* variable and the index of its value among those seen.  Then it runs     *)
(* through the permutations: one value, or none, for each variable.        *)
(***************************************************************************)
EXTENDS BddText

CONSTANT Exprs      \* the expressions of both diagrams: records [order, sat]

VARIABLES
  left, right,
  rows,       \* eqv_tree, as far as it is filled
  rvas,       \* rva_vector
  values,     \* EQV_COL_PERM_NV: how many values each variable has so far
  perm,       \* EQV_COL_PERM_V: which of them it has now, 0 for none
  pc,         \* "gen", "run" or "done"
  answer      \* of bdd_fast_equiv

vars == <<left, right, rows, rvas, values, perm, pc, answer>>

Created == {CreateBdd(e) : e \in Exprs}

-----------------------------------------------------------------------------
(* _bdd_equiv.  A side is a diagram, the order of its rvas, how many are    *)
(* decided, and which of these are true.                                    *)
Side(b) == [bdd |-> b, order |-> RvaOrder(RvasIn(b)), depth |-> 0, true |-> {}]

Ended(s) == s.depth = Len(s.order)
NextRva(s) == s.order[s.depth + 1]
SetFalse(s) == [s EXCEPT !.depth = @ + 1]

SetTrue(s) ==
  [s EXCEPT !.depth = NextVar(s.order, @ + 1) - 1, !.true = @ \cup {NextRva(s)}]

(* Slip: the answer of the first call is overwritten. *)
LastAgrees(low, high) == high

(* The first answer that is not TRUE is the answer. *)
BothAgree(low, high) == low /\ high

RECURSIVE Agree(_, _)
Agree(l, r) ==
  IF Ended(l) /\ Ended(r) THEN Evaluate(Text(l.bdd, l.true)) = Evaluate(Text(r.bdd, r.true))
  ELSE IF Ended(r) \/ (~Ended(l) /\ RvaBefore(NextRva(l), NextRva(r)))
  THEN BothAgree(Agree(SetFalse(l), r), Agree(SetTrue(l), r))
  ELSE IF Ended(l) \/ RvaBefore(NextRva(r), NextRva(l))
  THEN BothAgree(Agree(l, SetFalse(r)), Agree(l, SetTrue(r)))
  ELSE BothAgree(Agree(SetFalse(l), SetFalse(r)), Agree(SetTrue(l), SetTrue(r)))

Readable(b) == Evaluate(Text(b, RvasIn(b))) # -1

(* bdd_test_equivalence of the texts: one that is refused is BDD_FAIL, that *)
(* is FALSE.                                                                *)
TextEquiv(l, r) == Readable(l) /\ Readable(r) /\ Agree(Side(l), Side(r))

-----------------------------------------------------------------------------
Init ==
  /\ left \in Created /\ right \in Created
  /\ rows = <<>> /\ rvas = <<>> /\ values = <<>> /\ perm = <<>>
  /\ pc = "gen" /\ answer = FALSE

size == Len(left) + Len(right)
offset == IF Len(rows) < Len(left) THEN 0 ELSE Len(left)
node == IF offset = 0 THEN NodeAt(left, Len(rows)) ELSE NodeAt(right, Len(rows) - offset)

(* A row: the rows of both children, and the test by indices; a leaf has    *)
(* its value for a test.                                                    *)
Row(varI, varV) == [low |-> node.low + offset, high |-> node.high + offset, var |-> varI, val |-> varV]

LeafRow ==
  /\ pc = "gen" /\ Len(rows) < size /\ IsLeaf(node)
  /\ rows' = Append(rows, [low |-> NoNode, high |-> NoNode, var |-> 0, val |-> LeafBoolValue(node)])
  /\ UNCHANGED <<left, right, rvas, values, perm, pc, answer>>

(* handle_new_rva: the values of one variable stand together in rvas.       *)
OfVar == {p \in DOMAIN rvas : IsSameVar(rvas[p], node.rva)}
First == CHOOSE p \in OfVar : \A q \in OfVar : p <= q
VarsBefore(p) == Cardinality({rvas[q].var : q \in 1 .. p - 1})

InnerRow == pc = "gen" /\ Len(rows) < size /\ ~IsLeaf(node)

(* An rva seen before. *)
OldRva ==
  /\ InnerRow /\ \E p \in OfVar :
       /\ rvas[p] = node.rva
       /\ rows' = Append(rows, Row(VarsBefore(First) + 1, p - First + 1))
  /\ UNCHANGED <<left, right, rvas, values, perm, pc, answer>>

(* Slip: the new value is counted but goes to the end of the vector. *)
NewValueLast ==
  /\ InnerRow /\ OfVar # {} /\ \A p \in OfVar : rvas[p] # node.rva
  /\ LET varI == VarsBefore(First) + 1
     IN  /\ rvas' = Append(rvas, node.rva)
         /\ values' = [values EXCEPT ![varI] = @ + 1]
         /\ rows' = Append(rows, Row(varI, values'[varI]))
  /\ UNCHANGED <<left, right, perm, pc, answer>>

(* Another value of a variable seen before. *)
NewValue ==
  /\ InnerRow /\ OfVar # {} /\ \A p \in OfVar : rvas[p] # node.rva
  /\ LET varI == VarsBefore(First) + 1
     IN  /\ rvas' = InsertAt(rvas, First + Cardinality(OfVar), node.rva)
         /\ values' = [values EXCEPT ![varI] = @ + 1]
         /\ rows' = Append(rows, Row(varI, values'[varI]))
  /\ UNCHANGED <<left, right, perm, pc, answer>>

(* A variable not seen before. *)
NewVar ==
  /\ InnerRow /\ OfVar = {}
  /\ rvas' = Append(rvas, node.rva)
  /\ values' = Append(values, 1)
  /\ rows' = Append(rows, Row(Len(values'), 1))
  /\ UNCHANGED <<left, right, perm, pc, answer>>

StartRun ==
  /\ pc = "gen" /\ Len(rows) = size
  /\ perm' = [i \in DOMAIN values |-> 0]
  /\ pc' = "run"
  /\ UNCHANGED <<left, right, rows, rvas, values, answer>>

(* bdd_eqv_run_one_permutation, from every row. *)
RowValues ==
  LET v[i \in 0 .. size - 1] ==
        LET row == NodeAt(rows, i)
        IN  IF row.var = 0 THEN row.val
            ELSE IF perm[row.var] = row.val THEN v[row.high] ELSE v[row.low]
  IN  v

Same == RowValues[BddRoot(left)] = RowValues[size - 1]

(* The innermost variable that has a value left. *)
Advancing == {i \in DOMAIN perm : perm[i] < values[i]}
Level == CHOOSE i \in Advancing : \A k \in Advancing : k <= i

(* bdd_eqv_run_permutations: the loop of the last variable is innermost.    *)
Permute ==
  /\ pc = "run" /\ Same /\ Advancing # {}
  /\ perm' = [i \in DOMAIN perm |-> IF i < Level THEN perm[i] ELSE IF i = Level THEN perm[i] + 1 ELSE 0]
  /\ UNCHANGED <<left, right, rows, rvas, values, pc, answer>>

Finish ==
  /\ pc = "run" /\ (~Same \/ Advancing = {})
  /\ answer' = Same
  /\ pc' = "done"
  /\ UNCHANGED <<left, right, rows, rvas, values, perm>>

Next == LeafRow \/ OldRva \/ NewValue \/ NewVar \/ StartRun \/ Permute \/ Finish

Spec == Init /\ [][Next]_vars

-----------------------------------------------------------------------------
Rvas == RvasIn(left) \cup RvasIn(right)
SameMeaning == \A w \in WorldsOver(Rvas) : Holds(left, w) = Holds(right, w)

(* bdd_fast_equiv answers whether the diagrams have the same value in every *)
(* world, whatever values of whatever variables each of them tests.         *)
FastDecides == pc = "done" => (answer <=> SameMeaning)

(* bdd_equiv never takes diagrams for equivalent that are not, and finds    *)
(* all that are among readable diagrams that test the same rvas.            *)
TextDecides ==
  pc = "gen" /\ rows = <<>> =>
    /\ TextEquiv(left, right) => SameMeaning
    /\ SameMeaning /\ RvasIn(left) = RvasIn(right) /\ Readable(left) /\ Readable(right)
         => TextEquiv(left, right)
=============================================================================
