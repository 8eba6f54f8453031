-------------------------------- MODULE BddOps -------------------------------
(***************************************************************************)
(* Diagrams under the SQL functions of pgbdd (pg_bdd.c, with BddValue and  *)
(* BddText for bdd.c): a statement replaces the diagram a row stores by a  *)
(* new one, by its negation, its conjunction or disjunction with a literal *)
(* or a restriction of it.  Any number of statements may follow one        *)
(* another, so what they must keep is what each may count on.              *)
(***************************************************************************)
EXTENDS BddText, BddRedundant

CONSTANTS
  Literals,     \* the expressions of literal diagrams: records [order, sat]
  Restrictions  \* arguments of restrict: records [var, val, torf, lowFirst]

ASSUME LiteralsAssumption ==
  \A e \in Literals :
    e.order \in Seq(Rva) /\ \A p, q \in DOMAIN e.order : p < q => RvaBefore(e.order[p], e.order[q])

VARIABLES
  stored,       \* the diagram of the row
  literal,      \* the literal of the statements
  stmt,         \* the statement done last
  renumbered    \* whether a restriction has been stored since a text was

vars == <<stored, literal, stmt, renumbered>>

Rvas == UNION {{e.order[p] : p \in DOMAIN e.order} : e \in Literals}
World == WorldsOver(Rvas)

Created == {CreateBdd(e) : e \in Literals}

Init ==
  /\ literal \in Created /\ stored = literal
  /\ stmt = <<"store">> /\ renumbered = FALSE

(* bdd_in of another literal. *)
Read ==
  /\ literal' \in Created
  /\ stmt' = <<"literal">>
  /\ UNCHANGED <<stored, renumbered>>

(* The literal is stored. *)
Store ==
  /\ stored' = literal /\ renumbered' = FALSE
  /\ stmt' = <<"store">>
  /\ UNCHANGED literal

(* bdd_pg_operator with ! *)
Negate ==
  /\ stored' = BddNot(stored)
  /\ stmt' = <<"!">>
  /\ UNCHANGED <<literal, renumbered>>

(* bdd_pg_operator with & and |; a text that nests too deep to be read lets *)
(* the statement fail.                                                      *)
Combine ==
  /\ \E op \in {"&", "|"} : \E read \in {ByText(op, stored, literal)} :
       \/ /\ read # NoBdd
          /\ stored' = read /\ renumbered' = FALSE /\ stmt' = <<op>>
       \/ /\ read = NoBdd
          /\ UNCHANGED <<stored, renumbered>> /\ stmt' = <<"error">>
  /\ UNCHANGED literal

(* pg_bdd_restrict. *)
Assign ==
  /\ \E r \in Restrictions :
       /\ stored' = BddRestrict(stored, r)
       /\ stmt' = <<"restrict", r.var, r.val, r.torf>>
  /\ renumbered' = TRUE
  /\ UNCHANGED literal

Next == Read \/ Store \/ Negate \/ Combine \/ Assign

Spec == Init /\ [][Next]_vars

-----------------------------------------------------------------------------
Node == [rva: Rvas, low: Nat, high: Nat] \cup {LeafRec(0), LeafRec(1)}

(* Every node but the last is a child of another. *)
InUse(b) ==
  \A i \in Indices(b) : i # BddRoot(b) /\ Len(b) > 2 => \E j \in Inner(b) : Points(b, j, i)

(* However many statements made it, a stored diagram is one the functions   *)
(* of bdd.c take for granted: children before parents, no test in vain or   *)
(* twice, tests in the rva order and only one of a variable's values true,  *)
(* every node but the last in use and the root last.                        *)
WellFormed ==
  /\ stored \in Seq(Node)
  /\ ChildrenEarlier(stored) /\ IsReduced(stored) /\ IsOrdered(stored)
  /\ InUse(stored)

SameFunction(l, r) == \A w \in SUBSET Rvas : Holds(l, w) = Holds(r, w)

(* bdd_equal decides whether two diagrams have the same value for every     *)
(* choice of true rvas: reading a text again, negating and combining number *)
(* the nodes in one way only.  A restriction may number them differently.   *)
EqualDecides ==
  /\ BddEqual(stored, literal) => SameFunction(stored, literal)
  /\ ~renumbered => (SameFunction(stored, literal) => BddEqual(stored, literal))

(* The questions about a diagram are answered for what it means: contains   *)
(* finds exactly the rvas its value depends on, and istrue and isfalse      *)
(* recognize every diagram that is true, or false, in all worlds, whatever  *)
(* statements it was made by.                                               *)
QueriesDecide ==
  /\ \A rva \in Rvas :
       BddContains(stored, rva.var, rva.val)
         <=> \E w \in SUBSET Rvas : Holds(stored, w \cup {rva}) # Holds(stored, w \ {rva})
  /\ IsConstant(stored, 1) <=> \A w \in World : Holds(stored, w)
  /\ IsConstant(stored, 0) <=> \A w \in World : ~Holds(stored, w)

(* apply, which descends both diagrams at once and remembers pairs of nodes *)
(* it has done, gives the operator's value for every choice of true rvas,   *)
(* although it does not keep the rva order.                                 *)
ApplyAgrees ==
  \A op \in {"&", "|"} :
    LET applied == BddApply(op, stored, literal)
    IN  /\ ChildrenEarlier(applied) /\ IsReduced(applied)
        /\ \A w \in SUBSET Rvas :
             Holds(applied, w) = Joined(op, Holds(stored, w), Holds(literal, w))

(* Removing redundancies from a diagram that apply made keeps its value in  *)
(* every world, in which a variable has one value only, and leaves a vector *)
(* whose tests are all in use, under the indices they have after deletions. *)
(* A test may be left in vain: what it keeps is not the reduced form.       *)
RedundanciesRemoved ==
  \A op \in {"&", "|"} :
    LET applied == BddApply(op, stored, literal)
        removed == RemoveRedundancies(applied)
    IN  /\ ChildrenEarlier(removed)
        /\ \A i \in Inner(removed) \ {BddRoot(removed)} : \E j \in Inner(removed) : Points(removed, j, i)
        /\ \A w \in World : Holds(removed, w) = Holds(applied, w)

(* pg_bdd.c on restrict: "Restrict the value of an rva (var = val) to a     *)
(* boolean value (torf)": a diagram without rvas stays as it is.            *)
RestrictKeepsConstants ==
  Len(stored) = 1 => \A r \in Restrictions : BddRestrict(stored, r) = stored

-----------------------------------------------------------------------------
Affected(var, val) == {rva \in Rvas : rva.var = var /\ val \in {AnyVal, rva.val}}
FixRva(w, var, val, torf) ==
  IF torf THEN w \cup Affected(var, val) ELSE w \ Affected(var, val)

Meaning(b) == {w \in World : Holds(b, w)}

Algebra == INSTANCE BddAlgebra WITH
             Fix <- FixRva, value <- Meaning(stored), arg <- Meaning(literal)

(* In the worlds that give each variable at most one value, the functions   *)
(* on diagrams are the Boolean operations and restriction is substitution.  *)
ImplementsBddAlgebra == Algebra!Spec
=============================================================================
