------------------------------ MODULE BddAlgebra -----------------------------
(***************************************************************************)
(* What the SQL functions on diagrams mean: a diagram stands for the set   *)
(* of worlds in which it is true, and a statement replaces a stored one by *)
(* a function of itself and of a literal diagram.                          *)
(***************************************************************************)
EXTENDS Integers

CONSTANTS
  World,               \* the worlds
  Fix(_, _, _, _)      \* Fix(w, var, val, torf): w with var=val made true or false

VARIABLES
  stmt,     \* the statement done last
  value,    \* the worlds of the stored diagram
  arg       \* those of the literal

algebraVars == <<stmt, value, arg>>

Init == stmt = <<"store">> /\ value = arg /\ arg \subseteq World

Read   == stmt' = <<"literal">> /\ value' = value /\ arg' \subseteq World
Store  == stmt' = <<"store">> /\ value' = arg /\ arg' = arg
Negate == stmt' = <<"!">> /\ value' = World \ value /\ arg' = arg
And    == stmt' = <<"&">> /\ value' = value \cap arg /\ arg' = arg
Or     == stmt' = <<"|">> /\ value' = value \cup arg /\ arg' = arg
Fail   == stmt' = <<"error">> /\ value' = value /\ arg' = arg

(* In the worlds that still are worlds with var=val fixed, the result has   *)
(* the value the diagram has with it fixed.  Nothing is said of the         *)
(* diagram that is true everywhere.                                         *)
Restrict ==
  /\ stmt'[1] = "restrict"
  /\ value # World =>
       \A w \in World :
         LET fixed == Fix(w, stmt'[2], stmt'[3], stmt'[4])
         IN  fixed \in World => (w \in value' <=> fixed \in value)
  /\ arg' = arg

Next == Read \/ Store \/ Negate \/ And \/ Or \/ Restrict \/ Fail

Spec == Init /\ [][Next]_algebraVars
=============================================================================
