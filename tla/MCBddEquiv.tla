------------------------------ MODULE MCBddEquiv -----------------------------
(***************************************************************************)
(* BddEquiv on every pair of diagrams over the rvas of MCLiterals.         *)
(***************************************************************************)
EXTENDS BddEquiv, MCLiterals

MCExprs == Over({Full} \cup Short \cup Pairs)
=============================================================================
