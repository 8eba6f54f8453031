------------------------------- MODULE MCBddOps ------------------------------
(***************************************************************************)
(* BddOps with literals over all three rvas of MCLiterals or over one, and *)
(* every restriction.                                                      *)
(***************************************************************************)
EXTENDS BddOps, MCLiterals

MCExprs == Over({Full} \cup Short)

MCRestrictions ==
  [var: {2}, val: {1, 2, AnyVal}, torf: BOOLEAN, lowFirst: BOOLEAN]
    \cup [var: {3}, val: {1}, torf: BOOLEAN, lowFirst: BOOLEAN]
=============================================================================
