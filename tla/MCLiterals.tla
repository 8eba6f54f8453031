------------------------------ MODULE MCLiterals -----------------------------
(***************************************************************************)
(* Expressions over one variable with two values and one with a single     *)
(* value: every set of worlds over some of these rvas.                     *)
(***************************************************************************)
EXTENDS BddTree

r(v, k) == [var |-> v, val |-> k]

Full == <<r(2,1), r(2,2), r(3,1)>>
Short == {<<>>, <<r(2,1)>>, <<r(2,2)>>, <<r(3,1)>>}
Pairs == {<<r(2,1), r(2,2)>>, <<r(2,1), r(3,1)>>, <<r(2,2), r(3,1)>>}

Over(orders) ==
  UNION {{[order |-> o, sat |-> s] : s \in SUBSET WorldsOver({o[p] : p \in DOMAIN o})} : o \in orders}
=============================================================================
