------------------------------ MODULE MCBddBuild -----------------------------
(***************************************************************************)
(* BddBuild on every truth table over at most three rvas, whatever they    *)
(* share: three values of one variable, two of one and one of another (in  *)
(* either order), three variables, and all shorter expressions; and on     *)
(* every expression over one variable of three values and one of two,      *)
(* given by the worlds in which it is true.                                *)
(***************************************************************************)
EXTENDS BddBuild

r(v, k) == [var |-> v, val |-> k]

ShortOrders ==
  { <<>>, <<r(2,1)>>, <<r(2,1), r(2,2)>>, <<r(2,1), r(3,1)>>,
    <<r(2,1), r(2,2), r(2,3)>>, <<r(2,1), r(2,2), r(3,1)>>,
    <<r(2,1), r(3,1), r(3,2)>>, <<r(2,1), r(3,1), r(4,1)>> }

LongOrder == <<r(2,1), r(2,2), r(2,3), r(3,1), r(3,2)>>

MCInputs ==
  (UNION { {[order |-> o, sat |-> s] : s \in SUBSET SUBSET RvasOf(o)} : o \in ShortOrders })
  \cup {[order |-> LongOrder, sat |-> s] : s \in SUBSET WorldsOver(RvasOf(LongOrder))}

=============================================================================
