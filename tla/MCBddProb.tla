------------------------------ MODULE MCBddProb ------------------------------
(***************************************************************************)
(* BddProb on every diagram over three values of one variable and two of   *)
(* another: with dictionaries that have values no diagram tests,           *)
(* probabilities of zero and one, a total of zero, totals that are 0.00005 *)
(* above or below 1, and without a value, a variable or anything.          *)
(***************************************************************************)
EXTENDS BddProb, MCLiterals

MCExprs == Over({<<r(2,1), r(2,2), r(2,3), r(3,1), r(3,2)>>})

MCRestrictions == [var: {2}, val: {2, AnyVal}, torf: {FALSE}, lowFirst: BOOLEAN]

Dist(p1, p2, p3) == 1 :> p1 @@ 2 :> p2 @@ 3 :> p3
Half == <<<<1, 2>>, <<1, 2>>>>

(* Totals that are off by 0.00005, which normalize_var leaves. *)
MCNear ==
  { (2 :> Dist(<<1, 2>>, <<1, 4>>, <<5001, 20000>>) @@ 3 :> Half),
    (2 :> Dist(<<1, 2>>, <<1, 4>>, <<4999, 20000>>) @@ 3 :> Half),
    (2 :> Dist(<<1, 2>>, <<1, 4>>, <<1, 4>>) @@ 3 :> <<<<1, 2>>, <<10001, 20000>>>>) }

MCDictionaries == MCNear \cup
  { (2 :> Dist(<<1, 5>>, <<1, 5>>, <<3, 5>>) @@ 3 :> <<<<1, 4>>, <<1, 4>>, <<1, 2>>>>),
    (2 :> (Dist(<<1, 10>>, <<1, 5>>, <<3, 10>>) @@ 7 :> <<2, 5>>) @@ 3 :> Half),
    (2 :> Dist(Zero, One, Zero) @@ 3 :> <<Zero, One>>),
    (2 :> Dist(NaN, NaN, NaN) @@ 3 :> <<<<1, 4>>, <<3, 4>>>>),
    (2 :> Dist(<<1, 2>>, <<3, 10>>, <<1, 5>>)),
    (2 :> <<One>> @@ 3 :> Half),
    <<>> }
=============================================================================
