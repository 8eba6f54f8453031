------------------------------- MODULE Fraction ------------------------------
(***************************************************************************)
(* Probabilities.  The C doubles are modelled by exact fractions           *)
(* <<numerator, denominator>> in lowest terms, and what IEEE arithmetic    *)
(* makes of 0 times 1/0 by NaN, which no comparison holds for.             *)
(***************************************************************************)
EXTENDS Integers

NaN == <<0, 0>>
One == <<1, 1>>

(* What is not negative, and NaN. *)
Probabilities == {p \in Nat \X Nat : p[2] > 0} \cup {NaN}

Gcd[p \in Nat \X Nat] == IF p[2] = 0 THEN p[1] ELSE Gcd[<<p[2], p[1] % p[2]>>]

Frac(num, den) ==
  IF den = 0 THEN NaN
  ELSE LET g == Gcd[<<IF num < 0 THEN -num ELSE num, den>>] IN <<num \div g, den \div g>>

Plus(p, q) ==
  LET g == Gcd[<<p[2], q[2]>>]
  IN  IF NaN \in {p, q} THEN NaN
      ELSE Frac(p[1] * (q[2] \div g) + q[1] * (p[2] \div g), p[2] * (q[2] \div g))

Minus(p, q) == Plus(p, <<-q[1], q[2]>>)
Times(p, q) == Frac(p[1] * q[1], p[2] * q[2])

IsNegative(p) == p[1] < 0
IsAboveOne(p) == p[1] > p[2]

(* p multiplied by 1/total.  A total of zero is the sum of zeros only, and  *)
(* 0 * (1/0) is NaN; so is everything a NaN takes part in.                  *)
DividedBy(p, total) == Frac(p[1] * total[2], p[2] * total[1])
=============================================================================
