-------------------------------- MODULE BddProb ------------------------------
(***************************************************************************)
(* The probability of a diagram under a dictionary: bdd_probability_node   *)
(* in pgbdd/bdd.c, which an SQL session asks for between changes of the    *)
(* diagram and of the dictionary.  A dictionary is what lookup_probability *)
(* finds in it, a map of maps.  A negative result is an error.             *)
(***************************************************************************)
EXTENDS BddValue, Fraction

CONSTANTS
  Exprs,         \* the expressions of the first diagram: records [order, sat]
  Restrictions,  \* arguments of restrict: records [var, val, torf, lowFirst]
  Dictionaries   \* maps from variables to maps from values to probabilities

VARIABLES
  bdd, dict,     \* the arguments
  asked, prob    \* whether their probability has been computed, and it

vars == <<bdd, dict, asked, prob>>

Zero == <<0, 1>>
Failed == <<-1, 1>>

IsDefined(d, rva) == rva.var \in DOMAIN d /\ rva.val \in DOMAIN d[rva.var]

LookupProbability(d, rva) == IF IsDefined(d, rva) THEN d[rva.var][rva.val] ELSE Failed

(* Slip: what the values of a chain take is not taken off. *)
MassKept(m, p) == m

MassLeft(m, p) == Minus(m, p)

(* The check before a result is returned. *)
InRange(p) == IF IsNegative(p) \/ IsAboveOne(p) THEN Failed ELSE p

(* bdd_probability_node for node i, and its loop: the nodes of one variable *)
(* on a chain of low edges, the last one done being j, have probability p   *)
(* together and leave m to the first low child that tests another variable. *)
(* A failure of the high call is tested for, after the multiplication at    *)
(* the first node; that of the last low call is not.                        *)
RECURSIVE Probability(_, _, _), AlongLow(_, _, _, _, _)

Probability(d, b, i) ==
  LET node == NodeAt(b, i)
      alone == LookupProbability(d, node.rva)
      first == Times(Probability(d, b, node.high), alone)
  IN  IF IsLeaf(node) THEN <<LeafBoolValue(node), 1>>
      ELSE IF IsNegative(alone) THEN Failed
      ELSE IF IsNegative(first) THEN first
      ELSE IF IsSameVar(NodeAt(b, node.high).rva, node.rva) THEN Failed
      ELSE AlongLow(d, b, i, MassLeft(One, alone), first)

AlongLow(d, b, j, m, p) ==
  LET low == NodeAt(b, j).low
      next == NodeAt(b, low)
      alone == LookupProbability(d, next.rva)
      high == Probability(d, b, next.high)
  IN  IF ~IsSameVar(next.rva, NodeAt(b, j).rva)
      THEN InRange(Plus(p, Times(Probability(d, b, low), m)))
      ELSE IF IsSameVar(NodeAt(b, next.high).rva, next.rva) \/ IsNegative(alone) THEN Failed
      ELSE IF IsNegative(high) THEN high
      ELSE AlongLow(d, b, low, MassLeft(m, alone), Plus(p, Times(high, alone)))

-----------------------------------------------------------------------------
Init ==
  /\ bdd \in {CreateBdd(e) : e \in Exprs} /\ dict \in Dictionaries
  /\ asked = FALSE /\ prob = Zero

(* bdd_pg_prob. *)
Ask ==
  /\ asked' = TRUE /\ prob' = Probability(dict, bdd, BddRoot(bdd))
  /\ UNCHANGED <<bdd, dict>>

Becomes(b, d) == bdd' = b /\ dict' = d /\ asked' = FALSE /\ prob' = Zero

Negate == Becomes(BddNot(bdd), dict)
Assign == \E r \in Restrictions : Becomes(BddRestrict(bdd, r), dict)
Redefine == \E d \in Dictionaries : Becomes(bdd, d)

Next == Ask \/ Negate \/ Assign \/ Redefine

Spec == Init /\ [][Next]_vars

-----------------------------------------------------------------------------
Tested == {rva.var : rva \in RvasIn(bdd)}
Known == \A rva \in RvasIn(bdd) : IsDefined(dict, rva)

SumOver(S, p(_)) == FoldSet(LAMBDA x, sum : Plus(sum, p(x)), Zero, S)

(* The ways to give each variable of the diagram one of its values, or none *)
(* of them, which takes what the values leave of 1: normalize_var accepts   *)
(* a total that is off by 0.0001.                                           *)
Valuations ==
  {c \in [Tested -> UNION {DOMAIN dict[v] : v \in Tested} \cup {AnyVal}] :
     \A v \in Tested : c[v] \in DOMAIN dict[v] \cup {AnyVal}}

ProbOf(v, k) ==
  IF k = AnyVal THEN Minus(One, SumOver(DOMAIN dict[v], LAMBDA j : dict[v][j])) ELSE dict[v][k]
Weight(c) == FoldSet(LAMBDA v, product : Times(product, ProbOf(v, c[v])), One, Tested)
TrueIn(c) == Holds(bdd, {rva \in RvasIn(bdd) : c[rva.var] = rva.val})

Sum == SumOver({c \in Valuations : TrueIn(c)}, Weight)

(* A variable whose values in the diagram have more than 1 together. *)
Exceeding(v) ==
  IsAboveOne(SumOver({rva \in RvasIn(bdd) : rva.var = v}, LAMBDA rva : LookupProbability(dict, rva)))

(* With a dictionary that has all rvas of the diagram, the probability is   *)
(* the sum of the products of the probabilities of the values over all      *)
(* choices of values that make the diagram true, those the diagram does not *)
(* test included; with a variable of total zero it is not a number.         *)
ProbabilityIsSum ==
  asked /\ Known =>
    IF \E v \in Tested : \E k \in DOMAIN dict[v] : dict[v][k] = NaN THEN prob = NaN
    ELSE (\A v \in Tested : ~Exceeding(v)) => prob = Sum

(* There are two reasons for an error: an rva that the dictionary does not  *)
(* have, or values of a variable that exceed 1 together as far as           *)
(* normalize_var lets them.  Neither the tests for an unexpected high       *)
(* branch nor the check of the range refuse anything else that the          *)
(* functions of bdd.c and dictionary.c have made.                           *)
ErrorsExplained ==
  asked /\ IsNegative(prob) => ~Known \/ \E v \in Tested : Exceeding(v)

(* pg_bdd.c: prob "Computes probability of bdd expression with defined rva  *)
(* probs in dictionary": an answer that is no error is the sum, give or     *)
(* take what normalize_var allows each variable.                            *)
Near(p, q) == LET d == Minus(p, q) IN p = q \/ (1000 * d[1] < d[2] /\ -1000 * d[1] < d[2])

AnswersAreSums == asked /\ Known /\ ~IsNegative(prob) => Near(prob, Sum)
=============================================================================
