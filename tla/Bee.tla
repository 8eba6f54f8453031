--------------------------------- MODULE Bee ---------------------------------
(***************************************************************************)
(* BEE, the Boolean expression evaluator of pgbdd/utils.c: a finite state  *)
(* machine over tokens, with a stack of states for parentheses, which      *)
(* evaluates from left to right without precedence between & and |.  Once  *)
(* a value decides an operator (0 & or 1 |), the machine only checks the   *)
(* syntax of what follows.  RvaScan composes it with the scan that makes   *)
(* its input from the text of an expression.                               *)
(***************************************************************************)
EXTENDS BeeTable

VARIABLES
  input,      \* the expression, ended by bee_eof
  t,          \* how many tokens were read
  state,
  prev,       \* prev_state
  stack,
  result      \* the value returned, -1 for an error, or NoResult

beeVars == <<input, t, state, prev, stack, result>>

NoResult == -2

-----------------------------------------------------------------------------
(* No evaluation was started yet. *)
Idle ==
  /\ input = <<>> /\ t = 0 /\ state = "error" /\ prev = "error" /\ stack = <<>>
  /\ result = NoResult

(* bee_eval_raw is called. *)
StartOn(frame) ==
  /\ input' = Append(frame, "E")
  /\ t' = 0 /\ state' = "valstart" /\ prev' = "error" /\ stack' = <<>>
  /\ result' = NoResult

Running == result = NoResult

Read ==
  /\ Running /\ state \in Static
  /\ t' = t + 1
  /\ prev' = state
  /\ state' = Fsm(state, input[t + 1])
  /\ UNCHANGED <<input, stack, result>>

(* The state is pushed; a stack that is full then is an error. *)
Open ==
  /\ Running /\ state = "paropen"
  /\ stack' = Append(stack, prev)
  /\ state' = "valstart"
  /\ result' = IF Len(stack) + 1 = StackMax THEN -1 ELSE result
  /\ UNCHANGED <<input, t, prev>>

(* The value within the parentheses is what the state below reads.          *)
Close ==
  /\ Running /\ state = "parclose"
  /\ IF stack = <<>> THEN result' = -1 /\ UNCHANGED <<state, stack>>
     ELSE /\ state' = Fsm(Last(stack), ValueOf(prev))
          /\ stack' = Front(stack)
          /\ UNCHANGED result
  /\ UNCHANGED <<input, t, prev>>

Result ==
  /\ Running /\ state \in {"result0", "result1"}
  /\ result' = IF stack # <<>> THEN -1 ELSE IF state = "result0" THEN 0 ELSE 1
  /\ UNCHANGED <<input, t, state, prev, stack>>

SyntaxError ==
  /\ Running /\ state = "error"
  /\ result' = -1
  /\ UNCHANGED <<input, t, state, prev, stack>>

Evaluating == Read \/ Open \/ Close \/ Result \/ SyntaxError

-----------------------------------------------------------------------------
(* Only states that wait for a value are ever pushed, the stack keeps its   *)
(* bound, and no token behind bee_eof is read: until then t is behind it    *)
(* only when the machine is about to stop.                                  *)
TypeOK ==
  /\ t \in 0 .. Len(input)
  /\ state \in State /\ prev \in Static \cup {"error"}
  /\ stack \in Seq(Waiting) /\ Len(stack) <= StackMax
  /\ Running /\ t = Len(input) => state \notin Static
  /\ Running => Len(stack) < StackMax
  /\ result \in {NoResult, -1, 0, 1}

-----------------------------------------------------------------------------
(***************************************************************************)
(* Reference: the grammar.  A unary is a value, a negated unary or an      *)
(* expression in parentheses; an expression is a unary, or an expression,  *)
(* an operator and a unary.  Grammar(s) is the value of s, or "none".      *)
(***************************************************************************)
ApplyOp(v, op, w) ==
  IF op = "&" THEN (IF v = "0" THEN "0" ELSE w) ELSE (IF v = "1" THEN "1" ELSE w)

(* What a unary from i to j is worth, and what an expression is, if read    *)
(* gives the values of shorter ones.                                        *)
UnaryValue(s, read, i, j) ==
  CASE s[i] \in Val -> IF i = j THEN s[i] ELSE "none"
    [] s[i] = "!" -> IF read[<<"unary", i + 1, j>>] = "none" THEN "none"
                     ELSE Complement(read[<<"unary", i + 1, j>>])
    [] s[i] = "(" -> IF s[j] = ")" THEN read[<<"expr", i + 1, j - 1>>] ELSE "none"
    [] OTHER -> "none"

Splits(s, read, i, j) ==
  {k \in i + 1 .. j - 1 :
     /\ s[k] \in {"&", "|"}
     /\ read[<<"unary", k + 1, j>>] # "none" /\ read[<<"expr", i, k - 1>>] # "none"}

ExprValue(s, read, i, j) ==
  IF read[<<"unary", i, j>>] # "none" THEN read[<<"unary", i, j>>]
  ELSE IF Splits(s, read, i, j) = {} THEN "none"
  ELSE LET k == CHOOSE k \in Splits(s, read, i, j) : TRUE
       IN  ApplyOp(read[<<"expr", i, k - 1>>], s[k], read[<<"unary", k + 1, j>>])

Grammar(s) ==
  LET read[p \in {"unary", "expr"} \X (1 .. Len(s) + 1) \X (0 .. Len(s))] ==
        IF p[2] > p[3] THEN "none"
        ELSE IF p[1] = "unary" THEN UnaryValue(s, read, p[2], p[3])
        ELSE ExprValue(s, read, p[2], p[3])
  IN  read[<<"expr", 1, Len(s)>>]

(* How deep the parentheses of s nest, or seem to, before each place. *)
Depth(s, k) ==
  Cardinality({j \in 1 .. k : s[j] = "("}) - Cardinality({j \in 1 .. k : s[j] = ")"})
Nesting(s) == {Depth(s, k) : k \in 1 .. Len(s)}

(* The machine accepts exactly the grammar, up to its limit on nesting, and *)
(* returns the value of the left-to-right reading, short-circuits and all;  *)
(* Evaluate, which other modules use, returns the same.                     *)
EvaluatesLeftToRight ==
  ~Running =>
    /\ result = Evaluate(Front(input))
    /\ IF StackMax \in Nesting(input) THEN result = -1
       ELSE /\ result = -1 <=> Grammar(Front(input)) = "none"
            /\ result # -1 => /\ Grammar(Front(input)) = IF result = 0 THEN "0" ELSE "1"
                              /\ t = Len(input)
=============================================================================
