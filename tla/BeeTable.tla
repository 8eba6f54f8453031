------------------------------- MODULE BeeTable ------------------------------
(***************************************************************************)
(* The tokens, states and transition table of BEE (pgbdd/utils.c), and what *)
(* an evaluation of a token sequence returns.                              *)
(***************************************************************************)
EXTENDS Integers, Sequences, SequencesExt

CONSTANT StackMax     \* BEE_STACKMAX

ASSUME StackMaxAssumption == StackMax \in Nat \ {0}

Token == {"0", "1", "!", "&", "|", "(", ")", "E"}
Val == {"0", "1"}

(* The machine's states: the value of all that was read (s0, s1); a value   *)
(* and an operator (0and ... 1or); a value decided already (always0,        *)
(* always1); behind one "!" and where a value must start.                   *)
Waiting == {"not", "0and", "0or", "1and", "1or", "always0", "always1", "valstart"}
Static == {"s0", "s1"} \cup Waiting
State == Static \cup {"result0", "result1", "paropen", "error", "parclose"}

Complement(v) == IF v = "0" THEN "1" ELSE "0"

(* Slip: 1 | x takes the value of x. *)
ValueBehindLast(s, v) ==
  CASE s = "not" -> Complement(v)
    [] s \in {"0and", "always0"} -> "0"
    [] s = "always1" -> "1"
    [] s \in {"0or", "1and", "1or", "valstart"} -> v

(* The columns 0 and 1 of the table, for a state waiting for a value.       *)
ValueBehind(s, v) ==
  CASE s = "not" -> Complement(v)
    [] s \in {"0and", "always0"} -> "0"
    [] s \in {"1or", "always1"} -> "1"
    [] s \in {"0or", "1and", "valstart"} -> v

StateOf(v) == IF v = "0" THEN "s0" ELSE "s1"
ValueOf(s) == IF s = "s0" THEN "0" ELSE "1"

(* Slip: behind a decided value, "!" is refused. *)
NegationRefused(s) ==
  CASE s = "not" -> "valstart"
    [] s \in {"0and", "always0", "1or", "always1"} -> "error"
    [] s \in {"0or", "1and", "valstart"} -> "not"

(* Its column "!". *)
Negation(s) ==
  CASE s = "not" -> "valstart"
    [] s \in {"0and", "always0"} -> "always0"
    [] s \in {"1or", "always1"} -> "always1"
    [] s \in {"0or", "1and", "valstart"} -> "not"

(* Slip: the end of the input is not looked for behind a value. *)
FsmOpenEnded(s, tok) ==
  IF s \in Waiting
  THEN CASE tok \in Val -> StateOf(ValueBehind(s, tok))
         [] tok = "!"   -> Negation(s)
         [] tok = "("   -> "paropen"
         [] OTHER       -> "error"
  ELSE CASE tok = "&" -> IF s = "s0" THEN "0and" ELSE "1and"
         [] tok = "|" -> IF s = "s0" THEN "0or" ELSE "1or"
         [] tok = ")" -> "parclose"
         [] tok = "E" -> "valstart"
         [] OTHER     -> "error"

(* The table fsm. *)
Fsm(s, tok) ==
  IF s \in Waiting
  THEN CASE tok \in Val -> StateOf(ValueBehind(s, tok))
         [] tok = "!"   -> Negation(s)
         [] tok = "("   -> "paropen"
         [] OTHER       -> "error"
  ELSE CASE tok = "&" -> IF s = "s0" THEN "0and" ELSE "1and"
         [] tok = "|" -> IF s = "s0" THEN "0or" ELSE "1or"
         [] tok = ")" -> "parclose"
         [] tok = "E" -> IF s = "s0" THEN "result0" ELSE "result1"
         [] OTHER     -> "error"

-----------------------------------------------------------------------------
(* bee_eval_fsm, from one token to the next: the value read last is kept in *)
(* the state, the states below pending parentheses in open.                 *)
AfterToken(m, tok) ==
  LET s == IF m.state = "error" THEN "error" ELSE Fsm(m.state, tok)
  IN  CASE s = "paropen" ->
             [state |-> IF Len(m.open) + 1 = StackMax THEN "error" ELSE "valstart",
              open  |-> Append(m.open, m.state)]
        [] s = "parclose" ->
             IF m.open = <<>> THEN [m EXCEPT !.state = "error"]
             ELSE [state |-> Fsm(Last(m.open), ValueOf(m.state)), open |-> Front(m.open)]
        [] OTHER -> [m EXCEPT !.state = s]

(* bee_eval_raw: the value of a text, or -1 for an error. *)
Evaluate(text) ==
  LET in == Append(text, "E")
      after[k \in 0 .. Len(in)] ==
        IF k = 0 THEN [state |-> "valstart", open |-> <<>>] ELSE AfterToken(after[k - 1], in[k])
      last == after[Len(in)]
  IN  CASE last.open # <<>>                                   -> -1
        [] last.open = <<>> /\ last.state = "result0"         -> 0
        [] last.open = <<>> /\ last.state = "result1"         -> 1
        [] last.open = <<>> /\ last.state \notin {"result0", "result1"} -> -1
=============================================================================
