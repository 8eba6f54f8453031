---------------------------- MODULE RvaScanProofs ----------------------------
(***************************************************************************)
(* What every step of BEE preserves (Bee): its type and memory bounds, and *)
(* that its verdict about the syntax of an input does not depend on the    *)
(* values in it.  And for every text and every limit (RvaScan): what       *)
(* create_bdd allocates before the scan suffices, BEE stays within its     *)
(* stack and its input, the dry run speaks for every evaluation, the order *)
(* holds the rvas of the text, the frames are the text with values, and    *)
(* BEE gives the value of the grammar.                                     *)
(***************************************************************************)
EXTENDS RvaScan, NatLemmas, FiniteSetTheorems, SequenceTheorems

USE StackMaxAssumption

Values == {"s0", "s1"}
Results == {"result0", "result1"}

(* What TypeOK needs to be inductive: bee_eof ends the input and stands     *)
(* nowhere else, parentheses are opened only where a value is awaited, and  *)
(* behind bee_eof the machine only stops.                                   *)
BeeInv ==
  /\ TypeOK
  /\ input \in Seq(Token)
  /\ \A k \in 1 .. Len(input) : input[k] = "E" <=> k = Len(input)
  /\ state = "paropen" => prev \in Waiting
  /\ Running /\ t = Len(input) => state \notin {"paropen", "parclose"}
  /\ state \in Results => t = Len(input)
  /\ result \in {0, 1} => t = Len(input)

-----------------------------------------------------------------------------
(* The table: where a value is awaited, and behind a value.                 *)
LEMMA FsmWaiting ==
  ASSUME NEW s \in Waiting, NEW tok \in Token
  PROVE  /\ tok \in Val => Fsm(s, tok) \in Values
         /\ tok = "!" => Fsm(s, tok) \in Waiting
         /\ tok = "(" => Fsm(s, tok) = "paropen"
         /\ tok \notin Val \cup {"!", "("} => Fsm(s, tok) = "error"
<1>1. ASSUME tok \in Val PROVE Fsm(s, tok) \in Values
  BY <1>1 DEF Fsm, StateOf, Values, Val
<1>2. ASSUME tok = "!" PROVE Fsm(s, tok) \in Waiting
  BY <1>2 DEF Fsm, Negation, Waiting, Val
<1>3. ASSUME tok = "(" PROVE Fsm(s, tok) = "paropen"
  BY <1>3 DEF Fsm, Val
<1>4. ASSUME tok \notin Val \cup {"!", "("} PROVE Fsm(s, tok) = "error"
  BY <1>4 DEF Fsm
<1>5. QED
  BY <1>1, <1>2, <1>3, <1>4

LEMMA FsmValue ==
  ASSUME NEW s \in Values, NEW tok \in Token
  PROVE  /\ tok \in {"&", "|"} => Fsm(s, tok) \in Waiting
         /\ tok = ")" => Fsm(s, tok) = "parclose"
         /\ tok = "E" => Fsm(s, tok) \in Results
         /\ tok \notin {"&", "|", ")", "E"} => Fsm(s, tok) = "error"
<1>1. s \notin Waiting
  BY DEF Values, Waiting
<1>2. QED
  BY <1>1 DEF Fsm, Values, Waiting, Results

LEMMA StateKinds ==
  /\ Static = Waiting \cup Values
  /\ Waiting \cap Values = {}
  /\ \A s \in Static : s \notin Results \cup {"paropen", "parclose", "error"}
  /\ State = Static \cup Results \cup {"paropen", "parclose", "error"}
BY DEF Static, State, Waiting, Values, Results

(* A call of bee_eval_raw starts in the invariant.                          *)
LEMMA StartKeepsInv ==
  ASSUME NEW frame \in Seq(Token \ {"E"}), StartOn(frame)
  PROVE  /\ BeeInv'
         /\ Len(input') = Len(frame) + 1
         /\ \A k \in 1 .. Len(frame) : input'[k] = frame[k]
<1>1. frame \in Seq(Token) /\ "E" \in Token
  BY SeqMonotonic DEF Token
<1>2. /\ input' \in Seq(Token)
      /\ Len(input') = Len(frame) + 1
      /\ \A k \in 1 .. Len(frame) : input'[k] = frame[k]
      /\ input'[Len(frame) + 1] = "E"
  BY <1>1, AppendProperties DEF StartOn
<1>3. Len(frame) \in Nat /\ \A k \in 1 .. Len(frame) : frame[k] # "E"
  BY ElementOfSeq, LenProperties
<1>4. \A k \in 1 .. Len(input') : input'[k] = "E" <=> k = Len(input')
  BY <1>2, <1>3
<1>5. TypeOK'
  BY <1>2, <1>3, EmptySeq DEF StartOn, TypeOK, NoResult, Running, State, Static, Waiting
<1>6. QED
  BY <1>2, <1>4, <1>5 DEF BeeInv, StartOn, Running, Results, NoResult

-----------------------------------------------------------------------------
(* Every step of an evaluation keeps the invariant.                         *)
LEMMA StepSettled ==
  ASSUME BeeInv, Read, t < Len(input), state' \in State,
         state' = "paropen" => state \in Waiting,
         t + 1 = Len(input) => state' \in Results \cup {"error"},
         state' \in Results => t + 1 = Len(input)
  PROVE  BeeInv'
<1>1. /\ t \in 0 .. Len(input) /\ Len(input) \in Nat
      /\ input' = input /\ t' = t + 1 /\ prev' = state /\ stack' = stack /\ result' = result
      /\ state \in Static /\ result = NoResult
  BY LenProperties DEF BeeInv, TypeOK, Read, Running
<1>2. state' \in Results \cup {"error"} => state' \notin Static \cup {"paropen", "parclose"}
  BY StateKinds DEF Results
<1>3. TypeOK'
  BY <1>1, <1>2 DEF BeeInv, TypeOK, Running, NoResult
<1>4. QED
  BY <1>1, <1>2, <1>3 DEF BeeInv, Running, NoResult

LEMMA ReadKeepsInv ==
  ASSUME BeeInv, Read
  PROVE  BeeInv' /\ t < Len(input)
<1> DEFINE tok == input[t + 1]
<1>1. /\ t \in 0 .. Len(input) /\ Len(input) \in Nat /\ t # Len(input)
      /\ input' = input /\ t' = t + 1 /\ prev' = state /\ stack' = stack /\ result' = result
      /\ state' = Fsm(state, tok) /\ state \in Static /\ result = NoResult
  BY LenProperties DEF BeeInv, TypeOK, Read, Running
<1>2. t + 1 \in 1 .. Len(input) /\ t < Len(input)
  BY <1>1
<1>3. tok \in Token /\ (tok = "E" <=> t + 1 = Len(input))
  BY <1>2, ElementOfSeq DEF BeeInv
<1> HIDE DEF tok
<1>4. CASE state \in Waiting
  <2>1. state' \in Values \cup Waiting \cup {"paropen", "error"}
    BY <1>1, <1>3, <1>4, FsmWaiting
  <2>2. tok = "E" => state' = "error"
    BY <1>1, <1>3, <1>4, FsmWaiting DEF Val
  <2>3. state' \notin Results
    BY <2>1, StateKinds DEF Results
  <2>4. state' \in State
    BY <2>1, StateKinds
  <2>5. QED
    BY <1>2, <1>3, <1>4, <2>2, <2>3, <2>4, StepSettled
<1>5. CASE state \in Values
  <2>1. state' \in Waiting \cup Results \cup {"parclose", "error"}
    BY <1>1, <1>3, <1>5, FsmValue
  <2>2. tok = "E" <=> state' \in Results
    <3>1. tok = "E" => state' \in Results
      BY <1>1, <1>3, <1>5, FsmValue
    <3>2. tok # "E" => state' \in Waiting \cup {"parclose", "error"}
      BY <1>1, <1>3, <1>5, FsmValue
    <3>3. QED
      BY <3>1, <3>2, StateKinds DEF Results
  <2>3. state' \in State /\ (tok = "E" => state' \in Results) /\ state' # "paropen"
    BY <2>1, <2>2, StateKinds DEF Results
  <2>4. QED
    BY <1>2, <1>3, <2>2, <2>3, StepSettled
<1>6. QED
  BY <1>1, <1>4, <1>5, StateKinds

LEMMA CloseFacts ==
  ASSUME BeeInv, Close, stack # <<>>
  PROVE  /\ state' \in Values /\ result' = result
         /\ stack' \in Seq(Waiting) /\ Len(stack') = Len(stack) - 1
<1>1. stack \in Seq(Waiting) /\ Len(stack) \in Nat \ {0}
  BY EmptySeq DEF BeeInv, TypeOK
<1>2. /\ Front(stack) \in Seq(Waiting) /\ Len(Front(stack)) = Len(stack) - 1
      /\ Last(stack) \in Waiting
  <2>1. PICK m \in Int : m = Len(stack) - 1
    BY <1>1
  <2>2. \A i \in 1 .. m : stack[i] \in Waiting
    BY <1>1, <2>1, ElementOfSeq
  <2>3. /\ SubSeq(stack, 1, m) \in Seq(Waiting)
        /\ Len(SubSeq(stack, 1, m)) = IF 1 <= m THEN m - 1 + 1 ELSE 0
    BY <2>2, SubSeqProperties
  <2>4. Len(SubSeq(stack, 1, m)) = m
    BY <1>1, <2>1, <2>3
  <2>5. stack[Len(stack)] \in Waiting
    BY <1>1, ElementOfSeq
  <2>6. QED
    BY <2>1, <2>3, <2>4, <2>5 DEF Front, Last
<1>3. ValueOf(prev) \in Val /\ ValueOf(prev) \in Token
  BY DEF ValueOf, Val, Token
<1>4. Fsm(Last(stack), ValueOf(prev)) \in Values
  BY <1>2, <1>3, FsmWaiting
<1>5. QED
  BY <1>2, <1>4 DEF Close

LEMMA EvaluatingKeepsInv ==
  ASSUME BeeInv, Evaluating
  PROVE  BeeInv'
<1>1. CASE Read
  BY <1>1, ReadKeepsInv
<1>2. CASE Open
  <2>1. /\ stack' \in Seq(Waiting) /\ Len(stack') = Len(stack) + 1
        /\ stack \in Seq(Waiting) /\ Len(stack) \in Nat /\ Len(stack) < StackMax
    BY <1>2, AppendProperties, LenProperties DEF BeeInv, TypeOK, Open
  <2>2. /\ result = NoResult /\ state = "paropen" /\ state' = "valstart" /\ t # Len(input)
        /\ input' = input /\ t' = t /\ prev' = prev
        /\ result' = IF Len(stack) + 1 = StackMax THEN -1 ELSE result
    BY <1>2 DEF BeeInv, TypeOK, Open, Running
  <2>3. state' \in Static
    BY <2>2 DEF Static, Waiting
  <2>4. TypeOK'
    BY <2>1, <2>2, <2>3, StateKinds DEF BeeInv, TypeOK, Running, NoResult
  <2>5. QED
    BY <2>2, <2>3, <2>4, StateKinds DEF BeeInv, Running, NoResult
<1>3. CASE Close /\ stack = <<>>
  <2>1. /\ result' = -1 /\ state' = state /\ stack' = stack /\ input' = input
        /\ t' = t /\ prev' = prev /\ state = "parclose"
    BY <1>3 DEF Close
  <2>2. QED
    BY <2>1, StateKinds DEF BeeInv, TypeOK, Running, NoResult
<1>4. CASE Close /\ stack # <<>>
  <2>1. /\ state' \in Values /\ result' = result /\ stack' \in Seq(Waiting)
        /\ Len(stack') = Len(stack) - 1 /\ Len(stack) \in Nat
    BY <1>4, CloseFacts, LenProperties DEF BeeInv, TypeOK
  <2>2. /\ input' = input /\ t' = t /\ prev' = prev /\ state = "parclose"
        /\ t # Len(input) /\ result = NoResult
    BY <1>4 DEF Close, BeeInv, Running
  <2>3. TypeOK'
    BY <2>1, <2>2, StateKinds DEF BeeInv, TypeOK, Running, NoResult
  <2>4. QED
    BY <2>1, <2>2, <2>3, StateKinds DEF BeeInv, Running, NoResult
<1>5. CASE Result
  BY <1>5 DEF Result, BeeInv, TypeOK, Running, NoResult, Results
<1>6. CASE SyntaxError
  BY <1>6 DEF SyntaxError, BeeInv, TypeOK, Running, NoResult, Results
<1>7. QED
  BY <1>1, <1>2, <1>3, <1>4, <1>5, <1>6 DEF Evaluating

-----------------------------------------------------------------------------
(***************************************************************************)
(* The syntax alone.  Of a state it only matters whether a value is awaited *)
(* or was read, and of the stack how deep it is: the machine counts         *)
(* parentheses.                                                            *)
(***************************************************************************)
Kinds == [kind : {"wait", "val", "result", "error"}, depth : Nat]
At(k, d) == [kind |-> k, depth |-> d]

Opened(d) == IF d + 1 = StackMax THEN At("error", 0) ELSE At("wait", d + 1)
Closed(d) == IF d = 0 THEN At("error", 0) ELSE At("val", d - 1)

(* The next token, whatever the value if it is one.                         *)
SyntaxStep(m, tok) ==
  CASE m.kind = "wait" ->
         (CASE tok \in Val -> At("val", m.depth)
            [] tok = "!"   -> m
            [] tok = "("   -> Opened(m.depth)
            [] OTHER       -> At("error", 0))
    [] m.kind = "val" ->
         (CASE tok \in {"&", "|"} -> At("wait", m.depth)
            [] tok = ")"          -> Closed(m.depth)
            [] tok = "E"          -> At("result", m.depth)
            [] OTHER              -> At("error", 0))
    [] OTHER -> At("error", 0)

(* Where a state and a depth stand, once a pending parenthesis is handled.  *)
Reached(s, d) ==
  CASE s \in Waiting    -> At("wait", d)
    [] s \in Values     -> At("val", d)
    [] s = "paropen"    -> Opened(d)
    [] s = "parclose"   -> Closed(d)
    [] s \in Results    -> At("result", d)
    [] s = "error"      -> At("error", 0)

(* h is the course of the syntax over the first m tokens of s.              *)
Course(h, s, m) ==
  /\ h \in [0 .. m -> Kinds]
  /\ h[0] = At("wait", 0)
  /\ \A k \in 0 .. m - 1 : h[k].kind \in {"wait", "val"} /\ h[k + 1] = SyntaxStep(h[k], s[k + 1])

Accepted0 == At("result", 0)

(* The machine stands where the course of the syntax does, and its verdict  *)
(* is that of the syntax.                                                   *)
Follows(h) ==
  /\ Running => h[t] = Reached(state, Len(stack))
  /\ ~Running => h[t].kind \in {"error", "result"}
  /\ ~Running => (result = -1 <=> h[t] # Accepted0)

LEMMA ReachedIs ==
  ASSUME NEW s, NEW d
  PROVE  /\ s \in Waiting => Reached(s, d) = At("wait", d)
         /\ s \in Values => Reached(s, d) = At("val", d)
         /\ s = "paropen" => Reached(s, d) = Opened(d)
         /\ s = "parclose" => Reached(s, d) = Closed(d)
         /\ s \in Results => Reached(s, d) = At("result", d)
         /\ s = "error" => Reached(s, d) = At("error", 0)
BY DEF Reached, Waiting, Values, Results

LEMMA SyntaxStepReached ==
  ASSUME NEW s \in Static, NEW tok \in Token, NEW d \in Nat
  PROVE  /\ Reached(Fsm(s, tok), d) = SyntaxStep(Reached(s, d), tok)
         /\ Reached(s, d).kind \in {"wait", "val"}
<1>1. CASE s \in Waiting
  <2>1. Reached(s, d) = At("wait", d)
    BY <1>1, ReachedIs
  <2>2. At("wait", d).kind = "wait" /\ At("wait", d).depth = d
    BY DEF At
  <2>3. CASE tok \in Val
    <3>1. Fsm(s, tok) \in Values /\ Fsm(s, tok) \notin Waiting
      BY <1>1, <2>3, FsmWaiting, StateKinds
    <3>2. Reached(Fsm(s, tok), d) = At("val", d)
      BY <3>1, ReachedIs
    <3>3. QED
      BY <2>1, <2>2, <2>3, <3>2 DEF SyntaxStep, Val
  <2>4. CASE tok = "!"
    <3>1. Fsm(s, tok) \in Waiting
      BY <1>1, <2>4, FsmWaiting
    <3>2. Reached(Fsm(s, tok), d) = At("wait", d)
      BY <3>1, ReachedIs
    <3>3. QED
      BY <2>1, <2>2, <2>4, <3>2 DEF SyntaxStep, Val
  <2>5. CASE tok = "("
    <3>1. Fsm(s, tok) = "paropen"
      BY <1>1, <2>5, FsmWaiting
    <3>2. Reached(Fsm(s, tok), d) = Opened(d)
      BY <3>1, ReachedIs
    <3>3. QED
      BY <2>1, <2>2, <2>5, <3>2 DEF SyntaxStep, Val
  <2>6. CASE tok \notin Val \cup {"!", "("}
    <3>1. Fsm(s, tok) = "error"
      BY <1>1, <2>6, FsmWaiting
    <3>2. Reached(Fsm(s, tok), d) = At("error", 0)
      BY <3>1, ReachedIs
    <3>3. QED
      BY <2>1, <2>2, <2>6, <3>2 DEF SyntaxStep
  <2>7. QED
    BY <2>1, <2>2, <2>3, <2>4, <2>5, <2>6
<1>2. CASE s \in Values
  <2>1. Reached(s, d) = At("val", d)
    BY <1>2, StateKinds, ReachedIs
  <2>2. At("val", d).kind = "val" /\ At("val", d).depth = d
    BY DEF At
  <2>3. CASE tok \in {"&", "|"}
    <3>1. Fsm(s, tok) \in Waiting
      BY <1>2, <2>3, FsmValue
    <3>2. Reached(Fsm(s, tok), d) = At("wait", d)
      BY <3>1, ReachedIs
    <3>3. QED
      BY <2>1, <2>2, <2>3, <3>2 DEF SyntaxStep
  <2>4. CASE tok = ")"
    <3>1. Fsm(s, tok) = "parclose"
      BY <1>2, <2>4, FsmValue
    <3>2. Reached(Fsm(s, tok), d) = Closed(d)
      BY <3>1, ReachedIs
    <3>3. QED
      BY <2>1, <2>2, <2>4, <3>2 DEF SyntaxStep
  <2>5. CASE tok = "E"
    <3>1. Fsm(s, tok) \in Results
      BY <1>2, <2>5, FsmValue
    <3>2. Reached(Fsm(s, tok), d) = At("result", d)
      BY <3>1, ReachedIs
    <3>3. QED
      BY <2>1, <2>2, <2>5, <3>2 DEF SyntaxStep
  <2>6. CASE tok \notin {"&", "|", ")", "E"}
    <3>1. Fsm(s, tok) = "error"
      BY <1>2, <2>6, FsmValue
    <3>2. Reached(Fsm(s, tok), d) = At("error", 0)
      BY <3>1, ReachedIs
    <3>3. QED
      BY <2>1, <2>2, <2>6, <3>2 DEF SyntaxStep
  <2>7. QED
    BY <2>1, <2>2, <2>3, <2>4, <2>5, <2>6
<1>3. QED
  BY <1>1, <1>2, StateKinds

(* Whatever follows the machine through a step that reads no token.         *)
LEMMA SilentStepFollows ==
  ASSUME BeeInv, NEW h, Follows(h), Open \/ Close \/ Result \/ SyntaxError
  PROVE  Follows(h)' /\ t' = t /\ input' = input
<1>0. Len(stack) \in Nat /\ (Len(stack) = 0 <=> stack = <<>>) /\ h' = h
  BY EmptySeq DEF BeeInv, TypeOK
<1>1. /\ \A k, d : At(k, d).kind = k /\ At(k, d).depth = d
      /\ \A k1, k2, d1, d2 : At(k1, d1) = At(k2, d2) <=> k1 = k2 /\ d1 = d2
  BY DEF At
<1>2. CASE Open
  <2>1. /\ Running /\ state = "paropen" /\ state' = "valstart" /\ t' = t /\ input' = input
        /\ Len(stack') = Len(stack) + 1
        /\ result' = IF Len(stack) + 1 = StackMax THEN -1 ELSE result
    BY <1>2, AppendProperties DEF Open, BeeInv, TypeOK
  <2>2. h[t] = Opened(Len(stack))
    BY <2>1, ReachedIs DEF Follows
  <2>3. Reached(state', Len(stack')) = At("wait", Len(stack) + 1)
    <3>1. state' \in Waiting
      BY <2>1 DEF Waiting
    <3>2. QED
      BY <2>1, <3>1, ReachedIs
  <2>4. QED
    BY <1>0, <1>1, <2>1, <2>2, <2>3 DEF Follows, Running, NoResult, Opened, Accepted0
<1>3. CASE Close /\ stack = <<>>
  <2>1. Running /\ state = "parclose" /\ result' = -1 /\ t' = t /\ input' = input
    BY <1>3 DEF Close
  <2>2. h[t] = At("error", 0)
    BY <1>0, <1>3, <2>1, ReachedIs DEF Follows, Closed
  <2>3. QED
    BY <1>0, <1>1, <2>1, <2>2 DEF Follows, Running, NoResult, Accepted0
<1>4. CASE Close /\ stack # <<>>
  <2>1. /\ Running /\ state = "parclose" /\ result' = result /\ t' = t /\ input' = input
        /\ state' \in Values /\ Len(stack') = Len(stack) - 1
    BY <1>4, CloseFacts DEF Close
  <2>2. h[t] = At("val", Len(stack) - 1)
    BY <1>0, <1>4, <2>1, ReachedIs DEF Follows, Closed
  <2>3. Reached(state', Len(stack')) = At("val", Len(stack) - 1)
    BY <2>1, StateKinds, ReachedIs
  <2>4. QED
    BY <1>0, <2>1, <2>2, <2>3 DEF Follows, Running
<1>5. CASE Result
  <2>1. /\ Running /\ state \in Results /\ t' = t /\ input' = input
        /\ result' \in {-1, 0, 1} /\ (result' = -1 <=> stack # <<>>)
    BY <1>5 DEF Result, Results
  <2>2. h[t] = At("result", Len(stack))
    BY <2>1, ReachedIs DEF Follows
  <2>3. QED
    BY <1>0, <1>1, <2>1, <2>2 DEF Follows, Running, NoResult, Accepted0
<1>6. CASE SyntaxError
  <2>1. Running /\ state = "error" /\ result' = -1 /\ t' = t /\ input' = input
    BY <1>6 DEF SyntaxError
  <2>2. h[t] = At("error", 0)
    BY <2>1, ReachedIs DEF Follows
  <2>3. QED
    BY <1>0, <1>1, <2>1, <2>2 DEF Follows, Running, NoResult, Accepted0
<1>7. QED
  BY <1>2, <1>3, <1>4, <1>5, <1>6
(* A token read takes the machine where the syntax goes.                    *)
LEMMA ReadFollows ==
  ASSUME BeeInv, NEW h, Follows(h), Read, h[t + 1] = SyntaxStep(h[t], input[t + 1])
  PROVE  /\ Follows(h)' /\ h[t].kind \in {"wait", "val"}
         /\ t < Len(input) /\ t' = t + 1 /\ input' = input
         /\ h[t + 1] \in Kinds
<1>1. /\ t \in 0 .. Len(input) /\ Len(input) \in Nat /\ t < Len(input)
      /\ input' = input /\ t' = t + 1 /\ stack' = stack /\ result' = result
      /\ state' = Fsm(state, input[t + 1]) /\ state \in Static /\ Running
  BY ReadKeepsInv, LenProperties DEF BeeInv, TypeOK, Read
<1>2. input[t + 1] \in Token /\ Len(stack) \in Nat
  <2>1. t + 1 \in 1 .. Len(input)
    BY <1>1
  <2>2. QED
    BY <2>1, ElementOfSeq, LenProperties DEF BeeInv, TypeOK
<1>3. h[t] = Reached(state, Len(stack))
  BY <1>1 DEF Follows
<1>4. /\ h[t + 1] = Reached(state', Len(stack'))
      /\ h[t].kind \in {"wait", "val"}
  BY <1>1, <1>2, <1>3, SyntaxStepReached
<1>5. state' \in State
  BY ReadKeepsInv DEF BeeInv, TypeOK
<1>6. Reached(state', Len(stack')) \in Kinds
  <2>1. \A d \in Nat : /\ At("wait", d) \in Kinds /\ At("val", d) \in Kinds
                       /\ At("result", d) \in Kinds /\ At("error", d) \in Kinds
    BY DEF At, Kinds
  <2>2. Opened(Len(stack)) \in Kinds /\ Closed(Len(stack)) \in Kinds
    BY <1>2, <2>1 DEF Opened, Closed
  <2>3. QED
    BY <1>1, <1>2, <1>5, <2>1, <2>2, ReachedIs, StateKinds
<1>7. Follows(h)'
  BY <1>1, <1>4 DEF Follows, Running
<1>8. QED
  BY <1>1, <1>4, <1>6, <1>7

(* The dry run makes the course as it goes.                                 *)
LEMMA CourseStarts ==
  ASSUME NEW frame \in Seq(Token \ {"E"}), StartOn(frame)
  PROVE  \E h : Course(h, input', t') /\ Follows(h)'
<1> DEFINE h == [k \in 0 .. 0 |-> At("wait", 0)]
<1>1. t' = 0 /\ state' = "valstart" /\ stack' = <<>> /\ result' = NoResult
  BY DEF StartOn
<1>2. h[0] = At("wait", 0) /\ h \in [0 .. 0 -> Kinds]
  BY DEF At, Kinds
<1>3. Reached("valstart", 0) = At("wait", 0)
  BY ReachedIs DEF Waiting
<1>4. Len(stack') = 0
  BY <1>1
<1> HIDE DEF h
<1>5. Course(h, input', t')
  BY <1>1, <1>2 DEF Course
<1>6. Follows(h)'
  BY <1>1, <1>2, <1>3, <1>4 DEF Follows, Running
<1>7. QED
  BY <1>5, <1>6

LEMMA CourseExtends ==
  ASSUME BeeInv, Evaluating, NEW h, Course(h, input, t), Follows(h)
  PROVE  \E h2 : Course(h2, input', t') /\ Follows(h2)'
<1>1. CASE Read
  <2>1. t \in Nat
    BY LenProperties DEF BeeInv, TypeOK
  <2>2. PICK h2 : /\ \A k \in 0 .. t : h2[k] = h[k]
                  /\ h2[t + 1] = SyntaxStep(h2[t], input[t + 1])
                  /\ DOMAIN h2 = 0 .. t + 1 /\ h2 = [k \in 0 .. t + 1 |-> h2[k]]
    <3> DEFINE g == [k \in 0 .. t + 1 |-> IF k = t + 1 THEN SyntaxStep(h[t], input[t + 1]) ELSE h[k]]
    <3>1. /\ \A k \in 0 .. t : g[k] = h[k]
          /\ g[t + 1] = SyntaxStep(g[t], input[t + 1])
          /\ DOMAIN g = 0 .. t + 1 /\ g = [k \in 0 .. t + 1 |-> g[k]]
      BY <2>1
    <3> HIDE DEF g
    <3>2. QED
      BY <3>1
  <2>3. Follows(h2)
    <3>1. t \in 0 .. t
      BY <2>1
    <3>2. h2[t] = h[t]
      BY <2>2, <3>1
    <3>3. QED
      BY <3>2 DEF Follows
  <2>4. /\ Follows(h2)' /\ h2[t].kind \in {"wait", "val"}
        /\ t' = t + 1 /\ input' = input /\ h2[t + 1] \in Kinds
    BY <1>1, <2>2, <2>3, ReadFollows
  <2>5. Course(h2, input, t + 1)
    <3>1. \A k \in 0 .. t + 1 : h2[k] \in Kinds
      <4>1. \A k \in 0 .. t : h[k] \in Kinds
        BY DEF Course
      <4>2. QED
        BY <2>1, <2>2, <2>4, <4>1
    <3>2. h2 \in [0 .. t + 1 -> Kinds]
      BY <2>2, <3>1
    <3>3. ASSUME NEW k \in 0 .. t
          PROVE  h2[k].kind \in {"wait", "val"} /\ h2[k + 1] = SyntaxStep(h2[k], input[k + 1])
      <4>1. CASE k = t
        BY <2>2, <2>4, <4>1
      <4>2. CASE k # t
        <5>1. k \in 0 .. t - 1 /\ k + 1 \in 0 .. t
          BY <2>1, <4>2
        <5>2. QED
          BY <2>2, <5>1 DEF Course
      <4>3. QED
        BY <4>1, <4>2
    <3>4. h2[0] = At("wait", 0)
      <4>1. 0 \in 0 .. t /\ h[0] = At("wait", 0)
        BY <2>1 DEF Course
      <4>2. QED
        BY <2>2, <4>1
    <3>5. PICK m : m = t + 1 /\ m - 1 = t
      BY <2>1
    <3>6. \A k \in 0 .. m - 1 : h2[k].kind \in {"wait", "val"} /\ h2[k + 1] = SyntaxStep(h2[k], input[k + 1])
      BY <3>3, <3>5
    <3>7. h2 \in [0 .. m -> Kinds]
      BY <3>2, <3>5
    <3>8. Course(h2, input, m)
      BY <3>4, <3>6, <3>7 DEF Course
    <3>9. QED
      BY <3>5, <3>8
  <2>6. Course(h2, input', t')
    BY <2>4, <2>5
  <2>7. QED
    BY <2>4, <2>6
<1>2. CASE Open \/ Close \/ Result \/ SyntaxError
  <2>1. Follows(h)' /\ t' = t /\ input' = input
    BY <1>2, SilentStepFollows
  <2>2. Course(h, input', t')
    BY <2>1
  <2>3. QED
    BY <2>1, <2>2
<1>3. QED
  BY <1>1, <1>2 DEF Evaluating

(* An evaluation of an input with a known course follows it.                *)
LEMMA CourseFollowed ==
  ASSUME BeeInv, Evaluating, NEW h, Course(h, input, Len(input)), Follows(h)
  PROVE  Follows(h)' /\ input' = input
<1>1. CASE Read
  <2>1. t < Len(input) /\ t \in 0 .. Len(input) /\ Len(input) \in Nat
    BY <1>1, ReadKeepsInv, LenProperties DEF BeeInv, TypeOK
  <2>2. t \in 0 .. Len(input) - 1
    BY <2>1
  <2>3. h[t + 1] = SyntaxStep(h[t], input[t + 1])
    BY <2>2 DEF Course
  <2>4. QED
    BY <1>1, <2>3, ReadFollows
<1>2. CASE Open \/ Close \/ Result \/ SyntaxError
  BY <1>2, SilentStepFollows
<1>3. QED
  BY <1>1, <1>2 DEF Evaluating

(* A course that ends in a result admits no error on the way.               *)
LEMMA NoErrorOnCourse ==
  ASSUME BeeInv, NEW h, Course(h, input, Len(input)), h[Len(input)] = Accepted0, Follows(h)
  PROVE  result # -1
<1>1. SUFFICES ASSUME result = -1 PROVE FALSE
  OBVIOUS
<1>2. ~Running /\ h[t] # Accepted0 /\ h[t].kind \in {"error", "result"}
  BY <1>1 DEF Follows, Running, NoResult
<1>3. t \in 0 .. Len(input) /\ Len(input) \in Nat /\ t # Len(input)
  BY <1>2, LenProperties DEF BeeInv, TypeOK
<1>4. t \in 0 .. Len(input) - 1
  BY <1>3
<1>5. QED
  BY <1>2, <1>4 DEF Course

(* An evaluation without an error leaves a course that ends in a result.    *)
LEMMA AcceptedCourse ==
  ASSUME BeeInv, ~Running, result # -1, NEW h, Course(h, input, t), Follows(h)
  PROVE  Course(h, input, Len(input)) /\ h[Len(input)] = Accepted0
<1>1. t = Len(input)
  BY DEF BeeInv, TypeOK, Running
<1>2. QED
  BY <1>1 DEF Follows

(* Inputs that differ in values only have the same courses.                 *)
SameSyntax(a, b, m) == \A k \in 1 .. m : a[k] = b[k] \/ (a[k] \in Val /\ b[k] \in Val)

LEMMA CourseShared ==
  ASSUME NEW a, NEW b, NEW m \in Nat, SameSyntax(a, b, m), NEW h, Course(h, a, m)
  PROVE  Course(h, b, m)
<1>1. ASSUME NEW k \in 0 .. m - 1
      PROVE  SyntaxStep(h[k], a[k + 1]) = SyntaxStep(h[k], b[k + 1])
  <2>1. k + 1 \in 1 .. m
    OBVIOUS
  <2>2. CASE a[k + 1] = b[k + 1]
    BY <2>2
  <2>3. CASE a[k + 1] \in Val /\ b[k + 1] \in Val
    <3>1. \A x, y, q : x \in Val /\ y \in Val => SyntaxStep(q, x) = SyntaxStep(q, y)
      BY DEF SyntaxStep, Val
    <3>2. QED
      BY <2>3, <3>1
  <2>4. QED
    BY <2>1, <2>2, <2>3 DEF SameSyntax
<1>2. QED
  BY <1>1 DEF Course

-----------------------------------------------------------------------------
Character == Range(Ascii)
Letter == {"x", "y"}
Frame == Seq(Token \ {"E"})

-----------------------------------------------------------------------------
LEMMA Characters ==
  /\ "1" \in Character
  /\ Blank \in Character
  /\ "=" \in Character
  /\ Blank # "=" /\ Blank \notin {"0", "1", "7"}
  /\ DOMAIN Digit = {"0", "1", "7"}
  /\ Alnums \subseteq Character /\ "=" \notin Alnums
  /\ NotEquals = Character \ {"="}
<1>1. /\ 1 \in DOMAIN Ascii /\ Ascii[1] = Blank
      /\ 7 \in DOMAIN Ascii /\ Ascii[7] = "1"
      /\ 9 \in DOMAIN Ascii /\ Ascii[9] = "="
  BY DEF Ascii
<1>2. DOMAIN Digit = {"0", "1", "7"}
  BY DEF Digit
<1>3. "1" \in Range(Ascii) /\ Blank \in Range(Ascii) /\ "=" \in Range(Ascii)
  <2>1. \A k \in DOMAIN Ascii : Ascii[k] \in Range(Ascii)
    BY DEF Range
  <2>2. QED
    BY <1>1, <2>1
<1>4. "=" \notin Alnums
  BY <1>2 DEF Alnums, IsAlnum, IsDigit
<1>5. Blank # "=" /\ Blank \notin {"0", "1", "7"}
  BY DEF Blank
<1>6. QED
  BY <1>2, <1>3, <1>4, <1>5 DEF Alnums, NotEquals, Character

(* EndOf stops at the first character outside C, or behind the text.        *)
LEMMA EndOfFacts ==
  ASSUME Len(text) \in Nat, NEW C, NEW p \in 1 .. Len(text) + 1
  PROVE  /\ EndOf(C, p) \in p .. Len(text) + 1
         /\ \A k \in p .. EndOf(C, p) - 1 : text[k] \in C
         /\ EndOf(C, p) <= Len(text) => text[EndOf(C, p)] \notin C
<1> DEFINE Stops == {e \in p .. Len(text) + 1 : e <= Len(text) => text[e] \notin C}
<1>1. PICK e \in Stops : \A k \in Stops : e <= k
  <2>1. Len(text) + 1 \in Stops /\ Stops \in SUBSET Nat
    OBVIOUS
  <2> HIDE DEF Stops
  <2>2. QED
    BY <2>1, LeastNatural
<1>2. \A k \in p .. e - 1 : text[k] \in C
  BY <1>1
<1>3. e \in p .. Len(text) + 1 /\ (e <= Len(text) => text[e] \notin C)
  BY <1>1
<1>4. QED
  BY <1>2, <1>3 DEF EndOf

(* The "=" signs among the first m of s.                                    *)
SignsIn(s, m) == {k \in 1 .. m : s[k] = "="}
Count(s, m) == Cardinality(SignsIn(s, m))

LEMMA SignsFinite ==
  ASSUME NEW s, NEW m \in Nat
  PROVE  IsFiniteSet(SignsIn(s, m)) /\ Count(s, m) \in Nat
<1>1. IsFiniteSet(1 .. m)
  BY FS_Interval
<1>2. SignsIn(s, m) \in SUBSET (1 .. m)
  BY DEF SignsIn
<1>3. IsFiniteSet(SignsIn(s, m))
  BY <1>1, <1>2, FS_Subset
<1>4. QED
  BY <1>3, FS_CardinalityType DEF Count

(* One sign more, or none. *)
LEMMA SignsUpTo ==
  ASSUME NEW s, NEW m \in Nat, NEW n \in Nat, m < n
  PROVE  /\ (\A k \in m + 1 .. n : s[k] # "=") => Count(s, n) = Count(s, m)
         /\ \A e \in m + 1 .. n :
              (\A k \in m + 1 .. n : s[k] = "=" <=> k = e) => Count(s, n) = Count(s, m) + 1
         /\ Count(s, m) <= Count(s, n)
<1>1. ASSUME \A k \in m + 1 .. n : s[k] # "="
      PROVE  Count(s, n) = Count(s, m)
  <2>1. SignsIn(s, n) = SignsIn(s, m)
    BY <1>1 DEF SignsIn
  <2>2. QED
    BY <2>1 DEF Count
<1>2. ASSUME NEW e \in m + 1 .. n, \A k \in m + 1 .. n : s[k] = "=" <=> k = e
      PROVE  Count(s, n) = Count(s, m) + 1
  <2>1. SignsIn(s, n) = SignsIn(s, m) \cup {e} /\ e \notin SignsIn(s, m)
    BY <1>2 DEF SignsIn
  <2>2. QED
    BY <2>1, SignsFinite, FS_AddElement DEF Count
<1>3. Count(s, m) <= Count(s, n)
  <2>1. SignsIn(s, m) \in SUBSET SignsIn(s, n)
    BY DEF SignsIn
  <2>2. QED
    BY <2>1, SignsFinite, FS_Subset DEF Count
<1>4. QED
  BY <1>1, <1>2, <1>3

LEMMA SignsAppended ==
  ASSUME NEW S, NEW s \in Seq(S), NEW x \in S
  PROVE  Count(Append(s, x), Len(s) + 1) = Count(s, Len(s)) + (IF x = "=" THEN 1 ELSE 0)
<1> DEFINE u == Append(s, x)
<1>1. Len(s) \in Nat /\ u[Len(s) + 1] = x /\ \A k \in 1 .. Len(s) : u[k] = s[k]
  BY AppendProperties, LenProperties
<1> HIDE DEF u
<1>2. Count(u, Len(s)) = Count(s, Len(s))
  <2>1. SignsIn(u, Len(s)) = SignsIn(s, Len(s))
    BY <1>1 DEF SignsIn
  <2>2. QED
    BY <2>1 DEF Count
<1>3. CASE x = "="
  <2>1. \A k \in Len(s) + 1 .. Len(s) + 1 : u[k] = "=" <=> k = Len(s) + 1
    BY <1>1, <1>3
  <2>2. Count(u, Len(s) + 1) = Count(u, Len(s)) + 1
    BY <1>1, <2>1, SignsUpTo
  <2>3. QED
    BY <1>2, <1>3, <2>2 DEF u
<1>4. CASE x # "="
  <2>1. \A k \in Len(s) + 1 .. Len(s) + 1 : u[k] # "="
    BY <1>1, <1>4
  <2>2. Count(u, Len(s) + 1) = Count(u, Len(s))
    BY <1>1, <2>1, SignsUpTo
  <2>3. Count(s, Len(s)) \in Nat
    BY <1>1, SignsFinite
  <2>4. QED
    BY <1>2, <1>4, <2>2, <2>3 DEF u
<1>5. QED
  BY <1>3, <1>4
-----------------------------------------------------------------------------
(***************************************************************************)
(* The inductive invariant.  The scan never writes more than it reads, it  *)
(* falls behind for good at the first blank or rva, and each "=" it has    *)
(* read is in the frame or has an entry of rva_epos.                       *)
(***************************************************************************)
ScanInv ==
  /\ text \in Seq(Character) /\ at \in 0 .. Len(text)
  /\ base \in Seq(Character) /\ epos \in Seq(Range(epos))
  /\ Len(base) <= at
  /\ Len(base) < at <=> epos # <<>> \/ \E k \in 1 .. at : text[k] = Blank
  /\ Len(epos) + Count(base, Len(base)) = Count(text, at)
  /\ mode = "fatal" => Count(base, Len(base)) > 0

(* Every place kept for an rva holds the 1 written for it.                  *)
Placed ==
  Len(base) <= LocptrMod =>
    \A k \in DOMAIN epos : /\ epos[k].pos \in 0 .. Len(base) - 1
                           /\ base[epos[k].pos + 1] = "1"

(* All frames have the syntax of the base frame.                            *)
FramesInv ==
  mode \in {"dry", "values", "eval", "done"} =>
    /\ base \in Frame
    /\ frames \in Seq(Frame) /\ Len(frames) # 0
    /\ \A d \in 1 .. Len(frames) :
         /\ Len(frames[d]) = Len(base)
         /\ Len(base) <= LocptrMod => SameSyntax(base, frames[d], Len(base))

Whole == Append(base, "E")

(* The dry run leaves a course; it ends in a result when rvas get values,   *)
(* and evaluations follow it.                                               *)
DryInv ==
  mode = "dry" => /\ input = Whole
                  /\ \E h : Course(h, input, t) /\ Follows(h)

CourseInv ==
  mode \in {"values", "eval", "done"} =>
    \E h : /\ Course(h, Whole, Len(base) + 1) /\ h[Len(base) + 1] = Accepted0
           /\ mode \in {"eval", "done"} /\ Len(base) <= LocptrMod =>
                Course(h, input, Len(input)) /\ h[Len(input)] = Accepted0 /\ Follows(h)

Inv == ScanInv /\ Placed /\ FramesInv /\ BeeInv /\ DryInv /\ CourseInv

LEMMA BeeInvKept ==
  ASSUME BeeInv, UNCHANGED beeVars
  PROVE  BeeInv'
BY DEF BeeInv, TypeOK, beeVars, Running

LEMMA InitInv == Init => Inv
<1> SUFFICES ASSUME Init PROVE Inv
  OBVIOUS
<1>1. text \in Seq(Character)
  BY TextsAssumption DEF Init, Character
<1>2. at = 0 /\ base = <<>> /\ epos = <<>> /\ mode = "scan" /\ Idle
  BY DEF Init
<1>3. Len(text) \in Nat /\ Len(base) = 0 /\ Len(epos) = 0
  BY <1>1, <1>2, LenProperties
<1>4. Count(base, 0) = 0 /\ Count(text, 0) = 0
  <2>1. SignsIn(base, 0) = {} /\ SignsIn(text, 0) = {}
    BY DEF SignsIn
  <2>2. QED
    BY <2>1, FS_EmptySet DEF Count
<1>5. ScanInv
  BY <1>1, <1>2, <1>3, <1>4, EmptySeq DEF ScanInv
<1>6. BeeInv
  <2>1. input = <<>> /\ Len(input) = 0 /\ state = "error" /\ stack = <<>> /\ t = 0 /\ prev = "error" /\ result = NoResult
    BY <1>2 DEF Idle
  <2>2. TypeOK
    BY <2>1, EmptySeq, StackMaxAssumption, StateKinds DEF TypeOK, NoResult, Running
  <2>3. QED
    BY <2>1, <2>2, EmptySeq DEF BeeInv, Results, NoResult
<1>7. Placed /\ FramesInv /\ DryInv /\ CourseInv
  BY <1>2, <1>3 DEF Placed, FramesInv, DryInv, CourseInv
<1>8. QED
  BY <1>5, <1>6, <1>7 DEF Inv

LEMMA ScanTypes ==
  ASSUME ScanInv
  PROVE  /\ Len(text) \in Nat /\ at \in Nat /\ Len(base) \in Nat /\ Len(epos) \in Nat
         /\ DOMAIN text = 1 .. Len(text) /\ DOMAIN base = 1 .. Len(base)
         /\ DOMAIN epos = 1 .. Len(epos)
         /\ Count(text, at) \in Nat /\ Count(base, Len(base)) \in Nat
         /\ Scanning => at + 1 \in 1 .. Len(text)
<1>1. Len(text) \in Nat /\ DOMAIN text = 1 .. Len(text)
  BY LenProperties DEF ScanInv
<1>2. Len(base) \in Nat /\ DOMAIN base = 1 .. Len(base)
  BY LenProperties DEF ScanInv
<1>3. Len(epos) \in Nat /\ DOMAIN epos = 1 .. Len(epos)
  BY LenProperties DEF ScanInv
<1>4. at \in Nat /\ (Scanning => at + 1 \in 1 .. Len(text))
  BY <1>1 DEF ScanInv, Scanning
<1>5. QED
  BY <1>1, <1>2, <1>3, <1>4, SignsFinite

(* A character copied.                                                      *)
LEMMA CopyKeepsInv ==
  ASSUME ScanInv, Placed, Scanning, c # Blank,
         base' = Append(base, c), at' = at + 1, text' = text, epos' = epos, mode' = "scan"
  PROVE  ScanInv' /\ Placed'
<1>1. /\ text \in Seq(Character) /\ at \in Nat /\ at + 1 \in 1 .. Len(text) /\ Len(text) \in Nat
      /\ base \in Seq(Character) /\ Len(base) \in Nat
  BY ScanTypes DEF ScanInv
<1>2. c = text[at + 1] /\ c \in Character
  BY <1>1, ElementOfSeq DEF c
<1> HIDE DEF c
<1>3. /\ base' \in Seq(Character) /\ Len(base') = Len(base) + 1
      /\ \A k \in 1 .. Len(base) : base'[k] = base[k]
  BY <1>1, <1>2, AppendProperties
<1>4. Count(base', Len(base')) = Count(base, Len(base)) + (IF c = "=" THEN 1 ELSE 0)
  BY <1>1, <1>2, <1>3, SignsAppended
<1>5. Count(text, at + 1) = Count(text, at) + (IF c = "=" THEN 1 ELSE 0)
  <2>1. CASE c = "="
    <3>1. at + 1 \in at + 1 .. at + 1 /\ at + 1 \in Nat /\ at < at + 1
      BY <1>1
    <3>2. ASSUME NEW k \in at + 1 .. at + 1
          PROVE  text[k] = "=" <=> k = at + 1
      <4>1. k = at + 1
        BY <1>1
      <4>2. QED
        BY <1>2, <2>1, <4>1
    <3>3. Count(text, at + 1) = Count(text, at) + 1
      BY <1>1, <3>1, <3>2, SignsUpTo
    <3>4. QED
      BY <2>1, <3>3
  <2>2. CASE c # "="
    <3>1. \A k \in at + 1 .. at + 1 : text[k] # "="
      BY <1>1, <1>2, <2>2
    <3>2. Count(text, at) \in Nat /\ Count(text, at + 1) = Count(text, at)
      BY <1>1, <3>1, SignsUpTo, SignsFinite
    <3>3. QED
      BY <2>2, <3>2
  <2>3. QED
    BY <2>1, <2>2
<1>6. Len(epos) \in Nat /\ Count(text, at) \in Nat /\ Count(base, Len(base)) \in Nat
  BY <1>1, SignsFinite, LenProperties DEF ScanInv
<1>7. Len(epos') + Count(base', Len(base')) = Count(text', at')
  BY <1>4, <1>5, <1>6 DEF ScanInv
<1>8. Len(base') < at' <=> epos' # <<>> \/ \E k \in 1 .. at' : text'[k] = Blank
  <2>1. Len(base') < at' <=> Len(base) < at
    BY <1>1, <1>3
  <2>2. (\E k \in 1 .. at + 1 : text[k] = Blank) <=> \E k \in 1 .. at : text[k] = Blank
    <3>1. text[at + 1] # Blank
      BY <1>2
    <3>2. \A k \in 1 .. at + 1 : k \in 1 .. at \/ k = at + 1
      BY <1>1
    <3>3. \A k \in 1 .. at : k \in 1 .. at + 1
      BY <1>1
    <3>4. QED
      BY <3>1, <3>2, <3>3
  <2>3. QED
    BY <2>1, <2>2 DEF ScanInv
<1>9. ScanInv'
  BY <1>1, <1>3, <1>7, <1>8 DEF ScanInv
<1>10. Placed'
  <2> SUFFICES ASSUME Len(base') <= LocptrMod, NEW k \in DOMAIN epos
               PROVE  epos[k].pos \in 0 .. Len(base') - 1 /\ base'[epos[k].pos + 1] = "1"
    BY DEF Placed
  <2>1. epos[k].pos \in 0 .. Len(base) - 1 /\ base[epos[k].pos + 1] = "1"
    BY <1>1, <1>3, WidthAssumption DEF Placed
  <2>2. epos[k].pos + 1 \in 1 .. Len(base)
    BY <1>1, <2>1
  <2>3. QED
    BY <1>1, <1>3, <2>1, <2>2
<1>11. QED
  BY <1>9, <1>10

(* A blank dropped.                                                         *)
LEMMA BlankKeepsInv ==
  ASSUME ScanInv, Placed, Scanning, c = Blank,
         base' = base, at' = at + 1, text' = text, epos' = epos, mode' = "scan"
  PROVE  ScanInv' /\ Placed'
<1>1. /\ text \in Seq(Character) /\ at \in Nat /\ at + 1 \in 1 .. Len(text) /\ Len(text) \in Nat
      /\ Len(base) \in Nat
  BY ScanTypes DEF ScanInv
<1>2. text[at + 1] # "="
  BY Characters DEF c
<1> HIDE DEF c
<1>3. Count(text, at + 1) = Count(text, at)
  <2>1. \A k \in at + 1 .. at + 1 : text[k] # "="
    BY <1>1, <1>2
  <2>2. QED
    BY <1>1, <2>1, SignsUpTo
<1>4. text[at + 1] = Blank /\ at + 1 \in 1 .. at + 1 /\ Len(base) < at + 1
  BY <1>1 DEF c, ScanInv
<1>5. Len(base') < at' <=> epos' # <<>> \/ \E k \in 1 .. at' : text'[k] = Blank
  BY <1>4
<1>6. ScanInv'
  BY <1>1, <1>3, <1>5 DEF ScanInv
<1>7. Placed'
  BY DEF Placed
<1>8. QED
  BY <1>6, <1>7

(* What an rva takes: at least three characters, one "=" among them.        *)
LEMMA RvaPlaces ==
  ASSUME ScanInv, TakeRva
  PROVE  /\ text[at + 1] \in Letter
         /\ NameEnd \in at + 2 .. EqualsAt
         /\ \A k \in at + 1 .. NameEnd - 1 : text[k] \in Alnums
         /\ EqualsAt \in at + 2 .. Len(text)
         /\ text[EqualsAt] = "="
         /\ ValueAt \in EqualsAt + 1 .. Len(text)
         /\ ValueEnd \in ValueAt + 1 .. Len(text) + 1
         /\ \A k \in ValueAt .. ValueEnd - 1 : text[k] \in DOMAIN Digit
         /\ \A k \in at + 1 .. ValueEnd - 1 : text[k] = "=" <=> k = EqualsAt
<1>1. /\ text \in Seq(Character) /\ at \in Nat /\ at + 1 \in 1 .. Len(text) /\ Len(text) \in Nat
  BY ScanTypes DEF ScanInv, TakeRva
<1>2. IsAlnum(c) /\ ~IsDigit(c) /\ HasValue
  BY DEF TakeRva
<1>3. text[at + 1] \in Letter /\ text[at + 1] \in Alnums
  <2>1. text[at + 1] \in Character
    BY <1>1, ElementOfSeq
  <2>2. QED
    BY <1>2, <2>1 DEF c, Alnums, Character, IsAlnum, Letter
<1>4. /\ NameEnd \in at + 1 .. Len(text) + 1
      /\ \A k \in at + 1 .. NameEnd - 1 : text[k] \in Alnums
      /\ NameEnd <= Len(text) => text[NameEnd] \notin Alnums
  BY <1>1, EndOfFacts DEF NameEnd
<1>5. NameEnd # at + 1
  BY <1>1, <1>3, <1>4
<1>6. /\ EqualsAt \in NameEnd .. Len(text) + 1
      /\ \A k \in NameEnd .. EqualsAt - 1 : text[k] \in NotEquals
      /\ EqualsAt <= Len(text) => text[EqualsAt] \notin NotEquals
  BY <1>1, <1>4, EndOfFacts DEF EqualsAt
<1>7. EqualsAt < Len(text) /\ ValueEnd > ValueAt
  BY <1>2 DEF HasValue
<1>8. text[EqualsAt] = "="
  <2>1. EqualsAt \in 1 .. Len(text)
    BY <1>1, <1>4, <1>6, <1>7
  <2>2. QED
    BY <1>1, <1>6, <2>1, ElementOfSeq, Characters
<1>9. /\ ValueAt \in EqualsAt + 1 .. Len(text) + 1
      /\ \A k \in EqualsAt + 1 .. ValueAt - 1 : text[k] \in {Blank}
  <2>1. EqualsAt + 1 \in 1 .. Len(text) + 1
    BY <1>1, <1>4, <1>6, <1>7
  <2>2. QED
    BY <1>1, <2>1, EndOfFacts DEF ValueAt
<1>10. /\ ValueEnd \in ValueAt .. Len(text) + 1
       /\ \A k \in ValueAt .. ValueEnd - 1 : text[k] \in DOMAIN Digit
  <2>1. ValueAt \in 1 .. Len(text) + 1
    BY <1>1, <1>4, <1>6, <1>7, <1>9
  <2>2. QED
    BY <1>1, <2>1, EndOfFacts DEF ValueEnd
<1> HIDE DEF NameEnd, EqualsAt, ValueAt, ValueEnd
<1>11. ASSUME NEW k \in at + 1 .. ValueEnd - 1
       PROVE  text[k] = "=" <=> k = EqualsAt
  <2>1. CASE k \in at + 1 .. NameEnd - 1
    BY <1>1, <1>4, <1>6, <2>1, Characters
  <2>2. CASE k \in NameEnd .. EqualsAt - 1
    BY <1>1, <1>6, <2>2, Characters
  <2>3. CASE k = EqualsAt
    BY <1>8, <2>3
  <2>4. CASE k \in EqualsAt + 1 .. ValueAt - 1
    BY <1>6, <1>9, <2>4, Characters
  <2>5. CASE k \in ValueAt .. ValueEnd - 1
    BY <1>6, <1>9, <1>10, <2>5, Characters
  <2>6. QED
    BY <1>1, <1>4, <1>6, <1>9, <1>10, <2>1, <2>2, <2>3, <2>4, <2>5
<1>12. /\ NameEnd \in at + 2 .. EqualsAt /\ EqualsAt \in at + 2 .. Len(text)
       /\ ValueAt \in EqualsAt + 1 .. Len(text) /\ ValueEnd \in ValueAt + 1 .. Len(text) + 1
  BY <1>1, <1>4, <1>5, <1>6, <1>7, <1>9, <1>10
<1>13. QED
  BY <1>3, <1>4, <1>8, <1>10, <1>11, <1>12

LEMMA RvaSpan ==
  ASSUME ScanInv, TakeRva
  PROVE  /\ ValueEnd - 1 \in at + 2 .. Len(text)
         /\ Count(text, ValueEnd - 1) = Count(text, at) + 1
<1>1. PICK e, v, m : e = EqualsAt /\ v = ValueAt /\ m = ValueEnd - 1
  OBVIOUS
<1>2. /\ e \in at + 2 .. Len(text) /\ v \in e + 1 .. Len(text)
      /\ ValueEnd \in v + 1 .. Len(text) + 1
      /\ \A k \in at + 1 .. m : text[k] = "=" <=> k = e
      /\ at \in Nat /\ Len(text) \in Nat
  BY <1>1, RvaPlaces, ScanTypes
<1>3. m \in at + 2 .. Len(text) /\ m \in Nat /\ at < m /\ e \in at + 1 .. m
  BY <1>1, <1>2
<1>4. Count(text, m) = Count(text, at) + 1
  BY <1>2, <1>3, SignsUpTo
<1>5. QED
  BY <1>1, <1>3, <1>4

LEMMA TakeRvaKeepsInv ==
  ASSUME ScanInv, Placed, TakeRva
  PROVE  ScanInv' /\ Placed'
<1>1. /\ text \in Seq(Character) /\ at \in Nat /\ Len(text) \in Nat
      /\ base \in Seq(Character) /\ Len(base) \in Nat /\ Len(base) <= at
      /\ epos \in Seq(Range(epos)) /\ Len(epos) \in Nat
      /\ text' = text /\ mode' = mode /\ mode = "scan"
  BY ScanTypes DEF ScanInv, TakeRva, Scanning
<1>2. /\ at' \in at + 2 .. Len(text)
      /\ Count(text, at') = Count(text, at) + 1
  BY RvaSpan DEF TakeRva
<1>3. PICK e : e.pos = Len(base) % LocptrMod /\ epos' = Append(epos, e)
  <2> DEFINE e == [pos  |-> Len(base) % LocptrMod,
                   next |-> IF Search(ThisRva).found THEN order[Search(ThisRva).at].loc ELSE LocEmpty]
  <2>1. epos' = Append(epos, e) /\ e.pos = Len(base) % LocptrMod
    BY DEF TakeRva, Added
  <2> HIDE DEF e
  <2>2. QED
    BY <2>1
<1>4. base' = Append(base, "1")
  BY DEF TakeRva, Added
<1>5. /\ base' \in Seq(Character) /\ Len(base') = Len(base) + 1
      /\ \A k \in 1 .. Len(base) : base'[k] = base[k]
      /\ base'[Len(base) + 1] = "1"
  BY <1>1, <1>4, AppendProperties, Characters
<1>6. /\ epos' \in Seq(Range(epos')) /\ Len(epos') = Len(epos) + 1
      /\ \A k \in 1 .. Len(epos) : epos'[k] = epos[k]
      /\ epos'[Len(epos) + 1] = e
      /\ DOMAIN epos' = 1 .. Len(epos) + 1 /\ DOMAIN epos = 1 .. Len(epos)
  <2> DEFINE S == Range(epos) \cup {e}
  <2>1. epos \in Seq(S) /\ e \in S
    BY <1>1, SeqMonotonic
  <2> HIDE DEF S
  <2>2. epos' \in Seq(S)
    BY <1>3, <2>1, AppendProperties
  <2>3. /\ Len(epos') = Len(epos) + 1
        /\ \A k \in 1 .. Len(epos) : epos'[k] = epos[k]
        /\ epos'[Len(epos) + 1] = e
    BY <1>3, <2>1, AppendProperties
  <2>4. epos' \in Seq(Range(epos'))
    BY <2>2, SeqOfRange
  <2>5. QED
    BY <2>1, <2>2, <2>3, <2>4, LenProperties
<1>7. Count(base', Len(base')) = Count(base, Len(base))
  <2>1. Count(base', Len(base) + 1) = Count(base, Len(base)) + (IF "1" = "=" THEN 1 ELSE 0)
    BY <1>1, <1>4, Characters, SignsAppended
  <2>2. Count(base, Len(base)) \in Nat
    BY <1>1, SignsFinite
  <2>3. QED
    BY <1>5, <2>1, <2>2
<1>8. Count(text, at) \in Nat /\ Count(base, Len(base)) \in Nat
  BY <1>1, SignsFinite
<1>9. Len(epos') + Count(base', Len(base')) = Count(text', at')
  BY <1>1, <1>2, <1>6, <1>7, <1>8 DEF ScanInv
<1>10. ScanInv'
  BY <1>1, <1>2, <1>5, <1>6, <1>9 DEF ScanInv
<1>11. Placed'
  <2> SUFFICES ASSUME Len(base') <= LocptrMod, NEW k \in DOMAIN epos'
               PROVE  epos'[k].pos \in 0 .. Len(base') - 1 /\ base'[epos'[k].pos + 1] = "1"
    BY DEF Placed
  <2>1. CASE k = Len(epos) + 1
    <3>1. LocptrMod \in Nat \ {0} /\ Len(base) < LocptrMod
      BY <1>1, <1>5, WidthAssumption
    <3>2. \A a, m \in Nat : a < m => a % m = a
      OBVIOUS
    <3>3. Len(base) % LocptrMod = Len(base)
      BY <1>1, <3>1, <3>2
    <3>4. QED
      BY <1>1, <1>3, <1>5, <1>6, <2>1, <3>3
  <2>2. CASE k \in 1 .. Len(epos)
    <3>1. epos[k].pos \in 0 .. Len(base) - 1 /\ base[epos[k].pos + 1] = "1"
      BY <1>1, <1>5, <1>6, <2>2, WidthAssumption DEF Placed
    <3>2. epos'[k] = epos[k]
      BY <1>6, <2>2
    <3>3. epos[k].pos + 1 \in 1 .. Len(base)
      BY <1>1, <3>1
    <3>4. base'[epos[k].pos + 1] = "1"
      BY <1>5, <3>1, <3>3
    <3>5. epos[k].pos \in 0 .. Len(base') - 1
      BY <1>1, <1>5, <3>1
    <3>6. QED
      BY <3>2, <3>4, <3>5
  <2>3. QED
    BY <1>1, <1>6, <2>1, <2>2
<1>12. QED
  BY <1>10, <1>11

-----------------------------------------------------------------------------
(* The scan ends without a word, or in the process being ended.             *)
LEMMA ScanningKeepsInv ==
  ASSUME Inv, ScanInv', Placed', mode' = "scan", UNCHANGED beeVars
  PROVE  Inv'
BY BeeInvKept DEF Inv, FramesInv, DryInv, CourseInv

LEMMA FailureKeepsInv ==
  ASSUME Inv, Fail("failed")
  PROVE  Inv'
<1>1. /\ mode' = "failed" /\ text' = text /\ at' = at /\ base' = base /\ order' = order
      /\ epos' = epos /\ frames' = frames /\ UNCHANGED beeVars
  BY DEF Fail
<1>2. ScanInv' /\ Placed'
  BY <1>1 DEF Inv, ScanInv, Placed
<1>3. QED
  BY <1>1, <1>2, BeeInvKept DEF Inv, FramesInv, DryInv, CourseInv

LEMMA MismatchKeepsInv ==
  ASSUME Inv, CountMismatch
  PROVE  Inv'
<1>1. /\ mode' = "fatal" /\ text' = text /\ at' = at /\ base' = base /\ order' = order
      /\ epos' = epos /\ frames' = frames /\ UNCHANGED beeVars
      /\ at = Len(text) /\ Len(epos) # CountRva
  BY DEF CountMismatch, Fail, Scanned
<1>2. ScanInv
  BY DEF Inv
<1>3. CountRva = Count(text, Len(text))
  BY <1>2, ScanTypes DEF CountRva, Count, SignsIn
<1>4. Count(base, Len(base)) > 0
  <2>1. Len(epos) + Count(base, Len(base)) = Count(text, at)
    BY <1>2 DEF ScanInv
  <2>2. Len(epos) \in Nat /\ Count(base, Len(base)) \in Nat /\ Count(text, at) \in Nat
    BY <1>2, ScanTypes
  <2>3. Len(epos) # Count(text, at)
    BY <1>1, <1>3
  <2>4. QED
    BY <2>1, <2>2, <2>3
<1>5. ScanInv' /\ Placed'
  BY <1>1, <1>4 DEF Inv, ScanInv, Placed
<1>6. QED
  BY <1>1, <1>5, BeeInvKept DEF Inv, FramesInv, DryInv, CourseInv

(* The dry run starts on the base frame, whose tokens are all good.         *)
LEMMA DryRunKeepsInv ==
  ASSUME Inv, DryRun
  PROVE  Inv'
<1>1. /\ mode' = "dry" /\ frames' = <<base>> /\ StartOn(base)
      /\ text' = text /\ at' = at /\ base' = base /\ epos' = epos
      /\ Range(base) \subseteq Token \ {"E"}
  BY DEF DryRun
<1>2. base \in Seq(Character)
  BY DEF Inv, ScanInv
<1>3. base \in Frame /\ Len(base) \in Nat
  <2>1. base \in Seq(Range(base))
    BY <1>2, SeqOfRange
  <2>2. QED
    BY <1>1, <2>1, SeqMonotonic, LenProperties DEF Frame
<1>4. PICK b : b = base
  OBVIOUS
<1>5. b \in Seq(Token \ {"E"}) /\ StartOn(b)
  BY <1>1, <1>3, <1>4 DEF Frame
<1>6. BeeInv' /\ \E h : Course(h, input', t') /\ Follows(h)'
  BY <1>5, StartKeepsInv, CourseStarts
<1>7. input' = Whole'
  BY <1>1 DEF StartOn, Whole
<1>8. ScanInv' /\ Placed'
  BY <1>1 DEF Inv, ScanInv, Placed
<1>9. FramesInv'
  <2>1. frames' \in Seq(Frame) /\ Len(frames') = 1 /\ frames'[1] = base
    BY <1>1, <1>3
  <2>2. SameSyntax(base, base, Len(base))
    BY DEF SameSyntax
  <2>3. ASSUME NEW d \in 1 .. Len(frames')
        PROVE  frames'[d] = base
    BY <2>1
  <2>4. base' \in Frame /\ Len(frames') # 0
    BY <1>1, <1>3, <2>1
  <2>5. QED
    BY <1>1, <2>1, <2>2, <2>3, <2>4 DEF FramesInv
<1>10. DryInv'
  BY <1>6, <1>7 DEF DryInv
<1>11. CourseInv'
  BY <1>1 DEF CourseInv
<1>12. QED
  BY <1>6, <1>8, <1>9, <1>10, <1>11 DEF Inv

LEMMA EvaluationKeepsInv ==
  ASSUME Inv, Evaluation
  PROVE  Inv'
<1>1. /\ mode \in {"dry", "eval"} /\ mode' = mode /\ text' = text /\ at' = at /\ base' = base
      /\ epos' = epos /\ frames' = frames /\ Evaluating
  BY DEF Evaluation, scanVars
<1>2. BeeInv /\ BeeInv'
  BY <1>1, EvaluatingKeepsInv DEF Inv
<1>3. ScanInv' /\ Placed' /\ FramesInv' /\ Whole' = Whole
  BY <1>1 DEF Inv, ScanInv, Placed, FramesInv, Whole
<1>4. DryInv'
  <2>1. CASE mode = "dry"
    <3>1. PICK h : Course(h, input, t) /\ Follows(h)
      BY <2>1 DEF Inv, DryInv
    <3>2. \E h2 : Course(h2, input', t') /\ Follows(h2)'
      BY <1>1, <1>2, <3>1, CourseExtends
    <3>3. input' = input
      BY <1>1 DEF Evaluating, Read, Open, Close, Result, SyntaxError
    <3>4. input = Whole
      BY <2>1 DEF Inv, DryInv
    <3>5. QED
      BY <1>3, <3>2, <3>3, <3>4 DEF DryInv
  <2>2. CASE mode = "eval"
    BY <1>1, <2>2 DEF DryInv
  <2>3. QED
    BY <1>1, <2>1, <2>2
<1>5. CourseInv'
  <2>1. CASE mode = "dry"
    BY <1>1, <2>1 DEF CourseInv
  <2>2. CASE mode = "eval"
    <3>1. PICK h :
            /\ Course(h, Whole, Len(base) + 1) /\ h[Len(base) + 1] = Accepted0
            /\ Len(base) <= LocptrMod =>
                 Course(h, input, Len(input)) /\ h[Len(input)] = Accepted0 /\ Follows(h)
      BY <2>2 DEF Inv, CourseInv
    <3>2. ASSUME Len(base) <= LocptrMod
          PROVE  Course(h, input', Len(input')) /\ h[Len(input')] = Accepted0 /\ Follows(h)'
      <4>1. Follows(h)' /\ input' = input
        BY <1>1, <1>2, <3>1, <3>2, CourseFollowed
      <4>2. QED
        BY <3>1, <3>2, <4>1
    <3>3. Course(h, Whole', Len(base') + 1) /\ h[Len(base') + 1] = Accepted0
      BY <1>1, <1>3, <3>1
    <3>4. QED
      BY <1>1, <3>2, <3>3 DEF CourseInv
  <2>3. QED
    BY <1>1, <2>1, <2>2
<1>6. QED
  BY <1>2, <1>3, <1>4, <1>5 DEF Inv

(* An accepted dry run leaves its course.                                   *)
LEMMA JudgeKeepsInv ==
  ASSUME Inv, Judge
  PROVE  Inv'
<1>1. CASE result = -1
  BY <1>1, FailureKeepsInv DEF Judge
<1>2. CASE result # -1
  <2>1. /\ mode = "dry" /\ mode' = "values" /\ text' = text /\ at' = at /\ base' = base
        /\ epos' = epos /\ frames' = frames /\ UNCHANGED beeVars /\ ~Running
    BY <1>2 DEF Judge, Fail
  <2>2. BeeInv /\ BeeInv'
    BY <2>1, BeeInvKept DEF Inv
  <2>3. ScanInv' /\ Placed' /\ FramesInv' /\ DryInv' /\ Whole' = Whole
    BY <2>1 DEF Inv, ScanInv, Placed, FramesInv, DryInv, Whole
  <2>4. input = Whole /\ \E h : Course(h, input, t) /\ Follows(h)
    BY <2>1 DEF Inv, DryInv
  <2>5. PICK h : Course(h, input, Len(input)) /\ h[Len(input)] = Accepted0
    BY <1>2, <2>1, <2>2, <2>4, AcceptedCourse
  <2>6. Len(input) = Len(base) + 1
    <3>1. base \in Seq(Token \ {"E"})
      BY <2>1 DEF Inv, FramesInv, Frame
    <3>2. base \in Seq(Token) /\ "E" \in Token
      BY <3>1, SeqMonotonic DEF Token
    <3>3. QED
      BY <2>4, <3>2, AppendProperties DEF Whole
  <2>7. Course(h, Whole', Len(base') + 1) /\ h[Len(base') + 1] = Accepted0
    BY <2>1, <2>3, <2>4, <2>5, <2>6
  <2>8. CourseInv'
    BY <2>1, <2>7 DEF CourseInv
  <2>9. QED
    BY <2>2, <2>3, <2>8 DEF Inv
<1>3. QED
  BY <1>1, <1>2

(* A chain leads to entries of rva_epos only. *)
LEMMA ChainPlaces ==
  \A loc : \A p \in Chain(loc) : \E k \in DOMAIN epos : p = epos[k].pos
BY DEF Chain

(* The next frame differs from the base frame in values only.               *)
LEMMA SetValueKeepsInv ==
  ASSUME Inv, NEW v \in Val, SetValue(v)
  PROVE  Inv'
<1>1. /\ mode = "values" /\ mode' = mode /\ text' = text /\ at' = at /\ base' = base
      /\ epos' = epos /\ UNCHANGED beeVars
  BY DEF SetValue
<1>2. PICK places, f :
        /\ \A p \in places : \E k \in DOMAIN epos : p = epos[k].pos
        /\ f = [k \in DOMAIN base |-> IF k - 1 \in places THEN v ELSE frames[Len(frames)][k]]
        /\ frames' = Append(frames, f)
  <2>1. PICK places : places = Chain(order[Len(frames)].loc)
    OBVIOUS
  <2>2. frames' = Append(frames, [k \in DOMAIN base |-> IF k - 1 \in places THEN v ELSE frames[Len(frames)][k]])
    BY <2>1 DEF SetValue, Last
  <2>3. \A p \in places : \E k \in DOMAIN epos : p = epos[k].pos
    BY <2>1, ChainPlaces
  <2>4. QED
    BY <2>2, <2>3
<1>3. /\ base \in Seq(Token \ {"E"}) /\ frames \in Seq(Frame) /\ Len(frames) # 0
      /\ \A d \in 1 .. Len(frames) :
           /\ Len(frames[d]) = Len(base)
           /\ Len(base) <= LocptrMod => SameSyntax(base, frames[d], Len(base))
  BY <1>1 DEF Inv, FramesInv, Frame
<1>4. PICK last : last = frames[Len(frames)]
  OBVIOUS
<1>5. /\ last \in Seq(Token \ {"E"}) /\ Len(last) = Len(base) /\ Len(base) \in Nat
      /\ DOMAIN base = 1 .. Len(base)
      /\ Len(base) <= LocptrMod => SameSyntax(base, last, Len(base))
  <2>1. Len(frames) \in Nat /\ Len(frames) \in 1 .. Len(frames)
    BY <1>3, LenProperties
  <2>2. last \in Frame
    BY <1>3, <1>4, <2>1, ElementOfSeq
  <2>3. QED
    BY <1>3, <1>4, <2>1, <2>2, LenProperties DEF Frame
<1>6. /\ f \in Seq(Token \ {"E"}) /\ Len(f) = Len(base)
      /\ \A k \in 1 .. Len(base) : f[k] = IF k - 1 \in places THEN v ELSE last[k]
  <2>1. f = [k \in 1 .. Len(base) |-> IF k - 1 \in places THEN v ELSE last[k]]
    BY <1>2, <1>4, <1>5
  <2>2. \A k \in 1 .. Len(base) : last[k] \in Token \ {"E"}
    BY <1>5, ElementOfSeq
  <2>3. v \in Token \ {"E"}
    BY DEF Val, Token
  <2>4. f \in [1 .. Len(base) -> Token \ {"E"}]
    BY <2>1, <2>2, <2>3
  <2>5. f \in Seq(Token \ {"E"}) /\ Len(f) = Len(base)
    BY <1>5, <2>4
  <2>6. QED
    BY <2>1, <2>5
<1>7. ASSUME Len(base) <= LocptrMod
      PROVE  SameSyntax(base, f, Len(base))
  <2>1. ASSUME NEW k \in 1 .. Len(base)
        PROVE  base[k] = f[k] \/ (base[k] \in Val /\ f[k] \in Val)
    <3>1. CASE k - 1 \in places
      <4>1. PICK j \in DOMAIN epos : k - 1 = epos[j].pos
        BY <1>2, <3>1
      <4>2. base[epos[j].pos + 1] = "1"
        BY <1>7 DEF Inv, Placed
      <4>3. base[k] = "1" /\ f[k] = v
        BY <1>5, <1>6, <3>1, <4>1, <4>2
      <4>4. QED
        BY <4>3 DEF Val
    <3>2. CASE k - 1 \notin places
      BY <1>5, <1>6, <1>7, <3>2 DEF SameSyntax
    <3>3. QED
      BY <3>1, <3>2
  <2>2. QED
    BY <2>1 DEF SameSyntax
<1>8. FramesInv'
  <2>1. f \in Frame
    BY <1>6 DEF Frame
  <2>2. /\ frames' \in Seq(Frame) /\ Len(frames') = Len(frames) + 1 /\ Len(frames) \in Nat
        /\ \A d \in 1 .. Len(frames) : frames'[d] = frames[d]
        /\ frames'[Len(frames) + 1] = f
    BY <1>2, <1>3, <2>1, AppendProperties, LenProperties
  <2>3. ASSUME NEW d \in 1 .. Len(frames')
        PROVE  /\ Len(frames'[d]) = Len(base)
               /\ Len(base) <= LocptrMod => SameSyntax(base, frames'[d], Len(base))
    <3>1. CASE d = Len(frames) + 1
      BY <1>6, <1>7, <2>2, <3>1
    <3>2. CASE d \in 1 .. Len(frames)
      BY <1>3, <2>2, <3>2
    <3>3. QED
      BY <2>2, <3>1, <3>2
  <2>4. base' \in Frame /\ Len(frames') # 0
    BY <1>1, <1>3, <2>2 DEF Frame
  <2>5. QED
    BY <1>1, <2>2, <2>3, <2>4 DEF FramesInv
<1>9. ScanInv' /\ Placed' /\ DryInv' /\ Whole' = Whole
  BY <1>1 DEF Inv, ScanInv, Placed, DryInv, Whole
<1>10. CourseInv'
  <2>1. \E h : Course(h, Whole, Len(base) + 1) /\ h[Len(base) + 1] = Accepted0
    BY <1>1 DEF Inv, CourseInv
  <2>2. QED
    BY <1>1, <1>9, <2>1 DEF CourseInv
<1>11. QED
  BY <1>1, <1>8, <1>9, <1>10, BeeInvKept DEF Inv

(* BEE starts on the last frame, at the beginning of the known course.      *)
LEMMA EvalTopKeepsInv ==
  ASSUME Inv, EvalTop
  PROVE  Inv'
<1>1. /\ mode = "values" /\ mode' = "eval" /\ text' = text /\ at' = at /\ base' = base
      /\ epos' = epos /\ frames' = frames
  BY DEF EvalTop
<1>2. PICK f : f = frames[Len(frames)]
  OBVIOUS
<1>3. StartOn(f)
  BY <1>2 DEF EvalTop, Last
<1>4. /\ base \in Seq(Token \ {"E"}) /\ frames \in Seq(Frame) /\ Len(frames) # 0
      /\ \A d \in 1 .. Len(frames) :
           /\ Len(frames[d]) = Len(base)
           /\ Len(base) <= LocptrMod => SameSyntax(base, frames[d], Len(base))
  BY <1>1 DEF Inv, FramesInv, Frame
<1>5. /\ f \in Seq(Token \ {"E"}) /\ Len(f) = Len(base) /\ Len(base) \in Nat
      /\ Len(base) <= LocptrMod => SameSyntax(base, f, Len(base))
  <2>1. Len(frames) \in Nat /\ Len(frames) \in 1 .. Len(frames)
    BY <1>4, LenProperties
  <2>2. f \in Frame
    BY <1>2, <1>4, <2>1, ElementOfSeq
  <2>3. QED
    BY <1>2, <1>4, <2>1, <2>2, LenProperties DEF Frame
<1>6. /\ BeeInv' /\ Len(input') = Len(base) + 1
      /\ \A k \in 1 .. Len(base) : input'[k] = f[k]
  BY <1>3, <1>5, StartKeepsInv
<1>7. /\ \A k \in 1 .. Len(base) : Whole[k] = base[k]
      /\ Whole[Len(base) + 1] = "E"
  <2>1. base \in Seq(Token) /\ "E" \in Token
    BY <1>4, SeqMonotonic DEF Token
  <2>2. QED
    BY <2>1, AppendProperties DEF Whole
<1>8. input'[Len(base) + 1] = "E"
  <2>1. Len(input') \in 1 .. Len(input')
    BY <1>5, <1>6
  <2>2. QED
    BY <1>6, <2>1 DEF BeeInv
<1>9. PICK h : Course(h, Whole, Len(base) + 1) /\ h[Len(base) + 1] = Accepted0
  BY <1>1 DEF Inv, CourseInv
<1>10. ASSUME Len(base) <= LocptrMod
       PROVE  Course(h, input', Len(input')) /\ h[Len(input')] = Accepted0 /\ Follows(h)'
  <2>1. SameSyntax(Whole, input', Len(base) + 1)
    <3>1. ASSUME NEW k \in 1 .. Len(base) + 1
          PROVE  Whole[k] = input'[k] \/ (Whole[k] \in Val /\ input'[k] \in Val)
      <4>1. CASE k \in 1 .. Len(base)
        BY <1>5, <1>6, <1>7, <1>10, <4>1 DEF SameSyntax
      <4>2. CASE k = Len(base) + 1
        BY <1>7, <1>8, <4>2
      <4>3. QED
        BY <1>5, <4>1, <4>2
    <3>2. QED
      BY <3>1 DEF SameSyntax
  <2>2. Course(h, input', Len(base) + 1)
    <3>1. Len(base) + 1 \in Nat
      BY <1>5
    <3>2. PICK a, b, m : a = Whole /\ b = input' /\ m = Len(base) + 1
      OBVIOUS
    <3>3. Course(h, b, m)
      BY <1>9, <2>1, <3>1, <3>2, CourseShared
    <3>4. QED
      BY <3>2, <3>3
  <2>3. Follows(h)'
    <3>1. t' = 0 /\ state' = "valstart" /\ stack' = <<>> /\ result' = NoResult
      BY <1>3 DEF StartOn
    <3>2. h[0] = At("wait", 0)
      BY <1>9 DEF Course
    <3>3. Reached("valstart", 0) = At("wait", 0)
      BY ReachedIs DEF Waiting
    <3>4. Len(stack') = 0
      BY <3>1
    <3>5. QED
      BY <3>1, <3>2, <3>3, <3>4 DEF Follows, Running
  <2>4. QED
    BY <1>6, <1>9, <2>2, <2>3
<1>11. ScanInv' /\ Placed' /\ FramesInv' /\ DryInv' /\ Whole' = Whole
  BY <1>1 DEF Inv, ScanInv, Placed, FramesInv, DryInv, Whole
<1>12. Course(h, Whole', Len(base') + 1) /\ h[Len(base') + 1] = Accepted0
  BY <1>1, <1>9, <1>11
<1>13. CourseInv'
  BY <1>1, <1>10, <1>12 DEF CourseInv
<1>14. QED
  BY <1>6, <1>11, <1>13 DEF Inv

LEMMA EvaluatedKeepsInv ==
  ASSUME Inv, Evaluated
  PROVE  Inv'
<1>1. /\ mode = "eval" /\ mode' = "done" /\ text' = text /\ at' = at /\ base' = base
      /\ epos' = epos /\ frames' = frames /\ UNCHANGED beeVars
  BY DEF Evaluated, Fail
<1>2. ScanInv' /\ Placed' /\ FramesInv' /\ DryInv' /\ Whole' = Whole
  BY <1>1 DEF Inv, ScanInv, Placed, FramesInv, DryInv, Whole
<1>3. CourseInv'
  <2>1. /\ input' = input /\ t' = t /\ state' = state /\ stack' = stack /\ result' = result
    BY <1>1 DEF beeVars
  <2>2. PICK h :
          /\ Course(h, Whole, Len(base) + 1) /\ h[Len(base) + 1] = Accepted0
          /\ Len(base) <= LocptrMod =>
               Course(h, input, Len(input)) /\ h[Len(input)] = Accepted0 /\ Follows(h)
    BY <1>1 DEF Inv, CourseInv
  <2>3. Follows(h) => Follows(h)'
    BY <2>1 DEF Follows, Running
  <2>4. Course(h, Whole', Len(base') + 1) /\ h[Len(base') + 1] = Accepted0
    BY <1>1, <1>2, <2>2
  <2>5. QED
    BY <1>1, <2>1, <2>2, <2>3, <2>4 DEF CourseInv
<1>4. QED
  BY <1>1, <1>2, <1>3, BeeInvKept DEF Inv

-----------------------------------------------------------------------------
LEMMA NextKeepsInv ==
  ASSUME Inv, [Next]_vars
  PROVE  Inv'
<1>1. CASE Symbol
  <2>1. /\ Scanning /\ mode' = mode /\ mode = "scan" /\ text' = text /\ epos' = epos
        /\ at' = at + 1 /\ UNCHANGED beeVars
        /\ base' = IF c = Blank THEN base ELSE Append(base, c)
    BY <1>1 DEF Symbol, Scanning
  <2>2. ScanInv' /\ Placed'
    <3>1. CASE c = Blank
      BY <2>1, <3>1, BlankKeepsInv DEF Inv
    <3>2. CASE c # Blank
      BY <2>1, <3>2, CopyKeepsInv DEF Inv
    <3>3. QED
      BY <3>1, <3>2
  <2>3. QED
    BY <2>1, <2>2, ScanningKeepsInv
<1>2. CASE Constant
  <2>1. /\ Scanning /\ mode' = mode /\ mode = "scan" /\ text' = text /\ epos' = epos
        /\ at' = at + 1 /\ UNCHANGED beeVars
        /\ base' = Append(base, c) /\ c \in {"0", "1"}
    BY <1>2 DEF Constant, Scanning, IsConstant
  <2>2. c # Blank
    BY <2>1, Characters
  <2>3. ScanInv' /\ Placed'
    BY <2>1, <2>2, CopyKeepsInv DEF Inv
  <2>4. QED
    BY <2>1, <2>3, ScanningKeepsInv
<1>3. CASE TakeRva
  <2>1. mode' = "scan" /\ UNCHANGED beeVars
    BY <1>3 DEF TakeRva, Scanning
  <2>2. ScanInv' /\ Placed'
    BY <1>3, TakeRvaKeepsInv DEF Inv
  <2>3. QED
    BY <2>1, <2>2, ScanningKeepsInv
<1>4. CASE ScanError \/ BadToken
  BY <1>4, FailureKeepsInv DEF ScanError, BadToken
<1>5. CASE CountMismatch
  BY <1>5, MismatchKeepsInv
<1>6. CASE DryRun
  BY <1>6, DryRunKeepsInv
<1>7. CASE Evaluation
  BY <1>7, EvaluationKeepsInv
<1>8. CASE Judge
  BY <1>8, JudgeKeepsInv
<1>9. CASE \E v \in Val : SetValue(v)
  BY <1>9, SetValueKeepsInv
<1>10. CASE EvalTop
  BY <1>10, EvalTopKeepsInv
<1>11. CASE Evaluated
  BY <1>11, EvaluatedKeepsInv
<1>12. CASE UNCHANGED vars
  <2>1. /\ mode' = mode /\ text' = text /\ at' = at /\ base' = base
        /\ epos' = epos /\ frames' = frames /\ UNCHANGED beeVars
    BY <1>12 DEF vars, scanVars
  <2>2. input' = input /\ t' = t /\ state' = state /\ stack' = stack /\ result' = result
    BY <2>1 DEF beeVars
  <2>3. ScanInv' /\ Placed' /\ FramesInv' /\ Whole' = Whole
    BY <2>1 DEF Inv, ScanInv, Placed, FramesInv, Whole
  <2>4. \A h : Follows(h) => Follows(h)'
    BY <2>2 DEF Follows, Running
  <2>5. DryInv'
    BY <2>1, <2>2, <2>3, <2>4 DEF Inv, DryInv
  <2>6. CourseInv'
    BY <2>1, <2>2, <2>3, <2>4 DEF Inv, CourseInv
  <2>7. QED
    BY <2>1, <2>3, <2>5, <2>6, BeeInvKept DEF Inv
<1>13. QED
  BY <1>1, <1>2, <1>3, <1>4, <1>5, <1>6, <1>7, <1>8, <1>9, <1>10, <1>11, <1>12 DEF Next

LEMMA InvHolds == Spec => []Inv
BY InitInv, NextKeepsInv, PTL DEF Spec

(* BEE keeps its bounds: only states that wait for a value are pushed, at   *)
(* most BEE_STACKMAX of them, and nothing behind bee_eof is read, for every *)
(* text (bee_eval_fsm).                                                     *)
THEOREM EvaluatorStaysInBounds == Spec => []TypeOK
<1>1. Inv => TypeOK
  BY DEF Inv, BeeInv
<1>2. QED
  BY <1>1, InvHolds, PTL

(* For every text, the scan itself stays inside the memory taken before it, *)
(* the terminator does exactly if the text has an rva or a blank, and the   *)
(* process is only ended over a misplaced "=" (compute_rva_order).          *)
THEOREM TerminatorDecided == Spec => []WritesBounded
<1>1. ASSUME Inv PROVE WritesBounded
  <2>1. ScanInv
    BY <1>1 DEF Inv
  <2>2. /\ Len(text) \in Nat /\ at \in Nat /\ Len(base) \in Nat /\ Len(epos) \in Nat
        /\ DOMAIN text = 1 .. Len(text) /\ DOMAIN base = 1 .. Len(base)
        /\ Count(text, at) \in Nat /\ Count(base, Len(base)) \in Nat
        /\ at <= Len(text) /\ Len(base) <= at
        /\ Len(base) < at <=> epos # <<>> \/ \E k \in 1 .. at : text[k] = Blank
        /\ Len(epos) + Count(base, Len(base)) = Count(text, at)
        /\ mode = "fatal" => Count(base, Len(base)) > 0
    BY <2>1, ScanTypes DEF ScanInv
  <2>3. CountRva = Count(text, Len(text))
    BY <2>2 DEF CountRva, Count, SignsIn
  <2>4. Cardinality({k \in DOMAIN base : base[k] = "="}) = Count(base, Len(base))
    BY <2>2 DEF Count, SignsIn
  <2>5. Count(text, at) <= Count(text, Len(text))
    BY <2>2, SignsUpTo
  <2>6. Len(epos) + Count(base, Len(base)) <= Count(text, Len(text))
    BY <2>2, <2>5
  <2>7. Len(base) <= FrameRoom
    BY <2>2 DEF FrameRoom
  <2>8. ASSUME at = Len(text)
        PROVE  Len(base) < FrameRoom <=> epos # <<>> \/ Blank \in Range(text)
    <3>1. (\E k \in 1 .. at : text[k] = Blank) <=> Blank \in Range(text)
      BY <2>2, <2>8 DEF Range
    <3>2. Len(base) < FrameRoom <=> Len(base) < at
      BY <2>8 DEF FrameRoom
    <3>3. QED
      BY <2>2, <3>1, <3>2
  <2>9. QED
    BY <2>2, <2>3, <2>4, <2>6, <2>7, <2>8 DEF WritesBounded
<1>2. QED
  BY <1>1, InvHolds, PTL

(* After an accepted dry run, with every rva true, no evaluation finds an   *)
(* error, whatever the values: bdd_build never stops in the middle for the  *)
(* syntax (compute_rva_order, bdd_build).                                   *)
THEOREM DryRunSuffices == Spec => []DryRunSpeaksForAll
<1>1. ASSUME Inv PROVE DryRunSpeaksForAll
  <2>1. SUFFICES ASSUME mode \in {"eval", "done"}, Len(base) <= LocptrMod
                 PROVE  result # -1
    BY DEF DryRunSpeaksForAll
  <2>2. PICK h : Course(h, input, Len(input)) /\ h[Len(input)] = Accepted0 /\ Follows(h)
    BY <1>1, <2>1 DEF Inv, CourseInv
  <2>3. QED
    BY <1>1, <2>2, NoErrorOnCourse DEF Inv
<1>2. QED
  BY <1>1, InvHolds, PTL

-----------------------------------------------------------------------------
(***************************************************************************)
(* The order.  strcmp orders names, and the comparison of add2rva_order is *)
(* total, so that the binary search stops at the rva or between two        *)
(* neighbours it belongs between; an order in which that search inserts    *)
(* stays ascending from neighbour to neighbour, and altogether if no       *)
(* difference of two values wraps.                                         *)
(***************************************************************************)
LEMMA CodesDiffer ==
  \A a, b \in Alnums : Code(a) \in Int /\ (a # b => Code(a) < Code(b) \/ Code(b) < Code(a))
<1>1. \A a \in Alnums : Code(a) \in 1 .. 13 /\ Ascii[Code(a)] = a
  <2>1. DOMAIN Ascii = 1 .. 13
    BY DEF Ascii
  <2>2. \A a \in Alnums : \E k \in DOMAIN Ascii : Ascii[k] = a
    BY DEF Alnums, Range
  <2>3. \A a \in Alnums : Code(a) \in DOMAIN Ascii /\ Ascii[Code(a)] = a
    BY <2>2 DEF Code
  <2>4. QED
    BY <2>1, <2>3
<1>2. \A a, b \in Alnums : Code(a) = Code(b) => a = b
  BY <1>1
<1>3. QED
  <2>1. \A i, k \in 1 .. 13 : i \in Int /\ (i # k => i < k \/ k < i)
    OBVIOUS
  <2>2. QED
    BY <1>1, <1>2, <2>1

(* strcmp orders names. *)
LEMMA NamesOrdered ==
  /\ \A a \in Seq(Alnums) : ~NameBefore(a, a)
  /\ \A a, b, d \in Seq(Alnums) : NameBefore(a, b) /\ NameBefore(b, d) => NameBefore(a, d)
  /\ \A a, b \in Seq(Alnums) : a = b \/ NameBefore(a, b) \/ NameBefore(b, a)
<1>1. \A a \in Seq(Alnums) : Len(a) \in Nat /\ DOMAIN a = 1 .. Len(a) /\ \A k \in 1 .. Len(a) : a[k] \in Alnums
  BY LenProperties, ElementOfSeq
<1>2. ASSUME NEW a \in Seq(Alnums), NameBefore(a, a)
      PROVE  FALSE
  <2>1. PICK k \in DOMAIN a : k <= Len(a) => Code(a[k]) < Code(a[k])
    BY <1>2 DEF NameBefore
  <2>2. k <= Len(a) /\ Code(a[k]) \in Int
    BY <1>1, CodesDiffer
  <2>3. QED
    BY <2>1, <2>2
<1>3. ASSUME NEW a \in Seq(Alnums), NEW b \in Seq(Alnums), NEW d \in Seq(Alnums),
             NameBefore(a, b), NameBefore(b, d)
      PROVE  NameBefore(a, d)
  <2>1. PICK k \in 1 .. Len(b) : /\ \A j \in 1 .. k - 1 : j <= Len(a) /\ a[j] = b[j]
                                 /\ k <= Len(a) => Code(a[k]) < Code(b[k])
    BY <1>1, <1>3 DEF NameBefore
  <2>2. PICK l \in 1 .. Len(d) : /\ \A j \in 1 .. l - 1 : j <= Len(b) /\ b[j] = d[j]
                                 /\ l <= Len(b) => Code(b[l]) < Code(d[l])
    BY <1>1, <1>3 DEF NameBefore
  <2>3. /\ Len(a) \in Nat /\ Len(b) \in Nat /\ Len(d) \in Nat /\ DOMAIN d = 1 .. Len(d)
        /\ \A i \in 1 .. Len(a) : Code(a[i]) \in Int
        /\ \A i \in 1 .. Len(b) : Code(b[i]) \in Int
        /\ \A i \in 1 .. Len(d) : Code(d[i]) \in Int
    BY <1>1, CodesDiffer
  <2>4. CASE k < l
    <3>1. k \in 1 .. l - 1 /\ k \in 1 .. Len(d)
      BY <2>3, <2>4
    <3>2. \A j \in 1 .. k - 1 : j <= Len(a) /\ a[j] = d[j]
      BY <2>1, <2>2, <2>3, <2>4
    <3>3. k <= Len(a) => Code(a[k]) < Code(d[k])
      BY <2>1, <2>2, <3>1
    <3>4. QED
      BY <2>3, <3>1, <3>2, <3>3 DEF NameBefore
  <2>5. CASE l < k
    <3>1. l \in 1 .. k - 1 /\ l \in 1 .. Len(b)
      BY <2>3, <2>5
    <3>2. \A j \in 1 .. l - 1 : j <= Len(a) /\ a[j] = d[j]
      BY <2>1, <2>2, <2>3, <2>5
    <3>3. Code(a[l]) < Code(d[l])
      BY <2>1, <2>2, <3>1
    <3>4. QED
      BY <2>3, <3>2, <3>3 DEF NameBefore
  <2>6. CASE k = l
    <3>1. \A j \in 1 .. k - 1 : j <= Len(a) /\ a[j] = d[j]
      BY <2>1, <2>2, <2>3, <2>6
    <3>2. k <= Len(a) => Code(a[k]) < Code(d[k])
      <4>1. SUFFICES ASSUME k <= Len(a) PROVE Code(a[k]) < Code(d[k])
        OBVIOUS
      <4>2. Code(a[k]) < Code(b[k]) /\ Code(b[k]) < Code(d[k])
        BY <2>1, <2>2, <2>6, <4>1
      <4>3. Code(a[k]) \in Int /\ Code(b[k]) \in Int /\ Code(d[k]) \in Int
        BY <2>3, <2>6, <4>1
      <4>4. QED
        BY <4>2, <4>3
    <3>3. QED
      BY <2>3, <2>6, <3>1, <3>2 DEF NameBefore
  <2>7. QED
    BY <2>4, <2>5, <2>6
<1>4. ASSUME NEW a \in Seq(Alnums), NEW b \in Seq(Alnums), a # b
      PROVE  NameBefore(a, b) \/ NameBefore(b, a)
  <2> DEFINE T == {k \in Nat : k > 0 /\ ~(k <= Len(a) /\ k <= Len(b) /\ a[k] = b[k])}
  <2>1. Len(a) \in Nat /\ Len(b) \in Nat /\ DOMAIN a = 1 .. Len(a) /\ DOMAIN b = 1 .. Len(b)
    BY <1>1
  <2>2. PICK k \in T : \A j \in T : k <= j
    <3>1. T \in SUBSET Nat /\ Len(a) + 1 \in T
      BY <2>1
    <3> HIDE DEF T
    <3>2. QED
      BY <3>1, LeastNatural
  <2>3. \A j \in 1 .. k - 1 : j <= Len(a) /\ j <= Len(b) /\ a[j] = b[j]
    BY <2>2
  <2>4. CASE k > Len(a) /\ k > Len(b)
    <3>1. Len(a) = k - 1 /\ Len(b) = k - 1
      <4>1. \A n \in Nat : (\A j \in 1 .. k - 1 : j <= n) /\ k > n => n = k - 1
        <5>1. SUFFICES ASSUME NEW n \in Nat, \A j \in 1 .. k - 1 : j <= n, k > n PROVE n = k - 1
          OBVIOUS
        <5>2. k = 1 \/ k - 1 \in 1 .. k - 1
          BY <2>2
        <5>3. QED
          BY <2>2, <5>1, <5>2
      <4>2. QED
        BY <2>1, <2>3, <2>4, <4>1
    <3>2. \A j \in 1 .. Len(a) : a[j] = b[j]
      BY <2>3, <3>1
    <3>3. a = b
      BY <3>1, <3>2, SeqEqual
    <3>4. QED
      BY <1>4, <3>3
  <2>5. CASE k > Len(a) /\ k <= Len(b)
    BY <2>1, <2>2, <2>3, <2>5 DEF NameBefore
  <2>6. CASE k <= Len(a) /\ k > Len(b)
    BY <2>1, <2>2, <2>3, <2>6 DEF NameBefore
  <2>7. CASE k <= Len(a) /\ k <= Len(b)
    <3>1. k \in 1 .. Len(a) /\ k \in 1 .. Len(b) /\ a[k] # b[k]
      BY <2>1, <2>2, <2>7
    <3>2. Code(a[k]) < Code(b[k]) \/ Code(b[k]) < Code(a[k])
      BY <1>1, <3>1, CodesDiffer
    <3>3. QED
      BY <2>1, <2>3, <3>1, <3>2 DEF NameBefore
  <2>8. QED
    BY <2>1, <2>2, <2>4, <2>5, <2>6, <2>7
<1>5. QED
  BY <1>2, <1>3, <1>4

(* What an int can hold; differences of two such values wrap, but not both  *)
(* of them to a positive one.                                               *)
Fits(n) == n \in Int /\ -IntMod <= 2 * n /\ 2 * n < IntMod
Rva == [var : Seq(Alnums), val : {n \in Int : Fits(n)}]

LEMMA AsIntFits ==
  /\ \A n \in Int : Fits(AsInt(n))
  /\ \A a, b : Fits(a) /\ Fits(b) => a = b \/ AsInt(a - b) < 0 \/ AsInt(b - a) < 0
<1>1. IntMod \in Nat /\ IntMod > 0
  BY WidthAssumption
<1>2. ASSUME NEW n \in Int
      PROVE  Fits(AsInt(n))
  <2>1. PICK low \in 0 .. IntMod - 1 : low = n % IntMod
    BY <1>1
  <2>2. AsInt(n) = IF 2 * low < IntMod THEN low ELSE low - IntMod
    BY <2>1 DEF AsInt
  <2>3. QED
    BY <1>1, <2>2 DEF Fits
<1>3. ASSUME NEW n \in 1 .. IntMod - 1
      PROVE  AsInt(n) < 0 \/ AsInt(-n) < 0
  <2>1. n % IntMod = n /\ (-n) % IntMod = IntMod - n
    <3>1. \A m \in Nat : m > 0 => \A k \in 1 .. m - 1 : k % m = k /\ (-k) % m = m - k
      OBVIOUS
    <3>2. QED
      BY <1>1, <3>1
  <2>2. /\ AsInt(n) = IF 2 * n < IntMod THEN n ELSE n - IntMod
        /\ AsInt(-n) = IF 2 * (IntMod - n) < IntMod THEN IntMod - n ELSE -n
    BY <1>1, <2>1 DEF AsInt
  <2>3. QED
    BY <1>1, <2>2
<1>4. ASSUME NEW a, NEW b, Fits(a), Fits(b), a # b
      PROVE  AsInt(a - b) < 0 \/ AsInt(b - a) < 0
  <2>1. a \in Int /\ b \in Int
    BY <1>4 DEF Fits
  <2>2. CASE a > b
    <3>1. a - b \in 1 .. IntMod - 1 /\ b - a = -(a - b)
      BY <1>1, <1>4, <2>1, <2>2 DEF Fits
    <3>2. QED
      BY <1>3, <3>1
  <2>3. CASE b > a
    <3>1. b - a \in 1 .. IntMod - 1 /\ a - b = -(b - a)
      BY <1>1, <1>4, <2>1, <2>3 DEF Fits
    <3>2. QED
      BY <1>3, <3>1
  <2>4. QED
    BY <1>4, <2>1, <2>2, <2>3
<1>5. QED
  BY <1>2, <1>4

(* What bdd_atoi answers fits an int. *)
LEMMA AtoiFits ==
  ASSUME NEW digits \in Seq(DOMAIN Digit)
  PROVE  Fits(Atoi(digits))
<1> DEFINE n == Len(digits)
           D == 0 .. n
           step(g, k) == IF k = 0 THEN 0 ELSE 10 * g[k - 1] + Digit[digits[k]]
           rank == [k \in D |-> k]
           S == [q \in [D -> Nat] \X D |-> step(q[1], q[2])]
<1>1. n \in Nat /\ \A k \in 1 .. n : Digit[digits[k]] \in Nat
  <2>1. \A d \in DOMAIN Digit : Digit[d] \in Nat
    BY DEF Digit
  <2>2. \A k \in 1 .. n : digits[k] \in DOMAIN Digit
    BY ElementOfSeq
  <2>3. n \in Nat
    BY LenProperties
  <2>4. QED
    BY <2>1, <2>2, <2>3
<1> HIDE DEF n
<1>2. rank \in [D -> Nat]
  BY <1>1
<1>3. S \in [[D -> Nat] \X D -> Nat]
  <2>1. ASSUME NEW g \in [D -> Nat], NEW k \in D
        PROVE  step(g, k) \in Nat
    <3>1. CASE k = 0
      BY <3>1
    <3>2. CASE k # 0
      <4>1. g[k - 1] \in Nat /\ Digit[digits[k]] \in Nat
        BY <1>1, <3>2
      <4>2. QED
        BY <3>2, <4>1
    <3>3. QED
      BY <3>1, <3>2
  <2> HIDE DEF D, step
  <2>2. QED
    BY <2>1
<1>4. ASSUME NEW k \in D, NEW g, NEW h, \A y \in D : rank[y] < rank[k] => g[y] = h[y]
      PROVE  step(g, k) = step(h, k)
  <2>1. k # 0 => k - 1 \in D /\ rank[k - 1] < rank[k]
    BY <1>1
  <2> HIDE DEF D, rank
  <2>2. QED
    BY <1>4, <2>1
<1>5. Descends(D, Nat, S, rank)
  <2> HIDE DEF D, step, rank
  <2>1. QED
    BY <1>4 DEF Descends
<1>6. PICK f \in [D -> Nat] : \A k \in D : f[k] = S[<<f, k>>]
  <2> HIDE DEF D, S, rank
  <2>1. Solvable(D, Nat, S)
    BY <1>2, <1>3, <1>5, Recursion
  <2>2. QED
    BY <2>1 DEF Solvable
<1>7. f = [k \in D |-> step(f, k)]
  <2> HIDE DEF D, step
  <2>1. QED
    BY <1>6
<1>8. PICK g : g = [k \in D |-> step(g, k)] /\ Number(digits) = g[n]
  BY <1>7 DEF Number, n
<1>9. \A k \in D : g[k] = step(g, k)
  <2> HIDE DEF D, step
  <2>1. QED
    BY <1>8
<1>10. ASSUME NEW k \in D, \A y \in D : y < k => g[y] \in Nat
       PROVE  g[k] \in Nat
  <2>1. CASE k = 0
    BY <1>9, <2>1
  <2>2. CASE k # 0
    <3>1. g[k - 1] \in Nat /\ Digit[digits[k]] \in Nat
      BY <1>1, <1>10, <2>2
    <3>2. QED
      BY <1>9, <2>2, <3>1
  <2>3. QED
    BY <2>1, <2>2
<1>11. g[n] \in Nat
  <2> DEFINE T == {k \in Nat : k \in D /\ g[k] \notin Nat}
  <2>1. SUFFICES ASSUME n \in T PROVE FALSE
    BY <1>1
  <2>2. PICK k \in T : \A y \in T : k <= y
    <3>1. T \in SUBSET Nat
      OBVIOUS
    <3> HIDE DEF T
    <3>2. QED
      BY <2>1, <3>1, LeastNatural
  <2>3. \A y \in D : y < k => g[y] \in Nat
    BY <2>2
  <2>4. QED
    BY <1>10, <2>2, <2>3
<1>12. Fits(-1)
  BY WidthAssumption DEF Fits
<1>13. QED
  BY <1>8, <1>11, <1>12, AsIntFits DEF Atoi

(* Where the binary search stops: at the rva, or between one that is before *)
(* it and one that is not.                                                  *)
Stops(s, rva) ==
  /\ s.found => s.at \in 1 .. Len(order) /\ order[s.at].rva = rva
  /\ ~s.found => /\ s.at \in 1 .. Len(order) + 1
                 /\ s.at > 1 => Before(order[s.at - 1].rva, rva)
                 /\ s.at <= Len(order) => order[s.at].rva # rva /\ ~Before(order[s.at].rva, rva)

LEMMA SearchUnfolds ==
  ASSUME Len(order) \in Nat, NEW rva
  PROVE  \E g : /\ Search(rva) = g[<<1, Len(order)>>]
                /\ \A l \in 1 .. Len(order) + 1, r \in 0 .. Len(order) :
                     LET m == l + (r - l) \div 2
                     IN  g[<<l, r>>] = IF l > r THEN [found |-> FALSE, at |-> l]
                                       ELSE IF order[m].rva = rva THEN [found |-> TRUE, at |-> m]
                                       ELSE IF Before(order[m].rva, rva) THEN g[<<m + 1, r>>]
                                       ELSE g[<<l, m - 1>>]
<1> DEFINE n == Len(order)
           V == [found : BOOLEAN, at : 0 .. n + 1]
           D == (1 .. n + 1) \X (0 .. n)
           mid(x) == x[1] + (x[2] - x[1]) \div 2
           step(g, x) == IF x[1] > x[2] THEN [found |-> FALSE, at |-> x[1]]
                         ELSE IF order[mid(x)].rva = rva THEN [found |-> TRUE, at |-> mid(x)]
                         ELSE IF Before(order[mid(x)].rva, rva) THEN g[<<mid(x) + 1, x[2]>>]
                         ELSE g[<<x[1], mid(x) - 1>>]
           width(l, r) == IF r < l THEN 0 ELSE r - l + 1
           rank == [x \in D |-> width(x[1], x[2])]
           S == [q \in [D -> V] \X D |-> step(q[1], q[2])]
<1>1. n \in Nat
  OBVIOUS
<1> HIDE DEF n
<1>2. ASSUME NEW x \in D, ~ (x[1] > x[2])
      PROVE  /\ mid(x) \in 0 .. n + 1
             /\ <<x[1], mid(x) - 1>> \in D /\ rank[<<x[1], mid(x) - 1>>] < rank[x]
             /\ <<mid(x) + 1, x[2]>> \in D /\ rank[<<mid(x) + 1, x[2]>>] < rank[x]
  <2>1. PICK l \in 1 .. n + 1, r \in 0 .. n : x = <<l, r>> /\ l <= r
    BY <1>1, <1>2
  <2>2. PICK m \in l .. r : m = mid(x)
    <3>1. (r - l) \div 2 \in 0 .. r - l
      BY <2>1, <1>1
    <3>2. QED
      BY <2>1, <3>1, <1>1
  <2>3. rank[x] = width(l, r)
    BY <2>1
  <2>4. \A a \in 1 .. n + 1, b \in 0 .. n : <<a, b>> \in D /\ rank[<<a, b>>] = width(a, b)
    OBVIOUS
  <2>5. m - 1 \in 0 .. n /\ m + 1 \in 1 .. n + 1 /\ m \in 0 .. n + 1
    BY <1>1, <2>1
  <2>6. width(l, m - 1) < width(l, r) /\ width(m + 1, r) < width(l, r)
    BY <1>1, <2>1
  <2> HIDE DEF D, rank, width, mid
  <2>7. QED
    BY <2>1, <2>2, <2>3, <2>4, <2>5, <2>6
<1>3. rank \in [D -> Nat] /\ V # {}
  <2>1. rank \in [D -> Nat]
    BY <1>1
  <2>2. [found |-> FALSE, at |-> 0] \in V
    BY <1>1
  <2> HIDE DEF V, D, rank
  <2>3. QED
    BY <2>1, <2>2
<1>4. S \in [[D -> V] \X D -> V]
  <2>1. ASSUME NEW g \in [D -> V], NEW x \in D
        PROVE  step(g, x) \in V
    <3>1. \A b \in BOOLEAN, k \in 0 .. n + 1 : [found |-> b, at |-> k] \in V
      OBVIOUS
    <3>2. x[1] \in 0 .. n + 1
      BY <1>1
    <3> HIDE DEF D, V, mid, rank
    <3>3. QED
      BY <1>2, <3>1, <3>2
  <2> HIDE DEF D, V, step
  <2>2. QED
    BY <2>1
<1>5. ASSUME NEW x \in D, NEW g, NEW h, \A y \in D : rank[y] < rank[x] => g[y] = h[y]
      PROVE  step(g, x) = step(h, x)
  <2> HIDE DEF D, V, mid, rank
  <2>1. QED
    BY <1>2, <1>5
<1>6. Descends(D, V, S, rank)
  <2> HIDE DEF D, V, step, rank
  <2>1. QED
    BY <1>5 DEF Descends
<1>7. PICK f \in [D -> V] : \A x \in D : f[x] = S[<<f, x>>]
  <2> HIDE DEF D, S, rank, V
  <2>1. Solvable(D, V, S)
    BY <1>3, <1>4, <1>6, Recursion
  <2>2. QED
    BY <2>1 DEF Solvable
<1>8. f = [x \in D |-> step(f, x)]
  <2> HIDE DEF D, V, step
  <2>1. QED
    BY <1>7
<1>9. PICK g : g = [x \in D |-> step(g, x)] /\ Search(rva) = g[<<1, n>>]
  BY <1>8 DEF Search, n
<1>10. \A x \in D : g[x] = step(g, x)
  <2> HIDE DEF step, D
  <2>1. QED
    BY <1>9
<1>11. ASSUME NEW l \in 1 .. n + 1, NEW r \in 0 .. n
       PROVE  LET m == l + (r - l) \div 2
              IN  g[<<l, r>>] = IF l > r THEN [found |-> FALSE, at |-> l]
                                ELSE IF order[m].rva = rva THEN [found |-> TRUE, at |-> m]
                                ELSE IF Before(order[m].rva, rva) THEN g[<<m + 1, r>>]
                                ELSE g[<<l, m - 1>>]
  <2>1. <<l, r>> \in D
    OBVIOUS
  <2>2. g[<<l, r>>] = step(g, <<l, r>>)
    BY <1>10, <2>1
  <2>3. QED
    BY <2>2
<1>12. QED
  BY <1>9, <1>11 DEF n

LEMMA SearchStops ==
  ASSUME Len(order) \in Nat, NEW rva
  PROVE  Stops(Search(rva), rva)
<1> DEFINE n == Len(order)
           mid(l, r) == l + (r - l) \div 2
           width(l, r) == IF r < l THEN 0 ELSE r - l + 1
<1>1. PICK g : /\ Search(rva) = g[<<1, n>>]
               /\ \A l \in 1 .. n + 1, r \in 0 .. n :
                    g[<<l, r>>] = IF l > r THEN [found |-> FALSE, at |-> l]
                                  ELSE IF order[mid(l, r)].rva = rva THEN [found |-> TRUE, at |-> mid(l, r)]
                                  ELSE IF Before(order[mid(l, r)].rva, rva) THEN g[<<mid(l, r) + 1, r>>]
                                  ELSE g[<<l, mid(l, r) - 1>>]
  BY SearchUnfolds
<1> DEFINE Between(l, r) == /\ l <= r + 1
                            /\ l > 1 => Before(order[l - 1].rva, rva)
                            /\ r < n => order[r + 1].rva # rva /\ ~Before(order[r + 1].rva, rva)
           Good(l, r) == Between(l, r) => Stops(g[<<l, r>>], rva)
           T == {w \in Nat : \E l \in 1 .. n + 1, r \in 0 .. n : w = width(l, r) /\ ~Good(l, r)}
<1>2. n \in Nat
  OBVIOUS
<1>3. ASSUME NEW l \in 1 .. n + 1, NEW r \in 0 .. n, Between(l, r),
             \A a \in 1 .. n + 1, b \in 0 .. n : width(a, b) < width(l, r) => Good(a, b)
      PROVE  Stops(g[<<l, r>>], rva)
  <2>1. CASE l > r
    <3>1. g[<<l, r>>] = [found |-> FALSE, at |-> l]
      BY <1>1, <2>1
    <3>2. l = r + 1
      BY <1>2, <1>3, <2>1
    <3>3. l <= n => order[l].rva # rva /\ ~Before(order[l].rva, rva)
      BY <1>2, <1>3, <3>2
    <3>4. QED
      BY <1>3, <3>1, <3>3 DEF Stops
  <2>2. CASE l <= r
    <3>1. PICK m \in l .. r : m = mid(l, r)
      <4>1. (r - l) \div 2 \in 0 .. r - l
        BY <2>2, <1>2
      <4>2. mid(l, r) \in l .. r
        BY <2>2, <4>1, <1>2
      <4>3. QED
        BY <4>2
    <3>2. g[<<l, r>>] = IF order[m].rva = rva THEN [found |-> TRUE, at |-> m]
                        ELSE IF Before(order[m].rva, rva) THEN g[<<m + 1, r>>]
                        ELSE g[<<l, m - 1>>]
      <4>1. ~ (l > r)
        BY <1>2, <2>2
      <4> HIDE DEF mid
      <4>2. QED
        BY <1>1, <3>1, <4>1
    <3>3. CASE order[m].rva = rva
      <4>1. g[<<l, r>>] = [found |-> TRUE, at |-> m] /\ m \in 1 .. n
        BY <1>2, <3>1, <3>2, <3>3
      <4>2. QED
        BY <3>3, <4>1 DEF Stops
    <3>4. CASE order[m].rva # rva /\ Before(order[m].rva, rva)
      <4>1. /\ m + 1 \in 1 .. n + 1 /\ width(m + 1, r) < width(l, r)
            /\ m + 1 <= r + 1 /\ (m + 1) - 1 = m
        BY <1>2, <3>1
      <4>2. Between(m + 1, r)
        BY <1>3, <3>4, <4>1
      <4> HIDE DEF width, Between
      <4>3. QED
        BY <1>3, <3>2, <3>4, <4>1, <4>2
    <3>5. CASE order[m].rva # rva /\ ~Before(order[m].rva, rva)
      <4>1. /\ m - 1 \in 0 .. n /\ width(l, m - 1) < width(l, r)
            /\ l <= (m - 1) + 1 /\ (m - 1) + 1 = m
        BY <1>2, <3>1
      <4>2. Between(l, m - 1)
        BY <1>3, <3>5, <4>1
      <4> HIDE DEF width, Between
      <4>3. QED
        BY <1>3, <3>2, <3>5, <4>1, <4>2
    <3>6. QED
      BY <3>3, <3>4, <3>5
  <2>3. QED
    BY <1>2, <2>1, <2>2
<1>4. T = {}
  <2>1. SUFFICES ASSUME T # {} PROVE FALSE
    OBVIOUS
  <2>2. T \in SUBSET Nat
    OBVIOUS
  <2>3. PICK w \in T : \A x \in T : w <= x
    <3> HIDE DEF T
    <3>1. QED
      BY <2>1, <2>2, LeastNatural
  <2>4. PICK l \in 1 .. n + 1, r \in 0 .. n : w = width(l, r) /\ ~Good(l, r)
    OBVIOUS
  <2>5. ASSUME NEW a \in 1 .. n + 1, NEW b \in 0 .. n, width(a, b) < width(l, r)
        PROVE  Good(a, b)
    <3>1. width(a, b) \in Nat
      BY <1>2
    <3> HIDE DEF Good, width
    <3>2. width(a, b) \in T => width(l, r) <= width(a, b)
      BY <2>3, <2>4
    <3>3. QED
      BY <2>5, <2>4, <3>1, <3>2
  <2>6. QED
    <3> HIDE DEF width, Between
    <3>1. QED
      BY <1>3, <2>4, <2>5
<1>5. Good(1, n)
  <2>1. 1 \in 1 .. n + 1 /\ n \in 0 .. n /\ width(1, n) \in Nat
    BY <1>2
  <2> HIDE DEF Good, width
  <2>2. QED
    BY <1>4, <2>1
<1>6. Between(1, n)
  BY <1>2
<1>7. QED
  BY <1>1, <1>5, <1>6

(* The comparison of add2rva_order is total; if no difference wraps, it is  *)
(* a strict order.                                                          *)
LEMMA BeforeOrders ==
  /\ \A a \in Rva : ~Before(a, a)
  /\ \A a, b \in Rva : a = b \/ Before(a, b) \/ Before(b, a)
  /\ Narrow => \A a, b, d \in Rva \cap Rvas : Before(a, b) /\ Before(b, d) => Before(a, d)
<1>1. \A a \in Rva : a = [var |-> a.var, val |-> a.val] /\ a.var \in Seq(Alnums) /\ Fits(a.val) /\ a.val \in Int
  BY DEF Rva
<1>2. AsInt(0) = 0
  <2>1. \A m \in Nat : m > 0 => 0 % m = 0
    OBVIOUS
  <2>2. 0 % IntMod = 0 /\ IntMod > 0
    BY <2>1, WidthAssumption
  <2>3. QED
    BY <2>2 DEF AsInt
<1>3. ASSUME NEW a \in Rva
      PROVE  ~Before(a, a)
  <2>1. a.val - a.val = 0 /\ ~NameBefore(a.var, a.var)
    BY <1>1, NamesOrdered
  <2>2. QED
    BY <1>2, <2>1 DEF Before
<1>4. ASSUME NEW a \in Rva, NEW b \in Rva, a # b
      PROVE  Before(a, b) \/ Before(b, a)
  <2>1. CASE a.var # b.var
    BY <1>1, <2>1, NamesOrdered DEF Before
  <2>2. CASE a.var = b.var
    <3>1. a.val # b.val
      BY <1>1, <1>4, <2>2
    <3>2. AsInt(a.val - b.val) < 0 \/ AsInt(b.val - a.val) < 0
      BY <1>1, <3>1, AsIntFits
    <3>3. QED
      BY <2>2, <3>2 DEF Before
  <2>3. QED
    BY <2>1, <2>2
<1>5. ASSUME Narrow, NEW a \in Rva \cap Rvas, NEW b \in Rva \cap Rvas, NEW d \in Rva \cap Rvas,
             Before(a, b), Before(b, d)
      PROVE  Before(a, d)
  <2>1. /\ a.var \in Seq(Alnums) /\ b.var \in Seq(Alnums) /\ d.var \in Seq(Alnums)
        /\ a.val \in Int /\ b.val \in Int /\ d.val \in Int
    BY <1>1
  <2>2. /\ AsInt(a.val - b.val) = a.val - b.val
        /\ AsInt(b.val - d.val) = b.val - d.val
        /\ AsInt(a.val - d.val) = a.val - d.val
    BY <1>5 DEF Narrow
  <2>3. CASE NameBefore(a.var, b.var) /\ NameBefore(b.var, d.var)
    BY <2>1, <2>3, NamesOrdered DEF Before
  <2>4. CASE a.var = b.var /\ NameBefore(b.var, d.var)
    BY <2>4 DEF Before
  <2>5. CASE NameBefore(a.var, b.var) /\ b.var = d.var
    BY <2>5 DEF Before
  <2>6. CASE a.var = b.var /\ b.var = d.var /\ a.val - b.val < 0 /\ b.val - d.val < 0
    <3>1. AsInt(a.val - d.val) < 0
      BY <2>1, <2>2, <2>6
    <3>2. QED
      BY <2>6, <3>1 DEF Before
  <2>7. QED
    BY <1>5, <2>2, <2>3, <2>4, <2>5, <2>6 DEF Before
<1>6. QED
  BY <1>3, <1>4, <1>5

LEMMA InsertIs ==
  ASSUME NEW S, NEW s \in Seq(S), NEW i \in 1 .. Len(s) + 1, NEW e \in S
  PROVE  /\ InsertAt(s, i, e) \in Seq(S)
         /\ Len(InsertAt(s, i, e)) = Len(s) + 1
         /\ \A j \in 1 .. Len(s) + 1 :
              InsertAt(s, i, e)[j] = IF j < i THEN s[j] ELSE IF j = i THEN e ELSE s[j - 1]
<1> DEFINE a == SubSeq(s, 1, i - 1)
           b == SubSeq(s, i, Len(s))
<1>1. Len(s) \in Nat /\ i \in Nat /\ \A j \in 1 .. Len(s) : s[j] \in S
  BY LenProperties, ElementOfSeq
<1>2. a \in Seq(S) /\ Len(a) = i - 1 /\ \A j \in 1 .. i - 1 : a[j] = s[j]
  <2>1. \A j \in 1 .. i - 1 : s[j] \in S
    BY <1>1
  <2>2. /\ SubSeq(s, 1, i - 1) \in Seq(S)
        /\ Len(SubSeq(s, 1, i - 1)) = IF 1 <= i - 1 THEN (i - 1) - 1 + 1 ELSE 0
        /\ \A j \in 1 .. (i - 1) - 1 + 1 : SubSeq(s, 1, i - 1)[j] = s[1 + j - 1]
    <3>1. 1 \in Int /\ i - 1 \in Int
      BY <1>1
    <3>2. QED
      BY <2>1, <3>1, SubSeqProperties
  <2>3. (i - 1) - 1 + 1 = i - 1 /\ \A j \in 1 .. i - 1 : 1 + j - 1 = j
    BY <1>1
  <2>4. QED
    BY <1>1, <2>2, <2>3
<1>3. b \in Seq(S) /\ Len(b) = Len(s) + 1 - i /\ \A j \in 1 .. Len(s) + 1 - i : b[j] = s[i + j - 1]
  <2>1. \A j \in i .. Len(s) : s[j] \in S
    BY <1>1
  <2>2. /\ SubSeq(s, i, Len(s)) \in Seq(S)
        /\ Len(SubSeq(s, i, Len(s))) = IF i <= Len(s) THEN Len(s) - i + 1 ELSE 0
        /\ \A j \in 1 .. Len(s) - i + 1 : SubSeq(s, i, Len(s))[j] = s[i + j - 1]
    <3>1. i \in Int /\ Len(s) \in Int
      BY <1>1
    <3>2. QED
      BY <2>1, <3>1, SubSeqProperties
  <2>3. Len(s) - i + 1 = Len(s) + 1 - i
    BY <1>1
  <2>4. QED
    BY <1>1, <2>2, <2>3
<1>4. /\ <<e>> \in Seq(S) /\ Len(<<e>>) = 1 /\ <<e>>[1] = e
  OBVIOUS
<1>5. PICK u : u = a \o <<e>>
  OBVIOUS
<1> HIDE DEF a, b
<1>6. /\ u \in Seq(S) /\ Len(u) = i
      /\ \A j \in 1 .. i : u[j] = IF j <= i - 1 THEN a[j] ELSE <<e>>[j - (i - 1)]
  <2>1. /\ a \o <<e>> \in Seq(S) /\ Len(a \o <<e>>) = Len(a) + Len(<<e>>)
        /\ \A j \in 1 .. Len(a) + Len(<<e>>) :
             (a \o <<e>>)[j] = IF j <= Len(a) THEN a[j] ELSE <<e>>[j - Len(a)]
    BY <1>2, <1>4, ConcatProperties
  <2>2. Len(a) + Len(<<e>>) = i
    BY <1>1, <1>2, <1>4
  <2>3. QED
    BY <1>2, <1>5, <2>1, <2>2
<1>7. PICK w : w = u \o b
  OBVIOUS
<1>8. /\ w \in Seq(S) /\ Len(w) = Len(s) + 1
      /\ \A j \in 1 .. Len(s) + 1 : w[j] = IF j <= i THEN u[j] ELSE b[j - i]
  <2>1. /\ u \o b \in Seq(S) /\ Len(u \o b) = Len(u) + Len(b)
        /\ \A j \in 1 .. Len(u) + Len(b) : (u \o b)[j] = IF j <= Len(u) THEN u[j] ELSE b[j - Len(u)]
    BY <1>3, <1>6, ConcatProperties
  <2>2. Len(u) + Len(b) = Len(s) + 1
    BY <1>1, <1>3, <1>6
  <2>3. QED
    BY <1>6, <1>7, <2>1, <2>2
<1>9. InsertAt(s, i, e) = w
  BY <1>5, <1>7 DEF InsertAt, a, b
<1>10. ASSUME NEW j \in 1 .. Len(s) + 1
      PROVE  w[j] = IF j < i THEN s[j] ELSE IF j = i THEN e ELSE s[j - 1]
  <2>1. CASE j < i
    BY <1>1, <1>2, <1>6, <1>8, <2>1
  <2>2. CASE j = i
    <3>1. j - (i - 1) = 1 /\ ~(j <= i - 1) /\ j \in 1 .. i
      BY <1>1, <2>2
    <3>2. QED
      BY <1>4, <1>6, <1>8, <2>2, <3>1
  <2>3. CASE j > i
    <3>1. j - i \in 1 .. Len(s) + 1 - i /\ i + (j - i) - 1 = j - 1
      BY <1>1, <2>3
    <3>2. b[j - i] = s[j - 1]
      BY <1>3, <3>1
    <3>3. QED
      BY <1>1, <1>8, <2>3, <3>2
  <2>4. QED
    BY <1>1, <2>1, <2>2, <2>3
<1>11. QED
  BY <1>8, <1>9, <1>10

Entry == [rva : Rva, loc : Nat]
RvasIn(o) == {o[k].rva : k \in DOMAIN o}
Ascending(o) ==
  \A j, k \in DOMAIN o : j + 1 = k \/ (j < k /\ Narrow) => Before(o[j].rva, o[k].rva)

(* If nothing wraps, what the search did not find is not there, and what it *)
(* found is there once.                                                     *)
LEMMA FoundOnce ==
  ASSUME order \in Seq(Entry), Ascending(order), RvasIn(order) \subseteq Rvas, Narrow,
         NEW rva \in Rva \cap Rvas, NEW s, Stops(s, rva)
  PROVE  \A k \in 1 .. Len(order) : order[k].rva = rva => s.found /\ k = s.at
<1>1. /\ Len(order) \in Nat /\ DOMAIN order = 1 .. Len(order)
      /\ \A k \in 1 .. Len(order) : order[k].rva \in Rva \cap Rvas
  <2>1. \A k \in 1 .. Len(order) : order[k] \in Entry
    BY ElementOfSeq
  <2>2. Len(order) \in Nat /\ DOMAIN order = 1 .. Len(order)
    BY LenProperties
  <2>3. QED
    BY <2>1, <2>2 DEF Entry, RvasIn
<1>2. \A j, k \in 1 .. Len(order) : j < k => Before(order[j].rva, order[k].rva)
  BY <1>1 DEF Ascending
<1>3. ASSUME NEW k \in 1 .. Len(order), order[k].rva = rva, s.found
      PROVE  k = s.at
  <2>1. s.at \in 1 .. Len(order) /\ order[s.at].rva = rva
    BY <1>3 DEF Stops
  <2>2. ~Before(rva, rva)
    BY BeforeOrders
  <2>3. ~ (k < s.at) /\ ~ (s.at < k)
    BY <1>2, <1>3, <2>1, <2>2
  <2>4. QED
    BY <2>1, <2>3
<1>4. ASSUME NEW k \in 1 .. Len(order), order[k].rva = rva, ~s.found
      PROVE  FALSE
  <2>1. /\ s.at \in 1 .. Len(order) + 1
        /\ s.at > 1 => Before(order[s.at - 1].rva, rva)
        /\ s.at <= Len(order) => order[s.at].rva # rva /\ ~Before(order[s.at].rva, rva)
    BY <1>4 DEF Stops
  <2>2. ~Before(rva, rva)
    BY BeforeOrders
  <2>3. CASE k < s.at
    <3>1. s.at - 1 \in 1 .. Len(order) /\ Before(order[s.at - 1].rva, rva)
      BY <1>1, <2>1, <2>3
    <3>2. k # s.at - 1
      BY <1>4, <2>2, <3>1
    <3>3. k < s.at - 1
      BY <1>1, <2>1, <2>3, <3>2
    <3>4. Before(rva, order[s.at - 1].rva)
      BY <1>2, <1>4, <3>1, <3>3
    <3>5. QED
      BY <1>1, <2>2, <3>1, <3>4, BeforeOrders
  <2>4. CASE k = s.at
    BY <1>4, <2>1, <2>4
  <2>5. CASE k > s.at
    <3>1. s.at \in 1 .. Len(order)
      BY <1>1, <2>1, <2>5
    <3>2. Before(order[s.at].rva, rva)
      BY <1>2, <1>4, <2>5, <3>1
    <3>3. QED
      BY <1>1, <2>1, <3>1, <3>2
  <2>6. QED
    BY <1>1, <2>1, <2>3, <2>4, <2>5
<1>5. QED
  BY <1>3, <1>4

(* The order after add2rva_order. *)
OrderWith(s, rl) == IF s.found THEN [order EXCEPT ![s.at] = rl] ELSE InsertAt(order, s.at, rl)

LEMMA OrderExtends ==
  ASSUME order \in Seq(Entry), Ascending(order), RvasIn(order) \subseteq Rvas,
         NEW rl \in Entry, rl.rva \in Rvas, NEW s, Stops(s, rl.rva),
         NEW o, o = OrderWith(s, rl)
  PROVE  /\ o \in Seq(Entry) /\ Ascending(o)
         /\ RvasIn(o) = RvasIn(order) \cup {rl.rva}
         /\ Narrow => \A k \in DOMAIN o : o[k] = rl \/ \E j \in DOMAIN order :
                                                         o[k] = order[j] /\ order[j].rva # rl.rva
<1> DEFINE n == Len(order)
<1>1. /\ n \in Nat /\ DOMAIN order = 1 .. n /\ rl.rva \in Rva
      /\ \A k \in 1 .. n : order[k].rva \in Rva
  <2>1. \A k \in 1 .. n : order[k] \in Entry
    BY ElementOfSeq
  <2>2. n \in Nat /\ DOMAIN order = 1 .. n
    BY LenProperties
  <2>3. QED
    BY <2>1, <2>2 DEF Entry
<1>2. Narrow => \A k \in 1 .. n : order[k].rva = rl.rva => s.found /\ k = s.at
  BY <1>1, FoundOnce
<1>3. CASE s.found
  <2>1. s.at \in 1 .. n /\ order[s.at].rva = rl.rva
    BY <1>3 DEF Stops
  <2>2. o = [order EXCEPT ![s.at] = rl]
    BY <1>3 DEF OrderWith
  <2>3. /\ o \in Seq(Entry) /\ Len(o) = n
        /\ \A k \in 1 .. n : o[k] = IF k = s.at THEN rl ELSE order[k]
    BY <2>1, <2>2, ExceptSeq
  <2>4. DOMAIN o = 1 .. n /\ \A k \in 1 .. n : o[k].rva = order[k].rva
    BY <1>1, <2>1, <2>3, LenProperties
  <2>5. Ascending(o)
    BY <1>1, <2>4 DEF Ascending
  <2>6. RvasIn(o) = RvasIn(order) \cup {rl.rva}
    BY <1>1, <2>1, <2>4 DEF RvasIn
  <2>7. QED
    BY <1>1, <1>2, <2>3, <2>4, <2>5, <2>6
<1>4. CASE ~s.found
  <2>1. /\ s.at \in 1 .. n + 1
        /\ s.at > 1 => Before(order[s.at - 1].rva, rl.rva)
        /\ s.at <= n => order[s.at].rva # rl.rva /\ ~Before(order[s.at].rva, rl.rva)
    BY <1>4 DEF Stops
  <2>2. o = InsertAt(order, s.at, rl)
    BY <1>4 DEF OrderWith
  <2>3. PICK i \in 1 .. n + 1 : i = s.at
    BY <2>1
  <2>4. /\ o \in Seq(Entry) /\ Len(o) = n + 1
        /\ \A k \in 1 .. n + 1 : o[k] = IF k < i THEN order[k] ELSE IF k = i THEN rl ELSE order[k - 1]
    BY <2>2, <2>3, InsertIs
  <2>5. DOMAIN o = 1 .. n + 1
    BY <2>4, LenProperties
  <2>6. /\ i > 1 => Before(order[i - 1].rva, rl.rva)
        /\ i <= n => Before(rl.rva, order[i].rva)
    <3>1. i <= n => Before(rl.rva, order[i].rva)
      BY <1>1, <2>1, <2>3, BeforeOrders
    <3>2. QED
      BY <2>1, <2>3, <3>1
  <2>7. ASSUME Narrow, NEW k \in 1 .. n
        PROVE  IF k < i THEN Before(order[k].rva, rl.rva) ELSE Before(rl.rva, order[k].rva)
    <3>1. \A j \in 1 .. n : order[j].rva \in Rva \cap Rvas
      BY <1>1 DEF RvasIn
    <3>2. CASE k = i - 1 \/ k = i
      BY <2>6, <3>2
    <3>3. CASE k < i - 1
      <4>1. i - 1 \in 1 .. n /\ i > 1
        BY <1>1, <3>3
      <4>2. Before(order[k].rva, order[i - 1].rva)
        BY <1>1, <2>7, <3>3, <4>1 DEF Ascending
      <4>3. Before(order[k].rva, rl.rva)
        BY <1>1, <2>6, <2>7, <3>1, <4>1, <4>2, BeforeOrders
      <4>4. QED
        BY <3>3, <4>3
    <3>4. CASE k > i
      <4>1. i \in 1 .. n
        BY <1>1, <3>4
      <4>2. Before(order[i].rva, order[k].rva)
        BY <1>1, <2>7, <3>4, <4>1 DEF Ascending
      <4>3. Before(rl.rva, order[k].rva)
        BY <1>1, <2>6, <2>7, <3>1, <4>1, <4>2, BeforeOrders
      <4>4. QED
        BY <3>4, <4>3
    <3>5. QED
      BY <3>2, <3>3, <3>4
  <2>8. ASSUME NEW j \in 1 .. n + 1, NEW k \in 1 .. n + 1, j + 1 = k \/ (j < k /\ Narrow)
        PROVE  Before(o[j].rva, o[k].rva)
    <3>1. CASE k < i
      <4>1. j \in 1 .. n /\ k \in 1 .. n /\ j < i
        BY <1>1, <2>8, <3>1
      <4>2. QED
        BY <1>1, <2>4, <2>8, <3>1, <4>1 DEF Ascending
    <3>2. CASE j > i
      <4>1. j - 1 \in 1 .. n /\ k - 1 \in 1 .. n /\ k > i /\ ((j - 1) + 1 = k - 1 \/ (j - 1 < k - 1 /\ Narrow))
        BY <1>1, <2>8, <3>2
      <4>2. o[j] = order[j - 1] /\ o[k] = order[k - 1]
        BY <2>4, <3>2, <4>1
      <4>3. QED
        BY <1>1, <4>1, <4>2 DEF Ascending
    <3>3. CASE j = i
      <4>1. k - 1 \in 1 .. n /\ k > i /\ (k - 1 = i \/ Narrow) /\ k - 1 >= i
        BY <1>1, <2>8, <3>3
      <4>2. o[j] = rl /\ o[k] = order[k - 1]
        BY <2>4, <3>3, <4>1
      <4>3. Before(rl.rva, order[k - 1].rva)
        <5>1. CASE k - 1 = i
          BY <1>1, <2>6, <4>1, <5>1
        <5>2. CASE Narrow
          BY <2>7, <4>1, <5>2
        <5>3. QED
          BY <4>1, <5>1, <5>2
      <4>4. QED
        BY <4>2, <4>3
    <3>4. CASE k = i
      <4>1. j \in 1 .. n /\ j < i /\ (j = i - 1 \/ Narrow)
        BY <1>1, <2>8, <3>4
      <4>2. o[j] = order[j] /\ o[k] = rl
        BY <2>4, <3>4, <4>1
      <4>3. Before(order[j].rva, rl.rva)
        <5>1. CASE j = i - 1
          BY <1>1, <2>6, <4>1, <5>1
        <5>2. CASE Narrow
          BY <2>7, <4>1, <5>2
        <5>3. QED
          BY <4>1, <5>1, <5>2
      <4>4. QED
        BY <4>2, <4>3
    <3>5. CASE j < i /\ k > i
      <4>1. j \in 1 .. n /\ k - 1 \in 1 .. n /\ j < k - 1 /\ Narrow
        BY <1>1, <2>8, <3>5
      <4>2. o[j] = order[j] /\ o[k] = order[k - 1]
        <5>1. i \in Int /\ ~ (k < i) /\ k # i
          BY <1>1, <3>5
        <5>2. o[k] = order[k - 1]
          BY <2>4, <5>1
        <5>3. o[j] = order[j]
          BY <2>4, <3>5
        <5>4. QED
          BY <5>2, <5>3
      <4>3. QED
        BY <1>1, <4>1, <4>2 DEF Ascending
    <3>6. QED
      BY <1>1, <2>8, <3>1, <3>2, <3>3, <3>4, <3>5
  <2>9. RvasIn(o) = RvasIn(order) \cup {rl.rva}
    <3>1. ASSUME NEW k \in 1 .. n
          PROVE  order[k].rva \in RvasIn(o)
      <4>1. CASE k < i
        BY <1>1, <2>4, <2>5, <4>1 DEF RvasIn
      <4>2. CASE k >= i
        <5>1. k + 1 \in 1 .. n + 1 /\ k + 1 > i /\ (k + 1) - 1 = k
          BY <1>1, <4>2
        <5>2. o[k + 1] = order[k]
          BY <2>4, <5>1
        <5>3. QED
          BY <2>5, <5>1, <5>2 DEF RvasIn
      <4>3. QED
        BY <4>1, <4>2
    <3>2. rl.rva \in RvasIn(o)
      <4>1. o[i] = rl /\ i \in DOMAIN o
        BY <1>1, <2>4, <2>5
      <4>2. QED
        BY <4>1 DEF RvasIn
    <3>3. ASSUME NEW k \in 1 .. n + 1
          PROVE  o[k].rva \in RvasIn(order) \cup {rl.rva}
      <4>1. CASE k < i
        <5>1. k \in 1 .. n /\ o[k] = order[k]
          BY <1>1, <2>4, <4>1
        <5>2. QED
          BY <1>1, <5>1 DEF RvasIn
      <4>2. CASE k = i
        BY <2>4, <4>2
      <4>3. CASE k > i
        <5>1. k - 1 \in 1 .. n /\ ~ (k < i) /\ k # i
          BY <1>1, <4>3
        <5>2. o[k] = order[k - 1]
          BY <2>4, <5>1
        <5>3. QED
          BY <1>1, <5>1, <5>2 DEF RvasIn
      <4>4. QED
        BY <1>1, <4>1, <4>2, <4>3
    <3>4. QED
      BY <1>1, <2>5, <3>1, <3>2, <3>3 DEF RvasIn
  <2>10. ASSUME Narrow, NEW k \in 1 .. n + 1
         PROVE  o[k] = rl \/ \E j \in DOMAIN order : o[k] = order[j] /\ order[j].rva # rl.rva
    <3>1. CASE k < i
      BY <1>1, <1>2, <1>4, <2>4, <2>10, <3>1
    <3>2. CASE k = i
      BY <2>4, <3>2
    <3>3. CASE k > i
      <4>1. k - 1 \in 1 .. n /\ o[k] = order[k - 1]
        BY <1>1, <2>4, <3>3
      <4>2. QED
        BY <1>1, <1>2, <1>4, <2>10, <4>1
    <3>4. QED
      BY <1>1, <3>1, <3>2, <3>3
  <2>11. Ascending(o)
    BY <2>5, <2>8 DEF Ascending
  <2>12. QED
    BY <2>4, <2>5, <2>9, <2>10, <2>11
<1>5. QED
  BY <1>3, <1>4

-----------------------------------------------------------------------------
(***************************************************************************)
(* The text.  The scan from left to right and the reference, which takes   *)
(* the text apart at its "=" signs, agree as long as no "=" was copied     *)
(* into the frame.                                                         *)
(***************************************************************************)
(* Finite sets of naturals have a greatest element. *)
LEMMA MaxIs ==
  ASSUME NEW n \in Nat, NEW T \in SUBSET (0 .. n), T # {}
  PROVE  Max(T) \in T /\ \A x \in T : x <= Max(T)
<1> DEFINE U == {n - x : x \in T}
<1>1. U \in SUBSET Nat /\ U # {}
  <2>1. PICK e : e \in T
    OBVIOUS
  <2>2. n - e \in U
    BY <2>1
  <2>3. \A y \in T : n - y \in Nat
    OBVIOUS
  <2>4. QED
    BY <2>2, <2>3
<1>2. PICK u \in U : \A v \in U : u <= v
  <2> HIDE DEF U
  <2>1. QED
    BY <1>1, LeastNatural
<1>3. PICK x \in T : u = n - x
  OBVIOUS
<1>4. ASSUME NEW y \in T
      PROVE  x >= y
  <2>1. n - y \in U
    OBVIOUS
  <2>2. u <= n - y
    BY <1>2, <2>1
  <2>3. x \in Int /\ y \in Int
    OBVIOUS
  <2> HIDE DEF U
  <2>4. QED
    BY <1>3, <2>2, <2>3
<1>5. \E z \in T : \A y \in T : z >= y
  BY <1>4
<1>6. Max(T) \in T /\ \A y \in T : Max(T) >= y
  BY <1>5 DEF Max
<1>7. QED
  BY <1>6

LEMMA SignFacts ==
  ASSUME text \in Seq(Character), NEW s \in Signs
  PROVE  /\ Len(text) \in Nat /\ s \in 1 .. Len(text) /\ text[s] = "="
         /\ ValueStart(s) \in s + 1 .. Len(text) + 1
         /\ \A k \in s + 1 .. ValueStart(s) - 1 : text[k] = Blank
         /\ Behind(s) \in ValueStart(s) .. Len(text) + 1
         /\ \A k \in ValueStart(s) .. Behind(s) - 1 : text[k] \in DOMAIN Digit
<1>1. Len(text) \in Nat /\ DOMAIN text = 1 .. Len(text)
  BY LenProperties
<1>2. s \in 1 .. Len(text) /\ text[s] = "="
  BY <1>1 DEF Signs
<1>3. /\ ValueStart(s) \in s + 1 .. Len(text) + 1
      /\ \A k \in s + 1 .. ValueStart(s) - 1 : text[k] \in {Blank}
  <2>1. s + 1 \in 1 .. Len(text) + 1
    BY <1>1, <1>2
  <2>2. QED
    BY <1>1, <2>1, EndOfFacts DEF ValueStart
<1>4. /\ Behind(s) \in ValueStart(s) .. Len(text) + 1
      /\ \A k \in ValueStart(s) .. Behind(s) - 1 : text[k] \in DOMAIN Digit
  <2>1. ValueStart(s) \in 1 .. Len(text) + 1
    BY <1>1, <1>2, <1>3
  <2>2. QED
    BY <1>1, <2>1, EndOfFacts DEF Behind
<1>5. QED
  BY <1>1, <1>2, <1>3, <1>4

(* A value ends before the next sign. *)
LEMMA SignsApart ==
  ASSUME text \in Seq(Character), NEW q \in Signs, NEW s \in Signs, q < s
  PROVE  Behind(q) <= s
<1>1. /\ q \in Nat /\ s \in Nat /\ text[s] = "="
      /\ ValueStart(q) \in q + 1 .. Len(text) + 1
      /\ \A k \in q + 1 .. ValueStart(q) - 1 : text[k] = Blank
      /\ Behind(q) \in ValueStart(q) .. Len(text) + 1
      /\ \A k \in ValueStart(q) .. Behind(q) - 1 : text[k] \in {"0", "1", "7"}
      /\ Len(text) \in Nat
  BY SignFacts, Characters
<1>2. ValueStart(q) <= s
  <2>1. SUFFICES ASSUME ~ (ValueStart(q) <= s) PROVE FALSE
    OBVIOUS
  <2>2. s \in q + 1 .. ValueStart(q) - 1
    BY <1>1, <2>1
  <2>3. QED
    BY <1>1, <2>2, Characters
<1>3. SUFFICES ASSUME ~ (Behind(q) <= s) PROVE FALSE
  OBVIOUS
<1>4. s \in ValueStart(q) .. Behind(q) - 1
  BY <1>1, <1>2, <1>3
<1>5. QED
  BY <1>1, <1>4

LEMMA StartIs ==
  ASSUME text \in Seq(Character), NEW s \in Signs
  PROVE  /\ Start(s) \in 1 .. s
         /\ \A q \in Signs : q < s => Behind(q) <= Start(s)
         /\ Start(s) = 1 \/ \E q \in Signs : q < s /\ Start(s) = Behind(q)
<1> DEFINE T == {1} \cup {Behind(q) : q \in {q \in Signs : q < s}}
<1>1. s \in Nat /\ s >= 1
  BY SignFacts
<1>2. \A q \in Signs : q < s => Behind(q) \in 1 .. s
  <2>1. SUFFICES ASSUME NEW q \in Signs, q < s PROVE Behind(q) \in 1 .. s
    OBVIOUS
  <2>2. Behind(q) <= s /\ Behind(q) \in Nat /\ Behind(q) >= 1
    BY <2>1, SignFacts, SignsApart
  <2>3. QED
    BY <1>1, <2>2
<1>3. T \in SUBSET (0 .. s) /\ T # {} /\ T \subseteq 1 .. s
  BY <1>1, <1>2
<1>4. PICK m : m = Max(T)
  OBVIOUS
<1>5. m \in T /\ \A x \in T : x <= m
  <2> HIDE DEF T
  <2>1. QED
    BY <1>1, <1>3, <1>4, MaxIs
<1>6. Start(s) = m
  BY <1>4 DEF Start
<1>7. QED
  BY <1>2, <1>3, <1>5, <1>6

-----------------------------------------------------------------------------
SignsTo(m) == {s \in Signs : s <= m}
HeadsTo(m) == {NameOf(s) : s \in SignsTo(m)}
InTo(m) == UNION {NameOf(s) .. Behind(s) - 1 : s \in SignsTo(m)}
KeptTo(m) == {k \in 1 .. m : text[k] # Blank /\ k \notin InTo(m) \ HeadsTo(m)}
PlaceTo(m, k) == Cardinality({j \in KeptTo(m) : j <= k})

(* No sign was copied into the frame. *)
Clean == \A k \in DOMAIN base : base[k] # "="

(* The reference reads what was scanned as the scan did. *)
ReadInv ==
  Clean =>
    /\ \A s \in SignsTo(at) : /\ NameOf(s) \in Start(s) .. s - 1
                              /\ text[NameOf(s)] \in Letter
                              /\ Behind(s) <= at + 1
    /\ \A k \in 1 .. at : text[k] \in Letter => k \in InTo(at)

(* The rva that TakeRva takes is that of the next sign. *)
LEMMA TakesNextSign ==
  ASSUME ScanInv, Clean, ReadInv, TakeRva
  PROVE  /\ EqualsAt \in Signs /\ EqualsAt \notin SignsTo(at)
         /\ SignsTo(ValueEnd - 1) = SignsTo(at) \cup {EqualsAt}
         /\ SignsTo(EqualsAt - 1) = SignsTo(at)
         /\ Behind(EqualsAt) = ValueEnd
         /\ NameOf(EqualsAt) = at + 1 /\ Start(EqualsAt) <= at + 1
         /\ RvaOf(EqualsAt) = ThisRva /\ ThisRva \in Rva
<1>1. /\ text \in Seq(Character) /\ at \in Nat /\ Len(text) \in Nat /\ DOMAIN text = 1 .. Len(text)
  BY ScanTypes DEF ScanInv
<1>2. /\ text[at + 1] \in Letter
      /\ NameEnd \in at + 2 .. EqualsAt
      /\ \A k \in at + 1 .. NameEnd - 1 : text[k] \in Alnums
      /\ EqualsAt \in at + 2 .. Len(text)
      /\ text[EqualsAt] = "="
      /\ ValueAt \in EqualsAt + 1 .. Len(text)
      /\ ValueEnd \in ValueAt + 1 .. Len(text) + 1
      /\ \A k \in ValueAt .. ValueEnd - 1 : text[k] \in DOMAIN Digit
      /\ \A k \in at + 1 .. ValueEnd - 1 : text[k] = "=" <=> k = EqualsAt
  BY RvaPlaces
<1>3. PICK s : s = EqualsAt
  OBVIOUS
<1>4. s \in Signs /\ s \in Nat /\ s >= at + 2
  BY <1>1, <1>2, <1>3 DEF Signs
<1>5. ValueStart(s) = ValueAt /\ Behind(s) = ValueEnd
  BY <1>3 DEF ValueStart, Behind, ValueAt, ValueEnd
<1>6. ASSUME NEW q \in Signs
      PROVE  /\ q \in Nat
             /\ q <= ValueEnd - 1 <=> q <= at \/ q = s
             /\ q <= s - 1 <=> q <= at
  <2>1. q \in Nat /\ text[q] = "="
    BY <1>1, SignFacts
  <2>2. ~ (q <= at) /\ q <= ValueEnd - 1 => q = s
    BY <1>1, <1>2, <1>3, <2>1
  <2>3. s \in Nat /\ ValueEnd \in Nat /\ s <= ValueEnd - 1
    BY <1>1, <1>2, <1>3
  <2>4. QED
    BY <1>1, <1>4, <2>1, <2>2, <2>3
<1>7. /\ SignsTo(ValueEnd - 1) = SignsTo(at) \cup {s}
      /\ SignsTo(s - 1) = SignsTo(at) /\ s \notin SignsTo(at)
  <2>1. s \notin SignsTo(at)
    BY <1>1, <1>4 DEF SignsTo
  <2>2. QED
    BY <1>4, <1>6, <2>1 DEF SignsTo
<1>8. /\ Start(s) \in 1 .. s
      /\ \A q \in Signs : q < s => Behind(q) <= Start(s)
      /\ Start(s) = 1 \/ \E q \in Signs : q < s /\ Start(s) = Behind(q)
  BY <1>1, <1>4, StartIs
<1>9. Start(s) <= at + 1
  <2>1. CASE Start(s) = 1
    BY <1>1, <2>1
  <2>2. ASSUME NEW q \in Signs, q < s, Start(s) = Behind(q)
        PROVE  Start(s) <= at + 1
    <3>1. q \in SignsTo(at)
      BY <1>4, <1>6, <2>2 DEF SignsTo
    <3>2. QED
      BY <2>2, <3>1 DEF ReadInv
  <2>3. QED
    BY <1>8, <2>1, <2>2
<1>10. NameOf(s) = at + 1
  <2> DEFINE T == {k \in Start(s) .. s - 1 : text[k] \in {"x", "y"}}
  <2>1. at + 1 \in T
    BY <1>1, <1>2, <1>4, <1>8, <1>9 DEF Letter
  <2>2. ASSUME NEW k \in T
        PROVE  at + 1 <= k
    <3>1. SUFFICES ASSUME ~ (at + 1 <= k) PROVE FALSE
      OBVIOUS
    <3>2. k \in 1 .. at /\ text[k] \in Letter /\ k >= Start(s)
      BY <1>1, <1>4, <1>8, <3>1 DEF Letter
    <3>3. k \in InTo(at)
      BY <3>2 DEF ReadInv
    <3>4. PICK q \in SignsTo(at) : k \in NameOf(q) .. Behind(q) - 1
      BY <3>3 DEF InTo
    <3>5. q \in Signs /\ q < s
      BY <1>1, <1>4, <1>6, <3>4 DEF SignsTo
    <3>6. Behind(q) <= Start(s) /\ Behind(q) \in Nat
      BY <1>1, <1>8, <3>5, SignFacts
    <3>7. QED
      BY <1>8, <3>2, <3>4, <3>6
  <2>3. \A x \in T : (\A y \in T : x <= y) => x = at + 1
    <3>1. SUFFICES ASSUME NEW x \in T, \A y \in T : x <= y PROVE x = at + 1
      OBVIOUS
    <3>2. x <= at + 1 /\ at + 1 <= x /\ x \in Int
      BY <1>4, <1>8, <2>1, <2>2, <3>1
    <3>3. QED
      BY <1>1, <3>2
  <2>4. Min(T) = at + 1
    <3> HIDE DEF T
    <3>1. QED
      BY <2>1, <2>2, <2>3 DEF Min
  <2>5. QED
    BY <2>4 DEF NameOf
<1>11. RvaOf(s) = ThisRva
  BY <1>5, <1>10 DEF RvaOf, ThisRva, NameEnd
<1>12. ThisRva \in Rva
  <2>1. SubSeq(text, at + 1, NameEnd - 1) \in Seq(Alnums)
    <3>1. at + 1 \in Int /\ NameEnd - 1 \in Int
      BY <1>1, <1>2
    <3>2. QED
      BY <1>2, <3>1, SubSeqProperties
  <2>2. SubSeq(text, ValueAt, ValueEnd - 1) \in Seq(DOMAIN Digit)
    <3>1. ValueAt \in Int /\ ValueEnd - 1 \in Int
      BY <1>1, <1>2
    <3>2. QED
      BY <1>2, <3>1, SubSeqProperties
  <2>3. Fits(Atoi(SubSeq(text, ValueAt, ValueEnd - 1)))
    BY <2>2, AtoiFits
  <2>4. QED
    BY <2>1, <2>3 DEF ThisRva, Rva, Fits
<1>13. QED
  BY <1>3, <1>4, <1>5, <1>7, <1>9, <1>10, <1>11, <1>12

(* The reference depends on the text only. *)
LEMMA TextKept ==
  ASSUME text' = text
  PROVE  /\ Signs' = Signs /\ Rvas' = Rvas /\ Narrow' = Narrow
         /\ \A s : /\ Start(s)' = Start(s) /\ Behind(s)' = Behind(s)
                   /\ NameOf(s)' = NameOf(s) /\ RvaOf(s)' = RvaOf(s)
<1>1. Signs' = Signs
  BY DEF Signs
<1>2. \A C, p : EndOf(C, p)' = EndOf(C, p)
  BY DEF EndOf
<1>3. \A s : ValueStart(s)' = ValueStart(s)
  BY <1>2 DEF ValueStart
<1>4. \A s : Behind(s)' = Behind(s)
  BY <1>2, <1>3 DEF Behind
<1>5. \A s : Start(s)' = Start(s)
  BY <1>1, <1>4 DEF Start
<1>6. \A s : NameOf(s)' = NameOf(s)
  BY <1>5 DEF NameOf
<1>7. \A s : RvaOf(s)' = RvaOf(s)
  BY <1>2, <1>3, <1>4, <1>6 DEF RvaOf
<1>8. Rvas' = Rvas
  BY <1>1, <1>7 DEF Rvas
<1>9. Narrow' = Narrow
  BY <1>8 DEF Narrow
<1>10. QED
  BY <1>1, <1>4, <1>5, <1>6, <1>7, <1>8, <1>9

RvasTo(m) == {RvaOf(s) : s \in SignsTo(m)}

(* The order holds the rvas scanned. *)
OrderInv ==
  Clean => order \in Seq(Entry) /\ Ascending(order) /\ RvasIn(order) = RvasTo(at)

(* Symbols and constants, copied or, if blank, dropped. *)
CopyStep ==
  /\ Scanning /\ c \notin Letter
  /\ text' = text /\ at' = at + 1 /\ order' = order /\ epos' = epos
  /\ base' = IF c = Blank THEN base ELSE Append(base, c)

LEMMA CopyFacts ==
  ASSUME ScanInv, CopyStep, Clean'
  PROVE  /\ Clean /\ text[at + 1] # "=" /\ text[at + 1] \notin Letter
         /\ at \in Nat /\ at + 1 \in 1 .. Len(text)
         /\ SignsTo(at + 1) = SignsTo(at)
<1>1. /\ text \in Seq(Character) /\ at \in Nat /\ at + 1 \in 1 .. Len(text) /\ Len(text) \in Nat
      /\ base \in Seq(Character) /\ Len(base) \in Nat /\ DOMAIN base = 1 .. Len(base)
  BY ScanTypes DEF ScanInv, CopyStep
<1>2. c = text[at + 1] /\ c \in Character
  BY <1>1, ElementOfSeq DEF c
<1> HIDE DEF c
<1>3. CASE c = Blank
  <2>1. Clean
    BY <1>3 DEF CopyStep, Clean
  <2>2. text[at + 1] # "="
    BY <1>2, <1>3, Characters
  <2>3. QED
    BY <1>1, <1>2, <2>1, <2>2, SignFacts DEF CopyStep, SignsTo
<1>4. CASE c # Blank
  <2>1. /\ base' \in Seq(Character) /\ Len(base') = Len(base) + 1
        /\ \A k \in 1 .. Len(base) : base'[k] = base[k]
        /\ base'[Len(base) + 1] = c
    BY <1>1, <1>2, <1>4, AppendProperties DEF CopyStep
  <2>2. DOMAIN base' = 1 .. Len(base) + 1
    BY <2>1, LenProperties
  <2>3. \A k \in 1 .. Len(base) + 1 : base'[k] # "="
    BY <2>2 DEF Clean
  <2>4. Clean /\ c # "="
    <3>1. \A k \in 1 .. Len(base) : k \in 1 .. Len(base) + 1
      BY <1>1
    <3>2. Len(base) + 1 \in 1 .. Len(base) + 1
      BY <1>1
    <3>3. QED
      BY <1>1, <2>1, <2>3, <3>1, <3>2 DEF Clean
  <2>5. QED
    BY <1>1, <1>2, <2>4, SignFacts DEF CopyStep, SignsTo
<1>5. QED
  BY <1>3, <1>4

LEMMA CopyKeepsReading ==
  ASSUME ScanInv, ReadInv, OrderInv, CopyStep
  PROVE  ReadInv' /\ OrderInv'
<1>1. SUFFICES ASSUME Clean' PROVE ReadInv' /\ OrderInv'
  BY DEF ReadInv, OrderInv
<1>2. /\ Clean /\ text[at + 1] \notin Letter /\ at \in Nat /\ SignsTo(at + 1) = SignsTo(at)
  BY <1>1, CopyFacts
<1>3. text' = text /\ at' = at + 1 /\ order' = order
  BY DEF CopyStep
<1>4. /\ Signs' = Signs /\ Narrow' = Narrow
      /\ \A s : /\ Start(s)' = Start(s) /\ Behind(s)' = Behind(s)
                /\ NameOf(s)' = NameOf(s) /\ RvaOf(s)' = RvaOf(s)
  BY <1>3, TextKept
<1>5. SignsTo(at)' = SignsTo(at)
  BY <1>2, <1>3, <1>4 DEF SignsTo
<1>6. InTo(at)' = InTo(at)
  BY <1>4, <1>5 DEF InTo
<1>7. /\ \A s \in SignsTo(at) : /\ NameOf(s) \in Start(s) .. s - 1
                                /\ text[NameOf(s)] \in Letter
                                /\ Behind(s) <= at + 1 /\ s \in Signs
      /\ \A k \in 1 .. at : text[k] \in Letter => k \in InTo(at)
  BY <1>2 DEF ReadInv, SignsTo
<1>8. ReadInv'
  <2>1. ASSUME NEW s \in SignsTo(at)
        PROVE  Behind(s) <= at + 1 + 1
    <3>1. Behind(s) \in Int /\ Behind(s) <= at + 1
      BY <1>7, SignFacts DEF ScanInv
    <3>2. QED
      BY <1>2, <3>1
  <2>2. \A k \in 1 .. at + 1 : text[k] \in Letter => k \in InTo(at)
    BY <1>2, <1>7
  <2>3. QED
    BY <1>3, <1>4, <1>5, <1>6, <1>7, <2>1, <2>2 DEF ReadInv
<1>9. OrderInv'
  <2>1. RvasTo(at)' = RvasTo(at)
    BY <1>4, <1>5 DEF RvasTo
  <2>2. Ascending(order)' <=> Ascending(order)
    BY <1>3, <1>4 DEF Ascending
  <2>3. RvasIn(order)' = RvasIn(order)
    BY <1>3 DEF RvasIn
  <2>4. QED
    BY <1>2, <1>3, <2>1, <2>2, <2>3 DEF OrderInv
<1>10. QED
  BY <1>8, <1>9

(* What TakeRva adds. *)
LEMMA TakeFacts ==
  ASSUME ScanInv, ReadInv, OrderInv, TakeRva, Clean'
  PROVE  \E rl, s :
           /\ rl \in Entry
           /\ Clean
           /\ s = Search(ThisRva) /\ Stops(s, ThisRva)
           /\ rl.rva = ThisRva /\ rl.loc = Len(epos) % LocptrMod
           /\ order' = OrderWith(s, rl)
           /\ epos' = Append(epos, [pos  |-> Len(base) % LocptrMod,
                                    next |-> IF s.found THEN order[s.at].loc ELSE LocEmpty])
           /\ base' = Append(base, "1")
           /\ text' = text /\ at' = ValueEnd - 1
<1>1. /\ base \in Seq(Character) /\ Len(base) \in Nat /\ DOMAIN base = 1 .. Len(base)
      /\ base' = Append(base, "1")
      /\ Len(epos) \in Nat
  BY ScanTypes DEF ScanInv, TakeRva, Added
<1>2. Clean
  <2>1. /\ base' \in Seq(Character) /\ Len(base') = Len(base) + 1
        /\ \A k \in 1 .. Len(base) : base'[k] = base[k]
    BY <1>1, AppendProperties, Characters
  <2>2. DOMAIN base' = 1 .. Len(base) + 1
    BY <2>1, LenProperties
  <2>3. \A k \in 1 .. Len(base) : k \in DOMAIN base'
    BY <1>1, <2>2
  <2>4. QED
    BY <1>1, <2>1, <2>3 DEF Clean
<1>3. ThisRva \in Rva
  BY <1>2, TakesNextSign
<1>4. PICK rl : rl = [rva |-> ThisRva, loc |-> Len(epos) % LocptrMod]
  OBVIOUS
<1>5. rl \in Entry /\ rl.rva = ThisRva /\ rl.loc = Len(epos) % LocptrMod
  <2>1. Len(epos) % LocptrMod \in Nat
    BY <1>1, WidthAssumption
  <2>2. QED
    BY <1>3, <1>4, <2>1 DEF Entry
<1>6. PICK s : s = Search(ThisRva)
  OBVIOUS
<1>7. Stops(s, ThisRva)
  <2>1. Len(order) \in Nat
    BY <1>2, LenProperties DEF OrderInv
  <2>2. QED
    BY <1>6, <2>1, SearchStops
<1>8. order' = OrderWith(s, rl)
  BY <1>4, <1>6 DEF TakeRva, Added, OrderWith
<1>9. epos' = Append(epos, [pos  |-> Len(base) % LocptrMod,
                            next |-> IF s.found THEN order[s.at].loc ELSE LocEmpty])
  BY <1>6 DEF TakeRva, Added
<1>10. text' = text /\ at' = ValueEnd - 1
  BY DEF TakeRva
<1>11. QED
  BY <1>1, <1>2, <1>5, <1>6, <1>7, <1>8, <1>9, <1>10

LEMMA TakeKeepsReading ==
  ASSUME ScanInv, ReadInv, OrderInv, TakeRva
  PROVE  ReadInv' /\ OrderInv'
<1>1. SUFFICES ASSUME Clean' PROVE ReadInv' /\ OrderInv'
  BY DEF ReadInv, OrderInv
<1>2. PICK rl, s :
           /\ rl \in Entry
           /\ Clean
           /\ Stops(s, ThisRva)
           /\ rl.rva = ThisRva
           /\ order' = OrderWith(s, rl)
           /\ text' = text /\ at' = ValueEnd - 1
  BY <1>1, TakeFacts
<1>3. /\ text \in Seq(Character) /\ at \in Nat /\ Len(text) \in Nat
  BY ScanTypes DEF ScanInv
<1>4. PICK e, v : e = EqualsAt /\ v = ValueEnd
  OBVIOUS
<1>5. /\ e \in Signs /\ e \notin SignsTo(at)
      /\ SignsTo(v - 1) = SignsTo(at) \cup {e}
      /\ Behind(e) = v
      /\ NameOf(e) = at + 1 /\ Start(e) <= at + 1
      /\ RvaOf(e) = ThisRva /\ ThisRva \in Rva
  BY <1>2, <1>4, TakesNextSign
<1>6. /\ text[at + 1] \in Letter
      /\ e \in at + 2 .. Len(text) /\ v \in e + 2 .. Len(text) + 1
  <2>1. /\ text[at + 1] \in Letter /\ e \in at + 2 .. Len(text)
        /\ ValueAt \in e + 1 .. Len(text) /\ v \in ValueAt + 1 .. Len(text) + 1
    BY <1>4, RvaPlaces
  <2>2. QED
    BY <1>3, <2>1
<1>7. /\ Signs' = Signs /\ Rvas' = Rvas /\ Narrow' = Narrow
      /\ \A q : /\ Start(q)' = Start(q) /\ Behind(q)' = Behind(q)
                /\ NameOf(q)' = NameOf(q) /\ RvaOf(q)' = RvaOf(q)
  BY <1>2, TextKept
<1>8. SignsTo(at)' = SignsTo(at) \cup {e}
  <2>1. SignsTo(at)' = SignsTo(v - 1)
    BY <1>2, <1>4, <1>7 DEF SignsTo
  <2>2. QED
    BY <1>5, <2>1
<1>9. ReadInv'
  <2>1. Start(e) \in 1 .. e
    BY <1>3, <1>5, StartIs
  <2>2. ASSUME NEW q \in SignsTo(at)
        PROVE  NameOf(q) \in Start(q) .. q - 1 /\ text[NameOf(q)] \in Letter /\ Behind(q) <= v
    <3>1. NameOf(q) \in Start(q) .. q - 1 /\ text[NameOf(q)] \in Letter /\ Behind(q) <= at + 1
      BY <1>2 DEF ReadInv
    <3>2. Behind(q) \in Int
      BY <1>3, SignFacts DEF SignsTo
    <3>3. QED
      BY <1>3, <1>6, <3>1, <3>2
  <2>3. NameOf(e) \in Start(e) .. e - 1 /\ text[NameOf(e)] \in Letter /\ Behind(e) <= v
    BY <1>3, <1>5, <1>6, <2>1
  <2>4. \A q \in SignsTo(at)' : /\ NameOf(q) \in Start(q) .. q - 1 /\ text[NameOf(q)] \in Letter
                                /\ Behind(q) <= v
    BY <1>8, <2>2, <2>3
  <2>5. InTo(at)' = InTo(at) \cup (at + 1 .. v - 1)
    <3>1. InTo(at)' = UNION {NameOf(q) .. Behind(q) - 1 : q \in SignsTo(at) \cup {e}}
      BY <1>7, <1>8 DEF InTo
    <3>2. QED
      BY <1>5, <3>1 DEF InTo
  <2>6. ASSUME NEW k \in 1 .. v - 1, text[k] \in Letter
        PROVE  k \in InTo(at)'
    <3>1. CASE k \in 1 .. at
      BY <1>2, <2>5, <2>6, <3>1 DEF ReadInv
    <3>2. CASE k \in at + 1 .. v - 1
      BY <2>5, <3>2
    <3>3. QED
      BY <1>3, <1>6, <3>1, <3>2
  <2>7. at' = v - 1 /\ at' + 1 = v
    BY <1>2, <1>3, <1>4, <1>6
  <2>8. QED
    BY <1>2, <1>7, <2>4, <2>6, <2>7 DEF ReadInv
<1>10. OrderInv'
  <2>1. order \in Seq(Entry) /\ Ascending(order) /\ RvasIn(order) = RvasTo(at)
    BY <1>2 DEF OrderInv
  <2>2. RvasTo(at) \subseteq Rvas /\ rl.rva \in Rvas
    BY <1>2, <1>5 DEF RvasTo, Rvas, SignsTo
  <2>3. PICK o : o = OrderWith(s, rl) /\ order' = o
    BY <1>2
  <2>4. o \in Seq(Entry) /\ Ascending(o) /\ RvasIn(o) = RvasIn(order) \cup {rl.rva}
    <3>1. rl \in Entry /\ Stops(s, rl.rva) /\ RvasIn(order) \subseteq Rvas
      BY <1>2, <2>1, <2>2
    <3>2. QED
      BY <2>1, <2>2, <2>3, <3>1, OrderExtends
  <2>5. RvasTo(at)' = RvasTo(at) \cup {ThisRva}
    <3>1. RvasTo(at)' = {RvaOf(q) : q \in SignsTo(at) \cup {e}}
      BY <1>7, <1>8 DEF RvasTo
    <3>2. QED
      BY <1>5, <3>1 DEF RvasTo
  <2>6. Ascending(order)' <=> Ascending(o)
    BY <1>7, <2>3 DEF Ascending
  <2>7. RvasIn(order)' = RvasIn(o)
    BY <2>3 DEF RvasIn
  <2>8. QED
    BY <1>2, <2>1, <2>3, <2>4, <2>5, <2>6, <2>7 DEF OrderInv
<1>11. QED
  BY <1>9, <1>10

-----------------------------------------------------------------------------
(***************************************************************************)
(* The frame: where a character kept has its place in it.                   *)
(***************************************************************************)
(* A greater element added to a set of numbers moves no other. *)
Grown(K, x) ==
  /\ Cardinality(K) \in Nat
  /\ Cardinality(K \cup {x}) = Cardinality(K) + 1
  /\ \A k \in K : /\ {j \in K \cup {x} : j <= k} = {j \in K : j <= k}
                  /\ Cardinality({j \in K : j <= k}) \in 1 .. Cardinality(K)
  /\ {j \in K \cup {x} : j <= x} = K \cup {x}

LEMMA PlacesGrow ==
  ASSUME NEW m \in Nat, NEW K \in SUBSET (1 .. m), NEW x \in Nat, x > m
  PROVE  Grown(K, x)
<1>1. IsFiniteSet(K)
  <2>1. IsFiniteSet(1 .. m)
    BY FS_Interval
  <2>2. QED
    BY <2>1, FS_Subset
<1>2. Cardinality(K) \in Nat /\ Cardinality(K \cup {x}) = Cardinality(K) + 1
  <2>1. x \notin K
    OBVIOUS
  <2>2. QED
    BY <1>1, <2>1, FS_CardinalityType, FS_AddElement
<1>3. ASSUME NEW k \in K
      PROVE  /\ {j \in K \cup {x} : j <= k} = {j \in K : j <= k}
             /\ Cardinality({j \in K : j <= k}) \in 1 .. Cardinality(K)
  <2>1. {j \in K : j <= k} \in SUBSET K /\ k \in {j \in K : j <= k}
    OBVIOUS
  <2>2. PICK L : L = {j \in K : j <= k}
    OBVIOUS
  <2>3. IsFiniteSet(L) /\ Cardinality(L) <= Cardinality(K) /\ Cardinality(L) \in Nat
    BY <1>1, <2>1, <2>2, FS_Subset, FS_CardinalityType
  <2>4. Cardinality(L) # 0
    BY <2>1, <2>2, <2>3, FS_EmptySet
  <2>5. Cardinality(L) \in 1 .. Cardinality(K)
    BY <1>2, <2>3, <2>4
  <2>6. \A j \in K \cup {x} : j <= k <=> j \in K /\ j <= k
    OBVIOUS
  <2>7. QED
    BY <2>2, <2>5, <2>6
<1>4. {j \in K \cup {x} : j <= x} = K \cup {x}
  <2>1. \A j \in K \cup {x} : j <= x
    OBVIOUS
  <2>2. QED
    BY <2>1
<1>5. QED
  BY <1>2, <1>3, <1>4 DEF Grown

LEMMA PlacesIn ==
  ASSUME NEW m \in Nat
  PROVE  /\ KeptTo(m) \in SUBSET (1 .. m) /\ Cardinality(KeptTo(m)) \in Nat
         /\ \A k \in KeptTo(m) : PlaceTo(m, k) \in 1 .. Cardinality(KeptTo(m))
<1>1. KeptTo(m) \in SUBSET (1 .. m)
  BY DEF KeptTo
<1>2. m + 1 \in Nat /\ m + 1 > m
  OBVIOUS
<1>3. PICK K : K = KeptTo(m)
  OBVIOUS
<1>4. /\ Cardinality(K) \in Nat
      /\ \A k \in K : Cardinality({j \in K : j <= k}) \in 1 .. Cardinality(K)
  <2>1. Grown(K, m + 1)
    BY <1>1, <1>2, <1>3, PlacesGrow
  <2>2. QED
    BY <2>1 DEF Grown
<1>5. QED
  BY <1>1, <1>3, <1>4 DEF PlaceTo

(* No two characters kept have the same place. *)
LEMMA PlacesDiffer ==
  ASSUME NEW m \in Nat, NEW j \in KeptTo(m), NEW k \in KeptTo(m), j < k
  PROVE  PlaceTo(m, j) < PlaceTo(m, k)
<1> DEFINE J == {i \in KeptTo(m) : i <= j}
           K == {i \in KeptTo(m) : i <= k}
<1>1. KeptTo(m) \in SUBSET (1 .. m)
  BY DEF KeptTo
<1>2. J \in SUBSET K /\ k \in K /\ k \notin J /\ K \in SUBSET (1 .. m)
  BY <1>1
<1>3. IsFiniteSet(K) /\ IsFiniteSet(J)
  <2> HIDE DEF J, K
  <2>0. IsFiniteSet(1 .. m)
    BY FS_Interval
  <2>1. IsFiniteSet(K)
    BY <1>2, <2>0, FS_Subset
  <2>2. QED
    BY <1>2, <2>1, FS_Subset
<1>4. Cardinality(J) <= Cardinality(K) /\ Cardinality(J) # Cardinality(K)
      /\ Cardinality(J) \in Nat /\ Cardinality(K) \in Nat
  <2> HIDE DEF J, K
  <2>1. J # K
    BY <1>2
  <2>2. QED
    BY <1>2, <1>3, <2>1, FS_Subset, FS_CardinalityType
<1>5. Cardinality(J) < Cardinality(K)
  <2> HIDE DEF J, K
  <2>1. QED
    BY <1>4
<1>6. QED
  BY <1>5 DEF PlaceTo

(* The frame: what is kept of the text scanned, each rva as a 1. *)
BaseInv ==
  Clean =>
    /\ Cardinality(KeptTo(at)) = Len(base)
    /\ \A k \in KeptTo(at) :
         base[PlaceTo(at, k)] = IF k \in HeadsTo(at) THEN "1" ELSE text[k]
    /\ Len(epos) <= Len(base)
    /\ Len(epos) = Len(base) => \A j \in 1 .. Len(base) : base[j] = "1"

LEMMA PlacesStep ==
  ASSUME at \in Nat, NEW x, x = at + 1, KeptTo(at)' = KeptTo(at) \cup {x}
  PROVE  /\ Cardinality(KeptTo(at))' = Cardinality(KeptTo(at)) + 1
         /\ \A k \in KeptTo(at) : /\ PlaceTo(at, k)' = PlaceTo(at, k)
                                  /\ PlaceTo(at, k) \in 1 .. Cardinality(KeptTo(at))
         /\ PlaceTo(at, x)' = Cardinality(KeptTo(at)) + 1
<1>1. KeptTo(at) \in SUBSET (1 .. at) /\ x \in Nat /\ x > at
  BY DEF KeptTo
<1>2. PICK K : K = KeptTo(at)
  OBVIOUS
<1>3. /\ Cardinality(K \cup {x}) = Cardinality(K) + 1
      /\ \A k \in K : /\ {j \in K \cup {x} : j <= k} = {j \in K : j <= k}
                      /\ Cardinality({j \in K : j <= k}) \in 1 .. Cardinality(K)
      /\ {j \in K \cup {x} : j <= x} = K \cup {x}
  <2>1. PICK m \in Nat : m = at
    OBVIOUS
  <2>2. K \in SUBSET (1 .. m) /\ x \in Nat /\ x > m
    BY <1>1, <1>2, <2>1
  <2>3. Grown(K, x)
    BY <2>2, PlacesGrow
  <2>4. QED
    BY <2>3 DEF Grown
<1>4. \A k : /\ PlaceTo(at, k) = Cardinality({j \in K : j <= k})
             /\ PlaceTo(at, k)' = Cardinality({j \in K \cup {x} : j <= k})
  BY <1>2 DEF PlaceTo
<1>5. PlaceTo(at, x)' = Cardinality({j \in K \cup {x} : j <= x})
  BY <1>2 DEF PlaceTo
<1>6. KeptTo(at)' = K \cup {x}
  BY <1>2
<1>7. Cardinality(KeptTo(at))' = Cardinality(KeptTo(at)) + 1
  BY <1>2, <1>3, <1>6
<1>8. ASSUME NEW k \in KeptTo(at)
      PROVE  PlaceTo(at, k)' = PlaceTo(at, k) /\ PlaceTo(at, k) \in 1 .. Cardinality(KeptTo(at))
  <2>1. k \in K
    BY <1>2
  <2>2. /\ PlaceTo(at, k) = Cardinality({j \in K : j <= k})
        /\ PlaceTo(at, k)' = Cardinality({j \in K \cup {x} : j <= k})
    BY <1>4
  <2>3. /\ {j \in K \cup {x} : j <= k} = {j \in K : j <= k}
        /\ Cardinality({j \in K : j <= k}) \in 1 .. Cardinality(K)
    BY <1>3, <2>1
  <2>4. PlaceTo(at, k)' = PlaceTo(at, k)
    BY <2>2, <2>3
  <2>5. PlaceTo(at, k) \in 1 .. Cardinality(KeptTo(at))
    BY <1>2, <2>2, <2>3
  <2>6. QED
    BY <2>4, <2>5
<1>9. PlaceTo(at, x)' = Cardinality(KeptTo(at)) + 1
  BY <1>2, <1>3, <1>5
<1>10. QED
  BY <1>7, <1>8, <1>9

LEMMA InsideTo ==
  ASSUME ScanInv, ReadInv, Clean
  PROVE  /\ at \in Nat
         /\ InTo(at) \in SUBSET (1 .. at)
         /\ HeadsTo(at) \in SUBSET KeptTo(at) /\ HeadsTo(at) \in SUBSET InTo(at)
<1>1. text \in Seq(Character) /\ at \in Nat
  BY ScanTypes DEF ScanInv
<1>2. ASSUME NEW q \in SignsTo(at)
      PROVE  /\ NameOf(q) \in 1 .. at /\ text[NameOf(q)] # Blank
             /\ Behind(q) \in NameOf(q) + 1 .. at + 1
  <2>1. /\ NameOf(q) \in Start(q) .. q - 1 /\ text[NameOf(q)] \in Letter
        /\ Behind(q) <= at + 1 /\ q \in Signs /\ q <= at
    BY DEF ReadInv, SignsTo
  <2>2. Start(q) \in 1 .. q /\ q \in Nat
    BY <1>1, <2>1, StartIs, SignFacts
  <2>3. Behind(q) \in Int /\ Behind(q) > q
    BY <1>1, <2>1, SignFacts
  <2>4. text[NameOf(q)] # Blank
    BY <2>1 DEF Letter, Blank
  <2>5. QED
    BY <1>1, <2>1, <2>2, <2>3, <2>4
<1>3. InTo(at) \in SUBSET (1 .. at) /\ HeadsTo(at) \in SUBSET InTo(at)
  <2>1. \A q \in SignsTo(at) : /\ NameOf(q) .. Behind(q) - 1 \subseteq 1 .. at
                               /\ NameOf(q) \in NameOf(q) .. Behind(q) - 1
    BY <1>1, <1>2
  <2>2. QED
    BY <2>1 DEF InTo, HeadsTo
<1>4. HeadsTo(at) \in SUBSET KeptTo(at)
  <2>1. \A k \in HeadsTo(at) : k \in 1 .. at /\ text[k] # Blank
    BY <1>2 DEF HeadsTo
  <2>2. QED
    BY <2>1 DEF KeptTo
<1>5. QED
  BY <1>1, <1>3, <1>4

(* A character copied is kept. *)
LEMMA CopyKeeps ==
  ASSUME ScanInv, ReadInv, CopyStep, Clean'
  PROVE  /\ SignsTo(at)' = SignsTo(at) /\ HeadsTo(at)' = HeadsTo(at)
         /\ KeptTo(at)' = IF c = Blank THEN KeptTo(at) ELSE KeptTo(at) \cup {at + 1}
<1>1. /\ Clean /\ at \in Nat /\ at + 1 \in 1 .. Len(text) /\ SignsTo(at + 1) = SignsTo(at)
      /\ text' = text /\ at' = at + 1 /\ c = text[at + 1]
  BY CopyFacts DEF CopyStep, c
<1>2. /\ Signs' = Signs
      /\ \A s : Behind(s)' = Behind(s) /\ NameOf(s)' = NameOf(s)
  BY <1>1, TextKept
<1>3. SignsTo(at)' = SignsTo(at)
  BY <1>1, <1>2 DEF SignsTo
<1>4. InTo(at)' = InTo(at) /\ HeadsTo(at)' = HeadsTo(at)
  BY <1>2, <1>3 DEF InTo, HeadsTo
<1>5. at + 1 \notin InTo(at)
  BY <1>1, InsideTo
<1>6. KeptTo(at)' = {k \in 1 .. at + 1 : text[k] # Blank /\ k \notin InTo(at) \ HeadsTo(at)}
  BY <1>1, <1>4 DEF KeptTo
<1>7. KeptTo(at)' = IF c = Blank THEN KeptTo(at) ELSE KeptTo(at) \cup {at + 1}
  <2>1. 1 .. at + 1 = (1 .. at) \cup {at + 1}
    BY <1>1
  <2>2. QED
    BY <1>1, <1>5, <1>6, <2>1 DEF KeptTo
<1>8. QED
  BY <1>3, <1>4, <1>7

LEMMA CopyKeepsBase ==
  ASSUME ScanInv, ReadInv, BaseInv, CopyStep
  PROVE  BaseInv'
<1>1. SUFFICES ASSUME Clean' PROVE BaseInv'
  BY DEF BaseInv
<1>2. /\ HeadsTo(at)' = HeadsTo(at)
      /\ KeptTo(at)' = IF c = Blank THEN KeptTo(at) ELSE KeptTo(at) \cup {at + 1}
  BY <1>1, CopyKeeps
<1>3. /\ Clean /\ at \in Nat /\ text' = text /\ epos' = epos /\ c = text[at + 1]
  BY <1>1, CopyFacts DEF CopyStep, c
<1>4. /\ Cardinality(KeptTo(at)) = Len(base)
      /\ \A k \in KeptTo(at) :
           base[PlaceTo(at, k)] = IF k \in HeadsTo(at) THEN "1" ELSE text[k]
      /\ Len(epos) <= Len(base)
      /\ Len(epos) = Len(base) => \A j \in 1 .. Len(base) : base[j] = "1"
  BY <1>3 DEF BaseInv
<1>5. CASE c = Blank
  <2>1. base' = base /\ KeptTo(at)' = KeptTo(at)
    BY <1>2, <1>5 DEF CopyStep
  <2>2. \A k : PlaceTo(at, k)' = PlaceTo(at, k)
    BY <2>1 DEF PlaceTo
  <2>3. QED
    BY <1>2, <1>3, <1>4, <2>1, <2>2 DEF BaseInv
<1>6. CASE c # Blank
  <2>1. KeptTo(at)' = KeptTo(at) \cup {at + 1} /\ base' = Append(base, c)
    BY <1>2, <1>6 DEF CopyStep
  <2>2. /\ Cardinality(KeptTo(at))' = Len(base) + 1
        /\ \A k \in KeptTo(at) : PlaceTo(at, k)' = PlaceTo(at, k) /\ PlaceTo(at, k) \in 1 .. Len(base)
        /\ \A k : k = at + 1 => PlaceTo(at, k)' = Len(base) + 1
    BY <1>3, <1>4, <2>1, PlacesStep
  <2>3. /\ Len(base) \in Nat /\ Len(epos) \in Nat /\ base \in Seq(Character) /\ c \in Character
    <3>1. text \in Seq(Character) /\ at + 1 \in 1 .. Len(text)
      BY ScanTypes DEF ScanInv, CopyStep
    <3>2. QED
      BY <1>3, <3>1, ElementOfSeq, ScanTypes DEF ScanInv
  <2>4. /\ Len(base') = Len(base) + 1
        /\ \A k \in 1 .. Len(base) : base'[k] = base[k]
        /\ base'[Len(base) + 1] = text[at + 1]
    BY <1>3, <2>1, <2>3, AppendProperties
  <2>5. at + 1 \notin HeadsTo(at)
    BY <1>3, InsideTo
  <2>6. ASSUME NEW k \in KeptTo(at)'
        PROVE  base'[PlaceTo(at, k)'] = IF k \in HeadsTo(at)' THEN "1" ELSE text'[k]
    <3>1. CASE k \in KeptTo(at)
      BY <1>2, <1>3, <1>4, <2>2, <2>4, <3>1
    <3>2. CASE k = at + 1
      <4>1. PlaceTo(at, k)' = Len(base) + 1
        BY <2>2, <3>2
      <4>2. QED
        BY <1>2, <1>3, <2>4, <2>5, <3>2, <4>1
    <3>3. QED
      BY <2>1, <3>1, <3>2
  <2>7. Len(epos') <= Len(base') /\ Len(epos') # Len(base')
    BY <1>3, <1>4, <2>3, <2>4
  <2>8. QED
    BY <2>2, <2>4, <2>6, <2>7 DEF BaseInv
<1>7. QED
  BY <1>5, <1>6

(* Of an rva taken only the first character is kept. *)
LEMMA TakeKeeps ==
  ASSUME ScanInv, ReadInv, OrderInv, TakeRva, Clean'
  PROVE  /\ Clean /\ at \in Nat /\ text[at + 1] # Blank
         /\ SignsTo(at)' = SignsTo(at) \cup {EqualsAt}
         /\ HeadsTo(at)' = HeadsTo(at) \cup {at + 1}
         /\ KeptTo(at)' = KeptTo(at) \cup {at + 1}
<1>1. /\ Clean /\ text' = text /\ at' = ValueEnd - 1
  BY TakeFacts
<1>2. PICK e, v : e = EqualsAt /\ v = ValueEnd
  OBVIOUS
<1>3. /\ SignsTo(v - 1) = SignsTo(at) \cup {e}
      /\ Behind(e) = v /\ NameOf(e) = at + 1
  BY <1>1, <1>2, TakesNextSign
<1>4. /\ text[at + 1] \in Letter /\ at \in Nat
      /\ e \in at + 2 .. Len(text) /\ v \in e + 2 .. Len(text) + 1 /\ Len(text) \in Nat
  <2>1. /\ text[at + 1] \in Letter /\ e \in at + 2 .. Len(text)
        /\ ValueAt \in e + 1 .. Len(text) /\ v \in ValueAt + 1 .. Len(text) + 1
    BY <1>2, RvaPlaces
  <2>2. at \in Nat /\ Len(text) \in Nat
    BY ScanTypes
  <2>3. QED
    BY <2>1, <2>2
<1>5. /\ Signs' = Signs
      /\ \A q : Behind(q)' = Behind(q) /\ NameOf(q)' = NameOf(q)
  BY <1>1, TextKept
<1>6. SignsTo(at)' = SignsTo(at) \cup {e}
  <2>1. SignsTo(at)' = SignsTo(v - 1)
    BY <1>1, <1>2, <1>5 DEF SignsTo
  <2>2. QED
    BY <1>3, <2>1
<1>7. HeadsTo(at)' = HeadsTo(at) \cup {at + 1}
  <2>1. HeadsTo(at)' = {NameOf(q) : q \in SignsTo(at) \cup {e}}
    BY <1>5, <1>6 DEF HeadsTo
  <2>2. QED
    BY <1>3, <2>1 DEF HeadsTo
<1>8. InTo(at)' = InTo(at) \cup (at + 1 .. v - 1)
  <2>1. InTo(at)' = UNION {NameOf(q) .. Behind(q) - 1 : q \in SignsTo(at) \cup {e}}
    BY <1>5, <1>6 DEF InTo
  <2>2. QED
    BY <1>3, <2>1 DEF InTo
<1>9. text[at + 1] # Blank
  BY <1>4 DEF Letter, Blank
<1>10. KeptTo(at)' = KeptTo(at) \cup {at + 1}
  <2>1. KeptTo(at)' = {k \in 1 .. v - 1 : /\ text[k] # Blank
                                          /\ k \notin (InTo(at) \cup (at + 1 .. v - 1))
                                                        \ (HeadsTo(at) \cup {at + 1})}
    BY <1>1, <1>2, <1>7, <1>8 DEF KeptTo
  <2>2. InTo(at) \in SUBSET (1 .. at) /\ HeadsTo(at) \in SUBSET (1 .. at)
    BY <1>1, InsideTo
  <2>3. ASSUME NEW k \in 1 .. at
        PROVE  k \in 1 .. v - 1 /\ k \notin at + 1 .. v - 1 /\ k # at + 1
    BY <1>4
  <2>4. at + 1 \in 1 .. v - 1 /\ at + 1 \notin 1 .. at
    BY <1>4
  <2>5. ASSUME NEW k \in 1 .. v - 1, k \notin 1 .. at
        PROVE  k \in at + 1 .. v - 1 /\ k \notin HeadsTo(at)
    <3>1. k \in at + 1 .. v - 1
      BY <1>4, <2>5
    <3>2. QED
      BY <2>2, <2>5, <3>1
  <2>6. \A k : k \in KeptTo(at)' <=> k \in KeptTo(at) \/ k = at + 1
    BY <1>9, <2>1, <2>3, <2>4, <2>5 DEF KeptTo
  <2>7. QED
    BY <2>6
<1>11. QED
  BY <1>1, <1>2, <1>4, <1>6, <1>7, <1>9, <1>10

LEMMA TakeKeepsBase ==
  ASSUME ScanInv, ReadInv, OrderInv, BaseInv, TakeRva
  PROVE  BaseInv'
<1>1. SUFFICES ASSUME Clean' PROVE BaseInv'
  BY DEF BaseInv
<1>2. PICK x : x = at + 1
  OBVIOUS
<1>3. /\ Clean /\ at \in Nat
      /\ HeadsTo(at)' = HeadsTo(at) \cup {x}
      /\ KeptTo(at)' = KeptTo(at) \cup {x}
  BY <1>1, <1>2, TakeKeeps
<1>4. /\ Cardinality(KeptTo(at)) = Len(base)
      /\ \A k \in KeptTo(at) :
           base[PlaceTo(at, k)] = IF k \in HeadsTo(at) THEN "1" ELSE text[k]
      /\ Len(epos) <= Len(base)
      /\ Len(epos) = Len(base) => \A j \in 1 .. Len(base) : base[j] = "1"
  BY <1>3 DEF BaseInv
<1>5. /\ Cardinality(KeptTo(at))' = Len(base) + 1
      /\ \A k \in KeptTo(at) : PlaceTo(at, k)' = PlaceTo(at, k) /\ PlaceTo(at, k) \in 1 .. Len(base)
      /\ PlaceTo(at, x)' = Len(base) + 1
  BY <1>2, <1>3, <1>4, PlacesStep
<1>6. /\ Len(base) \in Nat /\ Len(epos) \in Nat /\ base \in Seq(Character)
      /\ epos \in Seq(Range(epos))
  BY ScanTypes DEF ScanInv
<1>7. /\ text' = text /\ base' = Append(base, "1")
      /\ \E e : epos' = Append(epos, e)
  BY DEF TakeRva, Added
<1>8. /\ Len(base') = Len(base) + 1
      /\ \A k \in 1 .. Len(base) : base'[k] = base[k]
      /\ base'[Len(base) + 1] = "1"
  BY <1>6, <1>7, AppendProperties, Characters
<1>9. Len(epos') = Len(epos) + 1
  <2>1. PICK e : epos' = Append(epos, e)
    BY <1>7
  <2>2. PICK S : S = Range(epos) \cup {e}
    OBVIOUS
  <2>3. epos \in Seq(S) /\ e \in S
    BY <1>6, <2>2, SeqMonotonic
  <2>4. QED
    BY <2>1, <2>3, AppendProperties
<1>10. ASSUME NEW k \in KeptTo(at)'
       PROVE  base'[PlaceTo(at, k)'] = IF k \in HeadsTo(at)' THEN "1" ELSE text'[k]
  <2>1. CASE k \in KeptTo(at)
    <3>1. k # x
      BY <1>2, <1>3, <2>1 DEF KeptTo
    <3>2. base'[PlaceTo(at, k)'] = base[PlaceTo(at, k)]
      BY <1>5, <1>8, <2>1
    <3>3. k \in HeadsTo(at)' <=> k \in HeadsTo(at)
      BY <1>3, <3>1
    <3>4. QED
      BY <1>4, <1>7, <2>1, <3>2, <3>3
  <2>2. CASE k = x
    BY <1>3, <1>5, <1>8, <2>2
  <2>3. QED
    BY <1>3, <2>1, <2>2
<1>11. Len(epos') <= Len(base')
  BY <1>4, <1>6, <1>8, <1>9
<1>12. ASSUME Len(epos') = Len(base'), NEW j \in 1 .. Len(base')
       PROVE  base'[j] = "1"
  <2>1. Len(epos) = Len(base)
    BY <1>6, <1>8, <1>9, <1>12
  <2>2. CASE j = Len(base) + 1
    BY <1>8, <2>2
  <2>3. CASE j \in 1 .. Len(base)
    BY <1>4, <1>8, <2>1, <2>3
  <2>4. QED
    BY <1>6, <1>8, <2>2, <2>3
<1>13. QED
  BY <1>5, <1>8, <1>10, <1>11, <1>12 DEF BaseInv

-----------------------------------------------------------------------------
(***************************************************************************)
(* The chains through rva_epos.                                            *)
(***************************************************************************)
(* The entries of rva_epos stand for the signs, in the order of the text.   *)
Num(s) == Count(text, s)

Latest(q, r, m) ==
  q \in SignsTo(m) /\ RvaOf(q) = r /\ \A p \in SignsTo(m) : RvaOf(p) = r => p <= q

(* e leads to the latest place of the rva r up to m, if it has one. *)
Linked(e, r, m) ==
  \/ e = LocEmpty /\ \A q \in SignsTo(m) : RvaOf(q) # r
  \/ \E q : Latest(q, r, m) /\ e = Num(q) - 1

(* The chains; they hold together as long as a locptr can tell the entries  *)
(* apart and no rva was missed by the search.                               *)
LinkInv ==
  Clean =>
    /\ \A s \in SignsTo(at) : /\ Num(s) \in 1 .. Len(epos)
                              /\ epos[Num(s)].pos = (PlaceTo(at, NameOf(s)) - 1) % LocptrMod
    /\ \A k \in 1 .. Len(epos) : \E s \in SignsTo(at) : Num(s) = k
    /\ Narrow /\ Len(epos) <= LocEmpty =>
         /\ \A s \in SignsTo(at) : Linked(epos[Num(s)].next, RvaOf(s), s - 1)
         /\ \A k \in DOMAIN order : Linked(order[k].loc, order[k].rva, at)

LEMMA LinksKept ==
  ASSUME text' = text
  PROVE  /\ \A s : Num(s)' = Num(s)
         /\ \A e, r, m : Linked(e, r, m)' <=> Linked(e, r, m)
<1>1. \A s : Num(s)' = Num(s)
  BY DEF Num, Count, SignsIn
<1>2. /\ \A m : SignsTo(m)' = SignsTo(m)
      /\ \A s : RvaOf(s)' = RvaOf(s)
  BY TextKept DEF SignsTo
<1>3. \A q, r, m : Latest(q, r, m)' <=> Latest(q, r, m)
  BY <1>2 DEF Latest
<1>4. \A e, r, m : Linked(e, r, m)' <=> Linked(e, r, m)
  BY <1>1, <1>2, <1>3 DEF Linked
<1>5. QED
  BY <1>1, <1>4

LEMMA CopyKeepsLinks ==
  ASSUME ScanInv, ReadInv, LinkInv, CopyStep
  PROVE  LinkInv'
<1>1. SUFFICES ASSUME Clean' PROVE LinkInv'
  BY DEF LinkInv
<1>2. /\ SignsTo(at)' = SignsTo(at) /\ HeadsTo(at)' = HeadsTo(at)
      /\ KeptTo(at)' = IF c = Blank THEN KeptTo(at) ELSE KeptTo(at) \cup {at + 1}
  BY <1>1, CopyKeeps
<1>3. /\ Clean /\ at \in Nat /\ text' = text /\ epos' = epos /\ order' = order
  BY <1>1, CopyFacts DEF CopyStep
<1>4. ASSUME NEW k \in KeptTo(at)
      PROVE  PlaceTo(at, k)' = PlaceTo(at, k)
  <2>1. CASE c = Blank
    BY <1>2, <2>1 DEF PlaceTo
  <2>2. CASE c # Blank
    BY <1>2, <1>3, <2>2, PlacesStep
  <2>3. QED
    BY <2>1, <2>2
<1>5. \A s \in SignsTo(at) : NameOf(s) \in KeptTo(at)
  BY <1>3, InsideTo DEF HeadsTo
<1>6. /\ Narrow' = Narrow /\ (\A s : NameOf(s)' = NameOf(s) /\ RvaOf(s)' = RvaOf(s))
      /\ (\A s : Num(s)' = Num(s))
      /\ \A e, r, m : Linked(e, r, m)' <=> Linked(e, r, m)
  BY <1>3, TextKept, LinksKept
<1>7. ASSUME NEW s \in SignsTo(at)
      PROVE  /\ Num(s)' \in 1 .. Len(epos')
             /\ epos'[Num(s)'].pos = (PlaceTo(at, NameOf(s))' - 1) % LocptrMod
  <2>1. PICK k \in KeptTo(at) : k = NameOf(s)
    BY <1>5
  <2>2. PlaceTo(at, NameOf(s))' = PlaceTo(at, k)'
    BY <1>6, <2>1 DEF PlaceTo
  <2>3. PlaceTo(at, NameOf(s))' = PlaceTo(at, NameOf(s))
    BY <1>4, <2>1, <2>2
  <2>4. QED
    BY <1>3, <1>6, <2>3 DEF LinkInv
<1>8. ASSUME Narrow, Len(epos) <= LocEmpty
      PROVE  /\ \A s \in SignsTo(at) : Linked(epos[Num(s)].next, RvaOf(s), s - 1)'
             /\ \A k \in DOMAIN order : Linked(order[k].loc, order[k].rva, at)'
  <2>1. ASSUME NEW s \in SignsTo(at)
        PROVE  Linked(epos[Num(s)].next, RvaOf(s), s - 1)'
    <3>1. PICK e, r : e = epos[Num(s)].next /\ r = RvaOf(s)
      OBVIOUS
    <3>2. Linked(e, r, s - 1)
      BY <1>3, <1>8, <3>1 DEF LinkInv
    <3>3. Linked(e, r, s - 1)'
      BY <1>6, <3>2
    <3>4. (epos[Num(s)].next)' = e /\ RvaOf(s)' = r
      BY <1>3, <1>6, <3>1
    <3>5. QED
      BY <3>3, <3>4 DEF Linked, Latest
  <2>2. ASSUME NEW k \in DOMAIN order
        PROVE  Linked(order[k].loc, order[k].rva, at)'
    <3>1. PICK e, r, m : e = order[k].loc /\ r = order[k].rva /\ m = at
      OBVIOUS
    <3>2. Linked(e, r, m)
      BY <1>3, <1>8, <3>1 DEF LinkInv
    <3>3. Linked(e, r, m)'
      BY <1>6, <3>2
    <3>4. (order[k].loc)' = e /\ (order[k].rva)' = r /\ SignsTo(at)' = SignsTo(m)'
      <4>1. SignsTo(m)' = SignsTo(at)
        BY <1>3, <3>1, TextKept DEF SignsTo
      <4>2. QED
        BY <1>2, <1>3, <3>1, <4>1
    <3>5. QED
      BY <3>3, <3>4 DEF Linked, Latest
  <2>3. QED
    BY <2>1, <2>2
<1>9. \A k \in 1 .. Len(epos) : \E s \in SignsTo(at) : Num(s) = k
  BY <1>3 DEF LinkInv
<1>10. QED
  BY <1>2, <1>3, <1>6, <1>7, <1>8, <1>9 DEF LinkInv

LEMMA CleanCount ==
  ASSUME ScanInv, Clean
  PROVE  Len(epos) = Count(text, at) /\ Len(epos) \in Nat
<1>1. /\ Len(epos) + Count(base, Len(base)) = Count(text, at) /\ Len(epos) \in Nat
      /\ DOMAIN base = 1 .. Len(base)
  BY ScanTypes DEF ScanInv
<1>2. SignsIn(base, Len(base)) = {}
  BY <1>1 DEF SignsIn, Clean
<1>3. Count(base, Len(base)) = 0
  BY <1>2, FS_EmptySet DEF Count
<1>4. QED
  BY <1>1, <1>3

(* The next sign has the next number. *)
LEMMA NextNum ==
  ASSUME ScanInv, Clean, TakeRva
  PROVE  Num(EqualsAt) = Len(epos) + 1
<1>1. PICK e : e = EqualsAt
  OBVIOUS
<1>2. /\ e \in at + 2 .. Len(text) /\ at \in Nat /\ Len(text) \in Nat
      /\ ValueAt \in e + 1 .. Len(text) /\ ValueEnd \in ValueAt + 1 .. Len(text) + 1
      /\ \A k \in at + 1 .. ValueEnd - 1 : text[k] = "=" <=> k = e
  BY <1>1, RvaPlaces, ScanTypes
<1>3. e \in Nat /\ at < e /\ e \in at + 1 .. e /\ \A k \in at + 1 .. e : text[k] = "=" <=> k = e
  BY <1>2
<1>4. Count(text, e) = Count(text, at) + 1
  BY <1>2, <1>3, SignsUpTo
<1>5. QED
  BY <1>1, <1>4, CleanCount DEF Num

LEMMA TakeKeepsLinks ==
  ASSUME ScanInv, ReadInv, OrderInv, BaseInv, LinkInv, TakeRva
  PROVE  LinkInv'
<1>1. SUFFICES ASSUME Clean' PROVE LinkInv'
  BY DEF LinkInv
<1>2. PICK rl, s :
           /\ rl \in Entry
           /\ Clean
           /\ Stops(s, ThisRva)
           /\ rl.rva = ThisRva /\ rl.loc = Len(epos) % LocptrMod
           /\ order' = OrderWith(s, rl)
           /\ epos' = Append(epos, [pos  |-> Len(base) % LocptrMod,
                                    next |-> IF s.found THEN order[s.at].loc ELSE LocEmpty])
           /\ text' = text
  BY <1>1, TakeFacts
<1>3. PICK e, x, rva, en : /\ e = EqualsAt /\ x = at + 1 /\ rva = ThisRva
                           /\ en = [pos  |-> Len(base) % LocptrMod,
                                    next |-> IF s.found THEN order[s.at].loc ELSE LocEmpty]
  OBVIOUS
<1>4. /\ SignsTo(at)' = SignsTo(at) \cup {e}
      /\ HeadsTo(at)' = HeadsTo(at) \cup {x}
      /\ KeptTo(at)' = KeptTo(at) \cup {x} /\ at \in Nat
  BY <1>1, <1>3, TakeKeeps
<1>5. /\ e \in Signs /\ e \notin SignsTo(at) /\ NameOf(e) = x /\ RvaOf(e) = rva
      /\ SignsTo(e - 1) = SignsTo(at) /\ rva \in Rva /\ e \in Nat
      /\ \A q \in SignsTo(at) : q <= e
  <2>1. e \in at + 2 .. Len(text)
    BY <1>3, RvaPlaces
  <2>2. \A q \in SignsTo(at) : q <= at /\ q \in Nat
    BY SignFacts DEF ScanInv, SignsTo
  <2>3. at \in Nat /\ Len(text) \in Nat
    BY ScanTypes
  <2>4. e \in Nat /\ \A q \in SignsTo(at) : q <= e
    BY <2>1, <2>2, <2>3
  <2>5. QED
    BY <1>2, <1>3, <2>4, TakesNextSign
<1>6. /\ Len(epos') = Len(epos) + 1 /\ Len(epos) \in Nat
      /\ \A k \in 1 .. Len(epos) : epos'[k] = epos[k]
      /\ epos'[Len(epos) + 1] = en
  <2>1. PICK S : S = Range(epos) \cup {en}
    OBVIOUS
  <2>2. epos \in Seq(S) /\ en \in S
    BY <2>1, SeqMonotonic DEF ScanInv
  <2>3. QED
    BY <1>2, <1>3, <2>2, AppendProperties, LenProperties
<1>7. Num(e) = Len(epos) + 1
  BY <1>2, <1>3, NextNum
<1>8. /\ Narrow' = Narrow /\ (\A q : NameOf(q)' = NameOf(q) /\ RvaOf(q)' = RvaOf(q))
      /\ (\A q : Num(q)' = Num(q))
      /\ \A p, r, m : Linked(p, r, m)' <=> Linked(p, r, m)
  BY <1>2, TextKept, LinksKept
<1>9. /\ Cardinality(KeptTo(at)) = Len(base) /\ Len(base) \in Nat
      /\ \A k \in KeptTo(at) : PlaceTo(at, k)' = PlaceTo(at, k)
      /\ PlaceTo(at, x)' = Len(base) + 1
  <2>1. Cardinality(KeptTo(at)) = Len(base) /\ Len(base) \in Nat
    BY <1>2, ScanTypes DEF BaseInv
  <2>2. QED
    BY <1>3, <1>4, <2>1, PlacesStep
<1>10. \A q \in SignsTo(at) : NameOf(q) \in KeptTo(at)
  BY <1>2, InsideTo DEF HeadsTo
<1>11. ASSUME NEW q \in SignsTo(at) \cup {e}
       PROVE  /\ Num(q) \in 1 .. Len(epos')
              /\ epos'[Num(q)].pos = (PlaceTo(at, NameOf(q))' - 1) % LocptrMod
  <2>1. CASE q = e
    <3>1. PlaceTo(at, NameOf(q))' = PlaceTo(at, x)'
      BY <1>5, <1>8, <2>1 DEF PlaceTo
    <3>2. (Len(base) + 1) - 1 = Len(base)
      BY <1>9
    <3>3. epos'[Num(q)].pos = Len(base) % LocptrMod
      BY <1>3, <1>6, <1>7, <2>1
    <3>4. Num(q) \in 1 .. Len(epos')
      BY <1>6, <1>7, <2>1
    <3>5. QED
      BY <1>9, <3>1, <3>2, <3>3, <3>4
  <2>2. CASE q \in SignsTo(at)
    <3>1. PICK k \in KeptTo(at) : k = NameOf(q)
      BY <1>10, <2>2
    <3>2. PlaceTo(at, NameOf(q))' = PlaceTo(at, k)'
      BY <1>8, <3>1 DEF PlaceTo
    <3>3. PlaceTo(at, NameOf(q))' = PlaceTo(at, NameOf(q))
      BY <1>9, <3>1, <3>2
    <3>4. /\ Num(q) \in 1 .. Len(epos)
          /\ epos[Num(q)].pos = (PlaceTo(at, NameOf(q)) - 1) % LocptrMod
      BY <1>2, <2>2 DEF LinkInv
    <3>5. Num(q) \in 1 .. Len(epos')
      BY <1>6, <3>4
    <3>6. QED
      BY <1>6, <3>3, <3>4, <3>5
  <2>3. QED
    BY <2>1, <2>2
<1>12. ASSUME Narrow, Len(epos') <= LocEmpty
       PROVE  /\ \A q \in SignsTo(at) \cup {e} : Linked(epos[Num(q)].next, RvaOf(q), q - 1)'
              /\ \A k \in DOMAIN order' : Linked(order[k].loc, order[k].rva, at)'
  <2>1. Len(epos) <= LocEmpty /\ LocEmpty \in Nat /\ Len(epos) < LocptrMod
    BY <1>6, <1>12, WidthAssumption DEF LocEmpty
  <2>2. /\ \A q \in SignsTo(at) : Linked(epos[Num(q)].next, RvaOf(q), q - 1)
        /\ \A k \in DOMAIN order : Linked(order[k].loc, order[k].rva, at)
        /\ \A q \in SignsTo(at) : Num(q) \in 1 .. Len(epos)
    BY <1>2, <1>12, <2>1 DEF LinkInv
  <2>3. /\ order \in Seq(Entry) /\ Ascending(order) /\ RvasIn(order) = RvasTo(at)
        /\ DOMAIN order = 1 .. Len(order)
    BY <1>2, LenProperties DEF OrderInv
  <2>4. RvasIn(order) \subseteq Rvas /\ rva \in Rvas
    BY <1>5, <2>3 DEF RvasTo, Rvas, SignsTo
  <2>5. \A k \in 1 .. Len(order) : order[k].rva = rva => s.found /\ k = s.at
    BY <1>2, <1>3, <1>5, <1>12, <2>3, <2>4, FoundOnce
  <2>6. Linked(en.next, rva, e - 1)
    <3>1. CASE s.found
      <4>1. s.at \in DOMAIN order /\ order[s.at].rva = rva
        BY <1>2, <1>3, <2>3, <3>1 DEF Stops
      <4>2. en.next = order[s.at].loc
        BY <1>3, <3>1
      <4>3. Linked(en.next, rva, at)
        BY <2>2, <4>1, <4>2
      <4>4. QED
        BY <1>5, <4>3 DEF Linked, Latest
    <3>2. CASE ~s.found
      <4>1. rva \notin RvasTo(at)
        BY <2>3, <2>5, <3>2 DEF RvasIn
      <4>2. en.next = LocEmpty
        BY <1>3, <3>2
      <4>3. QED
        BY <1>5, <4>1, <4>2 DEF Linked, RvasTo
    <3>3. QED
      BY <3>1, <3>2
  <2>7. ASSUME NEW q \in SignsTo(at) \cup {e}
        PROVE  Linked(epos[Num(q)].next, RvaOf(q), q - 1)'
    <3>1. PICK p, r : p = epos'[Num(q)].next /\ r = RvaOf(q)
      OBVIOUS
    <3>2. Linked(p, r, q - 1)
      <4>1. CASE q = e
        BY <1>5, <1>6, <1>7, <2>6, <3>1, <4>1
      <4>2. CASE q \in SignsTo(at)
        BY <1>6, <2>2, <3>1, <4>2
      <4>3. QED
        BY <4>1, <4>2
    <3>3. Linked(p, r, q - 1)'
      BY <1>8, <3>2
    <3>4. (epos[Num(q)].next)' = p /\ RvaOf(q)' = r
      BY <1>8, <3>1
    <3>5. QED
      BY <3>3, <3>4 DEF Linked, Latest
  <2>8. /\ order' \in Seq(Entry)
        /\ \A k \in DOMAIN order' : order'[k] = rl \/ \E j \in DOMAIN order :
                                                        order'[k] = order[j] /\ order[j].rva # rva
    <3>1. PICK o : o = order' /\ o = OrderWith(s, rl)
      BY <1>2
    <3>2. rl \in Entry /\ Stops(s, rl.rva) /\ rl.rva \in Rvas /\ rl.rva = rva
      BY <1>2, <1>3, <2>4
    <3>3. /\ o \in Seq(Entry)
          /\ \A k \in DOMAIN o : o[k] = rl \/ \E j \in DOMAIN order :
                                                o[k] = order[j] /\ order[j].rva # rl.rva
      BY <1>12, <2>3, <2>4, <3>1, <3>2, OrderExtends
    <3>4. QED
      BY <3>1, <3>2, <3>3
  <2>9. rl.loc = Len(epos) /\ rl.rva = rva
    <3>1. \A a, m \in Nat : a < m => a % m = a
      OBVIOUS
    <3>2. Len(epos) % LocptrMod = Len(epos)
      BY <1>6, <2>1, <3>1, WidthAssumption
    <3>3. QED
      BY <1>2, <1>3, <3>2
  <2>10. ASSUME NEW k \in DOMAIN order'
         PROVE  Linked(order[k].loc, order[k].rva, at)'
    <3>1. PICK p, r, m : p = order'[k].loc /\ r = order'[k].rva /\ m = at
      OBVIOUS
    <3> DEFINE Now == \/ p = LocEmpty /\ \A q \in SignsTo(at) \cup {e} : RvaOf(q) # r
                      \/ \E q \in SignsTo(at) \cup {e} :
                           /\ RvaOf(q) = r /\ p = Num(q) - 1
                           /\ \A l \in SignsTo(at) \cup {e} : RvaOf(l) = r => l <= q
    <3>2. Now
      <4>1. CASE order'[k] = rl
        <5>1. r = rva /\ p = Num(e) - 1
          BY <1>6, <1>7, <2>9, <3>1, <4>1
        <5>2. \A l \in SignsTo(at) \cup {e} : l <= e
          BY <1>5
        <5>3. QED
          BY <1>5, <5>1, <5>2
      <4>2. ASSUME NEW j \in DOMAIN order, order'[k] = order[j], order[j].rva # rva
            PROVE  Now
        <5>1. Linked(p, r, at) /\ r # rva
          BY <2>2, <3>1, <4>2
        <5>2. QED
          BY <1>5, <5>1 DEF Linked, Latest
      <4>3. QED
        BY <2>8, <4>1, <4>2
    <3>3. (order[k].loc)' = p /\ (order[k].rva)' = r
      BY <3>1
    <3>4. QED
      BY <1>4, <1>8, <3>2, <3>3 DEF Linked, Latest
  <2>11. QED
    BY <2>7, <2>10
<1>13. ASSUME NEW k \in 1 .. Len(epos')
       PROVE  \E q \in SignsTo(at) \cup {e} : Num(q) = k
  <2>1. CASE k = Len(epos) + 1
    BY <1>7, <2>1
  <2>2. CASE k \in 1 .. Len(epos)
    BY <1>2, <2>2 DEF LinkInv
  <2>3. QED
    BY <1>6, <2>1, <2>2
<1>14. QED
  BY <1>4, <1>8, <1>11, <1>12, <1>13 DEF LinkInv

-----------------------------------------------------------------------------
(***************************************************************************)
(* What the scan leaves for the evaluations.                               *)
(***************************************************************************)
(* What create_bdd goes on with was scanned to the end.                     *)
EndInv == Accepted => at = Len(text) /\ Len(epos) = CountRva

TextInv == ReadInv /\ OrderInv /\ BaseInv /\ LinkInv /\ EndInv

(* A step that leaves what was scanned alone. *)
LEMMA QuietKeepsText ==
  ASSUME ReadInv, OrderInv, BaseInv, LinkInv,
         text' = text, at' = at, base' = base, order' = order, epos' = epos
  PROVE  ReadInv' /\ OrderInv' /\ BaseInv' /\ LinkInv' /\ CountRva' = CountRva
<1>1. /\ Signs' = Signs /\ Narrow' = Narrow
      /\ \A s : /\ Start(s)' = Start(s) /\ Behind(s)' = Behind(s)
                /\ NameOf(s)' = NameOf(s) /\ RvaOf(s)' = RvaOf(s)
      /\ \A s : Num(s)' = Num(s)
  BY TextKept, LinksKept
<1>2. /\ SignsTo(at)' = SignsTo(at) /\ \A m : SignsTo(m)' = SignsTo(m)
  BY <1>1 DEF SignsTo
<1>3. InTo(at)' = InTo(at) /\ HeadsTo(at)' = HeadsTo(at) /\ RvasTo(at)' = RvasTo(at)
  BY <1>1, <1>2 DEF InTo, HeadsTo, RvasTo
<1>4. KeptTo(at)' = KeptTo(at)
  BY <1>3 DEF KeptTo
<1>5. \A k : PlaceTo(at, k)' = PlaceTo(at, k)
  BY <1>4 DEF PlaceTo
<1>6. Clean' <=> Clean
  BY DEF Clean
<1>7. ReadInv'
  BY <1>1, <1>2, <1>3, <1>6 DEF ReadInv
<1>8. OrderInv'
  <2>1. Ascending(order)' <=> Ascending(order)
    BY <1>1 DEF Ascending
  <2>2. RvasIn(order)' = RvasIn(order)
    BY DEF RvasIn
  <2>3. QED
    BY <1>3, <1>6, <2>1, <2>2 DEF OrderInv
<1>9. BaseInv'
  BY <1>3, <1>4, <1>5, <1>6 DEF BaseInv
<1>10. LinkInv'
  <2>1. ASSUME NEW s
        PROVE  PlaceTo(at, NameOf(s))' = PlaceTo(at, NameOf(s))
    BY <1>1, <1>4 DEF PlaceTo
  <2>2. ASSUME NEW s
        PROVE  Linked(epos[Num(s)].next, RvaOf(s), s - 1)' <=> Linked(epos[Num(s)].next, RvaOf(s), s - 1)
    BY <1>1, <1>2 DEF Linked, Latest
  <2>3. ASSUME NEW k
        PROVE  Linked(order[k].loc, order[k].rva, at)' <=> Linked(order[k].loc, order[k].rva, at)
    BY <1>1, <1>2 DEF Linked, Latest
  <2>4. QED
    BY <1>1, <1>2, <1>6, <2>1, <2>2, <2>3 DEF LinkInv
<1>11. CountRva' = CountRva
  BY DEF CountRva
<1>12. QED
  BY <1>7, <1>8, <1>9, <1>10, <1>11

LEMMA InitText == Init => TextInv
<1> SUFFICES ASSUME Init PROVE TextInv
  OBVIOUS
<1>1. /\ text \in Seq(Character) /\ at = 0 /\ base = <<>> /\ order = <<>> /\ epos = <<>> /\ mode = "scan"
  BY TextsAssumption DEF Init, Character
<1>2. SignsTo(0) = {}
  BY <1>1, SignFacts DEF SignsTo
<1>3. KeptTo(0) = {} /\ RvasTo(0) = {}
  BY <1>2 DEF KeptTo, RvasTo
<1>4. Len(base) = 0 /\ Len(epos) = 0 /\ DOMAIN order = {}
  BY <1>1
<1>5. ReadInv
  BY <1>1, <1>2 DEF ReadInv
<1>6. OrderInv
  <2>1. order \in Seq(Entry)
    BY <1>1, EmptySeq
  <2>2. QED
    BY <1>1, <1>3, <1>4, <2>1 DEF OrderInv, Ascending, RvasIn
<1>7. BaseInv
  <2>1. Cardinality(KeptTo(at)) = 0
    BY <1>1, <1>3, FS_EmptySet
  <2>2. QED
    BY <1>1, <1>3, <1>4, <2>1 DEF BaseInv
<1>8. LinkInv
  BY <1>1, <1>2, <1>4 DEF LinkInv
<1>9. EndInv
  BY <1>1 DEF EndInv, Accepted
<1>10. QED
  BY <1>5, <1>6, <1>7, <1>8, <1>9 DEF TextInv

LEMMA NextKeepsText ==
  ASSUME ScanInv, TextInv, [Next]_vars
  PROVE  TextInv'
<1>1. ReadInv /\ OrderInv /\ BaseInv /\ LinkInv /\ EndInv
  BY DEF TextInv
<1>2. CASE Symbol \/ Constant
  <2>1. CopyStep
    <3>1. \A x \in Letter : IsAlnum(x) /\ x \notin {"0", "1"}
      BY DEF Letter, IsAlnum
    <3>2. CASE Symbol
      BY <3>1, <3>2 DEF Symbol, CopyStep
    <3>3. CASE Constant
      <4>1. c \in {"0", "1"} /\ c # Blank
        BY <3>3, Characters DEF Constant, IsConstant
      <4>2. QED
        BY <3>1, <3>3, <4>1 DEF Constant, CopyStep
    <3>4. QED
      BY <1>2, <3>2, <3>3
  <2>2. ReadInv' /\ OrderInv' /\ BaseInv' /\ LinkInv'
    BY <1>1, <2>1, CopyKeepsReading, CopyKeepsBase, CopyKeepsLinks
  <2>3. mode' = "scan"
    BY <1>2 DEF Symbol, Constant, Scanning
  <2>4. EndInv'
    BY <2>3 DEF EndInv, Accepted
  <2>5. QED
    BY <2>2, <2>4 DEF TextInv
<1>3. CASE TakeRva
  <2>1. ReadInv' /\ OrderInv' /\ BaseInv' /\ LinkInv'
    BY <1>1, <1>3, TakeKeepsReading, TakeKeepsBase, TakeKeepsLinks
  <2>2. mode' = "scan"
    BY <1>3 DEF TakeRva, Scanning
  <2>3. EndInv'
    BY <2>2 DEF EndInv, Accepted
  <2>4. QED
    BY <2>1, <2>3 DEF TextInv
<1>4. ASSUME /\ text' = text /\ at' = at /\ base' = base /\ order' = order /\ epos' = epos
             /\ Accepted' => Accepted \/ (at = Len(text) /\ Len(epos) = CountRva)
      PROVE  TextInv'
  <2>1. ReadInv' /\ OrderInv' /\ BaseInv' /\ LinkInv' /\ CountRva' = CountRva
    BY <1>1, <1>4, QuietKeepsText
  <2>2. EndInv'
    BY <1>1, <1>4, <2>1 DEF EndInv
  <2>3. QED
    BY <2>1, <2>2 DEF TextInv
<1>5. CASE ScanError \/ BadToken \/ CountMismatch
  BY <1>4, <1>5 DEF ScanError, BadToken, CountMismatch, Fail, Accepted
<1>6. CASE DryRun
  BY <1>4, <1>6 DEF DryRun, Scanned
<1>7. CASE Evaluation
  BY <1>4, <1>7 DEF Evaluation, scanVars, Accepted
<1>8. CASE Judge
  <2>1. mode = "dry"
    BY <1>8 DEF Judge
  <2>2. QED
    BY <1>4, <1>8, <2>1 DEF Judge, Fail, Accepted
<1>9. CASE \E v \in Val : SetValue(v)
  BY <1>4, <1>9 DEF SetValue, Accepted
<1>10. CASE EvalTop
  BY <1>4, <1>10 DEF EvalTop, Accepted
<1>11. CASE Evaluated
  BY <1>4, <1>11 DEF Evaluated, Fail, Accepted
<1>12. CASE UNCHANGED vars
  BY <1>4, <1>12 DEF vars, scanVars, Accepted
<1>13. QED
  BY <1>2, <1>3, <1>5, <1>6, <1>7, <1>8, <1>9, <1>10, <1>11, <1>12 DEF Next

LEMMA TextInvHolds == Spec => [](Inv /\ TextInv)
<1>1. Inv /\ TextInv /\ [Next]_vars => TextInv'
  BY NextKeepsText DEF Inv
<1>2. QED
  BY InitText, InvHolds, <1>1, PTL DEF Spec

(* What was accepted was taken apart as the reference says. *)
LEMMA AcceptedText ==
  ASSUME ScanInv, TextInv, Accepted \/ (Scanned /\ Len(epos) = CountRva)
  PROVE  /\ Clean /\ at = Len(text)
         /\ SignsTo(at) = Signs
<1>1. at = Len(text) /\ Len(epos) = CountRva
  BY DEF TextInv, EndInv, Scanned
<1>2. /\ text \in Seq(Character) /\ DOMAIN text = 1 .. Len(text) /\ DOMAIN base = 1 .. Len(base)
      /\ Len(epos) \in Nat /\ Count(base, Len(base)) \in Nat /\ Count(text, at) \in Nat
      /\ Len(epos) + Count(base, Len(base)) = Count(text, at) /\ Len(base) \in Nat
  BY ScanTypes DEF ScanInv
<1>3. CountRva = Count(text, Len(text))
  BY <1>2 DEF CountRva, Count, SignsIn
<1>4. Count(base, Len(base)) = 0
  BY <1>1, <1>2, <1>3
<1>5. SignsIn(base, Len(base)) = {}
  BY <1>2, <1>4, SignsFinite, FS_EmptySet DEF Count
<1>6. Clean
  BY <1>2, <1>5 DEF Clean, SignsIn
<1>7. SignsTo(at) = Signs
  BY <1>1, <1>2, SignFacts DEF SignsTo
<1>8. QED
  BY <1>1, <1>6, <1>7

(* The order that bdd_build is given holds exactly the rvas of the text,    *)
(* each above its neighbour, and above all before it if no difference of    *)
(* two values wraps: then an rva has one depth (add2rva_order).             *)
THEOREM OrderOfRvas == Spec => []OrderSorted
<1>1. ASSUME Inv, TextInv
      PROVE  OrderSorted
  <2>1. SUFFICES ASSUME Accepted
                 PROVE  /\ RvasIn(order) = Rvas
                        /\ Ascending(order)
    BY DEF OrderSorted, RvasIn, Ascending
  <2>2. Clean /\ SignsTo(at) = Signs
    BY <1>1, <2>1, AcceptedText DEF Inv
  <2>3. Ascending(order) /\ RvasIn(order) = RvasTo(at)
    BY <1>1, <2>2 DEF TextInv, OrderInv
  <2>4. RvasTo(at) = Rvas
    BY <2>2 DEF RvasTo, Rvas
  <2>5. QED
    BY <2>3, <2>4
<1>2. QED
  BY <1>1, TextInvHolds, PTL

LEMMA NumGrows ==
  ASSUME ScanInv, NEW q \in Signs, NEW s \in Signs, q < s
  PROVE  Num(q) < Num(s) /\ Num(q) \in Nat /\ Num(s) \in Nat
<1>1. q \in Nat /\ s \in Nat /\ s >= 1 /\ text[s] = "=" /\ q <= s - 1 /\ s - 1 \in Nat
  BY SignFacts DEF ScanInv
<1>2. Count(text, s) = Count(text, s - 1) + 1
  <2>1. PICK m \in Nat : m = s - 1
    BY <1>1
  <2>2. m < s /\ s \in m + 1 .. s /\ \A k \in m + 1 .. s : text[k] = "=" <=> k = s
    BY <1>1, <2>1
  <2>3. QED
    BY <1>1, <2>1, <2>2, SignsUpTo
<1>3. /\ Count(text, q) \in Nat /\ Count(text, s - 1) \in Nat /\ Count(text, s) \in Nat
  BY <1>1, SignsFinite
<1>4. Count(text, q) <= Count(text, s - 1)
  <2>1. CASE q = s - 1
    BY <1>3, <2>1
  <2>2. CASE q < s - 1
    BY <1>1, <2>2, SignsUpTo
  <2>3. QED
    BY <1>1, <2>1, <2>2
<1>5. QED
  BY <1>2, <1>3, <1>4 DEF Num

(* The entries of rva_epos where they can be told apart. *)
EntriesFit == Accepted /\ Narrow /\ Len(base) <= LocptrMod /\ Len(epos) <= LocEmpty

LEMMA Entries ==
  ASSUME ScanInv, TextInv, EntriesFit
  PROVE  /\ Clean /\ SignsTo(at) = Signs /\ DOMAIN epos = 1 .. Len(epos)
         /\ Len(epos) \in Nat /\ LocEmpty \in Nat
         /\ \A s \in Signs : Num(s) \in 1 .. Len(epos) /\ Linked(epos[Num(s)].next, RvaOf(s), s - 1)
         /\ \A k \in 1 .. Len(epos) : /\ epos[k].next \in 0 .. LocEmpty
                                      /\ epos[k].next = LocEmpty \/ epos[k].next < k - 1
<1>1. Clean /\ SignsTo(at) = Signs
  BY AcceptedText DEF EntriesFit
<1>2. DOMAIN epos = 1 .. Len(epos) /\ Len(epos) \in Nat /\ LocEmpty \in Nat
  BY ScanTypes, WidthAssumption DEF LocEmpty
<1>3. \A s \in Signs : Num(s) \in 1 .. Len(epos) /\ Linked(epos[Num(s)].next, RvaOf(s), s - 1)
  BY <1>1 DEF TextInv, LinkInv, EntriesFit
<1>4. ASSUME NEW k \in 1 .. Len(epos)
      PROVE  /\ epos[k].next \in 0 .. LocEmpty
             /\ epos[k].next = LocEmpty \/ epos[k].next < k - 1
  <2>1. PICK s \in Signs : Num(s) = k
    BY <1>1 DEF TextInv, LinkInv
  <2>2. CASE epos[k].next = LocEmpty
    BY <1>2, <2>2
  <2>3. ASSUME NEW q, Latest(q, RvaOf(s), s - 1), epos[k].next = Num(q) - 1
        PROVE  epos[k].next \in 0 .. LocEmpty /\ epos[k].next < k - 1
    <3>1. q \in Signs /\ q <= s - 1 /\ q \in Nat /\ s \in Nat
      BY <2>3, SignFacts DEF Latest, SignsTo, ScanInv
    <3>2. Num(q) < Num(s)
      BY <3>1, NumGrows
    <3>3. Num(q) \in 1 .. Len(epos) /\ Len(epos) <= LocEmpty
      BY <1>3, <3>1 DEF EntriesFit
    <3>4. QED
      BY <1>2, <2>1, <2>3, <3>2, <3>3
  <2>4. QED
    BY <1>3, <2>1, <2>2, <2>3 DEF Linked
<1>5. QED
  BY <1>1, <1>2, <1>3, <1>4

LEMMA ChainUnfolds ==
  ASSUME ScanInv, TextInv, EntriesFit
  PROVE  \A loc : \E g : /\ Chain(loc) = {epos[k].pos : k \in DOMAIN epos \cap g[loc]}
                         /\ \A p \in 0 .. LocEmpty :
                              g[p] = IF p = LocEmpty \/ p + 1 \notin DOMAIN epos THEN {}
                                     ELSE {p + 1} \cup g[epos[p + 1].next]
<1> SUFFICES ASSUME NEW loc
             PROVE  \E g : /\ Chain(loc) = {epos[k].pos : k \in DOMAIN epos \cap g[loc]}
                           /\ \A p \in 0 .. LocEmpty :
                                g[p] = IF p = LocEmpty \/ p + 1 \notin DOMAIN epos THEN {}
                                       ELSE {p + 1} \cup g[epos[p + 1].next]
  OBVIOUS
<1> DEFINE D == 0 .. LocEmpty
           V == SUBSET Nat
           step(g, p) == IF p = LocEmpty \/ p + 1 \notin DOMAIN epos THEN {}
                         ELSE {p + 1} \cup g[epos[p + 1].next]
           rank == [p \in D |-> IF p = LocEmpty THEN 0 ELSE p + 1]
           S == [q \in [D -> V] \X D |-> step(q[1], q[2])]
<1>1. /\ DOMAIN epos = 1 .. Len(epos) /\ Len(epos) \in Nat /\ LocEmpty \in Nat
      /\ \A k \in 1 .. Len(epos) : /\ epos[k].next \in 0 .. LocEmpty
                                   /\ epos[k].next = LocEmpty \/ epos[k].next < k - 1
  BY Entries
<1>2. ASSUME NEW p \in D, ~ (p = LocEmpty \/ p + 1 \notin DOMAIN epos)
      PROVE  epos[p + 1].next \in D /\ rank[epos[p + 1].next] < rank[p]
  <2>1. PICK k \in 1 .. Len(epos) : k = p + 1
    BY <1>1, <1>2
  <2>2. PICK n \in D : n = epos[k].next /\ (n = LocEmpty \/ n < k - 1)
    BY <1>1
  <2>3. rank[p] = p + 1 /\ rank[n] = IF n = LocEmpty THEN 0 ELSE n + 1
    BY <1>2
  <2>4. rank[n] < rank[p]
    BY <1>1, <2>1, <2>2, <2>3
  <2>5. QED
    BY <2>1, <2>2, <2>4
<1>3. rank \in [D -> Nat] /\ V # {}
  <2>1. rank \in [D -> Nat]
    BY <1>1
  <2>2. V # {}
    OBVIOUS
  <2>3. QED
    BY <2>1, <2>2
<1>4. S \in [[D -> V] \X D -> V]
  <2>1. ASSUME NEW g \in [D -> V], NEW p \in D
        PROVE  step(g, p) \in V
    <3>1. p + 1 \in Nat
      BY <1>1
    <3>2. ~ (p = LocEmpty \/ p + 1 \notin DOMAIN epos) => g[epos[p + 1].next] \in V
      BY <1>2
    <3>3. QED
      BY <3>1, <3>2
  <2> HIDE DEF D, V, step
  <2>2. QED
    BY <2>1
<1>5. ASSUME NEW p \in D, NEW g, NEW h, \A y \in D : rank[y] < rank[p] => g[y] = h[y]
      PROVE  step(g, p) = step(h, p)
  <2> HIDE DEF D, rank
  <2>1. QED
    BY <1>2, <1>5
<1>6. Descends(D, V, S, rank)
  <2> HIDE DEF D, V, step, rank
  <2>1. QED
    BY <1>5 DEF Descends
<1>7. PICK f \in [D -> V] : \A p \in D : f[p] = S[<<f, p>>]
  <2> HIDE DEF D, S, rank, V
  <2>1. Solvable(D, V, S)
    BY <1>3, <1>4, <1>6, Recursion
  <2>2. QED
    BY <2>1 DEF Solvable
<1>8. f = [p \in D |-> step(f, p)]
  <2> HIDE DEF D, V, step
  <2>1. QED
    BY <1>7
<1>9. PICK g : g = [p \in D |-> step(g, p)] /\ Chain(loc) = {epos[k].pos : k \in DOMAIN epos \cap g[loc]}
  BY <1>8 DEF Chain
<1>10. \A p \in D : g[p] = step(g, p)
  <2> HIDE DEF D, step
  <2>1. QED
    BY <1>9
<1>11. QED
  BY <1>9, <1>10

(* The chain of an rva leads to all the places of its signs. *)
LEMMA ChainIs ==
  ASSUME ScanInv, TextInv, EntriesFit, NEW k \in DOMAIN order
  PROVE  \A x : x \in Chain(order[k].loc) <=>
                  \E q \in Signs : RvaOf(q) = order[k].rva /\ x = PlaceTo(at, NameOf(q)) - 1
<1>1. /\ Clean /\ SignsTo(at) = Signs /\ DOMAIN epos = 1 .. Len(epos)
      /\ Len(epos) \in Nat /\ LocEmpty \in Nat /\ Len(epos) <= LocEmpty
      /\ \A s \in Signs : Num(s) \in 1 .. Len(epos) /\ Linked(epos[Num(s)].next, RvaOf(s), s - 1)
  BY Entries DEF EntriesFit
<1>2. PICK loc, rva : loc = order[k].loc /\ rva = order[k].rva
  OBVIOUS
<1>3. PICK g : /\ Chain(loc) = {epos[j].pos : j \in DOMAIN epos \cap g[loc]}
               /\ \A p \in 0 .. LocEmpty :
                    g[p] = IF p = LocEmpty \/ p + 1 \notin DOMAIN epos THEN {}
                           ELSE {p + 1} \cup g[epos[p + 1].next]
  BY ChainUnfolds
<1> DEFINE Same(s) == {Num(q) : q \in {q \in Signs : q <= s /\ RvaOf(q) = RvaOf(s)}}
           Good(s) == g[Num(s) - 1] = Same(s)
<1>4. ASSUME NEW s \in Signs, \A q \in Signs : q < s => Good(q)
      PROVE  Good(s)
  <2>1. /\ Num(s) - 1 \in 0 .. LocEmpty /\ Num(s) - 1 # LocEmpty
        /\ (Num(s) - 1) + 1 = Num(s) /\ Num(s) \in DOMAIN epos
    <3>1. Num(s) \in 1 .. Len(epos)
      BY <1>1
    <3>2. QED
      BY <1>1, <3>1
  <2>2. PICK nx : nx = epos[Num(s)].next
    OBVIOUS
  <2>3. g[Num(s) - 1] = {Num(s)} \cup g[nx]
    BY <1>3, <2>1, <2>2
  <2>4. Linked(nx, RvaOf(s), s - 1)
    BY <1>1, <2>2
  <2>5. s \in Nat /\ \A q \in Signs : q \in Nat /\ (q <= s <=> q = s \/ q <= s - 1) /\ (q <= s - 1 <=> q < s)
    <3>1. \A q \in Signs : q \in Nat
      BY SignFacts DEF ScanInv
    <3>2. QED
      BY <3>1
  <2>6. CASE nx = LocEmpty /\ \A q \in SignsTo(s - 1) : RvaOf(q) # RvaOf(s)
    <3>1. g[nx] = {}
      <4>1. LocEmpty \in 0 .. LocEmpty
        BY <1>1
      <4>2. QED
        BY <1>3, <2>6, <4>1
    <3>2. \A q \in Signs : q <= s /\ RvaOf(q) = RvaOf(s) <=> q = s
      BY <2>5, <2>6 DEF SignsTo
    <3>3. Same(s) = {Num(s)}
      BY <3>2
    <3>4. g[Num(s) - 1] = Same(s)
      <4> HIDE DEF Same
      <4>1. QED
        BY <2>3, <3>1, <3>3
    <3>5. QED
      BY <3>4
  <2>7. ASSUME NEW q, Latest(q, RvaOf(s), s - 1), nx = Num(q) - 1
        PROVE  Good(s)
    <3>1. /\ q \in Signs /\ q < s /\ RvaOf(q) = RvaOf(s)
          /\ \A p \in Signs : p < s /\ RvaOf(p) = RvaOf(s) => p <= q
      BY <2>5, <2>7 DEF Latest, SignsTo
    <3>2. g[nx] = Same(q)
      BY <1>4, <2>7, <3>1
    <3>3. \A p \in Signs : p <= s /\ RvaOf(p) = RvaOf(s) <=> p = s \/ (p <= q /\ RvaOf(p) = RvaOf(q))
      BY <2>5, <3>1
    <3>4. Same(s) = {Num(s)} \cup Same(q)
      BY <3>3
    <3>5. g[Num(s) - 1] = Same(s)
      <4> HIDE DEF Same
      <4>1. QED
        BY <2>3, <3>2, <3>4
    <3>6. QED
      BY <3>5
  <2>8. QED
    BY <2>4, <2>6, <2>7 DEF Linked
<1>5. \A s \in Signs : Good(s)
  <2> DEFINE T == {s \in Signs : ~Good(s)}
  <2>1. SUFFICES ASSUME T # {} PROVE FALSE
    OBVIOUS
  <2>2. T \in SUBSET Nat
    BY SignFacts DEF ScanInv
  <2>3. PICK s \in T : \A q \in T : s <= q
    <3> HIDE DEF T
    <3>1. QED
      BY <2>1, <2>2, LeastNatural
  <2>4. \A q \in Signs : q < s => Good(q)
    <3>1. SUFFICES ASSUME NEW q \in Signs, q < s, ~Good(q) PROVE FALSE
      OBVIOUS
    <3>2. q \in T /\ q \in Nat /\ s \in Nat
      BY <2>2, <3>1
    <3>3. s <= q
      BY <2>3, <3>2
    <3>4. QED
      BY <3>1, <3>2, <3>3
  <2> HIDE DEF Good
  <2>5. QED
    BY <1>4, <2>3, <2>4
<1>6. PICK q : Latest(q, rva, at) /\ loc = Num(q) - 1
  <2>1. Linked(loc, rva, at)
    BY <1>1, <1>2 DEF TextInv, LinkInv, EntriesFit
  <2>2. rva \in RvasTo(at)
    BY <1>1, <1>2 DEF TextInv, OrderInv, RvasIn
  <2>3. QED
    BY <2>1, <2>2 DEF Linked, RvasTo
<1>7. /\ q \in Signs /\ RvaOf(q) = rva /\ \A p \in Signs : RvaOf(p) = rva => p <= q
  BY <1>1, <1>6 DEF Latest
<1>8. g[loc] = Same(q)
  BY <1>5, <1>6, <1>7
<1>9. g[loc] = {Num(p) : p \in {p \in Signs : RvaOf(p) = rva}}
  <2>1. \A p \in Signs : p <= q /\ RvaOf(p) = RvaOf(q) <=> RvaOf(p) = rva
    BY <1>7
  <2>2. QED
    BY <1>8, <2>1
<1>10. ASSUME NEW p \in Signs
       PROVE  Num(p) \in DOMAIN epos /\ epos[Num(p)].pos = PlaceTo(at, NameOf(p)) - 1
  <2>1. /\ Num(p) \in DOMAIN epos
        /\ epos[Num(p)].pos = (PlaceTo(at, NameOf(p)) - 1) % LocptrMod
    BY <1>1 DEF TextInv, LinkInv
  <2>2. NameOf(p) \in KeptTo(at) /\ at \in Nat
    BY <1>1, InsideTo DEF HeadsTo, TextInv
  <2>3. PlaceTo(at, NameOf(p)) \in 1 .. Len(base) /\ Len(base) \in Nat
    BY <1>1, <2>2, PlacesIn, ScanTypes DEF TextInv, BaseInv
  <2>4. PlaceTo(at, NameOf(p)) - 1 \in Nat /\ PlaceTo(at, NameOf(p)) - 1 < LocptrMod /\ LocptrMod \in Nat
    BY <2>3, WidthAssumption DEF EntriesFit
  <2>5. \A a, m \in Nat : a < m => a % m = a
    OBVIOUS
  <2>6. (PlaceTo(at, NameOf(p)) - 1) % LocptrMod = PlaceTo(at, NameOf(p)) - 1
    BY <2>4, <2>5
  <2>7. QED
    BY <2>1, <2>6
<1>11. Chain(loc) = {epos[Num(p)].pos : p \in {p \in Signs : RvaOf(p) = rva}}
  <2>1. DOMAIN epos \cap g[loc] = {Num(p) : p \in {p \in Signs : RvaOf(p) = rva}}
    BY <1>9, <1>10
  <2>2. QED
    BY <1>3, <2>1
<1>12. ASSUME NEW x
       PROVE  x \in Chain(loc) <=> \E p \in Signs : RvaOf(p) = rva /\ x = PlaceTo(at, NameOf(p)) - 1
  <2>1. x \in Chain(loc) <=> \E p \in Signs : RvaOf(p) = rva /\ x = epos[Num(p)].pos
    BY <1>11
  <2>2. \A p \in Signs : epos[Num(p)].pos = PlaceTo(at, NameOf(p)) - 1
    BY <1>10
  <2>3. QED
    BY <2>1, <2>2
<1>13. Chain(order[k].loc) = Chain(loc)
  BY <1>2
<1>14. ASSUME NEW x
       PROVE  x \in Chain(order[k].loc) <=>
                \E p \in Signs : RvaOf(p) = order[k].rva /\ x = PlaceTo(at, NameOf(p)) - 1
  <2>1. x \in Chain(loc) <=> \E p \in Signs : RvaOf(p) = rva /\ x = PlaceTo(at, NameOf(p)) - 1
    BY <1>12
  <2>2. rva = order[k].rva
    BY <1>2
  <2>3. QED
    BY <1>13, <2>1, <2>2
<1>15. QED
  BY <1>14

(* Two ones in front are no expression, so that not every token is an rva.  *)
LEMMA EntriesLeaveRoom ==
  ASSUME Inv, TextInv, mode = "values", Narrow, Len(base) <= LocptrMod
  PROVE  EntriesFit
<1>1. Accepted
  BY DEF Accepted
<1>2. /\ Clean /\ Len(base) \in Nat /\ Len(epos) \in Nat /\ LocptrMod \in Nat /\ LocptrMod > 1
      /\ Len(epos) <= Len(base)
      /\ Len(epos) = Len(base) => \A j \in 1 .. Len(base) : base[j] = "1"
  <2>1. ScanInv
    BY DEF Inv
  <2>2. Clean /\ Len(base) \in Nat /\ Len(epos) \in Nat
    BY <1>1, <2>1, AcceptedText, ScanTypes
  <2>3. BaseInv
    BY DEF TextInv
  <2>4. /\ Len(epos) <= Len(base)
        /\ Len(epos) = Len(base) => \A j \in 1 .. Len(base) : base[j] = "1"
    BY <2>2, <2>3 DEF BaseInv
  <2>5. LocptrMod \in Nat /\ LocptrMod > 1
    BY WidthAssumption
  <2>6. QED
    BY <2>2, <2>4, <2>5
<1>3. SUFFICES ASSUME ~ (Len(epos) <= LocEmpty) PROVE FALSE
  BY <1>1 DEF EntriesFit
<1>4. Len(base) = LocptrMod /\ Len(epos) = Len(base) /\ Len(base) >= 2
  BY <1>2, <1>3 DEF LocEmpty
<1>5. base[1] = "1" /\ base[2] = "1"
  BY <1>2, <1>4
<1>6. Whole[1] = "1" /\ Whole[2] = "1"
  <2>1. base \in Frame
    BY DEF Inv, FramesInv
  <2>2. base \in Seq(Token) /\ "E" \in Token
    BY <2>1, SeqMonotonic DEF Frame, Token
  <2>3. \A k \in 1 .. Len(base) : Whole[k] = base[k]
    BY <2>2, AppendProperties DEF Whole
  <2>4. QED
    BY <1>2, <1>4, <1>5, <2>3
<1>7. PICK h : Course(h, Whole, Len(base) + 1)
  BY DEF Inv, CourseInv
<1>8. PICK m \in Nat : m = Len(base) + 1 /\ m >= 3
  BY <1>2, <1>4
<1>9. /\ h[0] = At("wait", 0)
      /\ h[2].kind \in {"wait", "val"}
      /\ h[1] = SyntaxStep(h[0], Whole[1]) /\ h[2] = SyntaxStep(h[1], Whole[2])
  <2>1. /\ h[0] = At("wait", 0)
        /\ \A k \in 0 .. m - 1 : h[k].kind \in {"wait", "val"} /\ h[k + 1] = SyntaxStep(h[k], Whole[k + 1])
    BY <1>7, <1>8 DEF Course
  <2>2. 0 \in 0 .. m - 1 /\ 1 \in 0 .. m - 1 /\ 2 \in 0 .. m - 1 /\ 0 + 1 = 1 /\ 1 + 1 = 2
    BY <1>8
  <2>3. QED
    BY <2>1, <2>2
<1>10. h[1] = At("val", 0)
  BY <1>6, <1>9 DEF SyntaxStep, At, Val
<1>11. h[2] = At("error", 0)
  BY <1>6, <1>9, <1>10 DEF SyntaxStep, At, Val
<1>12. QED
  BY <1>9, <1>11 DEF At

-----------------------------------------------------------------------------
(***************************************************************************)
(* The frames: every rva has the value given to it, or 1.                   *)
(***************************************************************************)
(* A frame in which the first d - 1 rvas have the values given.             *)
FrameIs(f, given, d) ==
  /\ Len(f) = Len(base)
  /\ \A k \in KeptTo(at) \ HeadsTo(at) : f[PlaceTo(at, k)] = text[k]
  /\ \A q \in SignsTo(at) :
       /\ \A j \in 1 .. d - 1 : order[j].rva = RvaOf(q) => f[PlaceTo(at, NameOf(q))] = given[j]
       /\ (\A j \in 1 .. d - 1 : order[j].rva # RvaOf(q)) => f[PlaceTo(at, NameOf(q))] = "1"

GivenInv ==
  Accepted =>
    /\ Len(frames) \in 1 .. Len(order) + 1
    /\ Narrow /\ Len(base) <= LocptrMod =>
         \E given \in [1 .. Len(frames) - 1 -> Val] :
           \A d \in 1 .. Len(frames) : FrameIs(frames[d], given, d)

LEMMA FrameIsKept ==
  ASSUME text' = text, at' = at, base' = base, order' = order
  PROVE  /\ Narrow' = Narrow
         /\ \A f, given, d : FrameIs(f, given, d)' <=> FrameIs(f, given, d)
<1>1. /\ Narrow' = Narrow
      /\ \A s : /\ Behind(s)' = Behind(s)
                /\ NameOf(s)' = NameOf(s) /\ RvaOf(s)' = RvaOf(s)
      /\ SignsTo(at)' = SignsTo(at)
  BY TextKept DEF SignsTo
<1>2. InTo(at)' = InTo(at) /\ HeadsTo(at)' = HeadsTo(at)
  BY <1>1 DEF InTo, HeadsTo
<1>3. KeptTo(at)' = KeptTo(at)
  BY <1>2 DEF KeptTo
<1>4. \A k : PlaceTo(at, k)' = PlaceTo(at, k)
  BY <1>3 DEF PlaceTo
<1>5. ASSUME NEW s
      PROVE  PlaceTo(at, NameOf(s))' = PlaceTo(at, NameOf(s))
  BY <1>1, <1>3 DEF PlaceTo
<1>6. ASSUME NEW f, NEW given, NEW d
      PROVE  FrameIs(f, given, d)' <=> FrameIs(f, given, d)
  BY <1>1, <1>2, <1>3, <1>4, <1>5 DEF FrameIs
<1>7. QED
  BY <1>1, <1>6

LEMMA OrderDiffers ==
  ASSUME order \in Seq(Entry), Ascending(order), Narrow,
         NEW j \in DOMAIN order, NEW k \in DOMAIN order, j < k
  PROVE  order[j].rva # order[k].rva
<1>1. order[k] \in Entry
  BY ElementOfSeq, LenProperties
<1>2. ~Before(order[k].rva, order[k].rva)
  BY <1>1, BeforeOrders DEF Entry
<1>3. Before(order[j].rva, order[k].rva)
  BY DEF Ascending
<1>4. QED
  BY <1>2, <1>3

(* Different signs have different names, and these different places. *)
LEMMA NamesApart ==
  ASSUME ScanInv, ReadInv, Clean, SignsTo(at) = Signs
  PROVE  /\ at \in Nat
         /\ \A q \in Signs : NameOf(q) \in HeadsTo(at) /\ NameOf(q) \in KeptTo(at)
         /\ \A q, s \in Signs : NameOf(q) = NameOf(s) => q = s
         /\ \A j, k \in KeptTo(at) : PlaceTo(at, j) = PlaceTo(at, k) => j = k
<1>1. at \in Nat /\ HeadsTo(at) \in SUBSET KeptTo(at)
  BY InsideTo
<1>2. \A q \in Signs : NameOf(q) \in HeadsTo(at)
  BY DEF HeadsTo
<1>3. ASSUME NEW q \in Signs, NEW s \in Signs, q < s
      PROVE  NameOf(q) # NameOf(s)
  <2>1. NameOf(q) \in Start(q) .. q - 1 /\ NameOf(s) \in Start(s) .. s - 1
    BY DEF ReadInv
  <2>2. /\ q \in Nat /\ s \in Nat /\ Behind(q) \in Int /\ Behind(q) > q
        /\ Start(q) \in Int /\ Start(s) \in Int /\ Behind(q) <= Start(s)
    BY <1>3, SignFacts, StartIs DEF ScanInv
  <2>3. QED
    BY <2>1, <2>2
<1>4. \A q, s \in Signs : NameOf(q) = NameOf(s) => q = s
  <2>1. \A q \in Signs : q \in Nat
    BY SignFacts DEF ScanInv
  <2>2. SUFFICES ASSUME NEW q \in Signs, NEW s \in Signs, NameOf(q) = NameOf(s) PROVE q = s
    OBVIOUS
  <2>3. ~ (q < s) /\ ~ (s < q)
    BY <1>3, <2>2
  <2>4. q \in Nat /\ s \in Nat
    BY <2>1
  <2>5. QED
    BY <2>3, <2>4
<1>5. \A j, k \in KeptTo(at) : PlaceTo(at, j) = PlaceTo(at, k) => j = k
  <2>1. SUFFICES ASSUME NEW j \in KeptTo(at), NEW k \in KeptTo(at), PlaceTo(at, j) = PlaceTo(at, k)
                 PROVE  j = k
    OBVIOUS
  <2>2. KeptTo(at) \in SUBSET (1 .. at) /\ PlaceTo(at, j) \in Int /\ PlaceTo(at, k) \in Int
    BY <1>1, PlacesIn
  <2>3. j < k => PlaceTo(at, j) < PlaceTo(at, k)
    BY <1>1, PlacesDiffer
  <2>4. k < j => PlaceTo(at, k) < PlaceTo(at, j)
    BY <1>1, PlacesDiffer
  <2>5. j \in Int /\ k \in Int
    BY <2>2
  <2>6. QED
    BY <2>1, <2>2, <2>3, <2>4, <2>5
<1>6. QED
  BY <1>1, <1>2, <1>4, <1>5

(* The base frame: no rva has a value. *)
LEMMA DryRunGives ==
  ASSUME ScanInv, TextInv, DryRun
  PROVE  GivenInv'
<1>1. /\ frames' = <<base>> /\ text' = text /\ at' = at /\ base' = base /\ order' = order
      /\ Scanned /\ Len(epos) = CountRva
  BY DEF DryRun
<1>2. Clean /\ SignsTo(at) = Signs
  BY <1>1, AcceptedText
<1>3. Len(order) \in Nat
  BY <1>2, LenProperties DEF TextInv, OrderInv
<1>4. \A k \in KeptTo(at) : base[PlaceTo(at, k)] = IF k \in HeadsTo(at) THEN "1" ELSE text[k]
  BY <1>2 DEF TextInv, BaseInv
<1>5. \A q \in SignsTo(at) : NameOf(q) \in HeadsTo(at) /\ NameOf(q) \in KeptTo(at)
  BY <1>2, NamesApart DEF TextInv
<1>6. PICK given : given \in [1 .. 0 -> Val]
  <2>1. [i \in 1 .. 0 |-> "1"] \in [1 .. 0 -> Val]
    OBVIOUS
  <2>2. QED
    BY <2>1
<1>7. FrameIs(base, given, 1)
  BY <1>4, <1>5 DEF FrameIs
<1>8. PICK f : f = base
  OBVIOUS
<1>9. FrameIs(f, given, 1)'
  BY <1>1, <1>7, <1>8, FrameIsKept
<1>10. /\ Len(frames') = 1 /\ frames'[1] = f
  BY <1>1, <1>8
<1>11. FrameIs(frames[1], given, 1)'
  BY <1>9, <1>10 DEF FrameIs
<1>12. \A d \in 1 .. Len(frames') : FrameIs(frames[d], given, d)'
  BY <1>10, <1>11
<1>13. given \in [1 .. Len(frames') - 1 -> Val]
  BY <1>6, <1>10
<1>14. Len(frames') \in 1 .. Len(order') + 1
  BY <1>1, <1>3, <1>10
<1>15. QED
  BY <1>12, <1>13, <1>14 DEF GivenInv

(* The next frame: one rva more has a value, at all of its places.          *)
LEMMA SetValueGives ==
  ASSUME Inv, TextInv, GivenInv, NEW v \in Val, SetValue(v)
  PROVE  GivenInv'
<1>1. /\ mode = "values" /\ mode' = mode /\ Accepted
      /\ text' = text /\ at' = at /\ base' = base /\ order' = order /\ epos' = epos
      /\ Len(frames) <= Len(order)
  BY DEF SetValue, Accepted
<1>2. /\ Clean /\ SignsTo(at) = Signs /\ ScanInv /\ ReadInv
  BY <1>1, AcceptedText DEF Inv, TextInv
<1>3. /\ order \in Seq(Entry) /\ Ascending(order) /\ Len(order) \in Nat /\ DOMAIN order = 1 .. Len(order)
      /\ Len(base) \in Nat /\ DOMAIN base = 1 .. Len(base)
      /\ Cardinality(KeptTo(at)) = Len(base)
  BY <1>2, LenProperties, ScanTypes DEF TextInv, OrderInv, BaseInv
<1>4. PICK n : n = Len(frames)
  OBVIOUS
<1>5. n \in 1 .. Len(order)
  BY <1>1, <1>3, <1>4 DEF GivenInv
<1>6. PICK places, f :
        /\ places = Chain(order[n].loc)
        /\ f = [k \in DOMAIN base |-> IF k - 1 \in places THEN v ELSE frames[n][k]]
        /\ frames' = Append(frames, f)
  BY <1>4 DEF SetValue, Last
<1>7. /\ Len(frames') = n + 1 /\ frames'[n + 1] = f
      /\ \A d \in 1 .. n : frames'[d] = frames[d]
  <2>1. frames \in Seq(Frame)
    BY <1>1 DEF Inv, FramesInv
  <2>2. PICK S : S = Frame \cup {f}
    OBVIOUS
  <2>3. frames \in Seq(S) /\ f \in S
    BY <2>1, <2>2, SeqMonotonic
  <2>4. QED
    BY <1>4, <1>6, <2>3, AppendProperties
<1>8. Len(frames') \in 1 .. Len(order') + 1
  BY <1>1, <1>3, <1>5, <1>7
<1>9. ASSUME Narrow, Len(base) <= LocptrMod
      PROVE  \E given \in [1 .. n -> Val] :
               \A d \in 1 .. n + 1 : FrameIs(IF d = n + 1 THEN f ELSE frames[d], given, d)
  <2>1. PICK old \in [1 .. n - 1 -> Val] : \A d \in 1 .. n : FrameIs(frames[d], old, d)
    BY <1>1, <1>4, <1>9 DEF GivenInv
  <2>2. PICK given : given = [i \in 1 .. n |-> IF i = n THEN v ELSE old[i]]
    OBVIOUS
  <2>3. /\ given \in [1 .. n -> Val] /\ given[n] = v
        /\ \A i \in 1 .. n - 1 : given[i] = old[i]
    <3>1. \A i \in 1 .. n : i # n => i \in 1 .. n - 1
      BY <1>3, <1>5
    <3>2. n \in 1 .. n /\ \A i \in 1 .. n - 1 : i \in 1 .. n /\ i # n
      BY <1>3, <1>5
    <3>3. QED
      BY <2>2, <3>1, <3>2
  <2>4. ASSUME NEW d \in 1 .. n
        PROVE  FrameIs(frames[d], given, d)
    <3>1. FrameIs(frames[d], old, d)
      BY <2>1
    <3>2. \A j \in 1 .. d - 1 : given[j] = old[j]
      BY <1>3, <1>5, <2>3
    <3>3. QED
      BY <3>1, <3>2 DEF FrameIs
  <2>5. /\ at \in Nat
        /\ \A q \in Signs : NameOf(q) \in HeadsTo(at) /\ NameOf(q) \in KeptTo(at)
        /\ \A q, s \in Signs : NameOf(q) = NameOf(s) => q = s
        /\ \A j, k \in KeptTo(at) : PlaceTo(at, j) = PlaceTo(at, k) => j = k
    BY <1>2, NamesApart
  <2>6. \A k \in KeptTo(at) : PlaceTo(at, k) \in 1 .. Len(base)
    BY <1>3, <2>5, PlacesIn
  <2>7. \A x : x \in places <=> \E q \in Signs : RvaOf(q) = order[n].rva /\ x = PlaceTo(at, NameOf(q)) - 1
    <3>1. EntriesFit
      BY <1>1, <1>9, EntriesLeaveRoom
    <3>2. n \in DOMAIN order
      BY <1>3, <1>5
    <3>3. \A x : x \in Chain(order[n].loc) <=>
                   \E q \in Signs : RvaOf(q) = order[n].rva /\ x = PlaceTo(at, NameOf(q)) - 1
      BY <1>2, <3>1, <3>2, ChainIs
    <3>4. QED
      BY <1>6, <3>3
  <2>8. ASSUME NEW k \in KeptTo(at)
        PROVE  PlaceTo(at, k) - 1 \in places <=> \E q \in Signs : RvaOf(q) = order[n].rva /\ k = NameOf(q)
    <3>1. ASSUME NEW q \in Signs
          PROVE  PlaceTo(at, k) - 1 = PlaceTo(at, NameOf(q)) - 1 <=> k = NameOf(q)
      <4>1. PlaceTo(at, k) \in Int /\ PlaceTo(at, NameOf(q)) \in Int /\ NameOf(q) \in KeptTo(at)
        BY <2>5, <2>6
      <4>2. PlaceTo(at, k) - 1 = PlaceTo(at, NameOf(q)) - 1 <=> PlaceTo(at, k) = PlaceTo(at, NameOf(q))
        BY <4>1
      <4>3. QED
        BY <2>5, <4>1, <4>2
    <3>2. QED
      BY <2>7, <3>1
  <2>9. FrameIs(frames[n], old, n)
    BY <1>3, <1>5, <2>1
  <2>10. ASSUME NEW k \in KeptTo(at)
         PROVE  f[PlaceTo(at, k)] = IF PlaceTo(at, k) - 1 \in places THEN v ELSE frames[n][PlaceTo(at, k)]
    BY <1>3, <1>6, <2>6
  <2>11. FrameIs(f, given, n + 1)
    <3>1. Len(f) = Len(base)
      BY <1>3, <1>6
    <3>2. ASSUME NEW k \in KeptTo(at) \ HeadsTo(at)
          PROVE  f[PlaceTo(at, k)] = text[k]
      <4>1. PlaceTo(at, k) - 1 \notin places
        BY <2>5, <2>8, <3>2
      <4>2. QED
        BY <2>9, <2>10, <4>1 DEF FrameIs
    <3>3. ASSUME NEW q \in Signs
          PROVE  /\ \A j \in 1 .. (n + 1) - 1 :
                      order[j].rva = RvaOf(q) => f[PlaceTo(at, NameOf(q))] = given[j]
                 /\ (\A j \in 1 .. (n + 1) - 1 : order[j].rva # RvaOf(q))
                      => f[PlaceTo(at, NameOf(q))] = "1"
      <4>1. PICK p : p = PlaceTo(at, NameOf(q))
        OBVIOUS
      <4>2. f[p] = IF RvaOf(q) = order[n].rva THEN v ELSE frames[n][p]
        <5>1. NameOf(q) \in KeptTo(at)
          BY <2>5
        <5>2. p - 1 \in places <=> RvaOf(q) = order[n].rva
          BY <2>5, <2>8, <4>1, <5>1
        <5>3. QED
          BY <2>10, <4>1, <5>1, <5>2
      <4>3. /\ \A j \in 1 .. n - 1 : order[j].rva = RvaOf(q) => frames[n][p] = old[j]
            /\ (\A j \in 1 .. n - 1 : order[j].rva # RvaOf(q)) => frames[n][p] = "1"
        BY <1>2, <2>9, <4>1 DEF FrameIs
      <4>4. (n + 1) - 1 = n /\ n \in 1 .. n /\ \A j \in 1 .. n : j = n \/ j \in 1 .. n - 1
        BY <1>3, <1>5
      <4>5. ASSUME NEW j \in 1 .. n, order[j].rva = RvaOf(q)
            PROVE  f[p] = given[j]
        <5>1. CASE j = n
          BY <2>3, <4>2, <4>5, <5>1
        <5>2. CASE j \in 1 .. n - 1
          <6>1. j \in DOMAIN order /\ n \in DOMAIN order /\ j < n
            BY <1>3, <1>5, <5>2
          <6>2. order[j].rva # order[n].rva
            BY <1>3, <1>9, <6>1, OrderDiffers
          <6>3. f[p] = old[j]
            BY <4>2, <4>3, <4>5, <5>2, <6>2
          <6>4. QED
            BY <2>3, <5>2, <6>3
        <5>3. QED
          BY <4>4, <5>1, <5>2
      <4>6. ASSUME \A j \in 1 .. n : order[j].rva # RvaOf(q)
            PROVE  f[p] = "1"
        <5>1. \A j \in 1 .. n - 1 : j \in 1 .. n
          BY <1>3, <1>5
        <5>2. frames[n][p] = "1"
          BY <4>3, <4>6, <5>1
        <5>3. QED
          BY <4>2, <4>4, <4>6, <5>2
      <4>7. QED
        BY <4>1, <4>4, <4>5, <4>6
    <3>4. QED
      BY <1>2, <3>1, <3>2, <3>3 DEF FrameIs
  <2>12. ASSUME NEW d \in 1 .. n + 1
         PROVE  FrameIs(IF d = n + 1 THEN f ELSE frames[d], given, d)
    <3>1. CASE d = n + 1
      BY <2>11, <3>1
    <3>2. CASE d \in 1 .. n /\ d # n + 1
      BY <2>4, <3>2
    <3>3. d = n + 1 \/ (d \in 1 .. n /\ d # n + 1)
      BY <1>3, <1>5
    <3>4. QED
      BY <3>1, <3>2, <3>3
  <2>13. QED
    BY <2>3, <2>12
<1>10. ASSUME Narrow, Len(base) <= LocptrMod
       PROVE  \E given \in [1 .. Len(frames') - 1 -> Val] :
                \A d \in 1 .. Len(frames') : FrameIs(frames[d], given, d)'
  <2>1. PICK given \in [1 .. n -> Val] :
               \A d \in 1 .. n + 1 : FrameIs(IF d = n + 1 THEN f ELSE frames[d], given, d)
    BY <1>9, <1>10
  <2>2. ASSUME NEW d \in 1 .. n + 1
        PROVE  FrameIs(frames[d], given, d)'
    <3>1. PICK g : g = IF d = n + 1 THEN f ELSE frames[d]
      OBVIOUS
    <3>2. FrameIs(g, given, d)
      BY <2>1, <3>1
    <3>3. FrameIs(g, given, d)'
      BY <1>1, <3>2, FrameIsKept
    <3>4. frames'[d] = g
      <4>1. d = n + 1 \/ (d \in 1 .. n /\ d # n + 1)
        BY <1>3, <1>5
      <4>2. QED
        BY <1>7, <3>1, <4>1
    <3>5. QED
      BY <3>3, <3>4 DEF FrameIs
  <2>3. Len(frames') - 1 = n
    BY <1>3, <1>5, <1>7
  <2>4. QED
    BY <1>7, <2>1, <2>2, <2>3
<1>11. Narrow' = Narrow
  BY <1>1, TextKept
<1>12. QED
  BY <1>1, <1>8, <1>10, <1>11 DEF GivenInv

LEMMA NextGives ==
  ASSUME Inv, TextInv, GivenInv, [Next]_vars
  PROVE  GivenInv'
<1>1. ASSUME /\ text' = text /\ at' = at /\ base' = base /\ order' = order /\ frames' = frames
             /\ Accepted' => Accepted
      PROVE  GivenInv'
  <2>1. SUFFICES ASSUME Accepted' PROVE GivenInv'
    BY DEF GivenInv
  <2>2. Len(frames') \in 1 .. Len(order') + 1
    BY <1>1, <2>1 DEF GivenInv
  <2>3. /\ Narrow' = Narrow
        /\ \A f, given, d : FrameIs(f, given, d)' <=> FrameIs(f, given, d)
    BY <1>1, FrameIsKept
  <2>4. ASSUME NEW given, NEW d, FrameIs(frames[d], given, d)
        PROVE  FrameIs(frames[d], given, d)'
    <3>1. PICK f : f = frames[d]
      OBVIOUS
    <3>2. FrameIs(f, given, d)'
      BY <2>3, <2>4, <3>1
    <3>3. (frames[d])' = f
      BY <1>1, <3>1
    <3>4. QED
      BY <3>2, <3>3 DEF FrameIs
  <2>5. QED
    BY <1>1, <2>1, <2>2, <2>3, <2>4 DEF GivenInv
<1>2. CASE Symbol \/ Constant \/ TakeRva
  <2>1. mode' = "scan"
    BY <1>2 DEF Symbol, Constant, TakeRva, Scanning
  <2>2. QED
    BY <2>1 DEF GivenInv, Accepted
<1>3. CASE ScanError \/ BadToken \/ CountMismatch
  <2>1. mode' \in {"failed", "fatal"}
    BY <1>3 DEF ScanError, BadToken, CountMismatch, Fail
  <2>2. QED
    BY <2>1 DEF GivenInv, Accepted
<1>4. CASE DryRun
  BY <1>4, DryRunGives DEF Inv
<1>5. CASE Evaluation
  BY <1>1, <1>5 DEF Evaluation, scanVars, Accepted
<1>6. CASE Judge
  <2>1. mode = "dry"
    BY <1>6 DEF Judge
  <2>2. QED
    BY <1>1, <1>6, <2>1 DEF Judge, Fail, Accepted
<1>7. CASE \E v \in Val : SetValue(v)
  BY <1>7, SetValueGives
<1>8. CASE EvalTop
  BY <1>1, <1>8 DEF EvalTop, Accepted
<1>9. CASE Evaluated
  BY <1>1, <1>9 DEF Evaluated, Fail, Accepted
<1>10. CASE UNCHANGED vars
  BY <1>1, <1>10 DEF vars, scanVars, Accepted
<1>11. QED
  BY <1>2, <1>3, <1>4, <1>5, <1>6, <1>7, <1>8, <1>9, <1>10 DEF Next

(* Every frame is the text with each rva replaced, wherever it occurs, by   *)
(* the value given to it, or by 1: the chains lead to all the places of an  *)
(* rva and to no other (_compute_order, bctx_orderi_set).                   *)
THEOREM FramesAreText == Spec => []FrameSubstituted
<1>1. Init => GivenInv
  BY DEF Init, GivenInv, Accepted
<1>2. Inv /\ TextInv /\ GivenInv /\ [Next]_vars => GivenInv'
  BY NextGives
<1>3. ASSUME Inv, TextInv, GivenInv
      PROVE  FrameSubstituted
  <2>1. SUFFICES ASSUME Accepted, Narrow, Len(base) <= LocptrMod
                 PROVE  FrameSubstituted
    BY DEF FrameSubstituted
  <2>2. Clean /\ SignsTo(at) = Signs /\ at = Len(text) /\ ScanInv /\ ReadInv
    BY <1>3, <2>1, AcceptedText DEF Inv, TextInv
  <2>3. PICK rvaAt, kept, place :
          /\ rvaAt = RvaAt /\ kept = Kept
          /\ place = [k \in kept |-> Cardinality({j \in kept : j <= k})]
    OBVIOUS
  <2>4. DOMAIN rvaAt = HeadsTo(at) /\ InRva = InTo(at)
    BY <2>2, <2>3 DEF RvaAt, HeadsTo, InRva, InTo
  <2>5. kept = KeptTo(at)
    <3>1. DOMAIN text = 1 .. at
      BY <2>2, LenProperties DEF ScanInv
    <3>2. QED
      BY <2>3, <2>4, <3>1 DEF Kept, KeptTo
  <2>6. /\ \A q \in Signs : NameOf(q) \in KeptTo(at)
        /\ \A q, s \in Signs : NameOf(q) = NameOf(s) => q = s
    BY <2>2, NamesApart
  <2>7. \A q \in Signs : rvaAt[NameOf(q)] = RvaOf(q)
    BY <2>3, <2>6 DEF RvaAt
  <2>8. \A k \in kept : place[k] = PlaceTo(at, k)
    BY <2>3, <2>5 DEF PlaceTo
  <2>9. PICK given \in [1 .. Len(frames) - 1 -> Val] :
          \A d \in 1 .. Len(frames) : FrameIs(frames[d], given, d)
    BY <1>3, <2>1 DEF GivenInv
  <2> DEFINE Value(d, r) == IF \E k \in 1 .. d - 1 : order[k].rva = r
                            THEN given[CHOOSE k \in 1 .. d - 1 : order[k].rva = r] ELSE "1"
  <2>10. ASSUME NEW d \in DOMAIN frames
         PROVE  /\ Len(frames[d]) = Cardinality(kept)
                /\ \A k \in kept :
                     frames[d][place[k]] = IF k \in DOMAIN rvaAt THEN Value(d, rvaAt[k]) ELSE text[k]
    <3>1. FrameIs(frames[d], given, d)
      <4>1. frames \in Seq(Frame)
        BY <1>3, <2>1 DEF Inv, FramesInv, Accepted
      <4>2. QED
        BY <2>9, <4>1, LenProperties
    <3>2. Len(frames[d]) = Cardinality(kept)
      BY <1>3, <2>2, <2>5, <3>1 DEF FrameIs, TextInv, BaseInv
    <3>3. ASSUME NEW k \in kept, k \in DOMAIN rvaAt
          PROVE  frames[d][place[k]] = Value(d, rvaAt[k])
      <4>1. PICK q \in Signs : k = NameOf(q)
        BY <2>2, <2>4, <3>3 DEF HeadsTo
      <4>2. PICK r : r = RvaOf(q) /\ rvaAt[k] = r
        BY <2>7, <4>1
      <4>3. /\ \A j \in 1 .. d - 1 : order[j].rva = r => frames[d][place[k]] = given[j]
            /\ (\A j \in 1 .. d - 1 : order[j].rva # r) => frames[d][place[k]] = "1"
        BY <2>2, <2>8, <3>1, <4>1, <4>2 DEF FrameIs
      <4>4. CASE \E j \in 1 .. d - 1 : order[j].rva = r
        <5>1. PICK j : j = CHOOSE i \in 1 .. d - 1 : order[i].rva = r
          OBVIOUS
        <5>2. j \in 1 .. d - 1 /\ order[j].rva = r
          BY <4>4, <5>1
        <5>3. Value(d, r) = given[j]
          BY <4>4, <5>1
        <5>4. QED
          BY <4>2, <4>3, <5>2, <5>3
      <4>5. CASE ~ \E j \in 1 .. d - 1 : order[j].rva = r
        BY <4>2, <4>3, <4>5
      <4>6. QED
        BY <4>4, <4>5
    <3>4. ASSUME NEW k \in kept, k \notin DOMAIN rvaAt
          PROVE  frames[d][place[k]] = text[k]
      BY <2>4, <2>5, <2>8, <3>1, <3>4 DEF FrameIs
    <3>5. QED
      BY <3>2, <3>3, <3>4
  <2>11. QED
    BY <2>3, <2>10 DEF FrameSubstituted
<1>4. QED
  BY <1>1, <1>2, <1>3, TextInvHolds, PTL DEF Spec

-----------------------------------------------------------------------------
(***************************************************************************)
(* What an evaluation returns.  The state and the pending states after each *)
(* token, as Evaluate computes them.                                       *)
(***************************************************************************)
Cfg(s, o) == [state |-> s, open |-> o]
Config == [state : Static \cup Results \cup {"error"}, open : Seq(Waiting)]

(* f is what Evaluate goes through on the input in. *)
Runs(f, in) ==
  /\ f \in [0 .. Len(in) -> Config]
  /\ f[0] = Cfg("valstart", <<>>)
  /\ \A k \in 1 .. Len(in) : f[k] = AfterToken(f[k - 1], in[k])

Verdict(last) ==
  IF last.open # <<>> \/ last.state \notin Results THEN -1
  ELSE IF last.state = "result0" THEN 0 ELSE 1

LEMMA AfterWaiting ==
  ASSUME NEW s \in Waiting, NEW o, NEW tok \in Token
  PROVE  /\ tok \in Val => AfterToken(Cfg(s, o), tok) = Cfg(StateOf(ValueBehind(s, tok)), o)
         /\ tok = "!" => AfterToken(Cfg(s, o), tok) = Cfg(Negation(s), o)
         /\ tok = "(" => AfterToken(Cfg(s, o), tok)
                           = Cfg(IF Len(o) + 1 = StackMax THEN "error" ELSE "valstart", Append(o, s))
         /\ tok \notin Val \cup {"!", "("} => AfterToken(Cfg(s, o), tok) = Cfg("error", o)
<1>1. s # "error" /\ Cfg(s, o).state = s /\ Cfg(s, o).open = o
      /\ \A r : [Cfg(s, o) EXCEPT !.state = r] = Cfg(r, o)
  BY DEF Waiting, Cfg
<1>2. \A r : r \notin {"paropen", "parclose", "error"} /\ Fsm(s, tok) = r =>
             AfterToken(Cfg(s, o), tok) = Cfg(r, o)
  BY <1>1 DEF AfterToken
<1>3. CASE tok \in Val
  <2>1. Fsm(s, tok) = StateOf(ValueBehind(s, tok)) /\ tok # "!" /\ tok # "("
    BY <1>3 DEF Fsm, Val
  <2>2. StateOf(ValueBehind(s, tok)) \notin {"paropen", "parclose", "error"}
    BY DEF StateOf
  <2>3. QED
    BY <1>2, <1>3, <2>1, <2>2
<1>4. CASE tok = "!"
  <2>1. Fsm(s, tok) = Negation(s) /\ Fsm(s, tok) \in Waiting
    BY <1>4, FsmWaiting DEF Fsm, Val
  <2>2. QED
    BY <1>2, <1>4, <2>1 DEF Waiting, Val
<1>5. CASE tok = "("
  <2>1. Fsm(s, tok) = "paropen"
    BY <1>5, FsmWaiting
  <2>2. QED
    BY <1>1, <1>5, <2>1 DEF AfterToken, Val, Cfg
<1>6. CASE tok \notin Val \cup {"!", "("}
  <2>1. Fsm(s, tok) = "error"
    BY <1>6, FsmWaiting
  <2>2. QED
    BY <1>1, <1>6, <2>1 DEF AfterToken
<1>7. QED
  BY <1>3, <1>4, <1>5, <1>6

LEMMA AfterValue ==
  ASSUME NEW s \in Values, NEW o, NEW tok \in Token
  PROVE  /\ tok \in {"&", "|", "E"} => AfterToken(Cfg(s, o), tok) = Cfg(Fsm(s, tok), o)
         /\ tok = ")" => AfterToken(Cfg(s, o), tok)
                           = IF o = <<>> THEN Cfg("error", o)
                             ELSE Cfg(Fsm(Last(o), ValueOf(s)), Front(o))
         /\ tok \notin {"&", "|", "E", ")"} => AfterToken(Cfg(s, o), tok) = Cfg("error", o)
<1>1. s # "error" /\ Cfg(s, o).state = s /\ Cfg(s, o).open = o
      /\ \A r : [Cfg(s, o) EXCEPT !.state = r] = Cfg(r, o)
  BY DEF Values, Cfg
<1>2. \A r : r \notin {"paropen", "parclose", "error"} /\ Fsm(s, tok) = r =>
             AfterToken(Cfg(s, o), tok) = Cfg(r, o)
  BY <1>1 DEF AfterToken
<1>3. CASE tok \in {"&", "|", "E"}
  <2>1. Fsm(s, tok) \in Waiting \cup Results
    BY <1>3, FsmValue
  <2>2. QED
    BY <1>2, <1>3, <2>1 DEF Waiting, Results
<1>4. CASE tok = ")"
  <2>1. Fsm(s, tok) = "parclose"
    BY <1>4, FsmValue
  <2>2. QED
    BY <1>1, <1>4, <2>1 DEF AfterToken, Cfg
<1>5. CASE tok \notin {"&", "|", "E", ")"}
  <2>1. Fsm(s, tok) = "error"
    BY <1>5, FsmValue
  <2>2. QED
    BY <1>1, <1>5, <2>1 DEF AfterToken
<1>6. QED
  BY <1>3, <1>4, <1>5

LEMMA AfterError ==
  ASSUME NEW o, NEW tok
  PROVE  AfterToken(Cfg("error", o), tok) = Cfg("error", o)
BY DEF AfterToken, Cfg

LEMMA LastPending ==
  ASSUME NEW o \in Seq(Waiting), o # <<>>
  PROVE  /\ Last(o) \in Waiting /\ Front(o) \in Seq(Waiting) /\ Len(Front(o)) = Len(o) - 1
         /\ Len(o) \in Nat \ {0}
<1>1. Len(o) \in Nat \ {0}
  BY EmptySeq
<1>2. PICK m \in Int : m = Len(o) - 1
  BY <1>1
<1>3. \A i \in 1 .. m : o[i] \in Waiting
  BY <1>1, <1>2, ElementOfSeq
<1>4. /\ SubSeq(o, 1, m) \in Seq(Waiting)
      /\ Len(SubSeq(o, 1, m)) = IF 1 <= m THEN m - 1 + 1 ELSE 0
  BY <1>3, SubSeqProperties
<1>5. o[Len(o)] \in Waiting
  BY <1>1, ElementOfSeq
<1>6. QED
  BY <1>1, <1>2, <1>4, <1>5 DEF Front, Last

LEMMA FrontOfAppend ==
  ASSUME NEW o \in Seq(Waiting), NEW s \in Waiting
  PROVE  /\ Append(o, s) \in Seq(Waiting) /\ Append(o, s) # <<>>
         /\ Last(Append(o, s)) = s /\ Front(Append(o, s)) = o
         /\ Len(Append(o, s)) = Len(o) + 1
<1>1. PICK q \in Seq(Waiting) : q = Append(o, s)
  BY AppendProperties
<1>2. /\ Len(q) = Len(o) + 1 /\ Len(o) \in Nat
      /\ \A i \in 1 .. Len(o) : q[i] = o[i]
      /\ q[Len(o) + 1] = s
  BY <1>1, AppendProperties, LenProperties
<1>3. q # <<>> /\ Last(q) = s
  BY <1>2, EmptySeq DEF Last
<1>4. Front(q) \in Seq(Waiting) /\ Len(Front(q)) = Len(o)
  BY <1>2, <1>3, LastPending
<1>5. \A i \in 1 .. Len(o) : Front(q)[i] = o[i]
  <2>1. Front(q) = SubSeq(q, 1, Len(o))
    BY <1>2 DEF Front
  <2>2. \A i \in 1 .. Len(o) : q[i] \in Waiting
    BY <1>2, ElementOfSeq
  <2>3. \A i \in 1 .. Len(o) : SubSeq(q, 1, Len(o))[i] = q[1 + i - 1]
    BY <1>2, <2>2, SubSeqProperties
  <2>4. QED
    BY <1>2, <2>1, <2>3
<1>6. Front(q) = o
  BY <1>4, <1>5, SeqEqual
<1>7. QED
  BY <1>1, <1>2, <1>3, <1>6

LEMMA AfterStays ==
  ASSUME NEW m \in Config, NEW tok \in Token
  PROVE  AfterToken(m, tok) \in Config
<1>1. PICK s, o : /\ m = Cfg(s, o) /\ s \in Static \cup Results \cup {"error"}
                  /\ o \in Seq(Waiting)
  BY DEF Config, Cfg
<1>2. \A r, q : r \in Static \cup Results \cup {"error"} /\ q \in Seq(Waiting) => Cfg(r, q) \in Config
  BY DEF Config, Cfg
<1>3. "error" \in Static \cup Results \cup {"error"} /\ "valstart" \in Static
  BY DEF Static, Waiting
<1>4. \A v \in Val \cup {"0", "1"} : v \in Token /\ v \in Val
  BY DEF Val, Token
<1>5. o # <<>> => Fsm(Last(o), ValueOf(s)) \in Values
  <2>1. ValueOf(s) \in Val
    BY DEF ValueOf, Val
  <2>2. QED
    BY <1>1, <1>4, <2>1, LastPending, FsmWaiting
<1>6. CASE s \in Waiting
  <2>1. tok \in Val => StateOf(ValueBehind(s, tok)) \in Values
    BY DEF StateOf, Values
  <2>2. tok = "!" => Negation(s) \in Waiting
    BY <1>6, FsmWaiting DEF Fsm, Val
  <2>3. Append(o, s) \in Seq(Waiting)
    BY <1>1, <1>6, FrontOfAppend
  <2>4. PICK r, q : AfterToken(m, tok) = Cfg(r, q) /\ r \in Static \cup {"error"} /\ q \in {o, Append(o, s)}
    BY <1>1, <1>3, <1>6, <2>1, <2>2, AfterWaiting, StateKinds
  <2>5. QED
    BY <1>1, <1>2, <2>3, <2>4
<1>7. CASE s \in Values
  <2>1. tok \in {"&", "|", "E"} => Fsm(s, tok) \in Static \cup Results
    BY <1>7, FsmValue, StateKinds
  <2>2. o # <<>> => Front(o) \in Seq(Waiting)
    BY <1>1, LastPending
  <2>3. PICK r, q : /\ AfterToken(m, tok) = Cfg(r, q) /\ r \in Static \cup Results \cup {"error"}
                    /\ q = o \/ (o # <<>> /\ q = Front(o))
    BY <1>1, <1>3, <1>5, <1>7, <2>1, AfterValue, StateKinds
  <2>4. QED
    BY <1>1, <1>2, <2>2, <2>3
<1>8. CASE s \in Results
  <2>1. s # "error" /\ s \notin Waiting /\ m.state = s /\ m.open = o
        /\ \A r : [m EXCEPT !.state = r] = Cfg(r, o)
    BY <1>1, <1>8 DEF Results, Waiting, Cfg
  <2>2. Fsm(s, tok) \in Waiting \cup Results \cup {"parclose", "error"}
    BY <1>8, <2>1 DEF Fsm, Waiting, Results
  <2>3. CASE Fsm(s, tok) = "parclose"
    <3>1. o # <<>> => Front(o) \in Seq(Waiting)
      BY <1>1, LastPending
    <3>2. AfterToken(m, tok) = IF o = <<>> THEN Cfg("error", o) ELSE Cfg(Fsm(Last(o), ValueOf(s)), Front(o))
      BY <2>1, <2>3 DEF AfterToken, Cfg
    <3>3. QED
      BY <1>1, <1>2, <1>3, <1>5, <3>1, <3>2, StateKinds
  <2>4. CASE Fsm(s, tok) # "parclose"
    <3>1. Fsm(s, tok) # "paropen" /\ Fsm(s, tok) \in Static \cup Results \cup {"error"}
      BY <2>2, <2>4, StateKinds DEF Waiting, Results
    <3>2. AfterToken(m, tok) = Cfg(Fsm(s, tok), o)
      BY <2>1, <2>4, <3>1 DEF AfterToken
    <3>3. QED
      BY <1>1, <1>2, <3>1, <3>2
  <2>5. QED
    BY <2>3, <2>4
<1>9. CASE s = "error"
  BY <1>1, <1>9, AfterError
<1>10. QED
  BY <1>1, <1>6, <1>7, <1>8, <1>9, StateKinds

LEMMA EvaluateRuns ==
  ASSUME NEW toks \in Seq(Token)
  PROVE  \E f : /\ Runs(f, Append(toks, "E"))
                /\ Evaluate(toks) = Verdict(f[Len(toks) + 1])
<1> DEFINE in == Append(toks, "E")
           D == 0 .. Len(in)
           step(g, k) == IF k = 0 THEN [state |-> "valstart", open |-> <<>>] ELSE AfterToken(g[k - 1], in[k])
           rank == [k \in D |-> k]
           S == [q \in [D -> Config] \X D |-> step(q[1], q[2])]
<1>1. in \in Seq(Token) /\ Len(in) = Len(toks) + 1 /\ Len(in) \in Nat
  <2>1. "E" \in Token
    BY DEF Token
  <2>2. QED
    BY <2>1, AppendProperties, LenProperties
<1>2. [state |-> "valstart", open |-> <<>>] \in Config
  BY EmptySeq DEF Config, Static, Waiting
<1>3. rank \in [D -> Nat] /\ Config # {}
  <2>1. rank \in [D -> Nat]
    BY <1>1
  <2>2. QED
    BY <1>2, <2>1
<1>4. ASSUME NEW g \in [D -> Config], NEW k \in D
      PROVE  step(g, k) \in Config
  <2>1. k # 0 => k - 1 \in D /\ in[k] \in Token
    BY <1>1, ElementOfSeq
  <2> HIDE DEF in, D
  <2>2. QED
    BY <1>2, <2>1, AfterStays
<1>5. S \in [[D -> Config] \X D -> Config]
  <2> HIDE DEF D, step
  <2>1. QED
    BY <1>4
<1>6. ASSUME NEW k \in D, NEW g, NEW h, \A y \in D : rank[y] < rank[k] => g[y] = h[y]
      PROVE  step(g, k) = step(h, k)
  <2>1. k # 0 => k - 1 \in D /\ rank[k - 1] < rank[k]
    BY <1>1
  <2> HIDE DEF D, rank
  <2>2. QED
    BY <1>6, <2>1
<1>7. Descends(D, Config, S, rank)
  <2> HIDE DEF D, step, rank
  <2>1. QED
    BY <1>6 DEF Descends
<1>8. PICK f \in [D -> Config] : \A k \in D : f[k] = S[<<f, k>>]
  <2> HIDE DEF D, S, rank
  <2>1. Solvable(D, Config, S)
    BY <1>3, <1>5, <1>7, Recursion
  <2>2. QED
    BY <2>1 DEF Solvable
<1>9. f = [k \in D |-> step(f, k)]
  <2> HIDE DEF D, step
  <2>1. QED
    BY <1>8
<1> DEFINE after == CHOOSE g : g = [k \in D |-> step(g, k)]
<1>10. after = [k \in D |-> step(after, k)]
  <2> HIDE DEF step, D
  <2>1. QED
    BY <1>9
<1>11. PICK h : h = after /\ h = [k \in D |-> step(h, k)]
  BY <1>10
<1>12. \A k \in D : h[k] = step(h, k)
  <2> HIDE DEF D, step, after
  <2>1. QED
    BY <1>11
<1>13. \A k \in D : h[k] \in Config /\ f[k] = h[k]
  <2>1. AgreeUpwards(D, rank, f, h)
    <3> HIDE DEF D, step, rank, after
    <3>1. \A k \in D : f[k] = step(f, k)
      BY <1>8 DEF S
    <3>2. QED
      BY <1>6, <1>12, <3>1 DEF AgreeUpwards
  <2>2. \A k \in D : f[k] = h[k]
    <3> HIDE DEF D, rank, after
    <3>1. QED
      BY <1>3, <2>1, Agreement
  <2> HIDE DEF D
  <2>3. QED
    BY <2>2
<1>14. Runs(h, in)
  <2>1. h \in [D -> Config]
    <3> HIDE DEF D, step, after
    <3>1. h = [k \in D |-> h[k]]
      BY <1>11
    <3>2. QED
      BY <1>13, <3>1
  <2>2. h[0] = Cfg("valstart", <<>>)
    <3>1. 0 \in D
      BY <1>1
    <3>2. h[0] = step(h, 0)
      BY <1>12, <3>1
    <3>3. QED
      BY <3>2 DEF Cfg
  <2>3. \A k \in 1 .. Len(in) : h[k] = AfterToken(h[k - 1], in[k])
    <3>1. SUFFICES ASSUME NEW k \in 1 .. Len(in) PROVE h[k] = AfterToken(h[k - 1], in[k])
      OBVIOUS
    <3>2. k \in D /\ k # 0
      BY <1>1
    <3>3. h[k] = step(h, k)
      BY <1>12, <3>2
    <3>4. QED
      BY <3>2, <3>3
  <2>4. QED
    BY <2>1, <2>2, <2>3 DEF Runs
<1>15. Evaluate(toks) = Verdict(h[Len(toks) + 1])
  <2>1. PICK last : last = after[Len(in)]
    OBVIOUS
  <2>2. Evaluate(toks) = CASE last.open # <<>>                                   -> -1
                           [] last.open = <<>> /\ last.state = "result0"         -> 0
                           [] last.open = <<>> /\ last.state = "result1"         -> 1
                           [] last.open = <<>> /\ last.state \notin {"result0", "result1"} -> -1
    BY <2>1 DEF Evaluate
  <2>3. last = h[Len(toks) + 1]
    BY <1>1, <1>11, <2>1
  <2> HIDE DEF in, after
  <2>4. Evaluate(toks) = Verdict(last)
    BY <2>2 DEF Verdict, Results
  <2>5. QED
    BY <2>3, <2>4
<1>16. QED
  BY <1>14, <1>15

-----------------------------------------------------------------------------
(* The grammar: g gives what Grammar reads from i to j. *)
Worth == {"0", "1", "none"}

Reads(g, s) ==
  \A i \in 1 .. Len(s) + 1, j \in 0 .. Len(s) :
    /\ g[<<"unary", i, j>>] = IF i > j THEN "none" ELSE UnaryValue(s, g, i, j)
    /\ g[<<"expr", i, j>>] = IF i > j THEN "none" ELSE ExprValue(s, g, i, j)
    /\ g[<<"unary", i, j>>] \in Worth /\ g[<<"expr", i, j>>] \in Worth

ReadRank(p) == IF p[2] > p[3] THEN 0 ELSE 2 * (p[3] - p[2]) + (IF p[1] = "expr" THEN 2 ELSE 1)

LEMMA UnaryAsks ==
  ASSUME NEW s \in Seq(Token), NEW i \in 1 .. Len(s), NEW j \in 1 .. Len(s), i <= j,
         NEW g, NEW h, g[<<"unary", i + 1, j>>] = h[<<"unary", i + 1, j>>],
         i < j => g[<<"expr", i + 1, j - 1>>] = h[<<"expr", i + 1, j - 1>>]
  PROVE  UnaryValue(s, g, i, j) = UnaryValue(s, h, i, j)
<1>1. s[i] = "(" /\ s[j] = ")" => i < j
  BY LenProperties
<1>2. QED
  BY <1>1 DEF UnaryValue

LEMMA ExprAsks ==
  ASSUME NEW s \in Seq(Token), NEW i \in 1 .. Len(s), NEW j \in 1 .. Len(s), i <= j,
         NEW g, NEW h, g[<<"unary", i, j>>] = h[<<"unary", i, j>>],
         \A k \in i + 1 .. j - 1 : /\ g[<<"unary", k + 1, j>>] = h[<<"unary", k + 1, j>>]
                                   /\ g[<<"expr", i, k - 1>>] = h[<<"expr", i, k - 1>>]
  PROVE  ExprValue(s, g, i, j) = ExprValue(s, h, i, j)
<1>1. Splits(s, g, i, j) = Splits(s, h, i, j)
  BY DEF Splits
<1>2. Splits(s, g, i, j) # {} =>
        \E k \in i + 1 .. j - 1 : k = CHOOSE x \in Splits(s, g, i, j) : TRUE
  BY DEF Splits
<1>3. CASE Splits(s, g, i, j) # {}
  <2>1. PICK k \in i + 1 .. j - 1 : k = CHOOSE x \in Splits(s, g, i, j) : TRUE
    BY <1>2, <1>3
  <2>2. k = CHOOSE x \in Splits(s, h, i, j) : TRUE
    BY <1>1, <2>1
  <2>3. ApplyOp(g[<<"expr", i, k - 1>>], s[k], g[<<"unary", k + 1, j>>])
        = ApplyOp(h[<<"expr", i, k - 1>>], s[k], h[<<"unary", k + 1, j>>])
    OBVIOUS
  <2>4. QED
    BY <1>1, <1>3, <2>1, <2>2, <2>3 DEF ExprValue
<1>4. CASE Splits(s, g, i, j) = {}
  BY <1>1, <1>4 DEF ExprValue
<1>5. QED
  BY <1>3, <1>4

LEMMA ValuesWorth ==
  ASSUME NEW s \in Seq(Token), NEW i, NEW j, NEW g,
         g[<<"unary", i, j>>] \in Worth, g[<<"unary", i + 1, j>>] \in Worth,
         s[i] = "(" /\ s[j] = ")" => g[<<"expr", i + 1, j - 1>>] \in Worth,
         \A k \in i + 1 .. j - 1 : g[<<"unary", k + 1, j>>] \in Worth /\ g[<<"expr", i, k - 1>>] \in Worth
  PROVE  UnaryValue(s, g, i, j) \in Worth /\ ExprValue(s, g, i, j) \in Worth
<1>1. UnaryValue(s, g, i, j) \in Worth
  BY DEF UnaryValue, Worth, Val, Complement
<1>2. ASSUME Splits(s, g, i, j) # {}
      PROVE  LET k == CHOOSE x \in Splits(s, g, i, j) : TRUE
             IN  ApplyOp(g[<<"expr", i, k - 1>>], s[k], g[<<"unary", k + 1, j>>]) \in Worth
  <2>1. PICK k \in Splits(s, g, i, j) : k = CHOOSE x \in Splits(s, g, i, j) : TRUE
    BY <1>2
  <2>2. k \in i + 1 .. j - 1
    BY <2>1 DEF Splits
  <2>3. g[<<"unary", k + 1, j>>] \in Worth
    BY <2>2
  <2>4. ApplyOp(g[<<"expr", i, k - 1>>], s[k], g[<<"unary", k + 1, j>>]) \in Worth
    BY <2>3 DEF ApplyOp, Worth
  <2>5. QED
    BY <2>1, <2>4
<1>3. ExprValue(s, g, i, j) \in Worth
  BY <1>2 DEF ExprValue, Worth
<1>4. QED
  BY <1>1, <1>3

LEMMA GrammarReads ==
  ASSUME NEW s \in Seq(Token)
  PROVE  \E g : Reads(g, s) /\ Grammar(s) = g[<<"expr", 1, Len(s)>>]
<1> DEFINE D == {"unary", "expr"} \X (1 .. Len(s) + 1) \X (0 .. Len(s))
           step(g, p) == IF p[2] > p[3] THEN "none"
                         ELSE IF p[1] = "unary" THEN UnaryValue(s, g, p[2], p[3])
                         ELSE ExprValue(s, g, p[2], p[3])
           rank == [p \in D |-> ReadRank(p)]
           S == [q \in [D -> Worth] \X D |-> step(q[1], q[2])]
<1>1. Len(s) \in Nat
  BY LenProperties
<1>2. rank \in [D -> Nat] /\ Worth # {}
  <2>1. \A p \in D : ReadRank(p) \in Nat
    BY <1>1 DEF ReadRank
  <2> HIDE DEF D
  <2>2. QED
    BY <2>1 DEF Worth
<1>3. ASSUME NEW k \in {"unary", "expr"}, NEW i \in 1 .. Len(s) + 1, NEW j \in 0 .. Len(s)
      PROVE  /\ <<k, i, j>> \in D
             /\ rank[<<k, i, j>>] = IF i > j THEN 0 ELSE 2 * (j - i) + (IF k = "expr" THEN 2 ELSE 1)
             /\ \A g : step(g, <<k, i, j>>)
                         = IF i > j THEN "none"
                           ELSE IF k = "unary" THEN UnaryValue(s, g, i, j) ELSE ExprValue(s, g, i, j)
  BY DEF ReadRank
<1>4. \A p \in D : \E k \in {"unary", "expr"}, i \in 1 .. Len(s) + 1, j \in 0 .. Len(s) : p = <<k, i, j>>
  OBVIOUS
<1>5. ASSUME NEW p \in D, NEW g, NEW h, \A y \in D : rank[y] < rank[p] => g[y] = h[y]
      PROVE  step(g, p) = step(h, p)
  <2>1. PICK k \in {"unary", "expr"}, i \in 1 .. Len(s) + 1, j \in 0 .. Len(s) : p = <<k, i, j>>
    BY <1>4
  <2> HIDE DEF D, rank, step
  <2>2. CASE i > j
    BY <1>3, <2>1, <2>2
  <2>3. ASSUME i <= j
        PROVE  /\ i \in 1 .. Len(s) /\ j \in 1 .. Len(s)
               /\ g[<<"unary", i + 1, j>>] = h[<<"unary", i + 1, j>>]
               /\ i < j => g[<<"expr", i + 1, j - 1>>] = h[<<"expr", i + 1, j - 1>>]
               /\ k = "expr" => g[<<"unary", i, j>>] = h[<<"unary", i, j>>]
    <3>1. i \in 1 .. Len(s) /\ j \in 1 .. Len(s) /\ i + 1 \in 1 .. Len(s) + 1 /\ j - 1 \in 0 .. Len(s)
      BY <1>1, <2>3
    <3>2. rank[p] \in Nat /\ rank[p] >= 2 * (j - i) + 1 /\ (k = "expr" => rank[p] = 2 * (j - i) + 2)
      <4>1. rank[p] = IF i > j THEN 0 ELSE 2 * (j - i) + (IF k = "expr" THEN 2 ELSE 1)
        BY <1>3, <2>1
      <4>2. ~(i > j) /\ i \in Int /\ j \in Int
        BY <2>3
      <4>3. rank[p] = 2 * (j - i) + (IF k = "expr" THEN 2 ELSE 1)
        BY <4>1, <4>2
      <4>4. QED
        BY <2>3, <4>2, <4>3
    <3>3. <<"unary", i + 1, j>> \in D /\ rank[<<"unary", i + 1, j>>] < rank[p]
      BY <1>3, <2>3, <3>1, <3>2
    <3>4. i < j => <<"expr", i + 1, j - 1>> \in D /\ rank[<<"expr", i + 1, j - 1>>] < rank[p]
      BY <1>3, <2>3, <3>1, <3>2
    <3>5. k = "expr" => <<"unary", i, j>> \in D /\ rank[<<"unary", i, j>>] < rank[p]
      BY <1>3, <2>3, <3>1, <3>2
    <3>6. QED
      BY <1>5, <3>1, <3>3, <3>4, <3>5
  <2>4. ASSUME i <= j, k = "expr", NEW m \in i + 1 .. j - 1
        PROVE  /\ g[<<"unary", m + 1, j>>] = h[<<"unary", m + 1, j>>]
               /\ g[<<"expr", i, m - 1>>] = h[<<"expr", i, m - 1>>]
    <3>1. rank[p] = 2 * (j - i) + 2
      BY <1>3, <2>1, <2>4
    <3>2. m + 1 \in 1 .. Len(s) + 1 /\ m - 1 \in 0 .. Len(s)
      BY <1>1
    <3>3. <<"unary", m + 1, j>> \in D /\ rank[<<"unary", m + 1, j>>] < rank[p]
      BY <1>3, <2>4, <3>1, <3>2
    <3>4. <<"expr", i, m - 1>> \in D /\ rank[<<"expr", i, m - 1>>] < rank[p]
      BY <1>3, <2>4, <3>1, <3>2
    <3>5. QED
      BY <1>5, <3>3, <3>4
  <2>5. CASE i <= j /\ k = "unary"
    <3>1. UnaryValue(s, g, i, j) = UnaryValue(s, h, i, j)
      BY <2>3, <2>5, UnaryAsks
    <3>2. QED
      BY <1>3, <2>1, <2>5, <3>1
  <2>6. CASE i <= j /\ k = "expr"
    <3>1. ExprValue(s, g, i, j) = ExprValue(s, h, i, j)
      BY <2>3, <2>4, <2>6, ExprAsks
    <3>2. QED
      BY <1>3, <2>1, <2>6, <3>1
  <2>7. QED
    BY <2>2, <2>5, <2>6
<1>6. ASSUME NEW g \in [D -> Worth], NEW p \in D
      PROVE  step(g, p) \in Worth
  <2>1. PICK k \in {"unary", "expr"}, i \in 1 .. Len(s) + 1, j \in 0 .. Len(s) : p = <<k, i, j>>
    BY <1>4
  <2>2. CASE i > j
    <3> HIDE DEF D, step
    <3>1. QED
      BY <1>3, <2>1, <2>2 DEF Worth
  <2>3. CASE i <= j
    <3>1. i + 1 \in 1 .. Len(s) + 1 /\ j - 1 \in 0 .. Len(s)
      BY <1>1, <2>3
    <3>2. \A m \in i + 1 .. j - 1 : m + 1 \in 1 .. Len(s) + 1 /\ m - 1 \in 0 .. Len(s)
      BY <1>1
    <3> HIDE DEF D, step, rank
    <3>3. \A x \in {"unary", "expr"}, a \in 1 .. Len(s) + 1, b \in 0 .. Len(s) : g[<<x, a, b>>] \in Worth
      BY <1>3
    <3>4. /\ g[<<"unary", i, j>>] \in Worth /\ g[<<"unary", i + 1, j>>] \in Worth
          /\ g[<<"expr", i + 1, j - 1>>] \in Worth
          /\ \A m \in i + 1 .. j - 1 : g[<<"unary", m + 1, j>>] \in Worth /\ g[<<"expr", i, m - 1>>] \in Worth
      BY <3>1, <3>2, <3>3
    <3>5. UnaryValue(s, g, i, j) \in Worth /\ ExprValue(s, g, i, j) \in Worth
      BY <3>4, ValuesWorth
    <3>6. QED
      BY <1>3, <2>1, <3>5 DEF Worth
  <2>4. QED
    BY <2>2, <2>3
<1>7. S \in [[D -> Worth] \X D -> Worth]
  <2> HIDE DEF D, step
  <2>1. QED
    BY <1>6
<1>8. Descends(D, Worth, S, rank)
  <2> HIDE DEF D, step, rank
  <2>1. QED
    BY <1>5 DEF Descends
<1>9. PICK f \in [D -> Worth] : \A p \in D : f[p] = S[<<f, p>>]
  <2> HIDE DEF D, S, rank
  <2>1. Solvable(D, Worth, S)
    BY <1>2, <1>7, <1>8, Recursion
  <2>2. QED
    BY <2>1 DEF Solvable
<1>10. f = [p \in D |-> step(f, p)]
  <2> HIDE DEF D, step
  <2>1. QED
    BY <1>9
<1> DEFINE read == CHOOSE g : g = [p \in D |-> step(g, p)]
<1>11. read = [p \in D |-> step(read, p)]
  <2> HIDE DEF step, D
  <2>1. QED
    BY <1>10
<1>12. PICK h : h = read /\ h = [p \in D |-> step(h, p)]
  BY <1>11
<1>13. \A p \in D : h[p] = step(h, p) /\ h[p] \in Worth
  <2>1. \A p \in D : h[p] = step(h, p)
    <3> HIDE DEF D, step, read
    <3>1. QED
      BY <1>12
  <2>2. AgreeUpwards(D, rank, f, h)
    <3> HIDE DEF D, step, rank, read
    <3>1. \A p \in D : f[p] = step(f, p)
      BY <1>9 DEF S
    <3>2. QED
      BY <1>5, <2>1, <3>1 DEF AgreeUpwards
  <2>3. \A p \in D : f[p] = h[p]
    <3> HIDE DEF D, rank, read
    <3>1. QED
      BY <1>2, <2>2, Agreement
  <2> HIDE DEF D, step, read
  <2>4. QED
    BY <2>1, <2>3
<1>14. Reads(h, s)
  <2> HIDE DEF D, step, read, rank
  <2>1. QED
    BY <1>3, <1>13 DEF Reads
<1>15. Grammar(s) = h[<<"expr", 1, Len(s)>>]
  <2>1. Grammar(s) = read[<<"expr", 1, Len(s)>>]
    BY DEF Grammar
  <2> HIDE DEF read
  <2>2. QED
    BY <1>12, <2>1
<1>16. QED
  BY <1>14, <1>15

-----------------------------------------------------------------------------
(* What the table does with the values of a grammar. *)
LEMMA TableFacts ==
  ASSUME NEW s \in Waiting, NEW v \in Val
  PROVE  /\ Negation(s) \in Waiting
         /\ ValueBehind(Negation(s), v) = ValueBehind(s, Complement(v))
         /\ ValueOf(StateOf(v)) = v /\ StateOf(v) \in Values
         /\ Fsm(s, v) = StateOf(ValueBehind(s, v))
         /\ ValueBehind("valstart", v) = v
<1>1. Negation(s) \in Waiting /\ ValueBehind(Negation(s), v) = ValueBehind(s, Complement(v))
  BY DEF Waiting, Negation, ValueBehind, Complement, Val
<1>2. ValueOf(StateOf(v)) = v /\ StateOf(v) \in Values /\ ValueBehind("valstart", v) = v
  BY DEF ValueOf, StateOf, Values, ValueBehind, Val
<1>3. Fsm(s, v) = StateOf(ValueBehind(s, v))
  BY DEF Fsm, Val
<1>4. QED
  BY <1>1, <1>2, <1>3

LEMMA OperatorFacts ==
  ASSUME NEW v \in Val, NEW w \in Val, NEW op \in {"&", "|"}
  PROVE  /\ Fsm(StateOf(v), op) \in Waiting /\ StateOf(v) \in Values /\ op \in Token
         /\ ValueBehind(Fsm(StateOf(v), op), w) = ApplyOp(v, op, w)
         /\ ApplyOp(v, op, w) \in Val
<1>1. Fsm("s0", op) = (IF op = "&" THEN "0and" ELSE "0or")
  BY DEF Fsm, Waiting
<1>2. Fsm("s1", op) = (IF op = "&" THEN "1and" ELSE "1or")
  BY DEF Fsm, Waiting
<1>3. QED
  BY <1>1, <1>2 DEF StateOf, ValueBehind, ApplyOp, Val, Waiting, Values, Token

(* What g reads from i to j is what an evaluation makes of these tokens.    *)
UnaryParsed(f, g, i, j) ==
  g[<<"unary", i, j>>] # "none" =>
    \A s \in Waiting, o \in Seq(Waiting) :
      f[i - 1] = Cfg(s, o) => f[j] = Cfg(StateOf(ValueBehind(s, g[<<"unary", i, j>>])), o)
ExprParsed(f, g, i, j) ==
  g[<<"expr", i, j>>] # "none" =>
    \A o \in Seq(Waiting) :
      f[i - 1] = Cfg("valstart", o) => f[j] = Cfg(StateOf(g[<<"expr", i, j>>]), o)

(* No parenthesis opens one level too many. *)
Shallow(f, n) == \A k \in 0 .. n : Len(f[k].open) # StackMax

(* An evaluation of the tokens s, of which g gives the readings. *)
Parsing(f, g, s) ==
  s \in Seq(Token \ {"E"}) /\ Reads(g, s) /\ Runs(f, Append(s, "E")) /\ Shallow(f, Len(s))

LEMMA TokenTaken ==
  ASSUME NEW s \in Seq(Token \ {"E"}), NEW f, Runs(f, Append(s, "E"))
  PROVE  /\ Len(s) \in Nat /\ s \in Seq(Token) /\ Len(Append(s, "E")) = Len(s) + 1
         /\ \A k \in 1 .. Len(s) : f[k] = AfterToken(f[k - 1], s[k]) /\ s[k] \in Token \ {"E"}
         /\ f[Len(s) + 1] = AfterToken(f[Len(s)], "E")
         /\ \A k \in 0 .. Len(s) + 1 : f[k] \in Config
<1>1. s \in Seq(Token) /\ "E" \in Token /\ Len(s) \in Nat
  BY SeqMonotonic, LenProperties DEF Token
<1>2. /\ Len(Append(s, "E")) = Len(s) + 1
      /\ \A k \in 1 .. Len(s) : Append(s, "E")[k] = s[k]
      /\ Append(s, "E")[Len(s) + 1] = "E"
  BY <1>1, AppendProperties
<1>3. \A k \in 1 .. Len(s) : s[k] \in Token \ {"E"}
  BY ElementOfSeq
<1>4. \A k \in 1 .. Len(s) + 1 : f[k] = AfterToken(f[k - 1], Append(s, "E")[k])
  BY <1>2 DEF Runs
<1>5. \A k \in 0 .. Len(s) + 1 : f[k] \in Config
  BY <1>2 DEF Runs
<1>6. QED
  BY <1>1, <1>2, <1>3, <1>4, <1>5

LEMMA ReadingAt ==
  ASSUME NEW g, NEW s \in Seq(Token), Reads(g, s), NEW i \in 1 .. Len(s) + 1, NEW j \in 0 .. Len(s)
  PROVE  /\ g[<<"unary", i, j>>] = IF i > j THEN "none" ELSE UnaryValue(s, g, i, j)
         /\ g[<<"expr", i, j>>] = IF i > j THEN "none" ELSE ExprValue(s, g, i, j)
         /\ g[<<"unary", i, j>>] \in Worth /\ g[<<"expr", i, j>>] \in Worth
         /\ g[<<"unary", i, j>>] # "none" => g[<<"unary", i, j>>] \in Val /\ i <= j
         /\ g[<<"expr", i, j>>] # "none" => g[<<"expr", i, j>>] \in Val /\ i <= j
<1>1. /\ g[<<"unary", i, j>>] = IF i > j THEN "none" ELSE UnaryValue(s, g, i, j)
      /\ g[<<"expr", i, j>>] = IF i > j THEN "none" ELSE ExprValue(s, g, i, j)
      /\ g[<<"unary", i, j>>] \in Worth /\ g[<<"expr", i, j>>] \in Worth
  BY DEF Reads
<1>2. Len(s) \in Nat
  BY LenProperties
<1>3. QED
  BY <1>1, <1>2 DEF Worth, Val

LEMMA UnaryParses ==
  ASSUME NEW f, NEW g, NEW s, Parsing(f, g, s), NEW i \in 1 .. Len(s), NEW j \in i .. Len(s),
         i < j => UnaryParsed(f, g, i + 1, j),
         i + 1 < j => ExprParsed(f, g, i + 1, j - 1)
  PROVE  UnaryParsed(f, g, i, j)
<1>1. /\ s \in Seq(Token \ {"E"}) /\ Reads(g, s) /\ Runs(f, Append(s, "E"))
      /\ Shallow(f, Len(s)) /\ s \in Seq(Token) /\ Len(s) \in Nat
  BY TokenTaken DEF Parsing
<1>2. /\ i \in 1 .. Len(s) + 1 /\ i \in 0 .. Len(s) /\ j \in 0 .. Len(s) /\ j \in 1 .. Len(s)
      /\ i + 1 \in 1 .. Len(s) + 1 /\ j - 1 \in 0 .. Len(s) /\ i <= j
      /\ i \in Int /\ j \in Int
  BY <1>1
<1>3. SUFFICES ASSUME g[<<"unary", i, j>>] # "none", NEW st \in Waiting, NEW o \in Seq(Waiting),
                      f[i - 1] = Cfg(st, o)
               PROVE  f[j] = Cfg(StateOf(ValueBehind(st, g[<<"unary", i, j>>])), o)
  BY DEF UnaryParsed
<1>4. /\ g[<<"unary", i, j>>] = UnaryValue(s, g, i, j) /\ g[<<"unary", i, j>>] \in Val
      /\ UnaryValue(s, g, i, j) # "none"
  BY <1>1, <1>2, <1>3, ReadingAt
<1>5. f[i] = AfterToken(Cfg(st, o), s[i]) /\ s[i] \in Token
  BY <1>1, <1>2, <1>3, TokenTaken
<1>6. CASE s[i] \in Val
  <2>1. i = j /\ UnaryValue(s, g, i, j) = s[i]
    BY <1>4, <1>6 DEF UnaryValue, Val
  <2>2. QED
    BY <1>4, <1>5, <1>6, <2>1, AfterWaiting
<1>7. CASE s[i] = "!"
  <2>1. PICK w : w = g[<<"unary", i + 1, j>>]
    OBVIOUS
  <2>2. w # "none" /\ UnaryValue(s, g, i, j) = Complement(w)
    BY <1>4, <1>7, <2>1 DEF UnaryValue, Val
  <2>3. w \in Val /\ i + 1 <= j
    BY <1>1, <1>2, <2>1, <2>2, ReadingAt
  <2>4. UnaryParsed(f, g, i + 1, j) /\ i + 1 - 1 = i
    BY <1>2, <2>3
  <2>5. f[i] = Cfg(Negation(st), o) /\ Negation(st) \in Waiting
    BY <1>5, <1>7, <2>3, AfterWaiting, TableFacts
  <2>6. f[j] = Cfg(StateOf(ValueBehind(Negation(st), w)), o)
    BY <2>1, <2>2, <2>4, <2>5 DEF UnaryParsed
  <2>7. ValueBehind(Negation(st), w) = ValueBehind(st, Complement(w))
    BY <2>3, TableFacts
  <2>8. QED
    BY <1>4, <2>2, <2>6, <2>7
<1>8. CASE s[i] = "("
  <2>1. PICK w : w = g[<<"expr", i + 1, j - 1>>]
    OBVIOUS
  <2>2. s[j] = ")" /\ UnaryValue(s, g, i, j) = w /\ w # "none"
    BY <1>4, <1>8, <2>1 DEF UnaryValue, Val
  <2>3. w \in Val /\ i + 1 <= j - 1
    BY <1>1, <1>2, <2>1, <2>2, ReadingAt
  <2>4. ExprParsed(f, g, i + 1, j - 1) /\ i + 1 - 1 = i
    BY <1>2, <2>3
  <2>5. f[i] = Cfg(IF Len(o) + 1 = StackMax THEN "error" ELSE "valstart", Append(o, st))
    BY <1>5, <1>8, AfterWaiting
  <2>6. Append(o, st) \in Seq(Waiting) /\ Len(Append(o, st)) = Len(o) + 1
    BY FrontOfAppend
  <2>7. Len(f[i].open) # StackMax
    BY <1>1, <1>2 DEF Shallow
  <2>8. f[i].open = Append(o, st)
    BY <2>5 DEF Cfg
  <2>9. f[i] = Cfg("valstart", Append(o, st))
    BY <2>5, <2>6, <2>7, <2>8
  <2>10. f[j - 1] = Cfg(StateOf(w), Append(o, st))
    <3>1. PICK q, x, y : q = Append(o, st) /\ x = i + 1 /\ y = j - 1
      OBVIOUS
    <3>2. f[x - 1] = Cfg("valstart", q) /\ ExprParsed(f, g, x, y) /\ w = g[<<"expr", x, y>>]
      BY <2>1, <2>4, <2>9, <3>1
    <3>3. f[y] = Cfg(StateOf(w), q)
      BY <2>2, <2>6, <3>1, <3>2 DEF ExprParsed
    <3>4. QED
      BY <3>1, <3>3
  <2>11. f[j] = AfterToken(Cfg(StateOf(w), Append(o, st)), ")")
    BY <1>1, <1>2, <2>2, <2>10, TokenTaken
  <2>12. StateOf(w) \in Values /\ ValueOf(StateOf(w)) = w /\ Fsm(st, w) = StateOf(ValueBehind(st, w))
    BY <2>3, TableFacts
  <2>13. ")" \in Token /\ Append(o, st) # <<>> /\ Last(Append(o, st)) = st /\ Front(Append(o, st)) = o
    BY FrontOfAppend DEF Token
  <2>14. f[j] = Cfg(Fsm(st, w), o)
    <3>1. PICK q, r : q = Append(o, st) /\ r = StateOf(w)
      OBVIOUS
    <3>2. AfterToken(Cfg(r, q), ")") = IF q = <<>> THEN Cfg("error", q)
                                       ELSE Cfg(Fsm(Last(q), ValueOf(r)), Front(q))
      BY <2>12, <2>13, <3>1, AfterValue
    <3>3. QED
      BY <2>11, <2>12, <2>13, <3>1, <3>2
  <2>15. QED
    BY <1>4, <2>2, <2>12, <2>14
<1>9. CASE s[i] \notin Val \cup {"!", "("}
  BY <1>4, <1>9 DEF UnaryValue
<1>10. QED
  BY <1>6, <1>7, <1>8, <1>9

LEMMA ExprParses ==
  ASSUME NEW f, NEW g, NEW s, Parsing(f, g, s), NEW i \in 1 .. Len(s), NEW j \in i .. Len(s),
         UnaryParsed(f, g, i, j),
         \A k \in i + 1 .. j - 1 : ExprParsed(f, g, i, k - 1) /\ UnaryParsed(f, g, k + 1, j)
  PROVE  ExprParsed(f, g, i, j)
<1>1. /\ s \in Seq(Token \ {"E"}) /\ Reads(g, s) /\ Runs(f, Append(s, "E"))
      /\ s \in Seq(Token) /\ Len(s) \in Nat
  BY TokenTaken DEF Parsing
<1>2. i \in 1 .. Len(s) + 1 /\ j \in 0 .. Len(s) /\ i <= j /\ i \in Int /\ j \in Int
  BY <1>1
<1>3. SUFFICES ASSUME g[<<"expr", i, j>>] # "none", NEW o \in Seq(Waiting),
                      f[i - 1] = Cfg("valstart", o)
               PROVE  f[j] = Cfg(StateOf(g[<<"expr", i, j>>]), o)
  BY DEF ExprParsed
<1>4. g[<<"expr", i, j>>] = ExprValue(s, g, i, j) /\ "valstart" \in Waiting
  <2>1. g[<<"expr", i, j>>] = ExprValue(s, g, i, j)
    <3>1. g[<<"expr", i, j>>] = IF i > j THEN "none" ELSE ExprValue(s, g, i, j)
      BY <1>1, <1>2, ReadingAt
    <3>2. ~ (i > j)
      BY <1>2
    <3>3. QED
      BY <3>1, <3>2
  <2>2. QED
    BY <2>1 DEF Waiting
<1>5. CASE g[<<"unary", i, j>>] # "none"
  <2>1. g[<<"unary", i, j>>] \in Val /\ g[<<"expr", i, j>>] = g[<<"unary", i, j>>]
    BY <1>1, <1>2, <1>4, <1>5, ReadingAt DEF ExprValue
  <2>2. f[j] = Cfg(StateOf(ValueBehind("valstart", g[<<"unary", i, j>>])), o)
    BY <1>3, <1>4, <1>5 DEF UnaryParsed
  <2>3. QED
    BY <1>4, <2>1, <2>2, TableFacts
<1>6. CASE g[<<"unary", i, j>>] = "none"
  <2>1. Splits(s, g, i, j) # {}
    BY <1>3, <1>4, <1>6 DEF ExprValue
  <2>2. PICK k \in Splits(s, g, i, j) :
          ExprValue(s, g, i, j) = ApplyOp(g[<<"expr", i, k - 1>>], s[k], g[<<"unary", k + 1, j>>])
    BY <1>6, <2>1 DEF ExprValue
  <2>3. /\ k \in i + 1 .. j - 1 /\ s[k] \in {"&", "|"}
        /\ g[<<"unary", k + 1, j>>] # "none" /\ g[<<"expr", i, k - 1>>] # "none"
    BY <2>2 DEF Splits
  <2>4. /\ k + 1 \in 1 .. Len(s) + 1 /\ k - 1 \in 0 .. Len(s) /\ k \in 1 .. Len(s)
        /\ k + 1 - 1 = k
    BY <1>1, <1>2, <2>3
  <2>5. g[<<"unary", k + 1, j>>] \in Val /\ g[<<"expr", i, k - 1>>] \in Val
    BY <1>1, <1>2, <2>3, <2>4, ReadingAt
  <2>6. PICK v \in Val, w \in Val, op \in {"&", "|"} :
          v = g[<<"expr", i, k - 1>>] /\ w = g[<<"unary", k + 1, j>>] /\ op = s[k]
    BY <2>3, <2>5
  <2>7. ExprParsed(f, g, i, k - 1) /\ UnaryParsed(f, g, k + 1, j)
    BY <2>3
  <2>8. f[k - 1] = Cfg(StateOf(v), o)
    BY <1>3, <2>3, <2>6, <2>7 DEF ExprParsed
  <2>9. f[k] = AfterToken(Cfg(StateOf(v), o), op) /\ op \in Token
    BY <1>1, <2>4, <2>6, <2>8, TokenTaken
  <2>10. StateOf(v) \in Values /\ Fsm(StateOf(v), op) \in Waiting
         /\ ValueBehind(Fsm(StateOf(v), op), w) = ApplyOp(v, op, w)
    BY OperatorFacts
  <2>11. f[k] = Cfg(Fsm(StateOf(v), op), o)
    BY <2>9, <2>10, AfterValue
  <2>12. f[j] = Cfg(StateOf(ValueBehind(Fsm(StateOf(v), op), w)), o)
    BY <2>3, <2>4, <2>6, <2>7, <2>10, <2>11 DEF UnaryParsed
  <2>13. QED
    BY <1>4, <2>2, <2>6, <2>10, <2>12
<1>7. QED
  BY <1>5, <1>6

LEMMA Parses ==
  ASSUME NEW f, NEW g, NEW s, Parsing(f, g, s)
  PROVE  \A i \in 1 .. Len(s) : \A j \in i .. Len(s) : ExprParsed(f, g, i, j)
<1> DEFINE T == {d \in Nat : \A i \in 1 .. Len(s), j \in 1 .. Len(s) :
                               j = i + d => UnaryParsed(f, g, i, j) /\ ExprParsed(f, g, i, j)}
<1>1. Len(s) \in Nat
  BY TokenTaken DEF Parsing
<1>2. ASSUME NEW d \in Nat, \A m \in Nat : m < d => m \in T
      PROVE  d \in T
  <2>1. SUFFICES ASSUME NEW i \in 1 .. Len(s), NEW j \in 1 .. Len(s), j = i + d
                 PROVE  UnaryParsed(f, g, i, j) /\ ExprParsed(f, g, i, j)
    OBVIOUS
  <2>2. ASSUME NEW a \in 1 .. Len(s), NEW b \in 1 .. Len(s), a <= b, b - a < d
        PROVE  UnaryParsed(f, g, a, b) /\ ExprParsed(f, g, a, b)
    <3>1. PICK m \in Nat : m = b - a /\ m < d
      BY <1>1, <2>2
    <3>2. m \in T
      <4> HIDE DEF T
      <4>1. QED
        BY <1>2, <3>1
    <3>3. b = a + m
      BY <1>1, <3>1
    <3>4. QED
      BY <3>2, <3>3
  <2> HIDE DEF T
  <2>9. j \in i .. Len(s) /\ i \in Int
    BY <1>1, <2>1
  <2>3. i < j => UnaryParsed(f, g, i + 1, j)
    BY <1>1, <2>1, <2>2
  <2>4. i + 1 < j => ExprParsed(f, g, i + 1, j - 1)
    BY <1>1, <2>1, <2>2
  <2>5. UnaryParsed(f, g, i, j)
    BY <2>3, <2>4, <2>9, UnaryParses
  <2>6. ASSUME NEW k \in i + 1 .. j - 1
        PROVE  ExprParsed(f, g, i, k - 1) /\ UnaryParsed(f, g, k + 1, j)
    BY <1>1, <2>1, <2>2
  <2>7. QED
    BY <2>5, <2>6, <2>9, ExprParses
<1>3. \A d \in Nat : d \in T
  <2> HIDE DEF T
  <2>1. QED
    BY <1>2, Strongly
<1>4. ASSUME NEW i \in 1 .. Len(s), NEW j \in i .. Len(s)
      PROVE  ExprParsed(f, g, i, j)
  <2>1. PICK d \in Nat : j = i + d
    <3>1. j - i \in Nat /\ j = i + (j - i)
      BY <1>1
    <3>2. QED
      BY <3>1
  <2>2. j \in 1 .. Len(s)
    BY <1>1
  <2>3. QED
    BY <1>3, <2>1, <2>2
<1>5. QED
  BY <1>4

(* Behind q - 1, an expression that starts at i only lacks a unary.         *)
Lacks(g, s, i, q) ==
  \A j \in q .. Len(s) : g[<<"unary", q, j>>] # "none" => g[<<"expr", i, j>>] # "none"

LEMMA StartLacks ==
  ASSUME NEW g, NEW s \in Seq(Token), Reads(g, s), NEW i \in 1 .. Len(s) + 1
  PROVE  Lacks(g, s, i, i)
<1>1. SUFFICES ASSUME NEW j \in i .. Len(s), g[<<"unary", i, j>>] # "none"
               PROVE  g[<<"expr", i, j>>] # "none"
  BY DEF Lacks
<1>2. Len(s) \in Nat
  BY LenProperties
<1>3. j \in 0 .. Len(s) /\ ~ (i > j)
  BY <1>2
<1>4. g[<<"expr", i, j>>] = ExprValue(s, g, i, j)
  BY <1>3, ReadingAt
<1>5. QED
  BY <1>1, <1>4 DEF ExprValue

LEMMA ValueSuffices ==
  ASSUME NEW g, NEW s \in Seq(Token), Reads(g, s), NEW i \in 1 .. Len(s) + 1,
         NEW q \in 1 .. Len(s), Lacks(g, s, i, q), s[q] \in Val
  PROVE  g[<<"expr", i, q>>] # "none"
<1>1. Len(s) \in Nat
  BY LenProperties
<1>2. q \in 1 .. Len(s) + 1 /\ q \in 0 .. Len(s) /\ ~ (q > q) /\ q \in q .. Len(s)
  BY <1>1
<1>3. g[<<"unary", q, q>>] = UnaryValue(s, g, q, q)
  BY <1>2, ReadingAt
<1>4. UnaryValue(s, g, q, q) # "none"
  BY DEF UnaryValue, Val
<1>5. QED
  BY <1>2, <1>3, <1>4 DEF Lacks

LEMMA NegationLacks ==
  ASSUME NEW g, NEW s \in Seq(Token), Reads(g, s), NEW i \in 1 .. Len(s) + 1,
         NEW q \in 1 .. Len(s), Lacks(g, s, i, q), s[q] = "!"
  PROVE  Lacks(g, s, i, q + 1)
<1>1. Len(s) \in Nat
  BY LenProperties
<1>2. SUFFICES ASSUME NEW j \in q + 1 .. Len(s), g[<<"unary", q + 1, j>>] # "none"
               PROVE  g[<<"expr", i, j>>] # "none"
  BY DEF Lacks
<1>3. q \in 1 .. Len(s) + 1 /\ j \in 0 .. Len(s) /\ ~ (q > j) /\ j \in q .. Len(s)
  BY <1>1
<1>4. g[<<"unary", q, j>>] = UnaryValue(s, g, q, j)
  BY <1>3, ReadingAt
<1>5. UnaryValue(s, g, q, j) # "none"
  BY <1>2 DEF UnaryValue, Val, Complement
<1>6. QED
  BY <1>3, <1>4, <1>5 DEF Lacks

LEMMA OperatorLacks ==
  ASSUME NEW g, NEW s \in Seq(Token), Reads(g, s), NEW i \in 1 .. Len(s) + 1,
         NEW k \in 0 .. Len(s), k + 1 <= Len(s), s[k + 1] \in {"&", "|"}, g[<<"expr", i, k>>] # "none"
  PROVE  Lacks(g, s, i, k + 2)
<1>1. Len(s) \in Nat
  BY LenProperties
<1>2. SUFFICES ASSUME NEW j \in k + 2 .. Len(s), g[<<"unary", k + 2, j>>] # "none"
               PROVE  g[<<"expr", i, j>>] # "none"
  BY DEF Lacks
<1>3. i <= k /\ g[<<"expr", i, k>>] \in Val
  BY ReadingAt
<1>4. /\ j \in 0 .. Len(s) /\ ~ (i > j) /\ k + 1 \in i + 1 .. j - 1
      /\ k + 2 \in 1 .. Len(s) + 1 /\ k + 1 + 1 = k + 2 /\ k + 1 - 1 = k
  BY <1>1, <1>3
<1>5. g[<<"expr", i, j>>] = ExprValue(s, g, i, j)
  BY <1>4, ReadingAt
<1>6. k + 1 \in Splits(s, g, i, j)
  <2>1. PICK m : m = k + 1 /\ m \in i + 1 .. j - 1 /\ m + 1 = k + 2 /\ m - 1 = k
    BY <1>4
  <2>2. m \in Splits(s, g, i, j)
    BY <1>2, <2>1 DEF Splits
  <2>3. QED
    BY <2>1, <2>2
<1>7. PICK x \in Splits(s, g, i, j) : x = CHOOSE y \in Splits(s, g, i, j) : TRUE
  BY <1>6
<1>8. /\ x \in i + 1 .. j - 1 /\ s[x] \in {"&", "|"}
      /\ g[<<"unary", x + 1, j>>] # "none" /\ g[<<"expr", i, x - 1>>] # "none"
  BY <1>7 DEF Splits
<1>9. x + 1 \in 1 .. Len(s) + 1 /\ x - 1 \in 0 .. Len(s)
  BY <1>1, <1>4, <1>8
<1>10. g[<<"unary", x + 1, j>>] \in Val /\ g[<<"expr", i, x - 1>>] \in Val
  BY <1>4, <1>8, <1>9, ReadingAt
<1>11. ApplyOp(g[<<"expr", i, x - 1>>], s[x], g[<<"unary", x + 1, j>>]) # "none"
  BY <1>10 DEF ApplyOp, Val
<1>12. QED
  BY <1>5, <1>6, <1>7, <1>11 DEF ExprValue

LEMMA ClosingSuffices ==
  ASSUME NEW g, NEW s \in Seq(Token), Reads(g, s), NEW i \in 1 .. Len(s) + 1,
         NEW q \in 1 .. Len(s), NEW k \in q .. Len(s), k + 1 <= Len(s), Lacks(g, s, i, q),
         s[q] = "(", s[k + 1] = ")", g[<<"expr", q + 1, k>>] # "none"
  PROVE  g[<<"expr", i, k + 1>>] # "none"
<1>1. Len(s) \in Nat
  BY LenProperties
<1>2. /\ q \in 1 .. Len(s) + 1 /\ k + 1 \in 0 .. Len(s) /\ ~ (q > k + 1)
      /\ k + 1 \in q .. Len(s) /\ k + 1 - 1 = k
  BY <1>1
<1>3. g[<<"unary", q, k + 1>>] = UnaryValue(s, g, q, k + 1)
  BY <1>2, ReadingAt
<1>4. UnaryValue(s, g, q, k + 1) = g[<<"expr", q + 1, k>>]
  <2>1. PICK m : m = k + 1 /\ m - 1 = k
    BY <1>2
  <2>2. UnaryValue(s, g, q, m) = g[<<"expr", q + 1, m - 1>>]
    BY <2>1 DEF UnaryValue, Val
  <2>3. QED
    BY <2>1, <2>2
<1>5. QED
  BY <1>2, <1>3, <1>4 DEF Lacks

-----------------------------------------------------------------------------
(* What the tokens up to k are, as long as there is no error: the pending   *)
(* expressions start at p[1], p[2] .., each but the last waiting for the    *)
(* unary that opens in front of the next one.                               *)
Pending(g, s, p, l, k) ==
  /\ p[l] \in 1 .. Len(s) + 1
  /\ p[l + 1] - 1 \in 1 .. k /\ s[p[l + 1] - 1] = "("
  /\ Lacks(g, s, p[l], p[l + 1] - 1)
Current(g, s, st, i, k) ==
  /\ i \in 1 .. Len(s) + 1
  /\ st \in Values => g[<<"expr", i, k>>] # "none"
  /\ st \in Waiting => Lacks(g, s, i, k + 1)
Shaped(g, s, st, d, k, p) ==
  /\ p \in [Nat -> Int] /\ p[1] = 1
  /\ \A l \in 1 .. d : Pending(g, s, p, l, k)
  /\ Current(g, s, st, p[d + 1], k)
Derived(g, s, m, k) ==
  m.state # "error" => /\ m.state \in Static
                       /\ \E p : Shaped(g, s, m.state, Len(m.open), k, p)

LEMMA PendingStays ==
  ASSUME NEW g, NEW s \in Seq(Token), NEW d \in Nat, NEW k \in 0 .. Len(s), NEW p,
         \A l \in 1 .. d : Pending(g, s, p, l, k)
  PROVE  \A l \in 1 .. d : Pending(g, s, p, l, k + 1)
<1>1. SUFFICES ASSUME NEW l \in 1 .. d PROVE Pending(g, s, p, l, k + 1)
  OBVIOUS
<1>2. Pending(g, s, p, l, k)
  OBVIOUS
<1>3. p[l + 1] - 1 \in 1 .. k => p[l + 1] - 1 \in 1 .. k + 1
  OBVIOUS
<1>4. QED
  BY <1>2, <1>3 DEF Pending

LEMMA WaitingDerives ==
  ASSUME NEW g, NEW s \in Seq(Token), Reads(g, s), NEW k \in 0 .. Len(s), k + 1 <= Len(s),
         NEW st \in Waiting, NEW o \in Seq(Waiting), Derived(g, s, Cfg(st, o), k)
  PROVE  Derived(g, s, AfterToken(Cfg(st, o), s[k + 1]), k + 1)
<1>1. Len(s) \in Nat /\ Len(o) \in Nat /\ k + 1 \in 1 .. Len(s) /\ s[k + 1] \in Token
  BY LenProperties, ElementOfSeq
<1>2. PICK d \in Nat, tok \in Token : d = Len(o) /\ tok = s[k + 1]
  BY <1>1
<1>3. Cfg(st, o).state = st /\ Cfg(st, o).open = o /\ st # "error"
      /\ \A x, y : Cfg(x, y).state = x /\ Cfg(x, y).open = y
  BY DEF Cfg, Waiting
<1>4. PICK p : Shaped(g, s, st, d, k, p)
  BY <1>2, <1>3 DEF Derived
<1>5. PICK i \in 1 .. Len(s) + 1 : i = p[d + 1] /\ Lacks(g, s, i, k + 1)
  BY <1>4 DEF Shaped, Current
<1>6. \A l \in 1 .. d : Pending(g, s, p, l, k + 1)
  <2>1. \A l \in 1 .. d : Pending(g, s, p, l, k)
    BY <1>4 DEF Shaped
  <2>2. QED
    BY <2>1, PendingStays
<1>7. \A x : Current(g, s, x, i, k + 1) => Shaped(g, s, x, d, k + 1, p)
  BY <1>4, <1>5, <1>6 DEF Shaped
<1>8. CASE tok \in Val
  <2>1. PICK v : v = StateOf(ValueBehind(st, tok))
    OBVIOUS
  <2>2. AfterToken(Cfg(st, o), tok) = Cfg(v, o) /\ v \in Values
    <3>1. v \in Values
      BY <2>1 DEF StateOf, Values
    <3>2. QED
      BY <1>8, <2>1, <3>1, AfterWaiting
  <2>3. g[<<"expr", i, k + 1>>] # "none"
    BY <1>1, <1>2, <1>5, <1>8, ValueSuffices
  <2>4. Current(g, s, v, i, k + 1)
    BY <2>2, <2>3, StateKinds DEF Current
  <2>5. Shaped(g, s, v, d, k + 1, p) /\ v \in Static
    BY <1>7, <2>2, <2>4, StateKinds
  <2>6. QED
    BY <1>2, <1>3, <2>2, <2>5 DEF Derived
<1>9. CASE tok = "!"
  <2>1. PICK v : v = Negation(st)
    OBVIOUS
  <2>2. AfterToken(Cfg(st, o), tok) = Cfg(v, o) /\ v \in Waiting
    <3>1. Fsm(st, tok) = v /\ Fsm(st, tok) \in Waiting
      BY <1>9, <2>1, FsmWaiting DEF Fsm, Val
    <3>2. QED
      BY <1>9, <2>1, <3>1, AfterWaiting
  <2>3. Lacks(g, s, i, k + 1 + 1)
    BY <1>1, <1>2, <1>5, <1>9, NegationLacks
  <2>4. Current(g, s, v, i, k + 1)
    BY <2>2, <2>3, StateKinds DEF Current
  <2>5. Shaped(g, s, v, d, k + 1, p) /\ v \in Static
    BY <1>7, <2>2, <2>4, StateKinds
  <2>6. QED
    BY <1>2, <1>3, <2>2, <2>5 DEF Derived
<1>10. CASE tok = "("
  <2>1. PICK q : q = Append(o, st)
    OBVIOUS
  <2>2. AfterToken(Cfg(st, o), tok) = Cfg(IF Len(o) + 1 = StackMax THEN "error" ELSE "valstart", q)
    BY <1>10, <2>1, AfterWaiting
  <2>3. Len(q) = d + 1
    BY <1>2, <2>1, FrontOfAppend
  <2>4. CASE Len(o) + 1 = StackMax
    BY <1>2, <1>3, <2>2, <2>4 DEF Derived
  <2>5. CASE Len(o) + 1 # StackMax
    <3>1. AfterToken(Cfg(st, o), tok) = Cfg("valstart", q) /\ "valstart" \in Waiting
      BY <2>2, <2>5 DEF Waiting
    <3>2. PICK r : r = [p EXCEPT ![d + 2] = k + 2]
      OBVIOUS
    <3>3. p \in [Nat -> Int] /\ p[1] = 1
      BY <1>4 DEF Shaped
    <3>4. r \in [Nat -> Int] /\ r[1] = 1 /\ r[d + 2] = k + 2 /\ \A l \in 1 .. d + 1 : r[l] = p[l]
      BY <3>2, <3>3
    <3>5. ASSUME NEW l \in 1 .. d + 1 PROVE Pending(g, s, r, l, k + 1)
      <4>1. CASE l \in 1 .. d
        <5>1. l + 1 \in 1 .. d + 1 /\ r[l] = p[l] /\ r[l + 1] = p[l + 1]
          BY <3>4, <4>1
        <5>2. Pending(g, s, p, l, k + 1)
          BY <1>6, <4>1
        <5>3. QED
          BY <5>1, <5>2 DEF Pending
      <4>2. CASE l = d + 1
        <5>1. r[l] = i /\ r[l + 1] = k + 2 /\ k + 2 - 1 = k + 1 /\ k + 1 \in 1 .. k + 1
          BY <1>5, <3>4, <4>2
        <5>2. PICK m : m = r[l + 1] - 1 /\ m = k + 1
          BY <5>1
        <5>3. s[m] = "(" /\ Lacks(g, s, r[l], m) /\ m \in 1 .. k + 1
          BY <1>2, <1>5, <1>10, <5>1, <5>2
        <5>4. QED
          BY <5>1, <5>2, <5>3 DEF Pending
      <4>3. QED
        BY <4>1, <4>2
    <3>6. k + 2 \in 1 .. Len(s) + 1 /\ k + 1 + 1 = k + 2 /\ d + 1 + 1 = d + 2
      BY <1>1
    <3>7. Lacks(g, s, k + 2, k + 2)
      BY <3>6, StartLacks
    <3>8. Current(g, s, "valstart", k + 2, k + 1)
      BY <3>1, <3>6, <3>7, StateKinds DEF Current
    <3>9. Shaped(g, s, "valstart", d + 1, k + 1, r)
      BY <3>4, <3>5, <3>6, <3>8 DEF Shaped
    <3>10. QED
      BY <1>2, <1>3, <2>3, <3>1, <3>9, StateKinds DEF Derived
  <2>6. QED
    BY <2>4, <2>5
<1>11. CASE tok \notin Val \cup {"!", "("}
  <2>1. AfterToken(Cfg(st, o), tok) = Cfg("error", o)
    BY <1>11, AfterWaiting
  <2>2. QED
    BY <1>2, <1>3, <2>1 DEF Derived
<1>12. QED
  BY <1>8, <1>9, <1>10, <1>11

LEMMA ValueDerives ==
  ASSUME NEW g, NEW s \in Seq(Token \ {"E"}), Reads(g, s), NEW k \in 0 .. Len(s), k + 1 <= Len(s),
         NEW st \in Values, NEW o \in Seq(Waiting), Derived(g, s, Cfg(st, o), k)
  PROVE  Derived(g, s, AfterToken(Cfg(st, o), s[k + 1]), k + 1)
<1>1. /\ Len(s) \in Nat /\ Len(o) \in Nat /\ k + 1 \in 1 .. Len(s) /\ s[k + 1] \in Token \ {"E"}
      /\ s \in Seq(Token)
  BY LenProperties, ElementOfSeq, SeqMonotonic
<1>2. PICK d \in Nat, tok \in Token \ {"E"} : d = Len(o) /\ tok = s[k + 1]
  BY <1>1
<1>3. Cfg(st, o).state = st /\ Cfg(st, o).open = o /\ st # "error"
      /\ \A x, y : Cfg(x, y).state = x /\ Cfg(x, y).open = y
  BY DEF Cfg, Values
<1>4. PICK p : Shaped(g, s, st, d, k, p)
  BY <1>2, <1>3 DEF Derived
<1>5. PICK i \in 1 .. Len(s) + 1 : i = p[d + 1] /\ g[<<"expr", i, k>>] # "none"
  BY <1>4 DEF Shaped, Current
<1>6. \A l \in 1 .. d : Pending(g, s, p, l, k + 1)
  <2>1. \A l \in 1 .. d : Pending(g, s, p, l, k)
    BY <1>4 DEF Shaped
  <2>2. QED
    BY <1>1, <2>1, PendingStays
<1>7. \A x : Current(g, s, x, i, k + 1) => Shaped(g, s, x, d, k + 1, p)
  BY <1>4, <1>5, <1>6 DEF Shaped
<1>8. CASE tok \in {"&", "|"}
  <2>1. PICK v : v = Fsm(st, tok)
    OBVIOUS
  <2>2. AfterToken(Cfg(st, o), tok) = Cfg(v, o) /\ v \in Waiting
    BY <1>8, <2>1, AfterValue, FsmValue
  <2>3. Lacks(g, s, i, k + 2) /\ k + 1 + 1 = k + 2
    <3>1. s[k + 1] \in {"&", "|"}
      BY <1>2, <1>8
    <3>2. Lacks(g, s, i, k + 2)
      BY <1>1, <1>5, <3>1, OperatorLacks
    <3>3. QED
      BY <3>2
  <2>4. Current(g, s, v, i, k + 1)
    BY <2>2, <2>3, StateKinds DEF Current
  <2>5. Shaped(g, s, v, d, k + 1, p) /\ v \in Static
    BY <1>7, <2>2, <2>4, StateKinds
  <2>6. QED
    BY <1>2, <1>3, <2>2, <2>5 DEF Derived
<1>9. CASE tok = ")" /\ o = <<>>
  <2>1. AfterToken(Cfg(st, o), tok) = Cfg("error", o)
    BY <1>9, AfterValue
  <2>2. QED
    BY <1>2, <1>3, <2>1 DEF Derived
<1>10. CASE tok = ")" /\ o # <<>>
  <2>1. PICK q, v : q = Front(o) /\ v = Fsm(Last(o), ValueOf(st))
    OBVIOUS
  <2>2. AfterToken(Cfg(st, o), tok) = Cfg(v, q)
    BY <1>10, <2>1, AfterValue
  <2>3. q \in Seq(Waiting) /\ Last(o) \in Waiting /\ Len(q) = d - 1 /\ d \in Nat \ {0}
    BY <1>2, <1>10, <2>1, LastPending
  <2>4. v \in Values
    <3>1. ValueOf(st) \in Val /\ ValueOf(st) \in Token
      BY DEF ValueOf, Val, Token
    <3>2. QED
      BY <2>1, <2>3, <3>1, FsmWaiting
  <2>5. PICK e \in Nat : e = d - 1 /\ e + 1 = d /\ e + 1 \in 1 .. d /\ \A l \in 1 .. e : l \in 1 .. d
    <3>1. d - 1 \in Nat
      BY <2>3
    <3>2. QED
      BY <2>3, <3>1
  <2>6. Pending(g, s, p, d, k)
    <3>1. d \in 1 .. d
      BY <2>3
    <3>2. QED
      BY <1>4, <3>1 DEF Shaped
  <2>7. PICK x \in 1 .. k, j \in 1 .. Len(s) + 1 :
          x = i - 1 /\ j = p[d] /\ s[x] = "(" /\ Lacks(g, s, j, x)
    BY <1>5, <2>6 DEF Pending
  <2>8. x \in 1 .. Len(s) /\ k \in x .. Len(s) /\ x + 1 = i
    BY <1>1, <2>7
  <2>9. g[<<"expr", j, k + 1>>] # "none"
    BY <1>1, <1>2, <1>5, <1>10, <2>7, <2>8, ClosingSuffices
  <2>10. Current(g, s, v, p[e + 1], k + 1)
    BY <2>4, <2>5, <2>7, <2>9, StateKinds DEF Current
  <2>11. Shaped(g, s, v, e, k + 1, p)
    BY <1>4, <1>6, <2>5, <2>10 DEF Shaped
  <2>12. Len(q) = e /\ v \in Static
    BY <2>3, <2>4, <2>5, StateKinds
  <2>13. Derived(g, s, Cfg(v, q), k + 1)
    BY <1>3, <2>11, <2>12 DEF Derived
  <2>14. QED
    BY <1>2, <2>2, <2>13
<1>11. CASE tok \notin {"&", "|", ")"}
  <2>1. AfterToken(Cfg(st, o), tok) = Cfg("error", o)
    BY <1>11, AfterValue
  <2>2. QED
    BY <1>2, <1>3, <2>1 DEF Derived
<1>12. QED
  BY <1>8, <1>9, <1>10, <1>11

LEMMA Derives ==
  ASSUME NEW f, NEW g, NEW s \in Seq(Token \ {"E"}), Reads(g, s), Runs(f, Append(s, "E"))
  PROVE  Derived(g, s, f[Len(s)], Len(s))
<1> DEFINE P(k) == k <= Len(s) => Derived(g, s, f[k], k)
<1>1. Len(s) \in Nat /\ s \in Seq(Token) /\ \A x, y : Cfg(x, y).state = x /\ Cfg(x, y).open = y
  BY TokenTaken DEF Cfg
<1>2. P(0)
  <2>1. f[0] = Cfg("valstart", <<>>) /\ "valstart" \in Waiting /\ Len(<<>>) = 0
    BY EmptySeq DEF Runs, Waiting
  <2>2. PICK p : p = [l \in Nat |-> 1]
    OBVIOUS
  <2>3. p \in [Nat -> Int] /\ p[1] = 1 /\ p[0 + 1] = 1
    BY <2>2
  <2>4. 1 \in 1 .. Len(s) + 1 /\ Lacks(g, s, 1, 0 + 1)
    BY <1>1, StartLacks
  <2>5. Current(g, s, "valstart", 1, 0)
    BY <2>1, <2>4, StateKinds DEF Current
  <2>6. Shaped(g, s, "valstart", 0, 0, p)
    BY <2>3, <2>5 DEF Shaped
  <2>7. QED
    BY <1>1, <2>1, <2>6, StateKinds DEF Derived
<1>3. ASSUME NEW k \in Nat, P(k)
      PROVE  P(k + 1)
  <2>1. SUFFICES ASSUME k + 1 <= Len(s) PROVE Derived(g, s, f[k + 1], k + 1)
    OBVIOUS
  <2>2. k \in 0 .. Len(s) /\ k + 1 \in 1 .. Len(s) /\ k + 1 - 1 = k /\ k \in 0 .. Len(s) + 1
    BY <1>1, <2>1
  <2>3. Derived(g, s, f[k], k)
    BY <1>1, <1>3, <2>2
  <2>4. f[k + 1] = AfterToken(f[k], s[k + 1]) /\ f[k] \in Config
    BY <2>2, TokenTaken
  <2>5. PICK st, o : f[k] = Cfg(st, o) /\ o \in Seq(Waiting)
    BY <2>4 DEF Config, Cfg
  <2>6. CASE st = "error"
    BY <1>1, <2>4, <2>5, <2>6, AfterError DEF Derived
  <2>7. CASE st # "error"
    <3>1. st \in Waiting \cup Values
      BY <1>1, <2>3, <2>5, <2>7, StateKinds DEF Derived
    <3>2. QED
      BY <1>1, <2>1, <2>2, <2>3, <2>4, <2>5, <3>1, WaitingDerives, ValueDerives
  <2>8. QED
    BY <2>6, <2>7
<1> DEFINE T == {k \in Nat : P(k)}
<1>4. ASSUME NEW k \in Nat, \A m \in Nat : m < k => m \in T
      PROVE  k \in T
  <2>1. CASE k = 0
    BY <1>2, <2>1
  <2>2. CASE k # 0
    <3>1. PICK m \in Nat : m = k - 1 /\ m < k /\ m + 1 = k
      <4>1. k - 1 \in Nat /\ k - 1 < k /\ k - 1 + 1 = k
        BY <2>2
      <4>2. QED
        BY <4>1
    <3>2. m \in T
      <4> HIDE DEF T
      <4>1. QED
        BY <1>4, <3>1
    <3> HIDE DEF P
    <3>3. P(m)
      BY <3>2
    <3>4. P(m + 1)
      BY <1>3, <3>3
    <3>5. QED
      BY <3>1, <3>4
  <2>3. QED
    BY <2>1, <2>2
<1>5. \A k \in Nat : k \in T
  <2> HIDE DEF T
  <2>1. QED
    BY <1>4, Strongly
<1>6. Len(s) \in T
  <2> HIDE DEF T
  <2>1. QED
    BY <1>1, <1>5
<1>7. QED
  BY <1>1, <1>6

-----------------------------------------------------------------------------
(* How deep parentheses nest, counted from the text.                        *)
LEMMA DepthStep ==
  ASSUME NEW s, NEW k \in Nat
  PROVE  /\ Depth(s, 0) = 0 /\ Depth(s, k) \in Int
         /\ s[k + 1] = "(" => Depth(s, k + 1) = Depth(s, k) + 1
         /\ s[k + 1] = ")" => Depth(s, k + 1) = Depth(s, k) - 1
         /\ s[k + 1] \notin {"(", ")"} => Depth(s, k + 1) = Depth(s, k)
<1> DEFINE Places(p, m) == {j \in 1 .. m : s[j] = p}
<1>1. ASSUME NEW p, NEW m \in Nat
      PROVE  /\ IsFiniteSet(Places(p, m)) /\ Cardinality(Places(p, m)) \in Nat
  <2>1. IsFiniteSet(1 .. m)
    BY FS_Interval
  <2>2. Places(p, m) \subseteq 1 .. m
    OBVIOUS
  <2>3. QED
    BY <2>1, <2>2, FS_Subset, FS_CardinalityType
<1>2. ASSUME NEW p
      PROVE  /\ s[k + 1] = p => Cardinality(Places(p, k + 1)) = Cardinality(Places(p, k)) + 1
             /\ s[k + 1] # p => Cardinality(Places(p, k + 1)) = Cardinality(Places(p, k))
             /\ Cardinality(Places(p, 0)) = 0
  <2>3. Cardinality(Places(p, 0)) = 0
    <3>1. Places(p, 0) = {}
      OBVIOUS
    <3>2. Cardinality({}) = 0
      BY FS_EmptySet
    <3> HIDE DEF Places
    <3>3. QED
      BY <3>1, <3>2
  <2>1. CASE s[k + 1] = p
    <3>1. Places(p, k + 1) = Places(p, k) \cup {k + 1} /\ k + 1 \notin Places(p, k)
      BY <2>1
    <3>2. IsFiniteSet(Places(p, k))
      BY <1>1
    <3>3. PICK A : A = Places(p, k)
      OBVIOUS
    <3>4. PICK x : x = k + 1
      OBVIOUS
    <3> HIDE DEF Places
    <3>5. Cardinality(A \cup {x}) = Cardinality(A) + 1
      BY <3>1, <3>2, <3>3, <3>4, FS_AddElement
    <3>6. Cardinality(Places(p, k + 1)) = Cardinality(Places(p, k)) + 1
      BY <3>1, <3>3, <3>4, <3>5
    <3>7. QED
      BY <2>1, <2>3, <3>6
  <2>2. CASE s[k + 1] # p
    <3>1. Places(p, k + 1) = Places(p, k)
      BY <2>2
    <3> HIDE DEF Places
    <3>2. Cardinality(Places(p, k + 1)) = Cardinality(Places(p, k))
      BY <3>1
    <3>3. QED
      BY <2>2, <2>3, <3>2
  <2>4. QED
    BY <2>1, <2>2, <2>3
<1>3. \A m : Depth(s, m) = Cardinality(Places("(", m)) - Cardinality(Places(")", m))
  BY DEF Depth
<1> HIDE DEF Places
<1>4. PICK a \in Nat, b \in Nat : a = Cardinality(Places("(", k)) /\ b = Cardinality(Places(")", k))
  BY <1>1
<1>5. Depth(s, k) = a - b /\ Depth(s, 0) = 0
  BY <1>2, <1>3, <1>4
<1>6. Cardinality(Places("(", k + 1)) = a + (IF s[k + 1] = "(" THEN 1 ELSE 0)
  BY <1>2, <1>4
<1>7. Cardinality(Places(")", k + 1)) = b + (IF s[k + 1] = ")" THEN 1 ELSE 0)
  BY <1>2, <1>4
<1>8. QED
  BY <1>3, <1>5, <1>6, <1>7

LEMMA ErrorStays ==
  ASSUME NEW s \in Seq(Token), NEW f, Runs(f, s), NEW k \in 0 .. Len(s), f[k].state = "error"
  PROVE  f[Len(s)].state = "error"
<1> DEFINE T == {m \in Nat : k + m <= Len(s) => f[k + m].state = "error"}
<1>1. Len(s) \in Nat
  BY LenProperties
<1>2. ASSUME NEW m \in Nat, \A y \in Nat : y < m => y \in T
      PROVE  m \in T
  <2>1. CASE m = 0
    BY <2>1
  <2>2. CASE m # 0 /\ k + m <= Len(s)
    <3>1. PICK y \in Nat : y = m - 1 /\ y < m
      <4>1. m - 1 \in Nat /\ m - 1 < m
        BY <2>2
      <4>2. QED
        BY <4>1
    <3>2. y \in T
      <4> HIDE DEF T
      <4>1. QED
        BY <1>2, <3>1
    <3>3. f[k + y].state = "error" /\ k + y \in 0 .. Len(s) /\ k + m \in 1 .. Len(s) /\ k + m - 1 = k + y
      BY <1>1, <2>2, <3>1, <3>2
    <3>4. f[k + m] = AfterToken(f[k + y], s[k + m]) /\ f[k + y] \in Config
      BY <3>3 DEF Runs
    <3>5. PICK st, o : f[k + y] = Cfg(st, o)
      BY <3>4 DEF Config, Cfg
    <3>6. f[k + m] = Cfg("error", o)
      BY <3>3, <3>4, <3>5, AfterError DEF Cfg
    <3>7. f[k + m].state = "error"
      BY <3>6 DEF Cfg
    <3>8. QED
      BY <3>7
  <2>3. CASE ~ (k + m <= Len(s))
    BY <2>3
  <2>4. QED
    BY <2>1, <2>2, <2>3
<1>3. \A m \in Nat : m \in T
  <2> HIDE DEF T
  <2>1. QED
    BY <1>2, Strongly
<1>4. PICK m \in Nat : k + m = Len(s)
  <2>1. Len(s) - k \in Nat /\ k + (Len(s) - k) = Len(s)
    BY <1>1
  <2>2. QED
    BY <2>1
<1>5. QED
  BY <1>3, <1>4

(* What is pending after k tokens is what the parentheses say.              *)
Nested(m, s, k) ==
  /\ m.state \in Static \cup {"error"}
  /\ m.state # "error" => Len(m.open) = Depth(s, k)
  /\ Len(m.open) < StackMax \/ (m.state = "error" /\ \E j \in 1 .. k : Depth(s, j) = StackMax)

LEMMA NestedStep ==
  ASSUME NEW s, NEW k \in Nat, NEW m \in Config, Nested(m, s, k), s[k + 1] \in Token \ {"E"}
  PROVE  Nested(AfterToken(m, s[k + 1]), s, k + 1)
<1>1. PICK st, o : m = Cfg(st, o) /\ o \in Seq(Waiting) /\ Len(o) \in Nat
  BY LenProperties DEF Config, Cfg
<1>2. \A x, y : Cfg(x, y).state = x /\ Cfg(x, y).open = y
  BY DEF Cfg
<1>3. PICK tok \in Token \ {"E"} : tok = s[k + 1]
  OBVIOUS
<1>4. PICK d \in Nat, e \in Int, h \in Int : d = Len(o) /\ e = Depth(s, k) /\ h = Depth(s, k + 1)
  BY <1>1, DepthStep
<1>5. /\ tok = "(" => h = e + 1
      /\ tok = ")" => h = e - 1
      /\ tok \notin {"(", ")"} => h = e
  BY <1>3, <1>4, DepthStep
<1>6. /\ st \in Static \cup {"error"}
      /\ st # "error" => d = e
      /\ d < StackMax \/ (st = "error" /\ \E j \in 1 .. k : Depth(s, j) = StackMax)
  BY <1>1, <1>2, <1>4 DEF Nested
<1>7. ASSUME NEW x \in Static \cup {"error"}, NEW y, Len(y) \in Nat, x # "error" => Len(y) = h,
             Len(y) < StackMax \/ (x = "error" /\ h = StackMax)
      PROVE  Nested(Cfg(x, y), s, k + 1)
  <2>1. k + 1 \in 1 .. k + 1
    OBVIOUS
  <2>2. QED
    BY <1>2, <1>4, <1>7, <2>1 DEF Nested
<1>8. CASE st = "error"
  <2>1. AfterToken(m, tok) = Cfg("error", o)
    BY <1>1, <1>8, AfterError
  <2>2. \A j \in 1 .. k : j \in 1 .. k + 1
    OBVIOUS
  <2>3. Nested(Cfg("error", o), s, k + 1)
    BY <1>2, <1>4, <1>6, <2>2 DEF Nested
  <2>4. QED
    BY <1>3, <2>1, <2>3
<1>9. CASE st \in Waiting
  <2>1. d = e /\ d < StackMax /\ st # "error"
    BY <1>6, <1>9 DEF Waiting
  <2>2. CASE tok = "("
    <3>1. PICK q : q = Append(o, st) /\ Len(q) = d + 1
      BY <1>1, <1>4, <1>9, FrontOfAppend
    <3>2. AfterToken(m, tok) = Cfg(IF d + 1 = StackMax THEN "error" ELSE "valstart", q)
      BY <1>1, <1>4, <1>9, <2>2, <3>1, AfterWaiting
    <3>3. "valstart" \in Static
      BY DEF Static, Waiting
    <3>6. Len(q) = h /\ Len(q) \in Nat /\ (d + 1 # StackMax => Len(q) < StackMax)
      BY <1>4, <1>5, <2>1, <2>2, <3>1
    <3>4. CASE d + 1 = StackMax
      <4>1. Nested(Cfg("error", q), s, k + 1)
        BY <1>7, <3>1, <3>4, <3>6
      <4>2. QED
        BY <1>3, <3>2, <3>4, <4>1
    <3>5. CASE d + 1 # StackMax
      <4>1. Nested(Cfg("valstart", q), s, k + 1)
        BY <1>7, <3>3, <3>5, <3>6
      <4>2. QED
        BY <1>3, <3>2, <3>5, <4>1
    <3>7. QED
      BY <3>4, <3>5
  <2>3. CASE tok # "("
    <3>1. PICK x : AfterToken(m, tok) = Cfg(x, o) /\ x \in Static \cup {"error"} /\ (tok = ")" => x = "error")
      <4>1. CASE tok \in Val
        <5>1. StateOf(ValueBehind(st, tok)) \in Static
          BY DEF StateOf, Static
        <5>2. AfterToken(m, tok) = Cfg(StateOf(ValueBehind(st, tok)), o)
          BY <1>1, <1>9, <4>1, AfterWaiting
        <5>3. QED
          BY <4>1, <5>1, <5>2 DEF Val
      <4>2. CASE tok = "!"
        <5>1. Negation(st) \in Static
          BY <1>9, FsmWaiting, StateKinds DEF Fsm, Val, Token
        <5>2. AfterToken(m, tok) = Cfg(Negation(st), o)
          BY <1>1, <1>9, <4>2, AfterWaiting
        <5>3. QED
          BY <4>2, <5>1, <5>2
      <4>3. CASE tok \notin Val \cup {"!", "("}
        <5>1. AfterToken(m, tok) = Cfg("error", o)
          BY <1>1, <1>9, <4>3, AfterWaiting
        <5>2. QED
          BY <5>1
      <4>4. QED
        BY <2>3, <4>1, <4>2, <4>3
    <3>2. Nested(Cfg(x, o), s, k + 1)
      BY <1>1, <1>4, <1>5, <1>7, <2>1, <2>3, <3>1
    <3>3. QED
      BY <1>3, <3>1, <3>2
  <2>4. QED
    BY <2>2, <2>3
<1>10. CASE st \in Values
  <2>1. d = e /\ d < StackMax /\ st # "error"
    BY <1>6, <1>10 DEF Values
  <2>2. CASE tok = ")" /\ o # <<>>
    <3>1. PICK x, q : x = Fsm(Last(o), ValueOf(st)) /\ q = Front(o)
      OBVIOUS
    <3>2. AfterToken(m, tok) = Cfg(x, q)
      BY <1>1, <1>10, <2>2, <3>1, AfterValue
    <3>3. Last(o) \in Waiting /\ Len(q) = d - 1 /\ d \in Nat \ {0}
      BY <1>1, <1>4, <2>2, <3>1, LastPending
    <3>4. x \in Static
      <4>1. ValueOf(st) \in Val /\ ValueOf(st) \in Token
        BY DEF ValueOf, Val, Token
      <4>2. QED
        BY <3>1, <3>3, <4>1, FsmWaiting, StateKinds
    <3>5. Len(q) \in Nat /\ Len(q) = h /\ Len(q) < StackMax
      BY <1>5, <2>1, <2>2, <3>3
    <3>6. QED
      BY <1>3, <1>7, <3>2, <3>4, <3>5
  <2>3. CASE tok # ")" \/ o = <<>>
    <3>1. PICK x : /\ AfterToken(m, tok) = Cfg(x, o) /\ x \in Static \cup {"error"}
                   /\ tok \in {"(", ")"} => x = "error"
      <4>1. CASE tok \in {"&", "|"}
        <5>1. Fsm(st, tok) \in Static
          BY <1>10, <4>1, FsmValue, StateKinds
        <5>2. AfterToken(m, tok) = Cfg(Fsm(st, tok), o)
          BY <1>1, <1>10, <4>1, AfterValue
        <5>3. QED
          BY <4>1, <5>1, <5>2
      <4>2. CASE tok \notin {"&", "|"}
        <5>1. AfterToken(m, tok) = Cfg("error", o)
          BY <1>1, <1>10, <2>3, <4>2, AfterValue
        <5>2. QED
          BY <5>1
      <4>3. QED
        BY <4>1, <4>2
    <3>2. Nested(Cfg(x, o), s, k + 1)
      BY <1>1, <1>4, <1>5, <1>7, <2>1, <3>1
    <3>3. QED
      BY <1>3, <3>1, <3>2
  <2>4. QED
    BY <2>2, <2>3
<1>11. QED
  BY <1>6, <1>8, <1>9, <1>10, StateKinds

LEMMA AllNested ==
  ASSUME NEW s \in Seq(Token \ {"E"}), NEW f, Runs(f, Append(s, "E"))
  PROVE  \A k \in 0 .. Len(s) : Nested(f[k], Append(s, "E"), k)
<1> DEFINE T == {k \in Nat : k <= Len(s) => Nested(f[k], Append(s, "E"), k)}
<1>1. Len(s) \in Nat /\ s \in Seq(Token) /\ \A k \in 1 .. Len(s) : Append(s, "E")[k] = s[k]
  <2>1. Len(s) \in Nat /\ s \in Seq(Token) /\ "E" \in Token
    BY TokenTaken DEF Token
  <2>2. QED
    BY <2>1, AppendProperties
<1>2. PICK in : in = Append(s, "E")
  OBVIOUS
<1>3. ASSUME NEW k \in Nat, \A m \in Nat : m < k => m \in T
      PROVE  k \in T
  <2>1. CASE k = 0
    <3>1. f[0] = Cfg("valstart", <<>>) /\ Len(<<>>) = 0 /\ "valstart" \in Static
      BY EmptySeq DEF Runs, Static, Waiting
    <3>2. Depth(in, 0) = 0
      BY DepthStep
    <3>3. Nested(f[0], in, 0)
      BY <3>1, <3>2 DEF Nested, Cfg
    <3>4. QED
      BY <1>2, <2>1, <3>3
  <2>2. CASE k # 0 /\ k <= Len(s)
    <3>1. PICK m \in Nat : m = k - 1 /\ m < k /\ k = m + 1
      <4>1. k - 1 \in Nat /\ k - 1 < k /\ k = (k - 1) + 1
        BY <2>2
      <4>2. QED
        BY <4>1
    <3>2. m \in T
      <4> HIDE DEF T
      <4>1. QED
        BY <1>3, <3>1
    <3>3. Nested(f[m], in, m) /\ k \in 1 .. Len(s) /\ m \in 0 .. Len(s) + 1
      BY <1>1, <1>2, <2>2, <3>1, <3>2
    <3>4. f[k] = AfterToken(f[k - 1], s[k]) /\ s[k] \in Token \ {"E"} /\ f[m] \in Config
      BY <3>3, TokenTaken
    <3>5. f[k] = AfterToken(f[m], in[m + 1]) /\ in[m + 1] \in Token \ {"E"}
      BY <1>1, <1>2, <3>1, <3>3, <3>4
    <3>6. Nested(f[k], in, k)
      BY <3>1, <3>3, <3>4, <3>5, NestedStep
    <3>7. QED
      BY <1>2, <3>6
  <2>3. CASE ~ (k <= Len(s))
    BY <2>3
  <2>4. QED
    BY <2>1, <2>2, <2>3
<1>4. \A k \in Nat : k \in T
  <2> HIDE DEF T
  <2>1. QED
    BY <1>3, Strongly
<1>5. QED
  BY <1>1, <1>4

LEMMA NestingDecides ==
  ASSUME NEW s \in Seq(Token \ {"E"}), NEW f, Runs(f, Append(s, "E"))
  PROVE  /\ StackMax \in Nesting(Append(s, "E")) => Verdict(f[Len(s) + 1]) = -1
         /\ StackMax \notin Nesting(Append(s, "E")) => Shallow(f, Len(s))
<1>1. PICK in \in Seq(Token) : in = Append(s, "E") /\ Len(in) = Len(s) + 1 /\ in[Len(s) + 1] = "E"
  <2>1. Len(s) \in Nat /\ s \in Seq(Token) /\ "E" \in Token
    BY TokenTaken DEF Token
  <2>2. QED
    BY <2>1, AppendProperties
<1>2. PICK n \in Nat : n = Len(s)
  BY TokenTaken
<1>3. \A k \in 0 .. n : Nested(f[k], in, k)
  BY <1>1, <1>2, AllNested
<1>4. Nesting(in) = {Depth(in, k) : k \in 1 .. n + 1}
  BY <1>1, <1>2 DEF Nesting
<1>5. ASSUME NEW k \in 0 .. n, Depth(in, k) = StackMax
      PROVE  Verdict(f[n + 1]) = -1
  <2>1. f[k].state = "error"
    BY <1>3, <1>5 DEF Nested
  <2>2. f[Len(in)].state = "error"
    <3>1. k \in 0 .. Len(in) /\ Runs(f, in)
      BY <1>1, <1>2
    <3>2. QED
      BY <2>1, <3>1, ErrorStays
  <2>3. PICK m : m = f[n + 1] /\ m.state = "error"
    BY <1>1, <1>2, <2>2
  <2>4. m.state \notin Results
    BY <2>3 DEF Results
  <2>5. QED
    BY <2>3, <2>4 DEF Verdict
<1>6. ASSUME StackMax \in Nesting(in)
      PROVE  Verdict(f[n + 1]) = -1
  <2>1. PICK k \in 1 .. n + 1 : Depth(in, k) = StackMax
    BY <1>4, <1>6
  <2>2. CASE k \in 0 .. n
    BY <1>5, <2>1, <2>2
  <2>3. CASE k = n + 1
    <3>1. Depth(in, n) = StackMax /\ n \in 0 .. n
      <4>1. in[n + 1] \notin {"(", ")"}
        BY <1>1, <1>2
      <4>2. Depth(in, n + 1) = Depth(in, n)
        BY <4>1, DepthStep
      <4>3. QED
        BY <2>1, <2>3, <4>2
    <3>2. QED
      BY <1>5, <3>1
  <2>4. QED
    BY <2>2, <2>3
<1>7. ASSUME StackMax \notin Nesting(in)
      PROVE  Shallow(f, n)
  <2>1. ASSUME NEW k \in 0 .. n, Len(f[k].open) = StackMax
        PROVE  FALSE
    <3>1. PICK j \in 1 .. k : Depth(in, j) = StackMax
      BY <1>3, <2>1 DEF Nested
    <3>2. j \in 1 .. n + 1
      OBVIOUS
    <3>3. QED
      BY <1>4, <1>7, <3>1, <3>2
  <2>2. QED
    BY <2>1 DEF Shallow
<1>8. QED
  BY <1>1, <1>2, <1>6, <1>7

(* What bee_eval_raw returns, by the grammar.                               *)
Returned(s, n) ==
  IF StackMax \in Nesting(Append(s, "E")) THEN n = -1
  ELSE /\ Grammar(s) \in Worth
       /\ n = (IF Grammar(s) = "none" THEN -1 ELSE IF Grammar(s) = "0" THEN 0 ELSE 1)

LEMMA EvaluateIs ==
  ASSUME NEW s \in Seq(Token \ {"E"})
  PROVE  Returned(s, Evaluate(s))
<1>1. s \in Seq(Token) /\ Len(s) \in Nat
  BY SeqMonotonic, LenProperties
<1>2. PICK f : Runs(f, Append(s, "E")) /\ Evaluate(s) = Verdict(f[Len(s) + 1])
  BY <1>1, EvaluateRuns
<1>3. PICK g : Reads(g, s) /\ Grammar(s) = g[<<"expr", 1, Len(s)>>]
  BY <1>1, GrammarReads
<1>4. CASE StackMax \in Nesting(Append(s, "E"))
  BY <1>2, <1>4, NestingDecides DEF Returned
<1>5. CASE StackMax \notin Nesting(Append(s, "E"))
  <2>1. Parsing(f, g, s)
    <3>1. Shallow(f, Len(s))
      BY <1>2, <1>5, NestingDecides
    <3>2. QED
      BY <1>2, <1>3, <3>1 DEF Parsing
  <2>2. PICK n \in Nat : n = Len(s)
    BY <1>1
  <2>3. 1 \in 1 .. n + 1 /\ n \in 0 .. n
    OBVIOUS
  <2>4. Grammar(s) \in Worth /\ (Grammar(s) # "none" => Grammar(s) \in Val /\ 1 <= n)
    <3>1. PICK w : w = g[<<"expr", 1, n>>] /\ w = Grammar(s)
      BY <1>3, <2>2
    <3>2. 1 \in 1 .. Len(s) + 1 /\ n \in 0 .. Len(s)
      BY <2>2
    <3>3. /\ g[<<"expr", 1, n>>] \in Worth
          /\ g[<<"expr", 1, n>>] # "none" => g[<<"expr", 1, n>>] \in Val /\ 1 <= n
      BY <1>1, <1>3, <3>2, ReadingAt
    <3>4. QED
      BY <3>1, <3>3
  <2>5. f[n + 1] = AfterToken(f[n], "E") /\ f[n] \in Config /\ "E" \in Token
    <3>1. n \in 0 .. Len(s) + 1
      BY <2>2
    <3>2. QED
      BY <1>2, <2>2, <3>1, TokenTaken DEF Token
  <2>6. PICK st, o : f[n] = Cfg(st, o) /\ o \in Seq(Waiting)
    BY <2>5 DEF Config, Cfg
  <2>7. \A x, y : Cfg(x, y).state = x /\ Cfg(x, y).open = y
    BY DEF Cfg
  <2>8. CASE Grammar(s) = "none"
    <3>1. Derived(g, s, f[n], n)
      BY <1>2, <1>3, <2>2, Derives
    <3>2. CASE st = "error"
      <4>1. f[n + 1] = Cfg("error", o)
        BY <2>5, <2>6, <3>2, AfterError
      <4>2. QED
        BY <1>2, <1>5, <2>2, <2>4, <2>7, <2>8, <4>1 DEF Returned, Verdict, Results
    <3>3. CASE st \in Waiting
      <4>1. f[n + 1] = Cfg("error", o)
        BY <2>5, <2>6, <3>3, AfterWaiting DEF Val
      <4>2. QED
        BY <1>2, <1>5, <2>2, <2>4, <2>7, <2>8, <4>1 DEF Returned, Verdict, Results
    <3>4. CASE st \in Values
      <4>1. f[n + 1] = Cfg(Fsm(st, "E"), o)
        BY <2>5, <2>6, <3>4, AfterValue
      <4>2. o # <<>>
        <5>1. SUFFICES ASSUME o = <<>> PROVE FALSE
          OBVIOUS
        <5>2. st # "error" /\ Len(f[n].open) = 0 /\ f[n].state = st
          <6>1. Len(o) = 0
            BY <5>1, EmptySeq
          <6>2. QED
            BY <2>6, <2>7, <3>4, <6>1 DEF Values
        <5>3. PICK p : Shaped(g, s, st, 0, n, p)
          BY <3>1, <5>2 DEF Derived
        <5>4. g[<<"expr", 1, n>>] # "none"
          <6>1. p[0 + 1] = 1 /\ Current(g, s, st, p[0 + 1], n)
            BY <5>3 DEF Shaped
          <6>2. Current(g, s, st, 1, n)
            BY <6>1
          <6>3. QED
            BY <3>4, <6>2 DEF Current
        <5>5. QED
          BY <1>3, <2>2, <2>8, <5>4
      <4>3. Verdict(f[n + 1]) = -1
        BY <2>7, <4>1, <4>2 DEF Verdict
      <4>4. QED
        BY <1>2, <1>5, <2>2, <2>4, <2>8, <4>3 DEF Returned
    <3>5. QED
      BY <2>6, <2>7, <3>1, <3>2, <3>3, <3>4, StateKinds DEF Derived
  <2>9. CASE Grammar(s) # "none"
    <3>1. PICK v \in Val : v = g[<<"expr", 1, n>>] /\ v = Grammar(s) /\ 1 <= n
      BY <1>3, <2>2, <2>4, <2>9
    <3>2. 1 \in 1 .. n /\ n \in 1 .. n
      BY <3>1
    <3>3. ExprParsed(f, g, 1, n)
      BY <2>1, <2>2, <3>2, Parses
    <3>4. f[0] = Cfg("valstart", <<>>) /\ <<>> \in Seq(Waiting) /\ 1 - 1 = 0
      BY <1>2, EmptySeq DEF Runs
    <3>5. f[n] = Cfg(StateOf(v), <<>>)
      BY <1>3, <2>2, <2>9, <3>1, <3>3, <3>4 DEF ExprParsed
    <3>6. StateOf(v) \in Values /\ StateOf(v) = (IF v = "0" THEN "s0" ELSE "s1")
      BY DEF StateOf, Values
    <3>7. f[n + 1] = Cfg(Fsm(StateOf(v), "E"), <<>>)
      BY <2>5, <3>5, <3>6, AfterValue
    <3>8. Fsm(StateOf(v), "E") = IF v = "0" THEN "result0" ELSE "result1"
      BY <3>6 DEF Fsm, Waiting
    <3>9. Verdict(f[n + 1]) = IF v = "0" THEN 0 ELSE 1
      BY <2>7, <3>7, <3>8 DEF Verdict, Results
    <3>10. QED
      BY <1>2, <1>5, <2>2, <2>4, <2>9, <3>1, <3>9 DEF Returned
  <2>10. QED
    BY <2>8, <2>9
<1>6. QED
  BY <1>4, <1>5

-----------------------------------------------------------------------------
(* The machine takes the steps Evaluate takes.                              *)
(* Where an evaluation stands in what Evaluate goes through: f is that.     *)
Matches(f) ==
  /\ Running /\ state \in Static \cup Results => f[t] = Cfg(state, stack)
  /\ Running /\ state = "paropen" =>
       f[t] = Cfg(IF Len(stack) + 1 = StackMax THEN "error" ELSE "valstart", Append(stack, prev))
  /\ Running /\ state = "parclose" =>
       /\ prev \in Values
       /\ f[t] = IF stack = <<>> THEN Cfg("error", stack)
                 ELSE Cfg(Fsm(Last(stack), ValueOf(prev)), Front(stack))
  /\ Running /\ state = "error" => f[t].state = "error"
  /\ ~Running => result = Verdict(f[Len(input)])

EvaluationInv ==
  /\ input = <<>> => Running /\ mode \notin {"dry", "eval"}
  /\ input # <<>> => \A f : Runs(f, input) => Matches(f)

LEMMA MatchesAtStart ==
  ASSUME NEW frame \in Seq(Token \ {"E"}), StartOn(frame)
  PROVE  input' # <<>> /\ \A f : Runs(f, input') => Matches(f)'
<1>1. Len(input') = Len(frame) + 1 /\ Len(frame) \in Nat
  BY StartKeepsInv, LenProperties
<1>2. input' # <<>>
  BY <1>1, EmptySeq
<1>3. ASSUME NEW f, Runs(f, input')
      PROVE  Matches(f)'
  <2>1. f[0] = Cfg("valstart", <<>>)
    BY <1>3 DEF Runs
  <2>2. t' = 0 /\ state' = "valstart" /\ stack' = <<>> /\ result' = NoResult
    BY DEF StartOn
  <2>3. QED
    BY <2>1, <2>2 DEF Matches, Running, Results
<1>4. QED
  BY <1>2, <1>3

LEMMA ReadMatches ==
  ASSUME BeeInv, Read, NEW f, Runs(f, input), Matches(f)
  PROVE  Matches(f)'
<1>1. /\ input' = input /\ t' = t + 1 /\ prev' = state /\ stack' = stack /\ result' = NoResult
      /\ state' = Fsm(state, input[t + 1]) /\ state \in Static /\ result = NoResult /\ input \in Seq(Token)
      /\ t \in Nat /\ Len(input) \in Nat /\ t < Len(input)
  BY ReadKeepsInv, LenProperties DEF BeeInv, TypeOK, Read, Running
<1>2. PICK tok \in Token : tok = input[t + 1]
  BY <1>1, ElementOfSeq
<1>3. f[t] = Cfg(state, stack)
  BY <1>1 DEF Matches, Running
<1>4. f[t + 1] = AfterToken(Cfg(state, stack), tok)
  <2>1. t + 1 \in 1 .. Len(input) /\ t + 1 - 1 = t
    BY <1>1
  <2>2. PICK k \in 1 .. Len(input) : k = t + 1 /\ k - 1 = t
    BY <1>1, <2>1
  <2>3. f[k] = AfterToken(f[k - 1], input[k])
    BY DEF Runs
  <2>4. QED
    BY <1>2, <1>3, <2>2, <2>3
<1>5. \A r, o : Cfg(r, o).state = r
  BY DEF Cfg
<1>6. PICK st, o, r, fn : /\ st = state /\ o = stack /\ r = state' /\ fn = f[t + 1] /\ fn = f'[t']
                          /\ fn = AfterToken(Cfg(st, o), tok) /\ r = Fsm(st, tok)
  BY <1>1, <1>2, <1>4
<1>7. SUFFICES /\ r \in Static \cup Results => fn = Cfg(r, o)
               /\ r = "paropen" => fn = Cfg(IF Len(o) + 1 = StackMax THEN "error" ELSE "valstart", Append(o, st))
               /\ r = "parclose" =>
                    /\ st \in Values
                    /\ fn = IF o = <<>> THEN Cfg("error", o)
                            ELSE Cfg(Fsm(Last(o), ValueOf(st)), Front(o))
               /\ r = "error" => fn.state = "error"
  BY <1>1, <1>6 DEF Matches, Running
<1>8. CASE st \in Waiting
  <2>1. CASE tok \in Val
    <3>1. r = StateOf(ValueBehind(st, tok)) /\ r \in Values
      <4>1. Fsm(st, tok) \in Values
        BY <1>8, <2>1, FsmWaiting
      <4>2. Fsm(st, tok) = StateOf(ValueBehind(st, tok))
        BY <1>8, <2>1 DEF Fsm, Val
      <4>3. QED
        BY <1>6, <4>1, <4>2
    <3>2. fn = Cfg(r, o)
      BY <1>6, <1>8, <2>1, <3>1, AfterWaiting
    <3>3. QED
      BY <3>1, <3>2 DEF Values
  <2>2. CASE tok = "!"
    <3>1. r \in Waiting /\ r = Negation(st)
      BY <1>6, <1>8, <2>2, FsmWaiting DEF Fsm, Val
    <3>2. fn = Cfg(r, o)
      BY <1>6, <1>8, <2>2, <3>1, AfterWaiting
    <3>3. QED
      BY <3>1, <3>2 DEF Waiting
  <2>3. CASE tok = "("
    <3>1. r = "paropen"
      BY <1>6, <1>8, <2>3, FsmWaiting
    <3>2. fn = Cfg(IF Len(o) + 1 = StackMax THEN "error" ELSE "valstart", Append(o, st))
      BY <1>6, <1>8, <2>3, AfterWaiting
    <3>3. QED
      BY <3>1, <3>2, StateKinds DEF Results
  <2>4. CASE tok \notin Val \cup {"!", "("}
    <3>1. r = "error"
      BY <1>6, <1>8, <2>4, FsmWaiting
    <3>2. fn = Cfg("error", o)
      BY <1>6, <1>8, <2>4, AfterWaiting
    <3>3. QED
      BY <1>5, <3>1, <3>2, StateKinds DEF Results
  <2>5. QED
    BY <2>1, <2>2, <2>3, <2>4
<1>9. CASE st \in Values
  <2>1. CASE tok \in {"&", "|", "E"}
    <3>1. r \in Waiting \cup Results
      BY <1>6, <1>9, <2>1, FsmValue
    <3>2. fn = Cfg(r, o)
      BY <1>6, <1>9, <2>1, AfterValue
    <3>3. QED
      BY <3>1, <3>2 DEF Waiting, Results
  <2>2. CASE tok = ")"
    <3>1. r = "parclose"
      BY <1>6, <1>9, <2>2, FsmValue
    <3>2. fn = IF o = <<>> THEN Cfg("error", o) ELSE Cfg(Fsm(Last(o), ValueOf(st)), Front(o))
      BY <1>6, <1>9, <2>2, AfterValue
    <3>3. QED
      BY <1>9, <3>1, <3>2, StateKinds DEF Results
  <2>3. CASE tok \notin {"&", "|", "E", ")"}
    <3>1. r = "error"
      BY <1>6, <1>9, <2>3, FsmValue
    <3>2. fn = Cfg("error", o)
      BY <1>6, <1>9, <2>3, AfterValue
    <3>3. QED
      BY <1>5, <3>1, <3>2, StateKinds DEF Results
  <2>4. QED
    BY <2>1, <2>2, <2>3
<1>10. QED
  BY <1>1, <1>6, <1>8, <1>9, StateKinds

LEMMA EvaluatingMatches ==
  ASSUME BeeInv, Evaluating, NEW f, Runs(f, input), Matches(f)
  PROVE  Matches(f)'
<1>1. \A r, o : Cfg(r, o).state = r /\ Cfg(r, o).open = o
  BY DEF Cfg
<1>2. input \in Seq(Token) /\ t \in 0 .. Len(input) /\ Len(input) \in Nat
  BY LenProperties DEF BeeInv, TypeOK
<1>3. f[t].state = "error" => Verdict(f[Len(input)]) = -1
  <2>1. f[t].state = "error" => f[Len(input)].state = "error"
    BY <1>2, ErrorStays
  <2>2. QED
    BY <2>1 DEF Verdict, Results
<1>4. CASE Read
  BY <1>4, ReadMatches
<1>5. CASE Open
  <2>1. /\ result = NoResult /\ state = "paropen" /\ state' = "valstart"
        /\ input' = input /\ t' = t /\ stack' = Append(stack, prev)
        /\ result' = IF Len(stack) + 1 = StackMax THEN -1 ELSE result
    BY <1>5 DEF Open, Running
  <2>2. f[t] = Cfg(IF Len(stack) + 1 = StackMax THEN "error" ELSE "valstart", Append(stack, prev))
    BY <2>1 DEF Matches, Running
  <2>3. CASE Len(stack) + 1 = StackMax
    <3>1. Verdict(f[Len(input)]) = -1
      BY <1>1, <1>3, <2>2, <2>3
    <3>2. QED
      BY <2>1, <2>3, <3>1 DEF Matches, Running, NoResult
  <2>4. CASE Len(stack) + 1 # StackMax
    BY <2>1, <2>2, <2>4 DEF Matches, Running, Results
  <2>5. QED
    BY <2>3, <2>4
<1>6. CASE Close
  <2>1. result = NoResult /\ state = "parclose" /\ input' = input /\ t' = t /\ prev' = prev
    BY <1>6 DEF Close, Running
  <2>2. prev \in Values /\ f[t] = IF stack = <<>> THEN Cfg("error", stack)
                                  ELSE Cfg(Fsm(Last(stack), ValueOf(prev)), Front(stack))
    BY <2>1 DEF Matches, Running
  <2>3. CASE stack = <<>>
    <3>1. result' = -1
      BY <1>6, <2>3 DEF Close
    <3>2. Verdict(f[Len(input)]) = -1
      BY <1>1, <1>3, <2>2, <2>3
    <3>3. QED
      BY <2>1, <3>1, <3>2 DEF Matches, Running, NoResult
  <2>4. CASE stack # <<>>
    <3>1. /\ state' = Fsm(Last(stack), ValueOf(prev)) /\ stack' = Front(stack) /\ result' = result
      BY <1>6, <2>4 DEF Close
    <3>2. state' \in Values
      BY <1>6, <2>4, CloseFacts
    <3>3. f[t'] = Cfg(state', stack')
      BY <2>1, <2>2, <2>4, <3>1
    <3>4. QED
      BY <2>1, <3>1, <3>2, <3>3, StateKinds DEF Matches, Running, Values
  <2>5. QED
    BY <2>3, <2>4
<1>7. CASE Result
  <2>1. /\ result = NoResult /\ state \in Results /\ t = Len(input) /\ input' = input
        /\ result' = IF stack # <<>> THEN -1 ELSE IF state = "result0" THEN 0 ELSE 1
    BY <1>7 DEF Result, Running, BeeInv, Results
  <2>2. f[Len(input)] = Cfg(state, stack)
    BY <2>1 DEF Matches, Running
  <2>3. result' = Verdict(f[Len(input)])
    BY <1>1, <2>1, <2>2 DEF Verdict
  <2>4. result' # NoResult
    BY <2>1 DEF NoResult
  <2>5. QED
    BY <2>1, <2>3, <2>4 DEF Matches, Running
<1>8. CASE SyntaxError
  <2>1. result = NoResult /\ state = "error" /\ input' = input /\ result' = -1
    BY <1>8 DEF SyntaxError, Running
  <2>2. f[t].state = "error"
    BY <2>1 DEF Matches, Running
  <2>3. QED
    BY <1>3, <2>1, <2>2 DEF Matches, Running, NoResult
<1>9. QED
  BY <1>4, <1>5, <1>6, <1>7, <1>8 DEF Evaluating

LEMMA InitEvaluates == Init => EvaluationInv
BY DEF Init, Idle, EvaluationInv, Running

LEMMA NextEvaluates ==
  ASSUME Inv, EvaluationInv, [Next]_vars
  PROVE  EvaluationInv'
<1>1. CASE UNCHANGED beeVars /\ (mode' \in {"dry", "eval"} => mode' = mode)
  BY <1>1 DEF EvaluationInv, beeVars, Running, Matches
<1>2. CASE Evaluation
  <2>1. mode \in {"dry", "eval"} /\ Evaluating /\ BeeInv
    BY <1>2 DEF Evaluation, Inv
  <2>2. input # <<>> /\ input' = input
    BY <2>1 DEF EvaluationInv, Evaluating, Read, Open, Close, Result, SyntaxError
  <2>3. ASSUME NEW f, Runs(f, input)
        PROVE  Matches(f)'
    <3>1. Matches(f)
      BY <2>2, <2>3 DEF EvaluationInv
    <3>2. QED
      BY <2>1, <2>3, <3>1, EvaluatingMatches
  <2>4. QED
    BY <2>2, <2>3 DEF EvaluationInv
<1>3. CASE DryRun \/ EvalTop
  <2>1. PICK frame \in Seq(Token \ {"E"}) : StartOn(frame)
    <3>1. CASE DryRun
      <4>1. Range(base) \subseteq Token \ {"E"} /\ StartOn(base) /\ base \in Seq(Character)
        BY <3>1 DEF DryRun, Inv, ScanInv
      <4>2. base \in Seq(Range(base))
        BY <4>1, SeqOfRange
      <4>3. QED
        BY <4>1, <4>2, SeqMonotonic
    <3>2. CASE EvalTop
      <4>1. StartOn(frames[Len(frames)]) /\ frames \in Seq(Frame) /\ Len(frames) # 0
        BY <3>2 DEF EvalTop, Inv, FramesInv, Last
      <4>2. Len(frames) \in 1 .. Len(frames)
        BY <4>1, LenProperties
      <4>3. frames[Len(frames)] \in Frame
        BY <4>1, <4>2, ElementOfSeq
      <4>4. QED
        BY <4>1, <4>3 DEF Frame
    <3>3. QED
      BY <1>3, <3>1, <3>2
  <2>2. input' # <<>> /\ \A f : Runs(f, input') => Matches(f)'
    BY <2>1, MatchesAtStart
  <2>3. QED
    BY <2>2 DEF EvaluationInv
<1>4. QED
  <2>1. CASE Symbol \/ Constant \/ TakeRva \/ \E v \in Val : SetValue(v)
    BY <1>1, <2>1 DEF Symbol, Constant, TakeRva, SetValue, beeVars
  <2>2. CASE ScanError \/ CountMismatch \/ BadToken \/ Judge \/ Evaluated
    BY <1>1, <2>2 DEF ScanError, CountMismatch, BadToken, Judge, Evaluated, Fail, beeVars
  <2>3. CASE UNCHANGED vars
    BY <1>1, <2>3 DEF vars, scanVars, beeVars
  <2>4. QED
    BY <1>2, <1>3, <2>1, <2>2, <2>3 DEF Next

LEMMA InputIs ==
  ASSUME BeeInv, input # <<>>
  PROVE  Front(input) \in Seq(Token \ {"E"}) /\ input = Append(Front(input), "E")
<1>1. PICK in : in = input /\ in \in Seq(Token) /\ \A k \in 1 .. Len(in) : in[k] = "E" <=> k = Len(in)
  BY DEF BeeInv
<1>2. Len(in) \in Nat \ {0}
  BY <1>1, EmptySeq, LenProperties
<1>3. PICK n \in Nat : n = Len(in) - 1 /\ n + 1 = Len(in)
  <2>1. Len(in) - 1 \in Nat /\ (Len(in) - 1) + 1 = Len(in)
    BY <1>2
  <2>2. QED
    BY <2>1
<1>4. \A k \in 1 .. n : in[k] \in Token \ {"E"}
  <2>1. \A k \in 1 .. n : k \in 1 .. Len(in) /\ k # Len(in)
    BY <1>3
  <2>2. QED
    BY <1>1, <2>1, ElementOfSeq
<1>5. PICK q : q = Front(in) /\ q = SubSeq(in, 1, n)
  BY <1>3 DEF Front
<1>6. /\ q \in Seq(Token \ {"E"}) /\ Len(q) = n
      /\ \A k \in 1 .. n : q[k] = in[k]
  <2>1. /\ SubSeq(in, 1, n) \in Seq(Token \ {"E"})
        /\ Len(SubSeq(in, 1, n)) = IF 1 <= n THEN n - 1 + 1 ELSE 0
        /\ \A k \in 1 .. n - 1 + 1 : SubSeq(in, 1, n)[k] = in[1 + k - 1]
    BY <1>4, SubSeqProperties
  <2>2. Len(q) = n
    BY <1>5, <2>1
  <2>3. \A k \in 1 .. n : k \in 1 .. n - 1 + 1 /\ 1 + k - 1 = k
    OBVIOUS
  <2>4. QED
    BY <1>5, <2>1, <2>2, <2>3
<1>7. "E" \in Token /\ q \in Seq(Token) /\ in[n + 1] = "E"
  <2>1. n + 1 \in 1 .. Len(in)
    BY <1>3
  <2>2. QED
    BY <1>1, <1>3, <1>6, <2>1, SeqMonotonic DEF Token
<1>8. PICK z : z = Append(q, "E")
  OBVIOUS
<1>9. /\ z \in Seq(Token) /\ Len(z) = n + 1 /\ z[n + 1] = "E"
      /\ \A k \in 1 .. n : z[k] = q[k]
  BY <1>6, <1>7, <1>8, AppendProperties
<1>10. \A k \in 1 .. Len(in) : z[k] = in[k]
  <2>1. \A k \in 1 .. Len(in) : k \in 1 .. n \/ k = n + 1
    BY <1>3
  <2>2. QED
    BY <1>6, <1>7, <1>9, <2>1
<1>11. z = in
  BY <1>1, <1>3, <1>9, <1>10, SeqEqual
<1>12. QED
  BY <1>1, <1>5, <1>6, <1>8, <1>11

LEMMA EvaluationHolds == Spec => [](Inv /\ EvaluationInv)
<1>1. Inv /\ EvaluationInv /\ [Next]_vars => EvaluationInv'
  BY NextEvaluates
<1>2. QED
  BY InvHolds, InitEvaluates, <1>1, PTL DEF Spec

(* BEE accepts exactly the grammar, up to its limit on nesting, and returns *)
(* the value of the reading from left to right, short-circuits and all, for *)
(* every text and every frame made from it (bee_eval_raw, bee_eval_fsm).    *)
THEOREM EvaluatorReadsGrammar == Spec => []EvaluatesLeftToRight
<1>1. ASSUME Inv, EvaluationInv
      PROVE  EvaluatesLeftToRight
  <2>1. SUFFICES ASSUME ~Running
                 PROVE  /\ result = Evaluate(Front(input))
                        /\ IF StackMax \in Nesting(input) THEN result = -1
                           ELSE /\ result = -1 <=> Grammar(Front(input)) = "none"
                                /\ result # -1 =>
                                     /\ Grammar(Front(input)) = IF result = 0 THEN "0" ELSE "1"
                                     /\ t = Len(input)
    BY DEF EvaluatesLeftToRight
  <2>2. BeeInv /\ input # <<>>
    BY <1>1, <2>1 DEF Inv, EvaluationInv
  <2>3. PICK s \in Seq(Token \ {"E"}) : s = Front(input) /\ input = Append(s, "E")
    BY <2>2, InputIs
  <2>4. s \in Seq(Token) /\ Len(input) = Len(s) + 1
    <3>1. s \in Seq(Token) /\ "E" \in Token
      BY SeqMonotonic DEF Token
    <3>2. QED
      BY <2>3, <3>1, AppendProperties
  <2>5. PICK f : Runs(f, input) /\ Evaluate(s) = Verdict(f[Len(input)])
    BY <2>3, <2>4, EvaluateRuns
  <2>6. result = Evaluate(s)
    BY <1>1, <2>1, <2>2, <2>5 DEF EvaluationInv, Matches
  <2>7. Returned(s, result)
    BY <2>6, EvaluateIs
  <2>8. result # -1 => t = Len(input)
    BY <2>1, <2>2 DEF BeeInv, TypeOK, Running
  <2>9. CASE StackMax \in Nesting(input)
    BY <2>3, <2>6, <2>7, <2>9 DEF Returned
  <2>10. CASE StackMax \notin Nesting(input)
    <3>1. PICK w \in Worth : w = Grammar(s) /\ result = (IF w = "none" THEN -1 ELSE IF w = "0" THEN 0 ELSE 1)
      BY <2>3, <2>7, <2>10 DEF Returned
    <3>2. (result = -1 <=> w = "none") /\ (result # -1 => w = IF result = 0 THEN "0" ELSE "1")
      BY <3>1 DEF Worth
    <3>3. QED
      BY <2>3, <2>6, <2>8, <2>10, <3>1, <3>2
  <2>11. QED
    BY <2>9, <2>10
<1>2. QED
  BY <1>1, EvaluationHolds, PTL
===============================================================================
