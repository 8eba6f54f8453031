------------------------------- MODULE RvaScan -------------------------------
(***************************************************************************)
(* What create_bdd does before it builds (compute_rva_order, pgbdd/bdd.c): *)
(* the text of an expression is scanned once into the base frame, the      *)
(* tokens BEE reads with a 1 for every rva, and into rva_order, the sorted *)
(* rvas.  Each rva keeps its places in the frame as a chain of 16-bit      *)
(* links through rva_epos.  A dry run of BEE on the base frame decides     *)
(* about the syntax; then bdd_build gives the rvas values, one by one and  *)
(* through the chains, and BEE evaluates what that leaves.                 *)
(*                                                                         *)
(* A text is a sequence of characters.  BddBuild models how the recursion  *)
(* of bdd_build reuses the frames; here one descent is followed.           *)
(***************************************************************************)
EXTENDS Bee, FiniteSetsExt

CONSTANTS
  Texts,        \* the texts given to create_bdd
  MaxRvaName,   \* MAX_RVA_NAME
  IntMod,       \* 2^32: the number of values of an int
  LongMax,      \* LONG_MAX, the biggest value strtol can answer
  LocptrMod     \* 2^16: the number of values of a locptr

(* The characters that matter, in the order of their codes; "?" stands for  *)
(* those that mean nothing in an expression.                                *)
Blank == " "
Ascii == <<Blank, "!", "&", "(", ")", "0", "1", "7", "=", "?", "x", "y", "|">>
Code(c) == CHOOSE k \in DOMAIN Ascii : Ascii[k] = c

ASSUME TextsAssumption == \A text \in Texts : text \in Seq(Range(Ascii))
ASSUME WidthAssumption ==
  /\ MaxRvaName \in Nat \ {0}
  /\ IntMod \in Nat \ {0, 1} /\ LocptrMod \in Nat \ {0, 1}
  /\ LongMax \in Nat

VARIABLES
  text,       \* bdd_expr
  at,         \* the characters read
  base,       \* e_stack while the base frame grows
  order,      \* rva_order: records [rva, loc]
  epos,       \* rva_epos, the first of index 0: records [pos, next]
  frames,     \* the frames evaluated or filled so far, the base frame first
  mode        \* "scan", "dry", "values", "eval", "done", "failed" or "fatal"

scanVars == <<text, at, base, order, epos, frames, mode>>
vars == <<scanVars, beeVars>>

Digit == [c \in {"0", "1", "7"} |-> CASE c = "0" -> 0 [] c = "1" -> 1 [] c = "7" -> 7]
IsDigit(c) == c \in DOMAIN Digit
IsAlnum(c) == IsDigit(c) \/ c \in {"x", "y"}

LocEmpty == LocptrMod - 1

-----------------------------------------------------------------------------
(* The first place from p on whose character is not in the set C. *)
EndOf(C, p) == CHOOSE e \in p .. Len(text) + 1 :
  /\ \A k \in p .. e - 1 : text[k] \in C
  /\ e <= Len(text) => text[e] \notin C

Alnums == {c \in Range(Ascii) : IsAlnum(c)}
NotEquals == Range(Ascii) \ {"="}

(* What an int keeps of n, in bdd_atoi and in the difference of two values  *)
(* (Postgres has extensions compiled with -fwrapv).                         *)
AsInt(n) == LET low == n % IntMod IN IF 2 * low < IntMod THEN low ELSE low - IntMod

(* The number that digits are for strtol. *)
Number(digits) ==
  LET number[k \in 0 .. Len(digits)] ==
        IF k = 0 THEN 0 ELSE 10 * number[k - 1] + Digit[digits[k]]
  IN  number[Len(digits)]

(* bdd_atoi of digits: -1 when no long can hold the number.                 *)
Atoi(digits) == IF Number(digits) > LongMax THEN -1 ELSE AsInt(Number(digits))

(* strcmp(a, b) < 0 *)
NameBefore(a, b) ==
  \E k \in DOMAIN b : /\ \A j \in 1 .. k - 1 : j <= Len(a) /\ a[j] = b[j]
                      /\ k <= Len(a) => Code(a[k]) < Code(b[k])

Before(a, b) == NameBefore(a.var, b.var) \/ (a.var = b.var /\ AsInt(a.val - b.val) < 0)

(* Slip: an rva found is taken for a new one. *)
SearchNever(rva) ==
  LET go[lr \in (1 .. Len(order) + 1) \X (0 .. Len(order))] ==
        LET l == lr[1]
            r == lr[2]
            m == l + (r - l) \div 2
        IN  IF l > r THEN [found |-> FALSE, at |-> l]
            ELSE IF Before(order[m].rva, rva) THEN go[<<m + 1, r>>] ELSE go[<<l, m - 1>>]
  IN  go[<<1, Len(order)>>]

(* The binary search of add2rva_order. *)
Search(rva) ==
  LET go[lr \in (1 .. Len(order) + 1) \X (0 .. Len(order))] ==
        LET l == lr[1]
            r == lr[2]
            m == l + (r - l) \div 2
        IN  IF l > r THEN [found |-> FALSE, at |-> l]
            ELSE IF order[m].rva = rva THEN [found |-> TRUE, at |-> m]
            ELSE IF Before(order[m].rva, rva) THEN go[<<m + 1, r>>] ELSE go[<<l, m - 1>>]
  IN  go[<<1, Len(order)>>]

(* Slip: a chain is not continued, only the last place is kept. *)
AddedAlone(rva) ==
  LET s == Search(rva)
      rl == [rva |-> rva, loc |-> Len(epos) % LocptrMod]
  IN  /\ order' = IF s.found THEN [order EXCEPT ![s.at] = rl] ELSE InsertAt(order, s.at, rl)
      /\ epos' = Append(epos, [pos |-> Len(base) % LocptrMod, next |-> LocEmpty])
      /\ base' = Append(base, "1")

(* add2rva_order, for an rva with a good name and value: it gets its place  *)
(* in the order, unless it has one, and its chain starts at the new place.  *)
Added(rva) ==
  LET s == Search(rva)
      rl == [rva |-> rva, loc |-> Len(epos) % LocptrMod]
  IN  /\ order' = IF s.found THEN [order EXCEPT ![s.at] = rl] ELSE InsertAt(order, s.at, rl)
      /\ epos' = Append(epos, [pos  |-> Len(base) % LocptrMod,
                               next |-> IF s.found THEN order[s.at].loc ELSE LocEmpty])
      /\ base' = Append(base, "1")

-----------------------------------------------------------------------------
Init ==
  /\ text \in Texts
  /\ at = 0 /\ base = <<>> /\ order = <<>> /\ epos = <<>> /\ frames = <<>>
  /\ mode = "scan"
  /\ Idle

Scanning == mode = "scan" /\ at < Len(text)
c == text[at + 1]                             \* *p

Fail(how) == mode' = how /\ UNCHANGED <<text, at, base, order, epos, frames, beeVars>>

(* Slip: a blank is copied, too. *)
SymbolOrBlank ==
  /\ Scanning /\ ~IsAlnum(c)
  /\ base' = Append(base, c)
  /\ at' = at + 1
  /\ UNCHANGED <<text, order, epos, frames, mode, beeVars>>

(* Any other character is copied, a blank dropped. *)
Symbol ==
  /\ Scanning /\ ~IsAlnum(c)
  /\ base' = IF c = Blank THEN base ELSE Append(base, c)
  /\ at' = at + 1
  /\ UNCHANGED <<text, order, epos, frames, mode, beeVars>>

IsConstant == c \in {"0", "1"} /\ (at + 1 < Len(text) => ~IsAlnum(text[at + 2]))

Constant ==
  /\ Scanning /\ IsConstant
  /\ base' = Append(base, c)
  /\ at' = at + 1
  /\ UNCHANGED <<text, order, epos, frames, mode, beeVars>>

(* A name, whatever follows up to "=", blanks and the digits of a value.    *)
NameEnd == EndOf(Alnums, at + 1)
EqualsAt == EndOf(NotEquals, NameEnd)
ValueAt == EndOf({Blank}, EqualsAt + 1)
ValueEnd == EndOf(DOMAIN Digit, ValueAt)
HasValue == EqualsAt < Len(text) /\ ValueEnd > ValueAt
ThisRva == [var |-> SubSeq(text, at + 1, NameEnd - 1),
            val |-> Atoi(SubSeq(text, ValueAt, ValueEnd - 1))]
GoodRva == Len(ThisRva.var) <= MaxRvaName /\ ThisRva.val # -1

TakeRva ==
  /\ Scanning /\ IsAlnum(c) /\ ~IsDigit(c)
  /\ HasValue /\ GoodRva
  /\ Added(ThisRva)
  /\ at' = ValueEnd - 1
  /\ UNCHANGED <<text, frames, mode, beeVars>>

(* A number that is no constant, a name without a value, a bad rva.         *)
ScanError ==
  /\ Scanning /\ IsAlnum(c)
  /\ IF IsDigit(c) THEN ~IsConstant ELSE ~(HasValue /\ GoodRva)
  /\ Fail("failed")

(* count_rva, the size of rva_epos. *)
CountRva == Cardinality({k \in DOMAIN text : text[k] = "="})

(* The bytes allocated for the base frame, and its terminator, before the   *)
(* scan.                                                                    *)
FrameRoom == Len(text)

Scanned == mode = "scan" /\ at = Len(text)

(* The scan found less rvas than "=" signs: pg_fatal ends the process.      *)
CountMismatch == Scanned /\ Len(epos) # CountRva /\ Fail("fatal")

(* parse_tokens finds a character that is no token. *)
BadToken ==
  /\ Scanned /\ Len(epos) = CountRva
  /\ ~(Range(base) \subseteq Token \ {"E"})
  /\ Fail("failed")

DryRun ==
  /\ Scanned /\ Len(epos) = CountRva
  /\ Range(base) \subseteq Token \ {"E"}
  /\ mode' = "dry" /\ frames' = <<base>>
  /\ StartOn(base)
  /\ UNCHANGED <<text, at, base, order, epos>>

Evaluation == mode \in {"dry", "eval"} /\ Evaluating /\ UNCHANGED scanVars

Judge ==
  /\ mode = "dry" /\ ~Running
  /\ Fail(IF result = -1 THEN "failed" ELSE "values")

(* The places of the entries a chain leads to. *)
Chain(loc) ==
  LET from[p \in 0 .. LocEmpty] ==
        IF p = LocEmpty \/ p + 1 \notin DOMAIN epos THEN {}
        ELSE {p + 1} \cup from[epos[p + 1].next]
  IN  {epos[k].pos : k \in DOMAIN epos \cap from[loc]}

(* bctx_orderi_set: the next frame is a copy with one more rva decided.     *)
SetValue(v) ==
  /\ mode = "values" /\ Len(frames) <= Len(order)
  /\ LET places == Chain(order[Len(frames)].loc)
     IN  frames' = Append(frames, [k \in DOMAIN base |->
                                     IF k - 1 \in places THEN v ELSE Last(frames)[k]])
  /\ UNCHANGED <<text, at, base, order, epos, mode, beeVars>>

(* bctx_eval_top, at the depth where every rva has a value. *)
EvalTop ==
  /\ mode = "values" /\ Len(frames) > Len(order)
  /\ mode' = "eval"
  /\ StartOn(Last(frames))
  /\ UNCHANGED <<text, at, base, order, epos, frames>>

Evaluated ==
  /\ mode = "eval" /\ ~Running
  /\ Fail("done")

Next ==
  \/ Symbol \/ Constant \/ TakeRva \/ ScanError
  \/ CountMismatch \/ BadToken \/ DryRun
  \/ Evaluation \/ Judge
  \/ \E v \in Val : SetValue(v)
  \/ EvalTop \/ Evaluated

Spec == Init /\ [][Next]_vars
-----------------------------------------------------------------------------
(***************************************************************************)
(* Reference: a text taken apart at its "=" signs.  In front of each, from *)
(* the end of the value before, stand symbols and constants and then, from *)
(* the first letter on, the name; behind it stands the value.              *)
(***************************************************************************)
Signs == {k \in DOMAIN text : text[k] = "="}
ValueStart(s) == EndOf({Blank}, s + 1)
Behind(s) == EndOf(DOMAIN Digit, ValueStart(s))
Start(s) == Max({1} \cup {Behind(q) : q \in {q \in Signs : q < s}})
NameOf(s) == Min({k \in Start(s) .. s - 1 : text[k] \in {"x", "y"}})
RvaOf(s) == [var |-> SubSeq(text, NameOf(s), EndOf(Alnums, NameOf(s)) - 1),
             val |-> Atoi(SubSeq(text, ValueStart(s), Behind(s) - 1))]
Rvas == {RvaOf(s) : s \in Signs}

(* Of an rva the first character is kept, for its value; of the rest        *)
(* everything but blanks.                                                   *)
RvaAt == [k \in {NameOf(s) : s \in Signs} |-> RvaOf(CHOOSE s \in Signs : NameOf(s) = k)]
InRva == UNION {NameOf(s) .. Behind(s) - 1 : s \in Signs}
Kept == LET inside == InRva \ DOMAIN RvaAt
        IN  {k \in DOMAIN text : text[k] # Blank /\ k \notin inside}

Accepted == mode \in {"dry", "values", "eval", "done"}

(* No two values are so far apart that an int cannot hold their difference. *)
Narrow == \A r, s \in Rvas : AsInt(r.val - s.val) = r.val - s.val

(* The order BddBuild is given: exactly the rvas of the text, each above    *)
(* those before it, so that each has one depth (add2rva_order).  With       *)
(* values too far apart the comparison runs in circles and holds between    *)
(* neighbours only: an rva that is there may not be found.                  *)
OrderSorted ==
  Accepted =>
    /\ {order[k].rva : k \in DOMAIN order} = Rvas
    /\ \A j, k \in DOMAIN order :
         j + 1 = k \/ (j < k /\ Narrow) => Before(order[j].rva, order[k].rva)

(* What BEE evaluates is the text with every rva replaced, wherever it      *)
(* occurs, by the value given to it, and by 1 as long as it has none: up to *)
(* the last place a locptr can hold (_compute_order, bctx_orderi_set), and  *)
(* if no rva is taken twice.                                                *)
FrameSubstituted ==
  Accepted /\ Narrow /\ Len(base) <= LocptrMod =>
    LET rvaAt == RvaAt
        kept == Kept
        place == [k \in kept |-> Cardinality({j \in kept : j <= k})]
    IN  \E given \in [1 .. Len(frames) - 1 -> Val] : \A d \in DOMAIN frames :
          LET Value(r) == IF \E k \in 1 .. d - 1 : order[k].rva = r
                          THEN given[CHOOSE k \in 1 .. d - 1 : order[k].rva = r] ELSE "1"
          IN  /\ Len(frames[d]) = Cardinality(kept)
              /\ \A k \in kept :
                   frames[d][place[k]] = IF k \in DOMAIN rvaAt THEN Value(rvaAt[k]) ELSE text[k]

(* How far the scan writes into the memory taken before it.  What it copies *)
(* stays inside the strlen(expr) bytes of the base frame; but the 0 that    *)
(* compute_rva_order writes behind it, before it takes more memory, has a   *)
(* byte left exactly when the text has an rva or a blank: for any other     *)
(* text, "(0|1)" or the empty one, it goes one byte too far.  rva_epos has  *)
(* an entry for every "=", and pg_fatal ends the process only when one of   *)
(* them was left in the frame (count_rva).                                  *)
WritesBounded ==
  LET left == Cardinality({k \in DOMAIN base : base[k] = "="})
      terminated == at = Len(text)
  IN  /\ Len(base) <= FrameRoom
      /\ terminated => (Len(base) < FrameRoom <=> epos # <<>> \/ Blank \in Range(text))
      /\ Len(epos) + left <= CountRva
      /\ mode = "fatal" => left > 0

(* One dry run, with every rva true, speaks for the evaluations under all   *)
(* valuations: none of them finds an error in the syntax, again up to the   *)
(* last place a locptr can hold (compute_rva_order and bdd_build, which     *)
(* takes an error for NODEI_NONE).                                          *)
DryRunSpeaksForAll ==
  mode \in {"eval", "done"} /\ Len(base) <= LocptrMod => result # -1
=============================================================================
