-------------------------------- MODULE DictMap ------------------------------
(***************************************************************************)
(* What a dictionary is to those who use it: a map from random variables   *)
(* to probability distributions, which one call changes by a list of       *)
(* definitions or, if one of them is wrong, not at all.  Where there may   *)
(* be no map, a set stands for it that is empty or has one element.        *)
(***************************************************************************)
EXTENDS Fraction, Sequences, FiniteSetsExt

CONSTANT Wildcard

VARIABLES
  table,      \* the dictionary in the table, a map of maps, if any
  running,    \* whether a call is running
  mode,       \* the call: "in", "add", "del" or "upd"
  text,       \* its definitions
  answer      \* the map the last call returned, unless it failed

mapVars == <<table, running, mode, text, answer>>

Nowhere == [x \in {} |-> x]
Extend(f, x, y) == [k \in DOMAIN f \cup {x} |-> IF k = x THEN y ELSE f[k]]
Without(f, x) == [k \in DOMAIN f \ {x} |-> f[k]]

(* The distribution scaled to a total of one. *)
Scaled(f) ==
  LET total == FoldSet(LAMBDA val, sum : Plus(sum, f[val]), <<0, 1>>, DOMAIN f)
  IN  IF total \in {One, NaN} THEN f ELSE [val \in DOMAIN f |-> DividedBy(f[val], total)]

DistributionOf(map, name) == IF name \in DOMAIN map THEN map[name] ELSE Nowhere

(* One definition d of a call of mode how, applied to a distribution.       *)
Defined(how, f, d) ==
  IF d.val = Wildcard THEN Nowhere
  ELSE IF how = "del" THEN Without(f, d.val) ELSE Extend(f, d.val, d.prob)

Legal(how, map, d) ==
  LET f == DistributionOf(map, d.name)
  IN  CASE how \in {"in", "add"} -> d.val \in Nat /\ d.val \notin DOMAIN f
        [] how = "upd"           -> d.val \in Nat /\ d.val \in DOMAIN f
        [] how = "del"           -> DOMAIN f # {} /\ d.val \in DOMAIN f \cup {Wildcard}

(* Consecutive definitions of one variable make up a run, at whose end the  *)
(* variable is scaled; without values it disappears.                        *)
EndsRun(defs, i) == i = Len(defs) \/ defs[i + 1].name # defs[i].name

Changed(how, defs, map, i) ==
  LET d == defs[i]
      f == Defined(how, DistributionOf(map, d.name), d)
  IN  IF DOMAIN f = {} THEN Without(map, d.name)
      ELSE Extend(map, d.name, IF EndsRun(defs, i) THEN Scaled(f) ELSE f)

(* The map after the first i definitions, if all of them are legal; old is  *)
(* the one in the table.                                                    *)
After(how, defs, old) ==
  LET after[i \in 0 .. Len(defs)] ==
        IF i = 0 THEN IF how = "in" THEN {Nowhere} ELSE old
        ELSE {Changed(how, defs, map, i) : map \in {m \in after[i - 1] : Legal(how, m, defs[i])}}
  IN  after

Outcome(how, defs, old) == After(how, defs, old)[Len(defs)]

Init == table = {} /\ running = FALSE /\ mode = "in" /\ text = <<>> /\ answer = {}

Call ==
  /\ ~running /\ running' = TRUE
  /\ mode' \in (IF table = {} THEN {"in"} ELSE {"in", "add", "del", "upd"})
  /\ UNCHANGED <<table, answer>>

(* The caller of a call that succeeded may store its result or drop it.     *)
Return ==
  /\ running /\ running' = FALSE
  /\ answer' = Outcome(mode, text, table)
  /\ table' \in {table} \cup ({answer'} \ {{}})
  /\ UNCHANGED <<mode, text>>

Spec == Init /\ [][Call \/ Return]_mapVars
=============================================================================
