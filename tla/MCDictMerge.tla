----------------------------- MODULE MCDictMerge -----------------------------
(***************************************************************************)
(* Any two of these dictionaries: those of at most three variables with    *)
(* one or two values each, in an order of insertion that is not that of    *)
(* the names; some with a hole, as few as a limit of one leaves; and those *)
(* that were reorganized at two and still count the values they lost,      *)
(* which may be more than they have.                                       *)
(***************************************************************************)
EXTENDS DictMerge

Added(d, name, val, prob) ==
  LET base == IF VarIndex(d, name) = 0 THEN AddVariable(d, name) ELSE d
      i == VarIndex(base, name)
  IN  Normalize(AddValue(base, i, val, prob), i)

(* The variable name with the values vals, all equally probable. *)
With(d, name, vals) ==
  FoldLeft(LAMBDA e, val : Added(e, name, val, <<1, 1>>), d, vals)

Choices3 == {<<>>, <<1>>, <<2, 1>>}
Plain == {With(With(With(EmptyDict, 3, a), 1, b), 2, c) : a \in Choices3, b \in Choices3, c \in Choices3}

(* A value is deleted. *)
Lost(d, name, val) ==
  LET i == VarIndex(d, name) IN Normalize(DropValue(d, i, ValIndex(d, d.vars[i], val)), i)

(* A variable that has lost a value, or that was moved to add one. *)
Holed == {Lost(d, 1, 2) : d \in {e \in Plain : 1 \in Names(e) /\ e.vars[VarIndex(e, 1)].card = 2}}
         \cup {Added(d, 1, 3, <<1, 1>>) : d \in {e \in Plain : 1 \in Names(e)}}

(* One that lost two values of variable 1, or the whole variable of three.  *)
Shrunk == UNION { LET e == With(d, 1, <<1, 2, 3>>)
                  IN  {Lost(Lost(e, 1, 2), 1, 3), DropVariable(e, VarIndex(e, 1))} :
                    d \in {d \in Plain : 1 \notin Names(d)} }

Stored(d) == IF d.deleted > 1 THEN Reorganize(Sort(d)) ELSE Sort(d)

MCDicts == {Stored(d) : d \in Plain \cup Holed \cup Shrunk}
=============================================================================
