----------------------------- MODULE MCDictionary ----------------------------
(***************************************************************************)
(* Dictionary with three variables: texts of at most two definitions (one  *)
(* that is refused half-way among them), three calls, and a limit on the   *)
(* holes that those reach.  Variable 1 can have two values of unequal      *)
(* probability, 2 two values, 3 only one, of probability zero.             *)
(***************************************************************************)
EXTENDS Dictionary

def2(name, val, prob) == [name |-> name, val |-> val, prob |-> prob]

Defs == {def2(1, 1, <<1, 2>>), def2(1, 2, <<1, 1>>), def2(2, 1, <<1, 1>>),
         def2(2, 2, <<1, 1>>), def2(3, 1, <<0, 1>>)}
        \cup {def2(name, Wildcard, <<1, 1>>) : name \in {1, 2}}

MCTexts == {<<d>> : d \in Defs} \cup {<<d, e>> : d \in Defs, e \in Defs}
           \cup {<<def2(2, 1, <<1, 1>>), def2(1, NoValue, <<1, 1>>)>>}

(* V_dict_var_quicksort sorts and keeps what it sorts, equal names included. *)
ASSUME QuicksortSorts ==
  \A n \in 0 .. 5 : \A names \in [1 .. n -> 1 .. 4] :
    LET named == [p \in 1 .. n |-> [name |-> names[p], was |-> p]]
        sorted == Quicksort(named, 1, n)
    IN  /\ \A p \in 1 .. n - 1 : sorted[p].name <= sorted[p + 1].name
        /\ ToSet(sorted) = ToSet(named)
=============================================================================
