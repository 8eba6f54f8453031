---------------------------- MODULE MCDictSession ----------------------------
(***************************************************************************)
(* A row with two variables: with room for one or two more values and      *)
(* variables, or for none, or toasted; statements of at most two           *)
(* definitions, some refused half-way.  Capacities are those that doubling *)
(* gives from 2 on (VECTOR_INIT_CAPACITY is 4), so that small dictionaries *)
(* outgrow them.                                                           *)
(***************************************************************************)
EXTENDS DictSession

definition(name, val, prob) == [name |-> name, val |-> val, prob |-> prob]

One2 == [vars |-> <<[name |-> 1, offset |-> 0, card |-> 2], [name |-> 3, offset |-> 2, card |-> 1]>>,
         vals |-> <<[value |-> 1, prob |-> <<1, 2>>], [value |-> 2, prob |-> <<1, 2>>],
                    [value |-> 1, prob |-> One]>>,
         deleted |-> 0, sorted |-> TRUE]

MCRows == {Datum(One2, varRoom, valRoom) : varRoom \in {2, 4}, valRoom \in {4, 8}}

Defs == {definition(1, 3, One), definition(2, 1, One), definition(2, 2, <<1, 2>>),
         definition(1, 1, One), definition(3, 1, One),
         definition(1, NoValue, One), definition(3, Wildcard, One)}

MCTexts == {<<d>> : d \in Defs}
  \cup {<<d, e>> : d \in Defs, e \in {definition(1, 3, One), definition(2, 1, One), definition(1, NoValue, One)}}
=============================================================================
