------------------------------ MODULE MCRvaScan ------------------------------
(***************************************************************************)
(* The texts: every sequence of at most three characters; the sequences of *)
(* at most five lexemes over constants, operators and two rvas, and of six *)
(* that start with a parenthesis, a constant or a negation; and texts for  *)
(* the ways names, blanks, values and signs may meet.                      *)
(***************************************************************************)
EXTENDS RvaScan

Chars == UNION {[1 .. n -> Range(Ascii)] : n \in 0 .. 3}

Lexemes == {<<l>> : l \in Token \ {"1", "E"}} \cup {<<"x", "=", "1">>}
Plain == {<<l>> : l \in Token \ {"E"}}

Cat(ss) == FoldSeq(LAMBDA s, acc : s \o acc, <<>>, ss)

Expressions ==
  UNION {[1 .. n -> Plain] : n \in 4 .. 5}
  \cup {<<a>> \o s : a \in {<<"(">>, <<"0">>, <<"!">>}, s \in [1 .. 5 -> Plain]}
  \cup UNION {[1 .. n -> Lexemes] : n \in 2 .. 5}

(* Occurrences of rvas that share names, values or their beginnings.        *)
Rv == {<<"x", "=", "0">>, <<"x", "=", "1">>, <<"x", "x", "=", "1">>, <<"y", "=", " ", "0">>,
       <<"x", "1", "=", "1", "1">>, <<" ", "x", "&", "=", "0">>}
Triples(S) == {a \o <<"&">> \o b \o <<"|">> \o d : a \in S, b \in S, d \in S}
Chained == Triples(Rv)

(* Values whose difference is too big, and so many of them that one is not *)
(* found again.                                                             *)
Wide == {<<"x", "=", "0">>, <<"x", "=", "1", "1">>, <<"x", "=", "7", "0">>}
Circle == <<"x", "=", "0", "&", "x", "=", "1", "1", "&", "x", "=", "7", "7", "&", "x", "=", "7", "0",
            "&", "x", "=", "1", "1">>
Long == {<<"!">> \o s : s \in Chained} \cup {s \o <<"&", "x", "=", "1">> : s \in Chained}

(* Signs without a name, names without a sign, values that are too big for  *)
(* an int, and one that is for a long.                                      *)
Odd == {a \o b : a \in Rv \cup {<<"=">>, <<"y">>, <<"x", "x", "x", "=", "1">>},
               b \in {<<"=">>, <<"=", "1">>, <<" ", "7">>, <<"7">>, <<"&", "x", "=", "7">>,
                      <<"&", "x", "=", "1", "7">>, <<"|", "?">>, <<"&", "y">>,
                      <<"&", "x", "=", "1", "7", "7">>}}

MCTexts == Chars \cup {Cat(s) : s \in Expressions} \cup Chained \cup Long \cup Odd
           \cup Triples(Wide) \cup {Circle}
=============================================================================
