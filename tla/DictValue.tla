------------------------------ MODULE DictValue ------------------------------
(***************************************************************************)
(* A probability dictionary (pgbdd/dictionary.c) as a value, and what the  *)
(* functions of dictionary.c compute from it.                              *)
(*                                                                         *)
(* A dictionary is two vectors: the variables, each owning a segment of    *)
(* the second, and the values with their probabilities.  Values are only   *)
(* appended: a segment that must grow and is not the last is copied behind *)
(* all others, and what it leaves is a hole, which val_deleted counts.     *)
(* Names are numbers in the order of strcmp.  Vectors are one-based here,  *)
(* so that an offset is the number of values before the segment.           *)
(***************************************************************************)
EXTENDS Fraction, Sequences, SequencesExt

Variable == [name: Nat, offset: Nat, card: Nat]

(* The dictionaries whose probabilities are in P. *)
DictOver(P) == [vars: Seq(Variable), vals: Seq([value: Nat, prob: P]), deleted: Nat, sorted: BOOLEAN]

EmptyDict == [vars |-> <<>>, vals |-> <<>>, deleted |-> 0, sorted |-> FALSE]

Segment(v) == v.offset + 1 .. v.offset + v.card
Owned(d) == UNION {Segment(d.vars[i]) : i \in DOMAIN d.vars}
Holes(d) == DOMAIN d.vals \ Owned(d)

NamesDiffer(vs) == \A i, k \in DOMAIN vs : i # k => vs[i].name # vs[k].name
IncreasingNames(vs) == \A i, k \in DOMAIN vs : i < k => vs[i].name < vs[k].name

Inside(d) == \A i \in DOMAIN d.vars : d.vars[i].offset + d.vars[i].card <= Len(d.vals)

Before(v, w) == v.offset + v.card <= w.offset

Apart(d) ==
  \A i, k \in DOMAIN d.vars : i # k => Before(d.vars[i], d.vars[k]) \/ Before(d.vars[k], d.vars[i])

ValuesDiffer(d) ==
  \A i \in DOMAIN d.vars : \A j, k \in Segment(d.vars[i]) : j # k => d.vals[j].value # d.vals[k].value

HolesCounted(d) == Cardinality(Holes(d)) <= d.deleted

(* What all operations keep: every variable has a segment of its own with   *)
(* different values in it, var_sorted tells the truth and val_deleted is    *)
(* not below the number of holes.                                           *)
Layout(d) ==
  /\ NamesDiffer(d.vars)
  /\ d.sorted => IncreasingNames(d.vars)
  /\ Inside(d)
  /\ Apart(d)
  /\ ValuesDiffer(d)
  /\ HolesCounted(d)

Legal(d) ==
  /\ d \in DictOver(Probabilities)
  /\ Layout(d)
  /\ \A i \in 1 .. Len(d.vars) : d.vars[i].card > 0

-----------------------------------------------------------------------------
(* V_dict_var_bsearch; 0 when there is no such variable. *)
Bsearch(vars, name) ==
  LET search[lr \in (1 .. Len(vars) + 1) \X (0 .. Len(vars))] ==
        LET l == lr[1]
            r == lr[2]
            mid == l + (r - l) \div 2
        IN  IF r < l THEN 0
            ELSE IF vars[mid].name = name THEN mid
            ELSE IF vars[mid].name > name THEN search[<<l, mid - 1>>]
            ELSE search[<<mid + 1, r>>]
  IN  search[<<1, Len(vars)>>]

(* lookup_var_index: the search depends on var_sorted. *)
VarIndex(d, name) ==
  IF d.sorted THEN Bsearch(d.vars, name)
  ELSE SelectInSeq(d.vars, LAMBDA v : v.name = name)

(* get_var_value_index; 0 when the variable has no such value. *)
ValIndex(d, v, val) ==
  SelectInSubSeq(d.vals, v.offset + 1, v.offset + v.card, LAMBDA x : x.value = val)

(* lookup_probability of every variable and value, as a map of maps.        *)
Contents(d) ==
  [name \in {d.vars[i].name : i \in DOMAIN d.vars} |->
     LET v == d.vars[VarIndex(d, name)]
     IN  [val \in {d.vals[j].value : j \in Segment(v)} |-> d.vals[ValIndex(d, v, val)].prob]]

-----------------------------------------------------------------------------
(* Slip: var_sorted stays as it was. *)
AddVariableSorted(d, name) ==
  [d EXCEPT !.vars = Append(@, [name |-> name, offset |-> Len(d.vals), card |-> 0])]

(* add_variable: the new one is last, whatever its name. *)
AddVariable(d, name) ==
  [d EXCEPT !.vars = Append(@, [name |-> name, offset |-> Len(d.vals), card |-> 0]),
            !.sorted = FALSE]

(* Slip: the segment is left where it is. *)
MoveNothing(d, i) == d

(* The values of variable i become the last ones of the dictionary. *)
MoveToTail(d, i) ==
  LET v == d.vars[i]
  IN  IF v.offset + v.card = Len(d.vals) THEN d
      ELSE [d EXCEPT !.vals = @ \o SubSeq(@, v.offset + 1, v.offset + v.card),
                     !.vars[i].offset = Len(d.vals),
                     !.deleted = @ + v.card]

(* The code of modify_dictionary for a value that is not there yet. *)
AddValue(d, i, val, prob) ==
  LET m == MoveToTail(d, i)
  IN  [m EXCEPT !.vals = Append(@, [value |-> val, prob |-> prob]), !.vars[i].card = @ + 1]

(* Slip: what follows the value in its segment does not move up. *)
DropValueInPlace(d, i, j) == [d EXCEPT !.vars[i].card = @ - 1, !.deleted = @ + 1]

(* Slip: the place left over is not counted. *)
DropValueUncounted(d, i, j) ==
  LET v == d.vars[i]
  IN  [d EXCEPT !.vals = [k \in DOMAIN @ |->
                            IF k \in j .. v.offset + v.card - 1 THEN @[k + 1] ELSE @[k]],
                !.vars[i].card = @ - 1]

(* The code for one value to be deleted, when others remain: those behind   *)
(* it move up, the last place of the segment becomes a hole.                *)
DropValue(d, i, j) ==
  LET v == d.vars[i]
  IN  [d EXCEPT !.vals = [k \in DOMAIN @ |->
                            IF k \in j .. v.offset + v.card - 1 THEN @[k + 1] ELSE @[k]],
                !.vars[i].card = @ - 1,
                !.deleted = @ + 1]

(* del_variable, after the values of the variable were counted as deleted.  *)
DropVariable(d, i) ==
  [d EXCEPT !.deleted = @ + d.vars[i].card, !.vars = RemoveAt(@, i)]

SetProb(d, j, prob) == [d EXCEPT !.vals[j].prob = prob]

(* The first loop of normalize_var. *)
Total(d, v) ==
  LET sum[k \in 0 .. v.card] ==
        IF k = 0 THEN <<0, 1>> ELSE Plus(sum[k - 1], d.vals[v.offset + k].prob)
  IN  sum[v.card]

(* normalize_var.  The code leaves a total within 0.0001 of 1 alone.        *)
Normalize(d, i) ==
  LET v == d.vars[i]
      total == Total(d, v)
  IN  IF total \in {One, NaN} THEN d
      ELSE [d EXCEPT !.vals = [j \in DOMAIN d.vals |->
                                 IF j \in Segment(v)
                                 THEN [d.vals[j] EXCEPT !.prob = DividedBy(d.vals[j].prob, total)]
                                 ELSE d.vals[j]]]

-----------------------------------------------------------------------------
Swapped(vars, i, j) == [vars EXCEPT ![i] = vars[j], ![j] = vars[i]]

(* Where the index i of V_dict_var_do_quicksort stops: at the first variable *)
(* behind the pivot, or at the last.                                        *)
Up(v, first, last, i) ==
  CHOOSE k \in i .. last :
    /\ k = last \/ v[k].name > v[first].name
    /\ \A m \in i .. k - 1 : v[m].name <= v[first].name

(* Where j stops: at the last one that is not behind the pivot. *)
Down(v, first, j) ==
  CHOOSE k \in first .. j :
    /\ v[k].name <= v[first].name
    /\ \A m \in k + 1 .. j : v[m].name > v[first].name

(* The outer loop of V_dict_var_do_quicksort on first .. last, with the     *)
(* first variable as the pivot: i moves up, j down, and they exchange,      *)
(* until they meet; the pivot goes where j stands.                          *)
Partitioned(vars, first, last) ==
  LET round[s \in [DOMAIN vars -> ToSet(vars)] \X (first .. last) \X (first .. last)] ==
        LET up == Up(s[1], first, last, s[2])
            down == Down(s[1], first, s[3])
        IN  IF up < down THEN round[<<Swapped(s[1], up, down), up, down>>]
            ELSE [vars |-> Swapped(s[1], first, down), at |-> down]
  IN  round[<<vars, first, last>>]

Quicksort(vars, first, last) ==
  LET sort[s \in [DOMAIN vars -> ToSet(vars)] \X (first .. last + 1) \X (first - 1 .. last)] ==
        IF s[2] >= s[3] THEN s[1]
        ELSE LET p == Partitioned(s[1], s[2], s[3])
             IN  sort[<<sort[<<p.vars, s[2], p.at - 1>>], p.at + 1, s[3]>>]
  IN  sort[<<vars, first, last>>]

(* bdd_dictionary_sort. *)
Sort(d) ==
  IF d.sorted THEN d
  ELSE [d EXCEPT !.vars = Quicksort(@, 1, Len(@)), !.sorted = TRUE]

(* The loop of dictionary_prepare2store: the segments are laid out again    *)
(* without holes, in the order of the variables.  val_deleted keeps its     *)
(* value.                                                                   *)
Reorganize(d) ==
  LET packed[i \in 0 .. Len(d.vars)] ==
        IF i = 0 THEN <<>>
        ELSE packed[i - 1]
             \o SubSeq(d.vals, d.vars[i].offset + 1, d.vars[i].offset + d.vars[i].card)
  IN  [d EXCEPT !.vals = packed[Len(d.vars)],
                !.vars = [i \in DOMAIN d.vars |-> [@[i] EXCEPT !.offset = Len(packed[i - 1])]]]

(* V_resize when a vector is full: its capacity doubles (in steps of at     *)
(* most VECTOR_MAX_INCREASE, which no small instance reaches).              *)
Grown(capacity, size) ==
  LET grow[c \in Nat \ {0}] == IF c >= size THEN c ELSE grow[2 * c] IN grow[capacity]
=============================================================================
