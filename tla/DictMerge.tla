------------------------------ MODULE DictMerge ------------------------------
(***************************************************************************)
(* merge_dictionary (pgbdd/dictionary.c), behind SQL's merge, the operator *)
(* + and the aggregate sum: a loop over the sorted variables of two        *)
(* dictionaries.  Each iteration is a step, which copies one variable, or  *)
(* a pair of the same name, by add2merged.                                 *)
(*                                                                         *)
(* V_dict_val_getp ends the process when an index is out of range; and a   *)
(* vector whose capacity is zero does not grow, so that an addition to it  *)
(* writes behind its memory.  Both are ends of the model here.             *)
(***************************************************************************)
EXTENDS DictValue

CONSTANT Dicts       \* the dictionaries that may be merged

(* No name is there twice, var_sorted tells the truth, every variable has   *)
(* its values, and these were normalized: so a call of modify_dictionary    *)
(* leaves a dictionary, and so does a merge.  (A call refused half-way may  *)
(* leave another total in a dictionary it worked on in its place.)          *)
ASSUME DictsAssumption ==
  \A d \in Dicts :
    /\ d \in DictOver(Probabilities)
    /\ NamesDiffer(d.vars) /\ (d.sorted => IncreasingNames(d.vars))
    /\ Inside(d)
    /\ \A i \in DOMAIN d.vars : Total(d, d.vars[i]) \in {One, NaN}

VARIABLES
  ld, rd,     \* the arguments
  md,         \* the dictionary being made
  capacity,   \* md->values->capacity
  lvar_i,     \* the variables of ld and rd that are done
  rvar_i,
  phase       \* "start", "merge", "done", "error", "fatal" or "overrun"

vars == <<ld, rd, md, capacity, lvar_i, rvar_i, phase>>

lvars == Len(ld.vars)
rvars == Len(rd.vars)
lvar == ld.vars[lvar_i + 1]
rvar == rd.vars[rvar_i + 1]

Init ==
  /\ ld \in Dicts /\ rd \in Dicts
  /\ md = EmptyDict /\ capacity = 4             \* VECTOR_INIT_CAPACITY
  /\ lvar_i = 0 /\ rvar_i = 0
  /\ phase = "start"

(* Slip: the size of the wrong vector. *)
RoomOfVars(d) == Len(d.vars) - d.deleted

(* lvals, rvals: the values d seems to have.  After a reorganization        *)
(* val_deleted still counts the values that are gone, so that this may be   *)
(* too little, nothing, or less than nothing.                               *)
Room(d) == Len(d.vals) - d.deleted

(* The part before the loop.  A negative capacity is refused by palloc.     *)
Start ==
  /\ phase = "start"
  /\ ld' = Sort(ld) /\ rd' = Sort(rd)
  /\ capacity' = Room(ld) + Room(rd)
  /\ phase' = IF capacity' < 0 THEN "error" ELSE "merge"
  /\ UNCHANGED <<md, lvar_i, rvar_i>>

(* V_dict_val_add until there are size values. *)
CapacityFor(size) == Grown(capacity, size)

SegmentOf(v, values) == SubSeq(values, v.offset + 1, v.offset + v.card)

(* Slip: a variable is copied without its last value. *)
CopiedShort(src, values) ==
  LET base == AddVariable(md, src.name)
      short == [src EXCEPT !.card = IF @ > 1 THEN @ - 1 ELSE @]
  IN  [base EXCEPT !.vals = @ \o SegmentOf(short, values),
                   !.vars[Len(base.vars)].card = short.card]

(* The first loop of add2merged: src's segment of values is copied. *)
Copied(src, values) ==
  LET base == AddVariable(md, src.name)
  IN  [base EXCEPT !.vals = @ \o SegmentOf(src, values), !.vars[Len(base.vars)].card = src.card]

(* One iteration of its second loop, for the value x of the other segment:  *)
(* a new one is added, one that is there must have the same probability.    *)
MergeValue(acc, x) ==
  LET last == Len(acc.d.vars)
      j == ValIndex(acc.d, acc.d.vars[last], x.value)
      added == [acc.d EXCEPT !.vals = Append(@, x), !.vars[last].card = @ + 1]
  IN  IF acc.conflict THEN acc
      ELSE IF j # 0 THEN [d |-> acc.d, conflict |-> (acc.d.vals[j].prob # x.prob)]
      ELSE [d |-> added, conflict |-> FALSE]

(* Both loops. *)
Joined(src, values, merge_v) ==
  LET other == SubSeq(merge_v, src.offset + 1, Min({src.offset + src.card, Len(merge_v)}))
      after[k \in 0 .. Len(other)] ==
        IF k = 0 THEN [d |-> Copied(src, values), conflict |-> FALSE]
        ELSE MergeValue(after[k - 1], other[k])
  IN  after[Len(other)]

(* add2merged: src, with its values and those that merge_v has at src's     *)
(* offsets, becomes a variable of md.  Reading outside a vector is fatal,   *)
(* adding to a vector of capacity zero an overrun.                          *)
Add2Merged(src, values, merge_v) ==
  LET acc == Joined(src, values, merge_v)
      outcome == IF src.offset + 1 \notin DOMAIN values THEN "fatal"
                 ELSE IF capacity = 0 THEN "overrun"
                 ELSE IF ~ Segment(src) \subseteq DOMAIN values THEN "fatal"
                 ELSE IF acc.conflict THEN "error"
                 ELSE IF merge_v # <<>> /\ ~ Segment(src) \subseteq DOMAIN merge_v THEN "fatal"
                 ELSE "merge"
  IN  /\ phase' = outcome
      /\ IF outcome = "merge"
         THEN /\ md' = Normalize(acc.d, Len(acc.d.vars))
              /\ capacity' = CapacityFor(Len(acc.d.vals))
         ELSE UNCHANGED <<md, capacity>>

Merging == phase = "merge"

(* No left variables are left: the right one's values are taken from ld.    *)
RightRest ==
  /\ Merging /\ lvar_i = lvars /\ rvar_i < rvars
  /\ Add2Merged(rvar, ld.vals, <<>>)
  /\ rvar_i' = rvar_i + 1
  /\ UNCHANGED <<ld, rd, lvar_i>>

LeftRest ==
  /\ Merging /\ rvar_i = rvars /\ lvar_i < lvars
  /\ Add2Merged(lvar, ld.vals, <<>>)
  /\ lvar_i' = lvar_i + 1
  /\ UNCHANGED <<ld, rd, rvar_i>>

Both == Merging /\ lvar_i < lvars /\ rvar_i < rvars

LeftFirst ==
  /\ Both /\ lvar.name < rvar.name
  /\ Add2Merged(lvar, ld.vals, <<>>)
  /\ lvar_i' = lvar_i + 1
  /\ UNCHANGED <<ld, rd, rvar_i>>

(* Slip: the comparison is forgotten, the right variable goes first. *)
RightFirstAlways ==
  /\ Both /\ lvar.name # rvar.name
  /\ Add2Merged(rvar, rd.vals, <<>>)
  /\ rvar_i' = rvar_i + 1
  /\ UNCHANGED <<ld, rd, lvar_i>>

RightFirst ==
  /\ Both /\ lvar.name > rvar.name
  /\ Add2Merged(rvar, rd.vals, <<>>)
  /\ rvar_i' = rvar_i + 1
  /\ UNCHANGED <<ld, rd, lvar_i>>

(* A variable of both: the segment of the LEFT variable is looked up in the *)
(* values of the right dictionary.                                          *)
SameName ==
  /\ Both /\ lvar.name = rvar.name
  /\ Add2Merged(lvar, ld.vals, rd.vals)
  /\ lvar_i' = lvar_i + 1 /\ rvar_i' = rvar_i + 1
  /\ UNCHANGED <<ld, rd>>

Finish ==
  /\ Merging /\ lvar_i = lvars /\ rvar_i = rvars
  /\ md' = [md EXCEPT !.sorted = TRUE]
  /\ phase' = "done"
  /\ UNCHANGED <<ld, rd, capacity, lvar_i, rvar_i>>

Next ==
  \/ Start
  \/ RightRest
  \/ LeftRest
  \/ LeftFirst
  \/ RightFirst
  \/ SameName
  \/ Finish

Spec == Init /\ [][Next]_vars

-----------------------------------------------------------------------------
Names(d) == {d.vars[i].name : i \in DOMAIN d.vars}

(* The loop stays inside both vectors of variables, and every variable of   *)
(* the result has its values.                                               *)
TypeOK ==
  /\ lvar_i \in 0 .. lvars /\ rvar_i \in 0 .. rvars
  /\ \A i \in DOMAIN md.vars : Segment(md.vars[i]) \subseteq DOMAIN md.vals
  /\ phase \in {"start", "merge", "done", "error", "fatal", "overrun"}

(* val_deleted tells the truth. *)
Exact(d) == d.deleted = Cardinality(Holes(d))

(* The memory of the result's values.  They stay inside it as long as the   *)
(* loop goes on; and the capacity, which merge_dictionary takes from        *)
(* val_deleted, is one that palloc refuses, or zero with a value to come,   *)
(* which overruns, only if one of the dictionaries counts values as deleted *)
(* that are no holes, as dictionary_prepare2store leaves it.                *)
MemorySuffices ==
  /\ phase \in {"merge", "done"} => Len(md.vals) <= capacity
  /\ Exact(ld) /\ Exact(rd) => capacity >= 0 /\ phase # "overrun"

(* The loop yields every variable of both dictionaries once, in the order   *)
(* binary search needs: setting var_sorted at its end is no lie.            *)
VariablesMerged ==
  phase = "done" =>
    /\ Names(md) = Names(ld) \cup Names(rd)
    /\ \A i \in DOMAIN md.vars : VarIndex(md, md.vars[i].name) = i

(* A variable of one dictionary only keeps its distribution, if it is of    *)
(* the left one or the left one has a later variable.                       *)
OwnVariablesKept ==
  phase = "done" =>
    /\ \A name \in Names(ld) \ Names(rd) : Contents(md)[name] = Contents(ld)[name]
    /\ \A name \in Names(rd) \ Names(ld) :
         (\E later \in Names(ld) : name < later) => Contents(md)[name] = Contents(rd)[name]

(* Merging makes one dictionary of two: every value of every variable of    *)
(* the right dictionary is in the result.                                   *)
RightKept ==
  phase = "done" =>
    \A name \in Names(rd) :
      name \in Names(md) /\ DOMAIN Contents(rd)[name] \subseteq DOMAIN Contents(md)[name]
=============================================================================
