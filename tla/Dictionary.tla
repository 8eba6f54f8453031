------------------------------ MODULE Dictionary -----------------------------
(***************************************************************************)
(* A dictionary over its life in the database: dictionary_in makes it,     *)
(* dictionary_modify (SQL add, del, upd) makes a new one of it, and both   *)
(* pack the result with dictionary_prepare2store (pgbdd/dictionary.c and   *)
(* pg_dictionary.c).  The dictionary a call works on is its own copy of    *)
(* the stored one.                                                         *)
(***************************************************************************)
EXTENDS DictCall

VARIABLE table      \* the dictionary stored in the database

vars == <<table, callVars>>

ASSUME NoDictAssumption == NoDict \notin DictOver(Probabilities)

Init ==
  /\ table = NoDict /\ dict = EmptyDict /\ answer = NoDict
  /\ mode = "in" /\ text = <<>> /\ at = 0 /\ varp = 0
  /\ pc = "idle" /\ calls = 0

(* dictionary_in or dictionary_modify up to the call of modify_dictionary.  *)
Call ==
  /\ pc = "idle" /\ calls < MaxCalls
  /\ mode' \in (IF table = NoDict THEN {"in"} ELSE {"in", "add", "del", "upd"})
  /\ text' \in Texts
  /\ dict' = IF mode' = "in" THEN EmptyDict ELSE table
  /\ at' = 0 /\ varp' = 0
  /\ pc' = "modify"
  /\ calls' = calls + 1
  /\ UNCHANGED <<table, answer>>

(* modify_dictionary, definition by definition. *)
Modify == Definition /\ UNCHANGED table

(* ereport(ERROR): nothing is returned. *)
Abort ==
  /\ pc = "failed"
  /\ answer' = NoDict
  /\ pc' = "idle"
  /\ UNCHANGED <<table, dict, mode, text, at, varp, calls>>

(* The result is returned; the statement may store it or only show it.      *)
Return ==
  /\ pc = "modified"
  /\ answer' = Prepare2Store(dict)
  /\ table' \in {table, answer'}
  /\ pc' = "idle"
  /\ UNCHANGED <<dict, mode, text, at, varp, calls>>

Next ==
  \/ Call
  \/ Modify
  \/ Abort
  \/ Return

Spec == Init /\ [][Next]_vars

-----------------------------------------------------------------------------
(* Every dictionary is one and varp points into the working one. *)
TypeOK ==
  /\ table = NoDict \/ IsDict(table)
  /\ answer = NoDict \/ IsDict(answer)
  /\ IsDict(dict)
  /\ mode \in {"in", "add", "del", "upd"}
  /\ text \in Texts \cup {<<>>} /\ at \in 0 .. Len(text)
  /\ varp \in 0 .. Len(dict.vars)
  /\ pc \in {"idle", "modify", "failed", "modified"}
  /\ calls \in 0 .. MaxCalls

(* After any sequence of calls, and between two definitions of one, every   *)
(* variable has values, they lie inside the vector, and no two variables    *)
(* share any: moving, shifting and reorganizing segments never makes one    *)
(* variable read the values of another (modify_dictionary, prepare2store).  *)
SegmentsApart ==
  \A d \in {dict, answer} \ {NoDict} :
    /\ \A i \in DOMAIN d.vars : d.vars[i].card > 0 /\ Segment(d.vars[i]) \subseteq DOMAIN d.vals
    /\ \A i, k \in DOMAIN d.vars : i # k => Segment(d.vars[i]) \cap Segment(d.vars[k]) = {}

(* The search lookup_var_index chooses finds every variable where it is, so *)
(* no variable exists twice and var_sorted is never set on an unsorted      *)
(* vector; and no variable has a value twice.                               *)
LookupsFind ==
  \A d \in {dict, answer} \ {NoDict} : \A i \in DOMAIN d.vars :
    /\ VarIndex(d, d.vars[i].name) = i
    /\ \A j \in Segment(d.vars[i]) : ValIndex(d, d.vars[i], d.vals[j].value) = j

(* A dictionary that is given to the database has no more dead values than  *)
(* the limit, however many calls it has been through: it does not grow by   *)
(* the holes additions and deletions leave in it, since val_deleted never   *)
(* says less than there are (modify_dictionary, prepare2store).             *)
HolesBounded ==
  /\ Cardinality(Holes(dict)) <= dict.deleted
  /\ answer # NoDict => Cardinality(Holes(answer)) <= MaxValDeleted

-----------------------------------------------------------------------------
AsMap(d) == IF d = NoDict THEN {} ELSE {Contents(d)}

Map == INSTANCE DictMap WITH
         table <- AsMap(table), answer <- AsMap(answer), running <- pc # "idle"

(* Whatever happens to offsets, holes and the order of the vectors, a       *)
(* dictionary is a map of distributions, and a call changes it as a whole   *)
(* or fails.                                                                *)
ImplementsDictMap == Map!Spec
=============================================================================
