------------------------------ MODULE DictCall -------------------------------
(***************************************************************************)
(* One call of modify_dictionary (pgbdd/dictionary.c): it works through    *)
(* its text one definition at a time; each is a step here.  A definition   *)
(* is a record: the variable's name, the value (Wildcard for *, NoValue    *)
(* where the text is malformed) and the probability.  Where the dictionary *)
(* it works on comes from and what becomes of it are the matter of         *)
(* Dictionary and of DictSession.                                          *)
(***************************************************************************)
EXTENDS DictValue

CONSTANTS
  Texts,          \* the texts a call may be given: sequences of definitions
  MaxValDeleted,  \* MAX_VAL_DELETED
  MaxCalls,       \* bound: the number of calls
  Wildcard,       \* VALUE_WILDCARD
  NoValue,        \* scan_val when no value was read
  NoDict          \* no dictionary

VARIABLES
  dict,       \* the dictionary modify_dictionary works on
  mode,       \* "in" (dictionary_in), "add", "del" or "upd"
  text,       \* the definitions
  at,         \* how many of them are done
  varp,       \* the index of the variable being modified, or 0 for NULL
  pc,
  answer,     \* the value the last call returned
  calls

callVars == <<dict, mode, text, at, varp, pc, answer, calls>>

ASSUME BoundsAssumption == MaxValDeleted \in Nat /\ MaxCalls \in Nat

(* VALUE_WILDCARD and the -1 of scan_val are no values.                     *)
ASSUME MarkersAssumption == Wildcard \notin Nat /\ NoValue \notin Nat \cup {Wildcard}

(* What the scanner reads: a name, a value or none, a probability.          *)
ASSUME TextsAssumption ==
  Texts \subseteq Seq([name: Nat, val: {Wildcard, NoValue} \cup Nat,
                      prob: {p \in Nat \X Nat : p[2] > 0}])

Adds == mode \in {"in", "add"}
def == text[at + 1]

(* The scanner refuses a malformed definition, and a wildcard other than in *)
(* a deletion.                                                              *)
Malformed == def.val = NoValue \/ (def.val = Wildcard /\ mode # "del")

(* The dictionary once the variable before, if another, is normalized. *)
Switched ==
  IF varp # 0 /\ dict.vars[varp].name # def.name THEN Normalize(dict, varp) ELSE dict

(* The variable of the definition: varp kept from the definition before, or *)
(* looked up.                                                               *)
Found ==
  IF varp # 0 /\ dict.vars[varp].name = def.name THEN varp ELSE VarIndex(Switched, def.name)

Present == Found # 0 /\ ValIndex(Switched, Switched.vars[Found], def.val) # 0
FoundVal == ValIndex(Switched, Switched.vars[Found], def.val)

Defining == pc = "modify" /\ at < Len(text) /\ ~Malformed

Done ==
  /\ at' = at + 1
  /\ UNCHANGED <<mode, text, pc, answer, calls>>

(* A definition is refused: the call ends where it is.                      *)
Refuse ==
  /\ pc = "modify" /\ at < Len(text)
  /\ \/ Malformed
     \/ Adds /\ Present
     \/ mode = "upd" /\ ~Present
     \/ mode = "del" /\ (Found = 0 \/ (def.val # Wildcard /\ ~Present))
  /\ dict' = IF Malformed THEN dict ELSE Switched
  /\ pc' = "failed"
  /\ UNCHANGED <<mode, text, at, varp, answer, calls>>

(* DICT_ADD of a value the variable does not have, the variable itself      *)
(* being added if need be.                                                  *)
Add ==
  /\ Defining /\ Adds /\ ~Present
  /\ LET base == IF Found # 0 THEN Switched ELSE AddVariable(Switched, def.name)
         i == IF Found # 0 THEN Found ELSE Len(base.vars)
     IN  dict' = AddValue(base, i, def.val, def.prob) /\ varp' = i
  /\ Done

(* DICT_UPD of a value the variable has. *)
Update ==
  /\ Defining /\ mode = "upd" /\ Present
  /\ dict' = SetProb(Switched, FoundVal, def.prob)
  /\ varp' = Found
  /\ Done

(* DICT_DEL of one value when others remain. *)
DeleteValue ==
  /\ Defining /\ mode = "del" /\ def.val # Wildcard /\ Present
  /\ Switched.vars[Found].card > 1
  /\ dict' = DropValue(Switched, Found, FoundVal)
  /\ varp' = Found
  /\ Done

(* Slip: varp stays, and now points to the next variable. *)
DeleteVariableKeepsVarp ==
  /\ Defining /\ mode = "del" /\ Found # 0
  /\ def.val = Wildcard \/ (Present /\ Switched.vars[Found].card = 1)
  /\ dict' = DropVariable(Switched, VarIndex(Switched, def.name))
  /\ varp' = Found
  /\ Done

(* DICT_DEL of the whole variable, by wildcard or with its last value.      *)
DeleteVariable ==
  /\ Defining /\ mode = "del" /\ Found # 0
  /\ def.val = Wildcard \/ (Present /\ Switched.vars[Found].card = 1)
  /\ dict' = DropVariable(Switched, VarIndex(Switched, def.name))
  /\ varp' = 0
  /\ Done

(* modify_dictionary behind the last definition. *)
EndText ==
  /\ pc = "modify" /\ at = Len(text)
  /\ dict' = IF varp # 0 THEN Normalize(dict, varp) ELSE dict
  /\ pc' = "modified"
  /\ UNCHANGED <<mode, text, at, varp, answer, calls>>

(* A step of the call. *)
Definition ==
  \/ Refuse
  \/ Add
  \/ Update
  \/ DeleteValue
  \/ DeleteVariable
  \/ EndText

(* dictionary_prepare2store. *)
Prepare2Store(d) ==
  LET s == Sort(d) IN IF s.deleted > MaxValDeleted THEN Reorganize(s) ELSE s

-----------------------------------------------------------------------------
IsDict(d) ==
  /\ d.vars \in Seq(Variable)
  /\ \A j \in DOMAIN d.vals : d.vals[j].value \in Nat /\ d.vals[j].prob \in Nat \X Nat
  /\ d.deleted \in Nat /\ d.sorted \in BOOLEAN
=============================================================================
