----------------------------- MODULE DictSession -----------------------------
(***************************************************************************)
(* A dictionary in a row of a table, used by the statements of one session *)
(* while other backends read it.                                           *)
(*                                                                         *)
(* PG_GETARG_DICTIONARY (pgbdd/pg_config.h) hands a function the datum as  *)
(* it lies in the page, relocated there, unless it had to be detoasted.    *)
(* What a function then does to its argument it does to the row: it shows  *)
(* as long as the vectors keep to the room they have in the datum.  A      *)
(* vector that outgrows it goes on in memory of its own, which the end of  *)
(* the call frees, but its size stays in the datum.                        *)
(*                                                                         *)
(* modify_dictionary is taken from DictCall, definition by definition.     *)
(* Transactions, row versions, pages and toasting are Postgres's, as far   *)
(* as the functions rely on them.                                          *)
(***************************************************************************)
EXTENDS DictCall

CONSTANTS
  Rows,           \* the datum the row may hold at the start
  InlineRoom,     \* the largest room of a datum that is not toasted
  Broken          \* what reads as no dictionary: sizes beyond the room

VARIABLES
  committed,  \* the committed version of the row: a datum
  written,    \* the version the open transaction has written, or NoDict
  open,       \* whether a transaction is open
  arg,        \* the version the running call works on
  keep,       \* whether the statement stores its result (UPDATE) or shows it
  ref         \* a dictionary_ref: records [memory, dict, made], or NoDict

rowVars == <<committed, written, open, arg, keep, ref>>
vars == <<rowVars, callVars>>

(* A datum: the dictionary it reads as, the one it was made of, and the     *)
(* capacities its two vectors have in it.                                   *)
Datum(d, varRoom, valRoom) ==
  [dict |-> d, stored |-> d, varRoom |-> varRoom, valRoom |-> valRoom]

(* Toasting copies a datum.  (So does the unpacking of a short header, but  *)
(* a dictionary is bigger than the 126 bytes up to which there is one.)     *)
Inline(v) == v.varRoom + v.valRoom <= InlineRoom

(* The version a statement of the session sees. *)
Own == IF written = NoDict THEN "committed" ELSE "written"
Version(which) == IF which = "committed" THEN committed ELSE written

(* Slip: the argument is the datum even where it was toasted. *)
WorksInPlaceAlways(v) == TRUE

(* PG_DETOAST_DATUM returns its argument itself. *)
WorksInPlace(v) == Inline(v)

(* relocate: a datum reads as d if d's vectors lie in it. *)
Reads(v, d) == IF Len(d.vars) <= v.varRoom /\ Len(d.vals) <= v.valRoom THEN d ELSE Broken

InPlace == pc # "idle" /\ WorksInPlace(Version(arg))
Visible(which) ==
  IF InPlace /\ arg = which THEN Reads(Version(which), dict) ELSE Version(which).dict

(* The row versions once the running call is over and leaves d in its       *)
(* argument.                                                                *)
Left(which, d) ==
  IF which = arg /\ WorksInPlace(Version(arg))
  THEN [Version(which) EXCEPT !.dict = Reads(Version(which), d)] ELSE Version(which)

-----------------------------------------------------------------------------
(* Slip: the vector of values is not looked at. *)
IsSerializedVars(v, d) == Len(d.vars) <= v.varRoom

(* bdd_dictionary_is_serialized: neither vector had to leave the datum. *)
IsSerialized(v, d) == Len(d.vars) <= v.varRoom /\ Len(d.vals) <= v.valRoom

(* bdd_dictionary_serialize, for the dictionary d worked out on v, and the  *)
(* reorganization of dictionary_prepare2store: what is in the datum is      *)
(* copied as it is, or both vectors are with their capacities.              *)
Serialized(v, d) ==
  LET s == Prepare2Store(d)
  IN  IF IsSerialized(v, d)
      THEN [Datum(s, v.varRoom, v.valRoom) EXCEPT !.dict = IF Reads(v, d) = Broken THEN Broken ELSE s]
      ELSE Datum(s, Grown(v.varRoom, Len(d.vars)), Grown(v.valRoom, Len(d.vals)))

-----------------------------------------------------------------------------
Data == [dict: DictOver(Probabilities) \cup {Broken}, stored: DictOver(Probabilities),
         varRoom: Nat \ {0}, valRoom: Nat \ {0}]

ASSUME BrokenAssumption == Broken \notin DictOver(Probabilities) \cup Data
ASSUME NoDictAssumption == NoDict \notin Data

(* What the row holds at the start was stored by an earlier session.        *)
ASSUME RowsAssumption ==
  \A v \in Rows :
    /\ v = Datum(v.stored, v.varRoom, v.valRoom)
    /\ v.varRoom \in Nat \ {0} /\ v.valRoom \in Nat \ {0}
    /\ Legal(v.stored) /\ IsSerialized(v, v.stored)

Init ==
  /\ committed \in Rows /\ written = NoDict
  /\ open = FALSE
  /\ arg = "committed" /\ keep = FALSE
  /\ ref = NoDict
  /\ dict = EmptyDict /\ mode = "add" /\ text = <<>> /\ at = 0 /\ varp = 0
  /\ pc = "idle" /\ answer = NoDict /\ calls = 0

Idle == open /\ pc = "idle"
Readable == Version(Own).dict # Broken

Begin ==
  /\ ~open
  /\ open' = TRUE
  /\ UNCHANGED <<committed, written, arg, keep, ref, callVars>>

(* The memory of the transaction goes with it, a dictionary_ref that was    *)
(* stored does not.                                                         *)
Ended == /\ open' = FALSE /\ written' = NoDict
         /\ ref' = IF ref = NoDict THEN NoDict ELSE [ref EXCEPT !.memory = "freed"]
         /\ arg' = "committed" /\ keep' = FALSE

Commit ==
  /\ Idle
  /\ committed' = Version(Own)
  /\ Ended
  /\ UNCHANGED callVars

Rollback ==
  /\ Idle
  /\ Ended
  /\ UNCHANGED <<committed, callVars>>

(* dictionary_modify: the call starts, on the version the statement sees.   *)
Modify ==
  /\ Idle /\ Readable /\ calls < MaxCalls
  /\ arg' = Own /\ keep' \in BOOLEAN
  /\ mode' \in {"add", "del", "upd"} /\ text' \in Texts
  /\ dict' = Version(Own).dict /\ at' = 0 /\ varp' = 0
  /\ pc' = "modify" /\ calls' = calls + 1
  /\ UNCHANGED <<committed, written, open, ref, answer>>

Define == Definition /\ UNCHANGED rowVars

(* The variables of a call end with it. *)
CallOver ==
  /\ dict' = EmptyDict /\ mode' = "add" /\ text' = <<>> /\ at' = 0 /\ varp' = 0
  /\ pc' = "idle"
  /\ UNCHANGED calls

(* ereport(ERROR): the transaction is rolled back, the argument stays as    *)
(* the call left it.                                                        *)
Fail ==
  /\ pc = "failed"
  /\ committed' = Left("committed", dict)
  /\ Ended
  /\ answer' = NoDict
  /\ CallOver

(* The result is a datum of its own; the argument is left sorted, and what  *)
(* grew out of it freed.                                                    *)
Return ==
  /\ pc = "modified"
  /\ answer' = Serialized(Version(arg), dict)
  /\ committed' = Left("committed", Sort(dict))
  /\ written' = IF keep THEN answer'
                ELSE IF written = NoDict THEN NoDict ELSE Left("written", Sort(dict))
  /\ arg' = "committed" /\ keep' = FALSE
  /\ CallOver
  /\ UNCHANGED <<open, ref>>

(* dictionary_merge sorts its arguments; what it makes of them is left to   *)
(* DictMerge.                                                               *)
Merge ==
  /\ Idle /\ Readable /\ WorksInPlace(Version(Own))
  /\ LET sorted == [Version(Own) EXCEPT !.dict = Sort(@)]
     IN  IF Own = "committed" THEN committed' = sorted /\ UNCHANGED written
         ELSE written' = sorted /\ UNCHANGED committed
  /\ UNCHANGED <<open, arg, keep, ref, callVars>>

(* Slip: the ref is made of the argument itself. *)
RefTo(which) == [memory |-> which, dict |-> Version(which).dict, made |-> Version(which).dict]

(* dictionary_ref_create copies its argument into memory that lives as long *)
(* as the transaction.                                                      *)
RefOf(which) == [memory |-> "transaction", dict |-> Version(which).dict, made |-> Version(which).dict]

MakeRef ==
  /\ Idle /\ Readable
  /\ ref' = RefOf(Own)
  /\ UNCHANGED <<committed, written, open, arg, keep, callVars>>

(* get_dict_from_ref: the magic number is the ref's own and says nothing    *)
(* about the memory it points to.                                           *)
DictOfRef ==
  CASE ref.memory = "transaction" -> ref.dict
    [] ref.memory = "freed"       -> Broken
    [] OTHER                      -> Visible(ref.memory)

(* prob with a dictionary_ref, in the transaction that made it or a later   *)
(* one.                                                                     *)
UseRef ==
  /\ Idle /\ ref # NoDict
  /\ answer' = DictOfRef
  /\ UNCHANGED <<rowVars, dict, mode, text, at, varp, pc, calls>>

(* Another backend reads the row while a call has outgrown it: relocating   *)
(* the datum makes the vectors of the call point back into it.  What the    *)
(* call does from there on is undefined.                                    *)
Clobbered ==
  /\ InPlace /\ arg = "committed" /\ Visible("committed") = Broken
  /\ pc' = "undefined"
  /\ committed' = [committed EXCEPT !.dict = Broken]
  /\ UNCHANGED <<written, open, arg, keep, ref, dict, mode, text, at, varp, answer, calls>>

(* The page was not marked as changed: it may be read from disk again.      *)
Reload ==
  /\ pc = "idle" /\ committed.dict # committed.stored
  /\ committed' = [committed EXCEPT !.dict = committed.stored]
  /\ UNCHANGED <<written, open, arg, keep, ref, callVars>>

Next ==
  \/ Begin \/ Commit \/ Rollback
  \/ Modify \/ Define \/ Fail \/ Return
  \/ Merge
  \/ MakeRef \/ UseRef
  \/ Clobbered \/ Reload

Spec == Init /\ [][Next]_vars

-----------------------------------------------------------------------------
Versions == {committed, written} \ {NoDict}

IsDatum(v) ==
  /\ v.dict = Broken \/ IsDict(v.dict)
  /\ IsDict(v.stored) /\ v.varRoom \in Nat \ {0} /\ v.valRoom \in Nat \ {0}

TypeOK ==
  /\ \A v \in Versions : IsDatum(v)
  /\ open \in BOOLEAN /\ keep \in BOOLEAN
  /\ arg \in {"committed", "written"} /\ (arg = "written" /\ pc # "idle" => written # NoDict)
  /\ ref = NoDict \/ ref.memory \in (IF open THEN {"transaction", "freed"} ELSE {"freed"})
  /\ ~open => written = NoDict /\ pc = "idle"
  /\ IsDict(dict) /\ at \in 0 .. Len(text) /\ varp \in 0 .. Len(dict.vars)
  /\ pc \in {"idle", "modify", "failed", "modified", "undefined"}

(* What dictionary_modify returns lies in itself, whether it was copied out *)
(* of its argument or packed anew: it reads as it was made, until a later   *)
(* call works in it (bdd_dictionary_serialize, prepare2store).              *)
ResultsReadable ==
  /\ \A v \in Versions : Reads(v, v.stored) = v.stored
  /\ pc = "idle" /\ written # NoDict /\ written = answer => written.dict = written.stored

(* A call that fails half-way, or one whose result is dropped, leaves a row *)
(* that is still a dictionary, every variable found with its own values,    *)
(* or one that reads as none because a vector outgrew it in an addition.    *)
LeftoversWellFormed ==
  \A v \in Versions :
    \/ v.dict = Broken /\ WorksInPlace(v)
    \/ /\ v.dict # Broken
       /\ \A i \in DOMAIN v.dict.vars :
            /\ VarIndex(v.dict, v.dict.vars[i].name) = i
            /\ v.dict.vars[i].card > 0 /\ Segment(v.dict.vars[i]) \subseteq DOMAIN v.dict.vals
            /\ \A k \in DOMAIN v.dict.vars : i # k =>
                 Segment(v.dict.vars[i]) \cap Segment(v.dict.vars[k]) = {}

(* Until its transaction ends, a dictionary_ref reads as the dictionary it  *)
(* was made of, whatever is done to the row (dictionary_ref_create).        *)
RefIsSnapshot ==
  ref # NoDict /\ ref.memory # "freed" =>
    DictOfRef # Broken /\ Contents(DictOfRef) = Contents(ref.made)

ContentsOf(d) == IF d = Broken THEN Broken ELSE Contents(d)

(* Only a commit, a modification that works in place, or its being lost    *)
(* with the page, changes what the committed version reads as: merging,     *)
(* making and using references, reading a toasted dictionary and rolling    *)
(* back never do.  Every other backend reads the version at any of these    *)
(* steps.                                                                   *)
OnlyModifyChanges ==
  [][ContentsOf(Visible("committed")') # ContentsOf(Visible("committed")) =>
       \/ Inline(committed) /\ pc = "modify" /\ arg = "committed"
       \/ committed' \in {written, [committed EXCEPT !.dict = committed.stored]}
       \/ pc' = "undefined"]_vars

(* dictionary_modify "returns new dictionary" (pg_dictionary.c): between    *)
(* calls, the rows it was given read as they were stored.                   *)
ArgumentKept ==
  pc = "idle" =>
    \A which \in {"committed", Own} :
      ContentsOf(Visible(which)) = Contents(Version(which).stored)
=============================================================================
