-------------------------- MODULE DictSessionProofs ---------------------------
(***************************************************************************)
(* What calls that work in the row itself leave there (DictSession).       *)
(*                                                                         *)
(* A call may be refused half-way, its result may be dropped, it may       *)
(* outgrow the datum it works in: the datum stays a legal dictionary that  *)
(* lies within its room, or reads as none.  The second happens in place    *)
(* only, and what was stored fits its room at any time.                    *)
(***************************************************************************)
EXTENDS DictSession, DictValueProofs

GoodDatum(v) ==
  /\ v \in Data
  /\ Legal(v.stored) /\ IsSerialized(v, v.stored)
  /\ \/ v.dict = Broken /\ WorksInPlace(v)
     \/ Legal(v.dict) /\ IsSerialized(v, v.dict)

Refs == [memory: {"transaction", "freed"},
         dict: DictOver(Probabilities), made: DictOver(Probabilities)]

SessionInv ==
  /\ GoodDatum(committed)
  /\ written = NoDict \/ GoodDatum(written)
  /\ CallInv
  /\ open \in BOOLEAN /\ keep \in BOOLEAN
  /\ arg \in {"committed", "written"} /\ (arg = "written" /\ pc # "idle" => written # NoDict)
  /\ \/ ref = NoDict
     \/ ref \in Refs /\ ref.dict = ref.made /\ (~open => ref.memory = "freed")
  /\ answer \in Data => answer.dict = answer.stored
  /\ ~open => written = NoDict /\ pc = "idle"
  /\ pc \in {"idle", "modify", "failed", "modified", "undefined"}

-----------------------------------------------------------------------------
LEMMA SortedIs ==
  ASSUME NEW d, Legal(d), NEW e, e = Sort(d)
  PROVE  /\ Legal(e) /\ Len(e.vars) = Len(d.vars) /\ Len(e.vals) = Len(d.vals)
         /\ Contents(e) = Contents(d)
<1>1. d \in DictOver(Probabilities) /\ Layout(d) /\ \A k \in 1 .. Len(d.vars) : d.vars[k].card > 0
  BY DEF Legal
<1>2. e \in DictOver(Probabilities) /\ Layout(e) /\ VariablesFrom(d, e)
  BY <1>1, SortKeeps
<1>3. Len(e.vars) = Len(d.vars) /\ e.vals = d.vals
  BY <1>1, SortIs DEF Layout
<1>4. Contents(e) = Contents(d)
  BY <1>1, SortContents
<1>5. Legal(e)
  BY <1>1, <1>2 DEF Legal, VariablesFrom
<1>6. QED
  BY <1>3, <1>4, <1>5

(* What is packed for storage fits where it was. *)
LEMMA PreparedFits ==
  ASSUME NEW d, Legal(d), NEW e, e = Prepare2Store(d)
  PROVE  Legal(e) /\ Len(e.vars) = Len(d.vars) /\ Len(e.vals) <= Len(d.vals)
<1>1. PICK s : s = Sort(d)
  OBVIOUS
<1>2. Legal(s) /\ Len(s.vars) = Len(d.vars) /\ Len(s.vals) = Len(d.vals)
  BY <1>1, SortedIs
<1>3. s \in DictOver(Probabilities) /\ Layout(s) /\ Len(s.vals) \in Nat
  BY <1>2, DictFields DEF Legal
<1>4. Legal(e)
  BY PreparedIsStored DEF Stored
<1>5. CASE s.deleted > MaxValDeleted
  <2>1. e = Reorganize(s)
    BY <1>1, <1>5 DEF Prepare2Store
  <2>2. Len(e.vars) = Len(s.vars)
    BY <1>3, <2>1, ReorganizeKeeps
  <2>3. Len(e.vals) <= Len(s.vals)
    BY <1>3, <2>1, ReorganizeShortens
  <2>4. QED
    BY <1>2, <1>4, <2>2, <2>3
<1>6. CASE ~(s.deleted > MaxValDeleted)
  <2>1. e = s
    BY <1>1, <1>6 DEF Prepare2Store
  <2>2. QED
    BY <1>2, <1>3, <1>4, <2>1
<1>7. QED
  BY <1>5, <1>6

LEMMA DatumFields ==
  ASSUME NEW v, v \in Data
  PROVE  /\ v = [dict |-> v.dict, stored |-> v.stored, varRoom |-> v.varRoom, valRoom |-> v.valRoom]
         /\ v.dict \in DictOver(Probabilities) \cup {Broken} /\ v.stored \in DictOver(Probabilities)
         /\ v.varRoom \in Nat \ {0} /\ v.valRoom \in Nat \ {0}
BY DEF Data

LEMMA DictIsNoDatum ==
  ASSUME NEW d, d \in DictOver(Probabilities)
  PROVE  d \notin Data
<1>1. d = [vars |-> d.vars, vals |-> d.vals, deleted |-> d.deleted, sorted |-> d.sorted]
  BY DEF DictOver
<1>2. DOMAIN d = {"vars", "vals", "deleted", "sorted"}
  BY <1>1
<1>3. ASSUME d \in Data PROVE FALSE
  <2>1. d = [dict |-> d.dict, stored |-> d.stored, varRoom |-> d.varRoom, valRoom |-> d.valRoom]
    BY <1>3, DatumFields
  <2>2. DOMAIN d = {"dict", "stored", "varRoom", "valRoom"}
    BY <2>1
  <2>3. QED
    BY <1>2, <2>2
<1>4. QED
  BY <1>3

(* A datum of its own, for a dictionary that has room in it. *)
LEMMA MadeIsGood ==
  ASSUME NEW d, Legal(d), NEW a, a \in Nat \ {0}, NEW b, b \in Nat \ {0},
         Len(d.vars) <= a, Len(d.vals) <= b, NEW v, v = Datum(d, a, b)
  PROVE  GoodDatum(v) /\ v.dict = v.stored
<1>1. v = [dict |-> d, stored |-> d, varRoom |-> a, valRoom |-> b]
  BY DEF Datum
<1>2. v.dict = d /\ v.stored = d /\ v.varRoom = a /\ v.valRoom = b
  BY <1>1
<1>3. v \in Data
  BY <1>1 DEF Data, Legal
<1>4. QED
  BY <1>2, <1>3 DEF GoodDatum, IsSerialized

(* What a call leaves in the datum it works in. *)
LEMMA ReadIsGood ==
  ASSUME NEW v, GoodDatum(v), WorksInPlace(v), NEW d, Legal(d),
         NEW w, w = [v EXCEPT !.dict = Reads(v, d)]
  PROVE  GoodDatum(w) /\ w.dict = Reads(v, d)
<1>1. PICK r : r = Reads(v, d)
  OBVIOUS
<1>2. v \in Data /\ d \in DictOver(Probabilities)
  BY DEF GoodDatum, Legal
<1>3. w = [dict |-> r, stored |-> v.stored, varRoom |-> v.varRoom, valRoom |-> v.valRoom]
  <2>1. v = [dict |-> v.dict, stored |-> v.stored, varRoom |-> v.varRoom, valRoom |-> v.valRoom]
    BY <1>2, DatumFields
  <2>2. QED
    BY <1>1, <2>1
<1>4. w.dict = r /\ w.stored = v.stored /\ w.varRoom = v.varRoom /\ w.valRoom = v.valRoom
  BY <1>3
<1>5. r = Broken \/ (r = d /\ IsSerialized(v, d))
  BY <1>1 DEF Reads, IsSerialized
<1>6. w \in Data
  BY <1>2, <1>3, <1>5, DatumFields DEF Data
<1>7. WorksInPlace(w)
  BY <1>4 DEF WorksInPlace, Inline
<1>8. Legal(w.stored) /\ IsSerialized(w, w.stored)
  BY <1>4 DEF GoodDatum, IsSerialized
<1>9. w.dict = Broken \/ (Legal(w.dict) /\ IsSerialized(w, w.dict))
  BY <1>4, <1>5 DEF IsSerialized
<1>10. QED
  BY <1>1, <1>4, <1>6, <1>7, <1>8, <1>9 DEF GoodDatum

LEMMA BrokenIsNone ==
  /\ \A d : Legal(d) => d # Broken
  /\ \A v : GoodDatum(v) /\ v.dict # Broken => Legal(v.dict) /\ IsSerialized(v, v.dict)
BY BrokenAssumption DEF Legal, GoodDatum

(* The result of a call, in the room of its argument or in one of its own.  *)
LEMMA SerializedIsGood ==
  ASSUME NEW v, GoodDatum(v), NEW d, Legal(d), NEW w, w = Serialized(v, d)
  PROVE  GoodDatum(w) /\ w.dict = w.stored
<1>1. PICK s : s = Prepare2Store(d)
  OBVIOUS
<1>2. Legal(s) /\ Len(s.vars) = Len(d.vars) /\ Len(s.vals) <= Len(d.vals)
  BY <1>1, PreparedFits
<1>3. Len(d.vars) \in Nat /\ Len(d.vals) \in Nat /\ Len(s.vars) \in Nat /\ Len(s.vals) \in Nat
  BY <1>2, DictFields DEF Legal
<1>4. v.varRoom \in Nat \ {0} /\ v.valRoom \in Nat \ {0}
  BY DatumFields DEF GoodDatum
<1>5. CASE IsSerialized(v, d)
  <2>1. Reads(v, d) # Broken
    BY <1>5, BrokenIsNone DEF IsSerialized, Reads
  <2>2. w = [Datum(s, v.varRoom, v.valRoom) EXCEPT !.dict = s]
    BY <1>1, <1>5, <2>1 DEF Serialized
  <2>3. w = Datum(s, v.varRoom, v.valRoom)
    BY <2>2 DEF Datum
  <2>4. PICK a \in Nat \ {0}, b \in Nat \ {0} : a = v.varRoom /\ b = v.valRoom
    BY <1>4
  <2>5. Len(s.vars) <= a /\ Len(s.vals) <= b
    BY <1>2, <1>3, <1>5, <2>4 DEF IsSerialized
  <2>6. QED
    BY <1>2, <2>3, <2>4, <2>5, MadeIsGood
<1>6. CASE ~IsSerialized(v, d)
  <2>1. PICK a, b : a = Grown(v.varRoom, Len(d.vars)) /\ b = Grown(v.valRoom, Len(d.vals))
    OBVIOUS
  <2>2. a \in Nat \ {0} /\ a >= Len(d.vars) /\ b \in Nat \ {0} /\ b >= Len(d.vals)
    BY <1>3, <1>4, <2>1, GrownSuffices
  <2>3. w = Datum(s, a, b)
    BY <1>1, <1>6, <2>1 DEF Serialized
  <2>4. Len(s.vars) <= a /\ Len(s.vals) <= b
    BY <1>2, <1>3, <2>2
  <2>5. QED
    BY <1>2, <2>2, <2>3, <2>4, MadeIsGood
<1>7. QED
  BY <1>5, <1>6

-----------------------------------------------------------------------------
(* The versions a statement and a running call work on. *)
LEMMA VersionsAreGood ==
  ASSUME SessionInv
  PROVE  /\ GoodDatum(Version(Own))
         /\ pc # "idle" => GoodDatum(Version(arg))
         /\ Own \in {"committed", "written"} /\ (Own = "written" => written # NoDict)
BY DEF SessionInv, Version, Own

LEMMA LeftIsGood ==
  ASSUME SessionInv, pc # "idle", NEW d, Legal(d), NEW which,
         which = "committed" \/ (which = "written" /\ written # NoDict)
  PROVE  GoodDatum(Left(which, d))
<1>1. PICK v : v = Version(which)
  OBVIOUS
<1>2. GoodDatum(v)
  BY <1>1 DEF SessionInv, Version
<1>3. CASE which = arg /\ WorksInPlace(Version(arg))
  <2>1. PICK w : w = [v EXCEPT !.dict = Reads(v, d)]
    OBVIOUS
  <2>2. Left(which, d) = w /\ WorksInPlace(v)
    BY <1>1, <1>3, <2>1 DEF Left
  <2>3. QED
    BY <1>2, <2>1, <2>2, ReadIsGood
<1>4. CASE ~(which = arg /\ WorksInPlace(Version(arg)))
  BY <1>1, <1>2, <1>4 DEF Left
<1>5. QED
  BY <1>3, <1>4

LEMMA CallEnds ==
  ASSUME CallOver
  PROVE  CallInv' /\ pc' = "idle"
<1>1. /\ dict' = EmptyDict /\ mode' = "add" /\ text' = <<>> /\ at' = 0 /\ varp' = 0 /\ pc' = "idle"
  BY DEF CallOver
<1>2. Legal(dict') /\ Len(dict'.vars) = 0
  BY <1>1, EmptyIsLegal
<1>3. Len(text') = 0
  BY <1>1
<1>4. QED
  BY <1>1, <1>2, <1>3 DEF CallInv

(* The end of a transaction: what was written is gone, or committed.        *)
LEMMA EndKeeps ==
  ASSUME SessionInv, Ended, GoodDatum(committed'), CallInv', pc' = "idle",
         answer' \in Data => answer'.dict = answer'.stored
  PROVE  SessionInv'
<1>1. /\ open' = FALSE /\ written' = NoDict /\ arg' = "committed" /\ keep' = FALSE
      /\ ref' = IF ref = NoDict THEN NoDict ELSE [ref EXCEPT !.memory = "freed"]
  BY DEF Ended
<1>2. ref' = NoDict \/ (ref' \in Refs /\ ref'.dict = ref'.made /\ ref'.memory = "freed")
  <2>1. CASE ref = NoDict
    BY <1>1, <2>1
  <2>2. CASE ref # NoDict
    <3>1. ref \in Refs /\ ref.dict = ref.made
      BY <2>2 DEF SessionInv
    <3>2. ref' = [memory |-> "freed", dict |-> ref.dict, made |-> ref.made]
      BY <1>1, <2>2, <3>1 DEF Refs
    <3>3. QED
      BY <3>1, <3>2 DEF Refs
  <2>3. QED
    BY <2>1, <2>2
<1>3. QED
  BY <1>1, <1>2 DEF SessionInv

(* The datum stays one through every statement, whether it ends or not      *)
(* (dictionary_modify, dictionary_merge, dictionary_ref_create).            *)
THEOREM SessionInvariant == Spec => []SessionInv
<1>1. Init => SessionInv
  <2>1. SUFFICES ASSUME Init PROVE SessionInv
    OBVIOUS
  <2>2. committed \in Rows
    BY <2>1 DEF Init
  <2>3. GoodDatum(committed)
    <3>1. PICK v, d, a, b : v = committed /\ d = v.stored /\ a = v.varRoom /\ b = v.valRoom
      OBVIOUS
    <3>2. /\ v = Datum(d, a, b) /\ a \in Nat \ {0} /\ b \in Nat \ {0}
          /\ Legal(d) /\ Len(d.vars) <= a /\ Len(d.vals) <= b
      BY <2>2, <3>1, RowsAssumption DEF IsSerialized
    <3>3. QED
      BY <3>1, <3>2, MadeIsGood
  <2>4. CallInv
    <3>1. text = <<>> /\ Len(text) = 0
      BY <2>1 DEF Init
    <3>2. QED
      BY <2>1, <3>1, EmptyIsLegal DEF Init, CallInv
  <2>5. answer \in Data => answer.dict = answer.stored
    BY <2>1, NoDictAssumption DEF Init
  <2>6. QED
    BY <2>1, <2>3, <2>4, <2>5 DEF Init, SessionInv
<1>2. SessionInv /\ [Next]_vars => SessionInv'
  <2>1. SUFFICES ASSUME SessionInv, [Next]_vars PROVE SessionInv'
    OBVIOUS
  <2>2. CASE Begin
    <3>1. /\ open' = TRUE /\ ~open
          /\ committed' = committed /\ written' = written /\ arg' = arg /\ keep' = keep /\ ref' = ref
          /\ dict' = dict /\ mode' = mode /\ text' = text /\ at' = at /\ varp' = varp /\ pc' = pc
          /\ answer' = answer
      BY <2>2 DEF Begin, callVars
    <3>2. CallInv'
      BY <2>1, <3>1 DEF SessionInv, CallInv
    <3>3. GoodDatum(committed') /\ (written' = NoDict \/ GoodDatum(written'))
      BY <2>1, <3>1 DEF SessionInv
    <3>4. QED
      BY <2>1, <3>1, <3>2, <3>3 DEF SessionInv
  <2>3. CASE Commit \/ Rollback
    <3>1. /\ committed' = Version(Own) \/ committed' = committed
          /\ Ended /\ pc = "idle"
          /\ dict' = dict /\ mode' = mode /\ text' = text /\ at' = at /\ varp' = varp /\ pc' = pc
          /\ answer' = answer
      BY <2>3 DEF Commit, Rollback, Idle, callVars
    <3>2. CallInv'
      BY <2>1, <3>1 DEF SessionInv, CallInv
    <3>3. GoodDatum(committed')
      BY <2>1, <3>1, VersionsAreGood DEF SessionInv
    <3>4. answer' \in Data => answer'.dict = answer'.stored
      BY <2>1, <3>1 DEF SessionInv
    <3>5. pc' = "idle"
      BY <3>1
    <3>6. QED
      BY <2>1, <3>1, <3>2, <3>3, <3>4, <3>5, EndKeeps
  <2>4. CASE Modify
    <3>1. /\ open /\ arg' = Own /\ keep' \in BOOLEAN /\ Version(Own).dict # Broken
          /\ mode' \in {"add", "del", "upd"} /\ text' \in Texts
          /\ dict' = Version(Own).dict /\ at' = 0 /\ varp' = 0 /\ pc' = "modify"
          /\ committed' = committed /\ written' = written /\ open' = open /\ ref' = ref
          /\ answer' = answer
      BY <2>4 DEF Modify, Idle, Readable
    <3>2. Legal(dict')
      BY <2>1, <3>1, VersionsAreGood, BrokenIsNone
    <3>3. Len(dict'.vars) \in Nat /\ Len(text') \in Nat
      BY <3>1, <3>2, DictFields, TextsAssumption DEF Legal
    <3>4. CallInv'
      BY <3>1, <3>2, <3>3 DEF CallInv
    <3>5. arg' \in {"committed", "written"} /\ (arg' = "written" => written' # NoDict)
      BY <2>1, <3>1, VersionsAreGood
    <3>6. GoodDatum(committed') /\ (written' = NoDict \/ GoodDatum(written'))
      BY <2>1, <3>1 DEF SessionInv
    <3>7. QED
      BY <2>1, <3>1, <3>4, <3>5, <3>6 DEF SessionInv
  <2>5. CASE Define
    <3>1. /\ CallInv' /\ pc = "modify" /\ pc' \in {"modify", "failed", "modified"}
          /\ answer' = answer
          /\ committed' = committed /\ written' = written /\ open' = open /\ arg' = arg
          /\ keep' = keep /\ ref' = ref
      BY <2>1, <2>5, CallStep DEF Define, rowVars, SessionInv
    <3>2. GoodDatum(committed') /\ (written' = NoDict \/ GoodDatum(written'))
      BY <2>1, <3>1 DEF SessionInv
    <3>3. QED
      BY <2>1, <3>1, <3>2 DEF SessionInv
  <2>6. CASE Fail
    <3>1. /\ pc = "failed" /\ committed' = Left("committed", dict) /\ Ended /\ answer' = NoDict
          /\ CallOver
      BY <2>6 DEF Fail
    <3>2. Legal(dict)
      BY <2>1 DEF SessionInv, CallInv
    <3>3. GoodDatum(committed')
      BY <2>1, <3>1, <3>2, LeftIsGood
    <3>4. CallInv' /\ pc' = "idle"
      BY <3>1, CallEnds
    <3>5. QED
      BY <2>1, <3>1, <3>3, <3>4, EndKeeps, NoDictAssumption
  <2>7. CASE Return
    <3>1. PICK v, s : v = Version(arg) /\ s = Sort(dict)
      OBVIOUS
    <3>2. /\ pc = "modified" /\ answer' = Serialized(v, dict)
          /\ committed' = Left("committed", s)
          /\ written' = IF keep THEN answer'
                        ELSE IF written = NoDict THEN NoDict ELSE Left("written", s)
          /\ arg' = "committed" /\ keep' = FALSE /\ CallOver /\ open' = open /\ ref' = ref
      BY <2>7, <3>1 DEF Return
    <3>3. Legal(dict) /\ Legal(s)
      BY <2>1, <3>1, SortedIs DEF SessionInv, CallInv
    <3>4. GoodDatum(v)
      BY <2>1, <3>1, <3>2, VersionsAreGood
    <3>5. GoodDatum(answer') /\ answer'.dict = answer'.stored
      BY <3>2, <3>3, <3>4, SerializedIsGood
    <3>6. GoodDatum(committed')
      BY <2>1, <3>2, <3>3, LeftIsGood
    <3>7. written' = NoDict \/ GoodDatum(written')
      <4>1. CASE keep
        BY <3>2, <3>5, <4>1
      <4>2. CASE ~keep /\ written # NoDict
        <5>1. written' = Left("written", s)
          BY <3>2, <4>2
        <5>2. QED
          BY <2>1, <3>2, <3>3, <4>2, <5>1, LeftIsGood
      <4>3. CASE ~keep /\ written = NoDict
        BY <3>2, <4>3
      <4>4. QED
        BY <4>1, <4>2, <4>3
    <3>8. CallInv' /\ pc' = "idle"
      BY <3>2, CallEnds
    <3>9. open
      BY <2>1, <3>2 DEF SessionInv
    <3>10. QED
      BY <2>1, <3>2, <3>5, <3>6, <3>7, <3>8, <3>9 DEF SessionInv
  <2>8. CASE Merge
    <3>1. PICK v, s, w : /\ v = Version(Own) /\ s = Sort(v.dict)
                         /\ w = [v EXCEPT !.dict = s]
      OBVIOUS
    <3>2. /\ open /\ pc = "idle" /\ v.dict # Broken /\ WorksInPlace(v)
          /\ \/ Own = "committed" /\ committed' = w /\ written' = written
             \/ Own = "written" /\ written' = w /\ committed' = committed
          /\ open' = open /\ arg' = arg /\ keep' = keep /\ ref' = ref
          /\ dict' = dict /\ mode' = mode /\ text' = text /\ at' = at /\ varp' = varp /\ pc' = pc
          /\ answer' = answer
      BY <2>1, <2>8, <3>1, VersionsAreGood DEF Merge, Idle, Readable, callVars
    <3>3. GoodDatum(v)
      BY <2>1, <3>1, VersionsAreGood
    <3>4. Legal(v.dict) /\ IsSerialized(v, v.dict)
      BY <3>2, <3>3, BrokenIsNone
    <3>5. Legal(s) /\ Reads(v, s) = s
      BY <3>1, <3>4, SortedIs DEF IsSerialized, Reads
    <3>6. GoodDatum(w)
      BY <3>1, <3>2, <3>3, <3>5, ReadIsGood
    <3>7. GoodDatum(committed') /\ (written' = NoDict \/ GoodDatum(written'))
      BY <2>1, <3>2, <3>6 DEF SessionInv
    <3>8. CallInv'
      BY <2>1, <3>2 DEF SessionInv, CallInv
    <3>9. QED
      BY <2>1, <3>2, <3>7, <3>8 DEF SessionInv
  <2>9. CASE MakeRef
    <3>1. PICK v : v = Version(Own)
      OBVIOUS
    <3>2. /\ open /\ pc = "idle" /\ v.dict # Broken
          /\ ref' = [memory |-> "transaction", dict |-> v.dict, made |-> v.dict]
          /\ committed' = committed /\ written' = written /\ open' = open /\ arg' = arg /\ keep' = keep
          /\ dict' = dict /\ mode' = mode /\ text' = text /\ at' = at /\ varp' = varp /\ pc' = pc
          /\ answer' = answer
      BY <2>9, <3>1 DEF MakeRef, RefOf, Idle, Readable, callVars
    <3>3. v.dict \in DictOver(Probabilities)
      BY <2>1, <3>1, <3>2, VersionsAreGood, BrokenIsNone DEF Legal
    <3>4. ref' \in Refs /\ ref'.dict = ref'.made
      BY <3>2, <3>3 DEF Refs
    <3>5. GoodDatum(committed') /\ (written' = NoDict \/ GoodDatum(written'))
      BY <2>1, <3>2 DEF SessionInv
    <3>6. CallInv'
      BY <2>1, <3>2 DEF SessionInv, CallInv
    <3>7. QED
      BY <2>1, <3>2, <3>4, <3>5, <3>6 DEF SessionInv
  <2>10. CASE UseRef
    <3>1. /\ pc = "idle" /\ ref # NoDict /\ answer' = DictOfRef
          /\ committed' = committed /\ written' = written /\ open' = open /\ arg' = arg /\ keep' = keep
          /\ ref' = ref
          /\ dict' = dict /\ mode' = mode /\ text' = text /\ at' = at /\ varp' = varp /\ pc' = pc
      BY <2>10 DEF UseRef, Idle, rowVars
    <3>2. answer' = Broken \/ answer' \in DictOver(Probabilities)
      BY <2>1, <3>1 DEF SessionInv, Refs, DictOfRef
    <3>3. answer' \notin Data
      BY <3>2, BrokenAssumption, DictIsNoDatum
    <3>4. GoodDatum(committed') /\ (written' = NoDict \/ GoodDatum(written'))
      BY <2>1, <3>1 DEF SessionInv
    <3>5. CallInv'
      BY <2>1, <3>1 DEF SessionInv, CallInv
    <3>6. QED
      BY <2>1, <3>1, <3>3, <3>4, <3>5 DEF SessionInv
  <2>11. CASE Clobbered
    <3>1. PICK v, w : v = committed /\ w = [v EXCEPT !.dict = Broken]
      OBVIOUS
    <3>2. /\ InPlace /\ arg = "committed" /\ pc' = "undefined" /\ committed' = w
          /\ written' = written /\ open' = open /\ arg' = arg /\ keep' = keep /\ ref' = ref
          /\ dict' = dict /\ mode' = mode /\ text' = text /\ at' = at /\ varp' = varp
          /\ answer' = answer
      BY <2>11, <3>1 DEF Clobbered
    <3>3. pc # "idle" /\ WorksInPlace(v) /\ open
      BY <2>1, <3>1, <3>2 DEF InPlace, Version, SessionInv
    <3>4. GoodDatum(w)
      <4>1. GoodDatum(v) /\ v \in Data
        BY <2>1, <3>1 DEF SessionInv, GoodDatum
      <4>2. w = [dict |-> Broken, stored |-> v.stored, varRoom |-> v.varRoom, valRoom |-> v.valRoom]
        BY <3>1, <4>1 DEF Data
      <4>3. /\ w.dict = Broken /\ w.stored = v.stored
            /\ w.varRoom = v.varRoom /\ w.valRoom = v.valRoom
        BY <4>2
      <4>4. w \in Data
        BY <4>1, <4>2 DEF Data
      <4>5. QED
        BY <3>3, <4>1, <4>3, <4>4 DEF GoodDatum, IsSerialized, WorksInPlace, Inline
    <3>5. written' = NoDict \/ GoodDatum(written')
      BY <2>1, <3>2 DEF SessionInv
    <3>6. CallInv'
      BY <2>1, <3>2 DEF SessionInv, CallInv
    <3>7. QED
      BY <2>1, <3>2, <3>3, <3>4, <3>5, <3>6 DEF SessionInv
  <2>12. CASE Reload
    <3>1. PICK v, w : v = committed /\ w = [v EXCEPT !.dict = v.stored]
      OBVIOUS
    <3>2. /\ pc = "idle" /\ committed' = w
          /\ written' = written /\ open' = open /\ arg' = arg /\ keep' = keep /\ ref' = ref
          /\ dict' = dict /\ mode' = mode /\ text' = text /\ at' = at /\ varp' = varp /\ pc' = pc
          /\ answer' = answer
      BY <2>12, <3>1 DEF Reload, callVars
    <3>3. GoodDatum(w)
      <4>1. GoodDatum(v) /\ v \in Data
        BY <2>1, <3>1 DEF SessionInv, GoodDatum
      <4>2. w = Datum(v.stored, v.varRoom, v.valRoom)
        BY <3>1, <4>1 DEF Data, Datum
      <4>3. QED
        BY <4>1, <4>2, DatumFields, MadeIsGood DEF GoodDatum, IsSerialized
    <3>4. written' = NoDict \/ GoodDatum(written')
      BY <2>1, <3>2 DEF SessionInv
    <3>5. CallInv'
      BY <2>1, <3>2 DEF SessionInv, CallInv
    <3>6. QED
      BY <2>1, <3>2, <3>3, <3>4, <3>5 DEF SessionInv
  <2>13. CASE UNCHANGED vars
    <3>1. /\ committed' = committed /\ written' = written /\ open' = open /\ arg' = arg /\ keep' = keep
          /\ ref' = ref
          /\ dict' = dict /\ mode' = mode /\ text' = text /\ at' = at /\ varp' = varp /\ pc' = pc
          /\ answer' = answer
      BY <2>13 DEF vars, rowVars, callVars
    <3>2. CallInv'
      BY <2>1, <3>1 DEF SessionInv, CallInv
    <3>3. GoodDatum(committed') /\ (written' = NoDict \/ GoodDatum(written'))
      BY <2>1, <3>1 DEF SessionInv
    <3>4. QED
      BY <2>1, <3>1, <3>2, <3>3 DEF SessionInv
  <2>14. QED
    BY <2>1, <2>2, <2>3, <2>4, <2>5, <2>6, <2>7, <2>8, <2>9, <2>10, <2>11, <2>12, <2>13 DEF Next
<1>3. QED
  BY <1>1, <1>2, PTL DEF Spec

-----------------------------------------------------------------------------
LEMMA GoodIsDatum ==
  ASSUME NEW v, GoodDatum(v)
  PROVE  IsDatum(v)
BY LegalIsDict, DatumFields DEF GoodDatum, IsDatum

(* Datums, references and the call are what they should be, whatever calls  *)
(* leave behind (pg_dictionary.c).                                          *)
THEOREM SessionTyped == Spec => []TypeOK
<1>1. SessionInv => TypeOK
  <2>1. SUFFICES ASSUME SessionInv PROVE TypeOK
    OBVIOUS
  <2>2. \A v \in Versions : IsDatum(v)
    BY <2>1, GoodIsDatum DEF SessionInv, Versions
  <2>3. IsDict(dict) /\ at \in 0 .. Len(text) /\ varp \in 0 .. Len(dict.vars)
    BY <2>1, LegalIsDict DEF SessionInv, CallInv
  <2>4. ref = NoDict \/ ref.memory \in (IF open THEN {"transaction", "freed"} ELSE {"freed"})
    BY <2>1 DEF SessionInv, Refs
  <2>5. QED
    BY <2>1, <2>2, <2>3, <2>4 DEF SessionInv, TypeOK
<1>2. QED
  BY <1>1, SessionInvariant, PTL

(* The room a datum has is enough for what it was made of, as packed or as  *)
(* copied out of its argument (bdd_dictionary_serialize).                   *)
THEOREM SessionReadable == Spec => []ResultsReadable
<1>1. SessionInv => ResultsReadable
  <2>1. SUFFICES ASSUME SessionInv PROVE ResultsReadable
    OBVIOUS
  <2>2. \A v \in Versions : Reads(v, v.stored) = v.stored
    BY <2>1 DEF SessionInv, Versions, GoodDatum, IsSerialized, Reads
  <2>3. written # NoDict /\ written = answer => written.dict = written.stored
    BY <2>1 DEF SessionInv, GoodDatum
  <2>4. QED
    BY <2>2, <2>3 DEF ResultsReadable
<1>2. QED
  BY <1>1, SessionInvariant, PTL

(* A call that is refused half-way or whose result is dropped leaves a      *)
(* legal dictionary in the row, or none (modify_dictionary).                *)
THEOREM SessionLeavesLegal == Spec => []LeftoversWellFormed
<1>1. SessionInv => LeftoversWellFormed
  <2>1. SUFFICES ASSUME SessionInv, NEW v, GoodDatum(v)
                 PROVE  \/ v.dict = Broken /\ WorksInPlace(v)
                        \/ /\ v.dict # Broken
                           /\ \A i \in DOMAIN v.dict.vars :
                                /\ VarIndex(v.dict, v.dict.vars[i].name) = i
                                /\ v.dict.vars[i].card > 0
                                /\ Segment(v.dict.vars[i]) \subseteq DOMAIN v.dict.vals
                                /\ \A k \in DOMAIN v.dict.vars : i # k =>
                                     Segment(v.dict.vars[i]) \cap Segment(v.dict.vars[k]) = {}
    BY DEF SessionInv, Versions, LeftoversWellFormed
  <2>2. CASE v.dict = Broken
    BY <2>1, <2>2, BrokenIsNone DEF GoodDatum
  <2>3. CASE v.dict # Broken
    <3>1. PICK d : d = v.dict
      OBVIOUS
    <3>2. Legal(d)
      BY <2>1, <2>3, <3>1, BrokenIsNone
    <3>3. /\ \A i \in DOMAIN d.vars : d.vars[i].card > 0 /\ Segment(d.vars[i]) \subseteq DOMAIN d.vals
          /\ \A i, k \in DOMAIN d.vars : i # k => Segment(d.vars[i]) \cap Segment(d.vars[k]) = {}
      BY <3>2, LegalApart
    <3>4. \A i \in DOMAIN d.vars : VarIndex(d, d.vars[i].name) = i
      BY <3>2, LegalFinds
    <3>5. QED
      BY <2>3, <3>1, <3>3, <3>4
  <2>4. QED
    BY <2>2, <2>3
<1>2. QED
  BY <1>1, SessionInvariant, PTL

(* A dictionary_ref is a copy, so nothing done to the row shows in it       *)
(* before its transaction ends (dictionary_ref_create).                     *)
THEOREM SessionRefs == Spec => []RefIsSnapshot
<1>1. SessionInv => RefIsSnapshot
  <2>1. SUFFICES ASSUME SessionInv, ref # NoDict, ref.memory # "freed"
                 PROVE  DictOfRef # Broken /\ Contents(DictOfRef) = Contents(ref.made)
    BY DEF RefIsSnapshot
  <2>2. ref.memory = "transaction" /\ ref.dict = ref.made /\ ref.dict \in DictOver(Probabilities)
    BY <2>1 DEF SessionInv, Refs
  <2>3. DictOfRef = ref.dict
    BY <2>2 DEF DictOfRef
  <2>4. QED
    BY <2>2, <2>3, BrokenAssumption
<1>2. QED
  BY <1>1, SessionInvariant, PTL

-----------------------------------------------------------------------------
(* What others read of the committed version, before and after a step.      *)
LEMMA SeenAs ==
  /\ pc = "idle" \/ arg # "committed" \/ ~Inline(committed) => Visible("committed") = committed.dict
  /\ pc # "idle" /\ arg = "committed" /\ Inline(committed) =>
       Visible("committed") = Reads(committed, dict)
BY DEF Visible, InPlace, Version, WorksInPlace

LEMMA SeenNext ==
  /\ pc' = "idle" \/ arg' # "committed" \/ ~Inline(committed') =>
       Visible("committed")' = committed'.dict
  /\ pc' # "idle" /\ arg' = "committed" /\ Inline(committed') =>
       Visible("committed")' = Reads(committed', dict')
BY DEF Visible, InPlace, Version, WorksInPlace, Inline, Reads

(* Sorting what a datum reads as does not change it for any reader.         *)
LEMMA SortUnseen ==
  ASSUME NEW v, NEW d, Legal(d)
  PROVE  ContentsOf(Reads(v, Sort(d))) = ContentsOf(Reads(v, d))
<1>1. PICK s : s = Sort(d)
  OBVIOUS
<1>2. /\ Legal(s) /\ Len(s.vars) = Len(d.vars) /\ Len(s.vals) = Len(d.vals)
      /\ Contents(s) = Contents(d)
  BY <1>1, SortedIs
<1>3. s # Broken /\ d # Broken
  BY <1>2, BrokenIsNone
<1>4. QED
  BY <1>1, <1>2, <1>3 DEF ContentsOf, Reads

(* Only a commit, a definition worked out in place and the loss of a page   *)
(* change what other backends read (PG_GETARG_DICTIONARY).                  *)
THEOREM SessionChanges == Spec => OnlyModifyChanges
<1> DEFINE Same == ContentsOf(Visible("committed")') = ContentsOf(Visible("committed"))
           Allowed == \/ Inline(committed) /\ pc = "modify" /\ arg = "committed"
                      \/ committed' \in {written, [committed EXCEPT !.dict = committed.stored]}
                      \/ pc' = "undefined"
<1>1. SessionInv /\ [Next]_vars => Same \/ Allowed
  <2>1. SUFFICES ASSUME SessionInv, [Next]_vars PROVE Same \/ Allowed
    OBVIOUS
  <2>2. CASE Begin \/ Rollback \/ MakeRef \/ UseRef
    <3>1. pc = "idle" /\ pc' = "idle" /\ committed' = committed
      BY <2>1, <2>2
         DEF Begin, Rollback, MakeRef, UseRef, Idle, SessionInv, callVars, rowVars
    <3>2. QED
      BY <3>1, SeenAs, SeenNext
  <2>3. CASE Commit
    <3>1. pc = "idle" /\ pc' = "idle" /\ (committed' = written \/ committed' = committed)
      BY <2>3 DEF Commit, Idle, Version, Own, callVars
    <3>2. QED
      BY <3>1, SeenAs, SeenNext
  <2>4. CASE Modify
    <3>1. /\ pc = "idle" /\ committed' = committed /\ arg' = Own /\ dict' = Version(Own).dict
          /\ Version(Own).dict # Broken
      BY <2>4 DEF Modify, Idle, Readable
    <3>2. CASE arg' = "committed"
      <4>1. dict' = committed.dict /\ committed.dict # Broken
        BY <3>1, <3>2 DEF Version
      <4>2. IsSerialized(committed, committed.dict)
        BY <2>1, <4>1, BrokenIsNone DEF SessionInv
      <4>3. Reads(committed', dict') = committed.dict
        BY <3>1, <4>1, <4>2 DEF IsSerialized, Reads
      <4>4. QED
        BY <3>1, <4>3, SeenAs, SeenNext
    <3>3. CASE arg' # "committed"
      BY <3>1, <3>3, SeenAs, SeenNext
    <3>4. QED
      BY <3>2, <3>3
  <2>5. CASE Define
    <3>1. pc = "modify" /\ committed' = committed /\ arg' = arg
      BY <2>1, <2>5, CallStep DEF Define, rowVars, SessionInv
    <3>2. CASE Inline(committed) /\ arg = "committed"
      BY <3>1, <3>2
    <3>3. CASE ~(Inline(committed) /\ arg = "committed")
      BY <3>1, <3>3, SeenAs, SeenNext
    <3>4. QED
      BY <3>2, <3>3
  <2>6. CASE Fail \/ Return
    <3>1. PICK d : d = IF pc = "failed" THEN dict ELSE Sort(dict)
      OBVIOUS
    <3>2. pc # "idle" /\ pc' = "idle" /\ committed' = Left("committed", d)
      BY <2>6, <3>1 DEF Fail, Return, CallOver
    <3>3. ContentsOf(Reads(committed, d)) = ContentsOf(Reads(committed, dict))
      BY <2>1, <3>1, SortUnseen DEF SessionInv, CallInv
    <3>4. CASE arg = "committed" /\ Inline(committed)
      <4>1. committed' = [committed EXCEPT !.dict = Reads(committed, d)]
        BY <3>2, <3>4 DEF Left, Version, WorksInPlace
      <4>2. committed'.dict = Reads(committed, d)
        BY <2>1, <4>1 DEF SessionInv, GoodDatum, Data
      <4>3. QED
        BY <3>2, <3>3, <3>4, <4>2, SeenAs, SeenNext
    <3>5. CASE ~(arg = "committed" /\ Inline(committed))
      <4>1. committed' = committed
        BY <3>2, <3>5 DEF Left, Version, WorksInPlace
      <4>2. QED
        BY <3>2, <3>5, <4>1, SeenAs, SeenNext
    <3>6. QED
      BY <3>4, <3>5
  <2>7. CASE Merge
    <3>1. PICK d : d = committed.dict
      OBVIOUS
    <3>2. /\ pc = "idle" /\ pc' = "idle" /\ Version(Own).dict # Broken
          /\ \/ Own = "committed" /\ committed' = [committed EXCEPT !.dict = Sort(d)]
             \/ committed' = committed
      BY <2>7, <3>1 DEF Merge, Idle, Readable, Version, callVars
    <3>3. CASE Own = "committed" /\ committed' = [committed EXCEPT !.dict = Sort(d)]
      <4>1. committed'.dict = Sort(d)
        BY <2>1, <3>3 DEF SessionInv, GoodDatum, Data
      <4>2. Legal(d)
        BY <2>1, <3>1, <3>2, <3>3, BrokenIsNone DEF SessionInv, Version
      <4>3. Legal(Sort(d)) /\ Contents(Sort(d)) = Contents(d)
        BY <4>2, SortedIs
      <4>4. ContentsOf(committed'.dict) = ContentsOf(committed.dict)
        BY <3>1, <4>1, <4>2, <4>3, BrokenIsNone DEF ContentsOf
      <4>5. QED
        BY <3>2, <4>4, SeenAs, SeenNext
    <3>4. CASE committed' = committed
      BY <3>2, <3>4, SeenAs, SeenNext
    <3>5. QED
      BY <3>2, <3>3, <3>4
  <2>8. CASE Clobbered \/ Reload
    BY <2>8 DEF Clobbered, Reload
  <2>9. CASE UNCHANGED vars
    <3>1. pc' = pc /\ arg' = arg /\ committed' = committed /\ dict' = dict
      BY <2>9 DEF vars, rowVars, callVars
    <3>2. QED
      BY <3>1, SeenAs, SeenNext
  <2>10. QED
    BY <2>1, <2>2, <2>3, <2>4, <2>5, <2>6, <2>7, <2>8, <2>9 DEF Next
<1>2. SessionInv /\ [Next]_vars =>
        [ContentsOf(Visible("committed")') # ContentsOf(Visible("committed")) =>
           \/ Inline(committed) /\ pc = "modify" /\ arg = "committed"
           \/ committed' \in {written, [committed EXCEPT !.dict = committed.stored]}
           \/ pc' = "undefined"]_vars
  BY <1>1
<1>3. QED
  BY <1>2, SessionInvariant, PTL DEF Spec, OnlyModifyChanges
===============================================================================
