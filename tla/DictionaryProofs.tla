--------------------------- MODULE DictionaryProofs ---------------------------
(***************************************************************************)
(* A dictionary stays well formed over any number of calls, and is a map   *)
(* of distributions to those who use it (Dictionary, DictMap).             *)
(*                                                                         *)
(* The invariant is that of one dictionary, Layout of DictValue,           *)
(* which every operation of DictValue keeps, for the working dictionary,   *)
(* the stored one and the answer, together with the index varp.  It is     *)
(* stronger than the properties it is for: that val_deleted is not below   *)
(* the number of holes in the stored dictionary, that var_sorted tells the *)
(* truth, and that segments do not overlap, are what the next call starts  *)
(* from.                                                                   *)
(*                                                                         *)
(* The refinement needs two more arguments.  The total normalize_var       *)
(* divides by is a sum of fractions, reduced at every step, in the order   *)
(* in which the values happen to lie; DictMap adds them in another order.  *)
(* Both are the sum without reductions, which any order gives              *)
(* (TotalIsSum).  And modify_dictionary normalizes a variable late, when   *)
(* the next one turns up; MapInv therefore compares the map with the       *)
(* working dictionary once that is done (Ended).                           *)
(***************************************************************************)
EXTENDS Dictionary, DictValueProofs, TLAPS

DictInv ==
  /\ table = NoDict \/ Stored(table)
  /\ answer = NoDict \/ Stored(answer)
  /\ CallInv
  /\ pc \in {"idle", "modify", "failed", "modified"}
  /\ calls \in 0 .. MaxCalls

(* The invariant holds after any calls, and between any two definitions of  *)
(* one (modify_dictionary, dictionary_prepare2store).                       *)
THEOREM DictInvariant == Spec => []DictInv
<1>1. Init => DictInv
  <2>1. SUFFICES ASSUME Init PROVE DictInv
    OBVIOUS
  <2>2. MaxCalls \in Nat
    BY BoundsAssumption
  <2>3. QED
    BY <2>1, <2>2, EmptyIsLegal DEF Init, DictInv, CallInv
<1>2. DictInv /\ [Next]_vars => DictInv'
  <2>1. SUFFICES ASSUME DictInv, [Next]_vars PROVE DictInv'
    OBVIOUS
  <2>2. /\ Legal(dict) /\ calls \in Nat /\ MaxCalls \in Nat
    BY <2>1, BoundsAssumption DEF DictInv, CallInv
  <2>3. CASE Call
    <3>1. Legal(dict')
      BY <2>1, <2>3, EmptyIsLegal DEF Call, DictInv, Stored
    <3>2. Len(dict'.vars) \in Nat /\ Len(text') \in Nat
      BY <2>3, <3>1, DictFields, TextsAssumption DEF Legal, Call
    <3>3. /\ mode' \in {"in", "add", "del", "upd"} /\ text' \in Texts
          /\ at' = 0 /\ varp' = 0 /\ pc' = "modify" /\ calls' = calls + 1 /\ calls < MaxCalls
          /\ table' = table /\ answer' = answer
      BY <2>3 DEF Call
    <3>4. calls' \in 0 .. MaxCalls
      BY <2>2, <3>3
    <3>5. CallInv'
      BY <3>1, <3>2, <3>3 DEF CallInv
    <3>6. QED
      BY <2>1, <3>3, <3>4, <3>5 DEF DictInv, Stored
  <2>4. CASE Modify
    <3>1. /\ CallInv' /\ pc' \in {"modify", "failed", "modified"}
          /\ answer' = answer /\ calls' = calls /\ table' = table
      BY <2>1, <2>4, CallStep DEF Modify, DictInv
    <3>2. QED
      BY <2>1, <3>1 DEF DictInv, Stored
  <2>5. CASE Abort
    BY <2>1, <2>5 DEF Abort, DictInv, CallInv, Stored
  <2>6. CASE Return
    <3>1. PICK e : e = Prepare2Store(dict)
      OBVIOUS
    <3>2. Stored(e)
      BY <2>2, <3>1, PreparedIsStored
    <3>3. /\ answer' = e /\ (table' = table \/ table' = e)
          /\ pc' = "idle"
          /\ dict' = dict /\ mode' = mode /\ text' = text /\ at' = at /\ varp' = varp
          /\ calls' = calls
      BY <2>6, <3>1 DEF Return
    <3>4. QED
      BY <2>1, <3>2, <3>3 DEF DictInv, CallInv
  <2>7. CASE UNCHANGED vars
    BY <2>1, <2>7 DEF vars, callVars, DictInv, CallInv, Stored
  <2>8. QED
    BY <2>1, <2>3, <2>4, <2>5, <2>6, <2>7 DEF Next
<1>3. QED
  BY <1>1, <1>2, PTL DEF Spec

-----------------------------------------------------------------------------
(* Every dictionary is one, and varp never dangles, although a deletion     *)
(* moves all variables behind the deleted one (modify_dictionary).          *)
THEOREM DictionaryTyped == Spec => []TypeOK
<1>1. DictInv => TypeOK
  BY LegalIsDict DEF DictInv, CallInv, TypeOK, Stored
<1>2. QED
  BY <1>1, DictInvariant, PTL

(* No variable ever reads the values of another, whatever was moved,        *)
(* shifted or packed before (modify_dictionary, prepare2store).             *)
THEOREM DictionaryApart == Spec => []SegmentsApart
<1>1. DictInv => SegmentsApart
  <2>1. SUFFICES ASSUME DictInv, NEW d \in {dict, answer} \ {NoDict}, Legal(d)
                 PROVE  /\ \A i \in DOMAIN d.vars :
                             d.vars[i].card > 0 /\ Segment(d.vars[i]) \subseteq DOMAIN d.vals
                        /\ \A i, k \in DOMAIN d.vars :
                             i # k => Segment(d.vars[i]) \cap Segment(d.vars[k]) = {}
    BY DEF DictInv, CallInv, Stored, SegmentsApart
  <2>2. QED
    BY <2>1, LegalApart
<1>2. QED
  BY <1>1, DictInvariant, PTL

(* lookup_var_index and get_var_value_index find everything where it is:    *)
(* no name and no value of a variable is there twice, and binary search is  *)
(* used on sorted vectors only (dictionary.c).                              *)
THEOREM DictionaryLookups == Spec => []LookupsFind
<1>1. DictInv => LookupsFind
  <2>1. SUFFICES ASSUME DictInv, NEW d \in {dict, answer} \ {NoDict}, Legal(d),
                        NEW i \in DOMAIN d.vars
                 PROVE  /\ VarIndex(d, d.vars[i].name) = i
                        /\ \A j \in Segment(d.vars[i]) :
                             ValIndex(d, d.vars[i], d.vals[j].value) = j
    BY DEF DictInv, CallInv, Stored, LookupsFind
  <2>2. QED
    BY <2>1, LegalFinds
<1>2. QED
  BY <1>1, DictInvariant, PTL

(* The dead values of a stored dictionary never exceed MAX_VAL_DELETED      *)
(* (dictionary_prepare2store), for val_deleted counts them all.             *)
THEOREM DictionaryHoles == Spec => []HolesBounded
<1>1. DictInv => HolesBounded
  BY DEF DictInv, CallInv, Stored, Legal, Layout, HolesCounted, HolesBounded
<1>2. QED
  BY <1>1, DictInvariant, PTL

-----------------------------------------------------------------------------
(* What a dictionary says, as a map, and how each operation changes it.    *)

(* A dictionary, of which one variable may have no values yet.              *)
Sound(d) == d \in DictOver(Probabilities) /\ Layout(d)

NameSet(d) == {d.vars[i].name : i \in DOMAIN d.vars}

(* The value at place h of variable i, with its probability.                *)
Place(d, i, h) == d.vals[d.vars[i].offset + h]

(* The function f is the distribution of variable i, read place by place.   *)
Describes(f, d, i) ==
  /\ f = [x \in DOMAIN f |-> f[x]]
  /\ \A h \in 1 .. d.vars[i].card :
       Place(d, i, h).value \in DOMAIN f /\ f[Place(d, i, h).value] = Place(d, i, h).prob
  /\ \A x \in DOMAIN f : \E h \in 1 .. d.vars[i].card : Place(d, i, h).value = x

(* The function m is the dictionary as a map.                               *)
Depicts(m, d) ==
  /\ m = [x \in DOMAIN m |-> m[x]]
  /\ DOMAIN m = NameSet(d)
  /\ \A i \in 1 .. Len(d.vars) : m[d.vars[i].name] = ValuesOf(d, i)

(* A place lies in the vector and in the segment.                           *)
LEMMA PlaceIs ==
  ASSUME NEW d, Sound(d), NEW i, i \in 1 .. Len(d.vars), NEW h, h \in 1 .. d.vars[i].card
  PROVE  /\ d.vars[i].offset + h \in 1 .. Len(d.vals)
         /\ d.vars[i].offset + h \in Segment(d.vars[i])
         /\ Place(d, i, h).value \in Nat /\ Place(d, i, h).prob \in Probabilities
<1>1. d \in DictOver(Probabilities) /\ Inside(d)
  BY DEF Sound, Layout
<1>2. PICK n \in Nat, o \in Nat, c \in Nat :
        Len(d.vals) = n /\ d.vars[i].offset = o /\ d.vars[i].card = c
  BY <1>1, DictFields
<1>3. o + c <= n
  BY <1>1, <1>2, DictFields DEF Inside
<1>4. o + h \in 1 .. n /\ o + h \in o + 1 .. o + c
  BY <1>2, <1>3
<1>5. d.vals[o + h].value \in Nat /\ d.vals[o + h].prob \in Probabilities
  BY <1>1, <1>2, <1>4, DictFields
<1>6. QED
  BY <1>2, <1>4, <1>5 DEF Segment, Place

(* A segment is the places of its variable.                                 *)
AtPlace(j, d, i) == \E h \in 1 .. d.vars[i].card : j = d.vars[i].offset + h

(* A segment has no other elements.                                         *)
LEMMA SegmentPlaces ==
  ASSUME NEW d, Sound(d), NEW i, i \in 1 .. Len(d.vars), NEW j, j \in Segment(d.vars[i])
  PROVE  AtPlace(j, d, i)
<1>1. PICK o \in Nat, c \in Nat : d.vars[i].offset = o /\ d.vars[i].card = c
  BY DictFields DEF Sound
<1>2. j \in o + 1 .. o + c
  BY <1>1 DEF Segment
<1>3. j - o \in 1 .. c /\ j = o + (j - o)
  BY <1>2
<1>4. QED
  BY <1>1, <1>3 DEF AtPlace

(* No value is at two places.                                               *)
LEMMA PlacesDiffer ==
  ASSUME NEW d, Sound(d), NEW i, i \in 1 .. Len(d.vars),
         NEW h, h \in 1 .. d.vars[i].card, NEW k, k \in 1 .. d.vars[i].card,
         Place(d, i, h).value = Place(d, i, k).value
  PROVE  h = k
<1>1. PICK o \in Nat, c \in Nat : d.vars[i].offset = o /\ d.vars[i].card = c
  BY DictFields DEF Sound
<1>2. o + h \in Segment(d.vars[i]) /\ o + k \in Segment(d.vars[i])
  BY <1>1, PlaceIs
<1>3. d.vals[o + h].value = d.vals[o + k].value
  BY <1>1 DEF Place
<1>4. o + h = o + k
  <2>1. i \in DOMAIN d.vars
    BY DictFields DEF Sound
  <2>2. QED
    BY <1>2, <1>3, <2>1 DEF Sound, Layout, ValuesDiffer
<1>5. h \in Int /\ k \in Int
  BY <1>1
<1>6. QED
  BY <1>4, <1>5

(* What lookup_probability finds is what is there.                          *)
LEMMA ValuesAre ==
  ASSUME NEW d, Sound(d), NEW i, i \in 1 .. Len(d.vars)
  PROVE  Describes(ValuesOf(d, i), d, i)
<1>1. PICK v : v = d.vars[i]
  OBVIOUS
<1>2. v \in Variable
  BY <1>1, DictFields DEF Sound
<1>3. ASSUME NEW h \in 1 .. v.card
      PROVE  /\ Place(d, i, h).value \in DOMAIN ValuesOf(d, i)
             /\ ValuesOf(d, i)[Place(d, i, h).value] = Place(d, i, h).prob
  <2>1. PICK j : j = v.offset + h /\ j \in Segment(v) /\ d.vals[j] = Place(d, i, h)
    BY <1>1, <1>3, PlaceIs DEF Place
  <2>2. PICK k : k = ValIndex(d, v, d.vals[j].value)
    OBVIOUS
  <2>3. k # 0
    BY <1>2, <2>1, <2>2, ValIndexFinds
  <2>4. k \in Segment(v) /\ d.vals[k].value = d.vals[j].value
    BY <1>2, <2>2, <2>3, ValIndexFinds
  <2>5. k = j
    <3>1. i \in DOMAIN d.vars
      BY DictFields DEF Sound
    <3>2. QED
      BY <1>1, <2>1, <2>4, <3>1 DEF Sound, Layout, ValuesDiffer
  <2>6. QED
    BY <1>1, <2>1, <2>2, <2>5 DEF ValuesOf
<1>4. ASSUME NEW x \in DOMAIN ValuesOf(d, i)
      PROVE  \E h \in 1 .. v.card : Place(d, i, h).value = x
  <2>1. PICK j \in Segment(v) : x = d.vals[j].value
    BY <1>1 DEF ValuesOf
  <2>2. PICK h \in 1 .. v.card : j = v.offset + h
    <3>1. j \in Segment(d.vars[i])
      BY <1>1, <2>1
    <3>2. AtPlace(j, d, i)
      BY <3>1, SegmentPlaces
    <3>3. QED
      BY <1>1, <3>2 DEF AtPlace
  <2>3. QED
    BY <1>1, <2>1, <2>2 DEF Place
<1>5. ValuesOf(d, i) = [x \in DOMAIN ValuesOf(d, i) |-> ValuesOf(d, i)[x]]
  BY DEF ValuesOf
<1>6. QED
  BY <1>1, <1>3, <1>4, <1>5 DEF Describes

(* Only one function is the distribution of a variable.                     *)
LEMMA DescribedOnce ==
  ASSUME NEW f, NEW g, NEW d, NEW i, Describes(f, d, i), Describes(g, d, i)
  PROVE  f = g
<1>1. DOMAIN f = DOMAIN g
  BY DEF Describes
<1>2. \A x \in DOMAIN f : f[x] = g[x]
  BY DEF Describes
<1>3. f = [x \in DOMAIN f |-> f[x]] /\ g = [x \in DOMAIN g |-> g[x]]
  BY DEF Describes
<1>4. QED
  BY <1>1, <1>2, <1>3

(* Contents is the dictionary as a map.                                     *)
LEMMA ContentsDepict ==
  ASSUME NEW d, Sound(d)
  PROVE  Depicts(Contents(d), d)
<1>1. Contents(d) = [name \in NameSet(d) |-> ValuesOf(d, VarIndex(d, name))]
  BY DEF Contents, ValuesOf, NameSet
<1>2. ASSUME NEW i \in 1 .. Len(d.vars)
      PROVE  VarIndex(d, d.vars[i].name) = i
  <2>1. /\ d.vars \in Seq(Variable) /\ DOMAIN d.vars = 1 .. Len(d.vars)
        /\ d.vars[i].name \in Nat
    BY DictFields DEF Sound
  <2>2. PICK k, name : k = VarIndex(d, name) /\ name = d.vars[i].name
    OBVIOUS
  <2>3. IsPlaceOf(k, d.vars, name)
    BY <2>1, <2>2, VarIndexFinds DEF Sound, Layout
  <2>4. k \in 1 .. Len(d.vars) /\ d.vars[k].name = name
    BY <2>1, <2>2, <2>3 DEF IsPlaceOf
  <2>5. QED
    BY <2>1, <2>2, <2>4 DEF Sound, Layout, NamesDiffer
<1>3. \A i \in 1 .. Len(d.vars) : d.vars[i].name \in NameSet(d)
  BY DictFields DEF Sound, NameSet
<1>4. QED
  BY <1>1, <1>2, <1>3 DEF Depicts

(* Only one function is.                                                    *)
LEMMA DepictedOnce ==
  ASSUME NEW d, Sound(d), NEW m, Depicts(m, d)
  PROVE  m = Contents(d)
<1>1. Depicts(Contents(d), d)
  BY ContentsDepict
<1>2. PICK c : c = Contents(d)
  OBVIOUS
<1>3. \A name \in NameSet(d) : \E i \in 1 .. Len(d.vars) : name = d.vars[i].name
  BY DictFields DEF Sound, NameSet
<1>4. \A name \in NameSet(d) : m[name] = c[name]
  BY <1>1, <1>2, <1>3 DEF Depicts
<1>5. DOMAIN m = NameSet(d) /\ DOMAIN c = NameSet(d)
  BY <1>1, <1>2 DEF Depicts
<1>6. m = [x \in DOMAIN m |-> m[x]] /\ c = [x \in DOMAIN c |-> c[x]]
  BY <1>1, <1>2 DEF Depicts
<1>7. QED
  BY <1>2, <1>4, <1>5, <1>6

-----------------------------------------------------------------------------
(* Variable i of d and variable k of e have the same name and values.       *)
SamePart(d, i, e, k) ==
  /\ d.vars[i].name = e.vars[k].name /\ d.vars[i].card = e.vars[k].card
  /\ \A h \in 1 .. d.vars[i].card : Place(e, k, h) = Place(d, i, h)

(* Then they have the same distribution.                                    *)
LEMMA SameValues ==
  ASSUME NEW d, Sound(d), NEW i, i \in 1 .. Len(d.vars),
         NEW e, Sound(e), NEW k, k \in 1 .. Len(e.vars), SamePart(d, i, e, k)
  PROVE  ValuesOf(e, k) = ValuesOf(d, i)
<1>1. Describes(ValuesOf(d, i), d, i) /\ Describes(ValuesOf(e, k), e, k)
  BY ValuesAre
<1>2. PICK f, g : f = ValuesOf(d, i) /\ g = ValuesOf(e, k)
  OBVIOUS
<1>3. Describes(f, e, k)
  <2>1. /\ f = [x \in DOMAIN f |-> f[x]]
        /\ \A h \in 1 .. d.vars[i].card :
             Place(d, i, h).value \in DOMAIN f /\ f[Place(d, i, h).value] = Place(d, i, h).prob
        /\ \A x \in DOMAIN f : \E h \in 1 .. d.vars[i].card : Place(d, i, h).value = x
    BY <1>1, <1>2 DEF Describes
  <2>2. /\ d.vars[i].card = e.vars[k].card
        /\ \A h \in 1 .. d.vars[i].card : Place(e, k, h) = Place(d, i, h)
    BY DEF SamePart
  <2>3. \A h \in 1 .. e.vars[k].card :
             Place(e, k, h).value \in DOMAIN f /\ f[Place(e, k, h).value] = Place(e, k, h).prob
    BY <2>1, <2>2
  <2>4. \A x \in DOMAIN f : \E h \in 1 .. e.vars[k].card : Place(e, k, h).value = x
    BY <2>1, <2>2
  <2>5. QED
    BY <2>1, <2>3, <2>4 DEF Describes
<1>4. QED
  BY <1>1, <1>2, <1>3, DescribedOnce

(* The map f with x mapped to y, and without x.                             *)
Put(f, x, y) == [k \in DOMAIN f \cup {x} |-> IF k = x THEN y ELSE f[k]]
Drop(f, x) == [k \in DOMAIN f \ {x} |-> f[k]]

(* Only variable i of the dictionary changes.                               *)
OnlyChanges(d, i, e) ==
  /\ Len(e.vars) = Len(d.vars)
  /\ e.vars[i].name = d.vars[i].name
  /\ \A k \in 1 .. Len(d.vars) : k # i => SamePart(d, k, e, k)

(* Then only its name is mapped anew.                                       *)
LEMMA OneChanged ==
  ASSUME NEW d, Sound(d), NEW i, i \in 1 .. Len(d.vars), NEW e, Sound(e), OnlyChanges(d, i, e)
  PROVE  Contents(e) = Put(Contents(d), d.vars[i].name, ValuesOf(e, i))
<1>1. PICK c, name, f : c = Contents(d) /\ name = d.vars[i].name /\ f = ValuesOf(e, i)
  OBVIOUS
<1>2. Depicts(c, d)
  BY <1>1, ContentsDepict
<1>3. /\ DOMAIN d.vars = 1 .. Len(d.vars) /\ DOMAIN e.vars = 1 .. Len(e.vars)
      /\ \A k \in 1 .. Len(d.vars) : e.vars[k].name = d.vars[k].name
  BY DictFields DEF Sound, OnlyChanges, SamePart
<1>4. NameSet(e) = NameSet(d) /\ name \in NameSet(d)
  BY <1>1, <1>3 DEF NameSet, OnlyChanges
<1>5. ASSUME NEW k \in 1 .. Len(e.vars)
      PROVE  Put(c, name, f)[e.vars[k].name] = ValuesOf(e, k)
  <2>1. /\ k \in 1 .. Len(d.vars)
        /\ e.vars[k].name = d.vars[k].name /\ e.vars[k].name \in NameSet(d)
    BY <1>3 DEF OnlyChanges, NameSet
  <2>2. CASE k = i
    BY <1>1, <1>2, <1>4, <2>1, <2>2 DEF Put, Depicts
  <2>3. CASE k # i
    <3>1. e.vars[k].name # name
      BY <1>1, <1>3, <2>1, <2>3 DEF Sound, Layout, NamesDiffer
    <3>2. SamePart(d, k, e, k)
      BY <2>1, <2>3 DEF OnlyChanges
    <3>3. ValuesOf(e, k) = ValuesOf(d, k)
      BY <2>1, <3>2, SameValues
    <3>4. c[d.vars[k].name] = ValuesOf(d, k)
      BY <1>2, <2>1 DEF Depicts
    <3>5. QED
      BY <1>2, <2>1, <3>1, <3>3, <3>4 DEF Put, Depicts
  <2>4. QED
    BY <2>2, <2>3
<1>6. Depicts(Put(c, name, f), e)
  <2>1. DOMAIN Put(c, name, f) = NameSet(e)
    BY <1>2, <1>4 DEF Put, Depicts
  <2>2. Put(c, name, f) = [x \in DOMAIN Put(c, name, f) |-> Put(c, name, f)[x]]
    BY DEF Put
  <2>3. QED
    BY <1>5, <2>1, <2>2 DEF Depicts
<1>7. QED
  BY <1>1, <1>6, DepictedOnce

(* No place of another variable lies in the segment of variable i.          *)
LEMMA OtherPlace ==
  ASSUME NEW d, Sound(d), NEW i, i \in 1 .. Len(d.vars), NEW k, k \in 1 .. Len(d.vars), k # i,
         NEW h, h \in 1 .. d.vars[k].card
  PROVE  d.vars[k].offset + h \notin Segment(d.vars[i])
<1>1. PICK a \in Nat, b \in Nat, o \in Nat, c \in Nat :
        d.vars[k].offset = a /\ d.vars[k].card = b /\ d.vars[i].offset = o /\ d.vars[i].card = c
  BY DictFields DEF Sound
<1>2. a + b <= o \/ o + c <= a
  <2>1. i \in DOMAIN d.vars /\ k \in DOMAIN d.vars
    BY DictFields DEF Sound
  <2>2. QED
    BY <1>1, <2>1 DEF Sound, Layout, Apart, Before
<1>3. a + h \notin o + 1 .. o + c
  BY <1>1, <1>2
<1>4. QED
  BY <1>1, <1>3 DEF Segment

(* A distribution maps finitely many values to probabilities.               *)
LEMMA DistributionIs ==
  ASSUME NEW d, Sound(d), NEW i, i \in 1 .. Len(d.vars), NEW f, Describes(f, d, i)
  PROVE  /\ IsFiniteSet(DOMAIN f)
         /\ DOMAIN f \subseteq Nat
         /\ \A x \in DOMAIN f : f[x] \in Probabilities
<1>1. PICK c \in Nat : d.vars[i].card = c
  BY DictFields DEF Sound
<1>2. \A h \in 1 .. c : Place(d, i, h).value \in Nat /\ Place(d, i, h).prob \in Probabilities
  BY <1>1, PlaceIs
<1>3. /\ \A h \in 1 .. c :
            Place(d, i, h).value \in DOMAIN f /\ f[Place(d, i, h).value] = Place(d, i, h).prob
      /\ \A x \in DOMAIN f : \E h \in 1 .. c : Place(d, i, h).value = x
  BY <1>1 DEF Describes
<1> DEFINE e == [h \in 1 .. c |-> Place(d, i, h).value]
<1>4. e \in Surjection(1 .. c, DOMAIN f)
  BY <1>3 DEF Surjection
<1>5. IsFiniteSet(DOMAIN f)
  <2> HIDE DEF e
  <2>1. IsFiniteSet(1 .. c)
    BY CountTo
  <2>2. QED
    BY <1>4, <2>1, FS_Surjection
<1>6. QED
  BY <1>2, <1>3, <1>5

(* The total of normalize_var is the sum of the distribution, in whatever   *)
(* order the values lie.                                                    *)
LEMMA TotalIsSum ==
  ASSUME NEW d, Sound(d), NEW i, i \in 1 .. Len(d.vars), NEW f, Describes(f, d, i)
  PROVE  Total(d, d.vars[i]) = SumOf(f)
<1>1. PICK v : v = d.vars[i] /\ v.card \in Nat
  BY DictFields DEF Sound
<1>2. PICK c \in Nat : v = d.vars[i] /\ c = v.card /\ d.vars[i].card = c
  BY <1>1
<1>3. v \in Variable /\ v.offset + v.card <= Len(d.vals) /\ d \in DictOver(Probabilities)
  BY <1>2, DictFields DEF Sound, Layout, Inside
<1>4. IsFiniteSet(DOMAIN f) /\ \A x \in DOMAIN f : f[x] \in Probabilities
  BY DistributionIs
<1>5. \A h \in 1 .. c : Place(d, i, h).value \in Nat /\ Place(d, i, h).prob \in Probabilities
  BY <1>2, PlaceIs
<1>6. /\ \A h \in 1 .. c :
            Place(d, i, h).value \in DOMAIN f /\ f[Place(d, i, h).value] = Place(d, i, h).prob
      /\ \A x \in DOMAIN f : \E h \in 1 .. c : Place(d, i, h).value = x
  BY <1>2 DEF Describes
<1>7. PICK g : AddsUp(g, f) /\ SumOf(f) = g[DOMAIN f]
  BY <1>4, SumUnfolds
<1> DEFINE e == [h \in 1 .. c |-> Place(d, i, h).value]
           p == [h \in 1 .. c |-> Place(d, i, h).prob]
<1>8. Lists(e, c, DOMAIN f)
  <2>1. e \in [1 .. c -> DOMAIN f]
    BY <1>6
  <2>2. \A h, k \in 1 .. c : h # k => e[h] # e[k]
    BY <1>2, PlacesDiffer
  <2>3. \A x \in DOMAIN f : \E k \in 1 .. c : e[k] = x
    BY <1>6
  <2> HIDE DEF e
  <2>4. QED
    BY <2>1, <2>2, <2>3 DEF Lists
<1>9. [k \in 1 .. c |-> f[e[k]]] = p
  BY <1>6
<1>10. p \in [1 .. c -> Probabilities] /\ p \in [1 .. c -> Nat \X Nat]
  BY <1>5, ProbabilityPair
<1>11. PICK r : RawSums(r, p, c)
  <2> HIDE DEF p
  <2>1. QED
    BY <1>10, RawSumsExist
<1>12. g[DOMAIN f] = Lowest(r[c])
  <2>1. DOMAIN f \in SUBSET DOMAIN f
    OBVIOUS
  <2>2. RawSums(r, [k \in 1 .. c |-> f[e[k]]], c)
    BY <1>9, <1>11
  <2> HIDE DEF e, p
  <2>3. \A n \in Nat : \A s \in SUBSET DOMAIN f : \A b, q :
           Lists(b, n, s) /\ RawSums(q, [k \in 1 .. n |-> f[b[k]]], n) => g[s] = Lowest(q[n])
    BY <1>4, <1>7, SumOfList
  <2>4. Lists(e, c, DOMAIN f) /\ RawSums(r, [k \in 1 .. c |-> f[e[k]]], c) =>
          g[DOMAIN f] = Lowest(r[c])
    BY <2>1, <2>3
  <2>5. QED
    BY <1>8, <2>2, <2>4
<1>13. PICK t : Sums(t, d, v) /\ Total(d, v) = t[c]
  BY <1>2, <1>3, TotalUnfolds
<1>14. AddsInTurn(t, p, c)
  <2>1. \A k \in 1 .. c : p[k] = d.vals[v.offset + k].prob
    BY <1>2 DEF Place
  <2> HIDE DEF p
  <2>2. QED
    BY <1>2, <1>13, <2>1 DEF Sums, AddsInTurn
<1>15. t[c] = Lowest(r[c])
  <2> HIDE DEF p
  <2>1. QED
    BY <1>10, <1>11, <1>14, RawSumsLowest
<1>16. QED
  BY <1>2, <1>7, <1>12, <1>13, <1>15

Scale(f) ==
  IF SumOf(f) \in {One, NaN} THEN f ELSE [val \in DOMAIN f |-> DividedBy(f[val], SumOf(f))]

(* normalize_var divides every probability of the variable by their sum.    *)
LEMMA NormalizeWeighs ==
  ASSUME NEW d, Sound(d), NEW i, i \in 1 .. Len(d.vars), NEW e, e = Normalize(d, i), NEW total,
         total = Total(d, d.vars[i])
  PROVE  \A j \in 1 .. Len(d.vals) :
            j \in Segment(d.vars[i]) =>
              e.vals[j].prob = IF total \in {One, NaN} THEN d.vals[j].prob
                               ELSE DividedBy(d.vals[j].prob, total)
<1>1. SUFFICES ASSUME NEW j \in 1 .. Len(d.vals), j \in Segment(d.vars[i])
               PROVE  e.vals[j].prob = IF total \in {One, NaN} THEN d.vals[j].prob
                                       ELSE DividedBy(d.vals[j].prob, total)
  OBVIOUS
<1>2. d.vals[j] \in [value: Nat, prob: Probabilities] /\ j \in DOMAIN d.vals
  BY DictFields DEF Sound
<1>3. CASE total \in {One, NaN}
  BY <1>3 DEF Normalize
<1>4. CASE total \notin {One, NaN}
  <2>1. e = [d EXCEPT !.vals = [k \in DOMAIN d.vals |->
                                 IF k \in Segment(d.vars[i])
                                 THEN [d.vals[k] EXCEPT !.prob = DividedBy(d.vals[k].prob, total)]
                                 ELSE d.vals[k]]]
    BY <1>4 DEF Normalize
  <2>2. e.vals = [k \in DOMAIN d.vals |->
                                 IF k \in Segment(d.vars[i])
                                 THEN [d.vals[k] EXCEPT !.prob = DividedBy(d.vals[k].prob, total)]
                                 ELSE d.vals[k]]
    BY <2>1 DEF Sound, DictOver
  <2>3. e.vals[j] = [d.vals[j] EXCEPT !.prob = DividedBy(d.vals[j].prob, total)]
    BY <1>1, <1>2, <2>2
  <2>4. QED
    BY <1>2, <1>4, <2>3
<1>5. QED
  BY <1>3, <1>4

(* normalize_var scales the distribution and touches no other.              *)
LEMMA NormalizeScales ==
  ASSUME NEW d, Sound(d), NEW i, i \in 1 .. Len(d.vars), NEW e, e = Normalize(d, i)
  PROVE  /\ Sound(e) /\ OnlyChanges(d, i, e)
         /\ ValuesOf(e, i) = Scale(ValuesOf(d, i))
<1>1. d \in DictOver(Probabilities) /\ Layout(d)
  BY DEF Sound
<1>2. Sound(e) /\ e.vars = d.vars
  BY <1>1, NormalizeKeeps DEF Sound
<1>3. d.vars[i].offset + d.vars[i].card <= Len(d.vals)
  BY <1>1, DictFields DEF Layout, Inside
<1>4. \A j \in 1 .. Len(d.vals) :
        /\ e.vals[j].value = d.vals[j].value
        /\ j \notin Segment(d.vars[i]) => e.vals[j] = d.vals[j]
  BY <1>1, <1>3, NormalizeIs
<1>5. OnlyChanges(d, i, e)
  <2>1. ASSUME NEW k \in 1 .. Len(d.vars), k # i
        PROVE  SamePart(d, k, e, k)
    <3>1. \A h \in 1 .. d.vars[k].card : Place(e, k, h) = Place(d, k, h)
      <4>1. ASSUME NEW h \in 1 .. d.vars[k].card
            PROVE  Place(e, k, h) = Place(d, k, h)
        <5>1. d.vars[k].offset + h \in 1 .. Len(d.vals)
          BY PlaceIs
        <5>2. d.vars[k].offset + h \notin Segment(d.vars[i])
          BY <2>1, OtherPlace
        <5>3. QED
          BY <1>2, <1>4, <5>1, <5>2 DEF Place
      <4>2. QED
        BY <4>1
    <3>2. QED
      BY <1>2, <3>1 DEF SamePart
  <2>2. QED
    BY <1>2, <2>1 DEF OnlyChanges
<1>6. PICK f, g, total, v :
        f = ValuesOf(d, i) /\ g = Scale(f) /\ total = Total(d, v) /\ v = d.vars[i]
  OBVIOUS
<1>7. Describes(f, d, i)
  BY <1>6, ValuesAre
<1>8. SumOf(f) = total
  BY <1>6, <1>7, TotalIsSum
<1>9. g = IF total \in {One, NaN} THEN f ELSE [val \in DOMAIN f |-> DividedBy(f[val], total)]
  BY <1>6, <1>8 DEF Scale
<1>10. g = [x \in DOMAIN f |-> g[x]] /\ \A x \in DOMAIN f :
         g[x] = IF total \in {One, NaN} THEN f[x] ELSE DividedBy(f[x], total)
  BY <1>7, <1>9 DEF Describes
<1>11. ASSUME NEW h \in 1 .. v.card
       PROVE  /\ Place(e, i, h).value = Place(d, i, h).value
              /\ Place(e, i, h).prob = IF total \in {One, NaN} THEN Place(d, i, h).prob
                                       ELSE DividedBy(Place(d, i, h).prob, total)
  <2>1. PICK j : j = v.offset + h /\ j \in 1 .. Len(d.vals) /\ j \in Segment(v)
    BY <1>6, PlaceIs
  <2>2. e.vals[j].prob = IF total \in {One, NaN} THEN d.vals[j].prob
                         ELSE DividedBy(d.vals[j].prob, total)
    BY <1>6, <2>1, NormalizeWeighs
  <2>3. e.vals[j].value = d.vals[j].value
    BY <1>4, <2>1
  <2>4. QED
    BY <1>2, <1>6, <2>1, <2>2, <2>3 DEF Place
<1>12. Describes(g, e, i)
  <2>1. \A h \in 1 .. v.card :
          Place(d, i, h).value \in DOMAIN f /\ f[Place(d, i, h).value] = Place(d, i, h).prob
    BY <1>6, <1>7 DEF Describes
  <2>2. \A x \in DOMAIN f : \E h \in 1 .. v.card : Place(d, i, h).value = x
    BY <1>6, <1>7 DEF Describes
  <2>3. DOMAIN g = DOMAIN f
    BY <1>10
  <2>4. \A h \in 1 .. v.card :
          Place(e, i, h).value \in DOMAIN g /\ g[Place(e, i, h).value] = Place(e, i, h).prob
    BY <1>10, <1>11, <2>1, <2>3
  <2>5. \A x \in DOMAIN g : \E h \in 1 .. v.card : Place(e, i, h).value = x
    BY <1>11, <2>2, <2>3
  <2>6. g = [x \in DOMAIN g |-> g[x]]
    BY <1>10, <2>3
  <2>7. e.vars[i].card = v.card
    BY <1>2, <1>6
  <2>8. QED
    BY <2>4, <2>5, <2>6, <2>7 DEF Describes
<1>13. Describes(ValuesOf(e, i), e, i)
  BY <1>2, ValuesAre
<1>14. QED
  BY <1>2, <1>5, <1>6, <1>12, <1>13, DescribedOnce

(* The operations of modify_dictionary, as changes of a map.                *)
LEMMA SetProbPuts ==
  ASSUME NEW d, Sound(d), NEW i, i \in 1 .. Len(d.vars), NEW l, l \in 1 .. d.vars[i].card,
         NEW j, j = d.vars[i].offset + l, NEW val, val = d.vals[j].value,
         NEW prob, prob \in Probabilities, NEW e, e = SetProb(d, j, prob)
  PROVE  /\ Sound(e) /\ OnlyChanges(d, i, e)
         /\ ValuesOf(e, i) = Put(ValuesOf(d, i), val, prob)
<1>1. d \in DictOver(Probabilities) /\ Layout(d)
  BY DEF Sound
<1>2. j \in 1 .. Len(d.vals) /\ j \in Segment(d.vars[i])
  BY PlaceIs
<1>3. Sound(e) /\ e.vars = d.vars
  BY <1>1, <1>2, SetProbKeeps DEF Sound
<1>4. /\ \A k \in 1 .. Len(d.vals) : k # j => e.vals[k] = d.vals[k]
      /\ e.vals[j].value = val /\ e.vals[j].prob = prob
  <2>1. /\ d.vals \in Seq([value: Nat, prob: Probabilities])
        /\ d.vals[j] \in [value: Nat, prob: Probabilities] /\ DOMAIN d.vals = 1 .. Len(d.vals)
    BY <1>1, <1>2, DictFields
  <2>2. PICK x : x = [d.vals[j] EXCEPT !.prob = prob] /\ x.value = val /\ x.prob = prob
    <3>1. PICK y \in [value: Nat, prob: Probabilities] : y = d.vals[j]
      BY <2>1
    <3>2. [y EXCEPT !.prob = prob] = [value |-> y.value, prob |-> prob]
      OBVIOUS
    <3>3. QED
      BY <3>1, <3>2
  <2>3. e.vals = [d.vals EXCEPT ![j] = x]
    BY <1>1, <2>2 DEF SetProb, DictOver
  <2>4. QED
    BY <1>2, <2>1, <2>2, <2>3
<1>5. OnlyChanges(d, i, e)
  <2>1. ASSUME NEW k \in 1 .. Len(d.vars), k # i, NEW h \in 1 .. d.vars[k].card
        PROVE  Place(e, k, h) = Place(d, k, h)
    <3>1. d.vars[k].offset + h \in 1 .. Len(d.vals)
      BY PlaceIs
    <3>2. d.vars[k].offset + h \notin Segment(d.vars[i])
      BY <2>1, OtherPlace
    <3>3. QED
      BY <1>2, <1>3, <1>4, <3>1, <3>2 DEF Place
  <2>2. \A k \in 1 .. Len(d.vars) : k # i => SamePart(d, k, e, k)
    BY <1>3, <2>1 DEF SamePart
  <2>3. QED
    BY <1>3, <2>2 DEF OnlyChanges
<1>6. PICK f, g, c : f = ValuesOf(d, i) /\ g = Put(f, val, prob) /\ c = d.vars[i].card
  OBVIOUS
<1>7. Describes(f, d, i)
  BY <1>6, ValuesAre
<1>8. Place(d, i, l).value = val
  BY DEF Place
<1>9. \A h \in 1 .. c : h # l => Place(d, i, h).value # val /\ Place(e, i, h) = Place(d, i, h)
  <2>1. ASSUME NEW h \in 1 .. c, h # l
        PROVE  Place(d, i, h).value # val /\ Place(e, i, h) = Place(d, i, h)
    <3>1. Place(d, i, h).value # val
      BY <1>6, <1>8, <2>1, PlacesDiffer
    <3>2. d.vars[i].offset + h \in 1 .. Len(d.vals)
      BY <1>6, PlaceIs
    <3>3. d.vars[i].offset + h # j
      BY <3>1 DEF Place
    <3>4. QED
      BY <1>3, <1>4, <3>1, <3>2, <3>3 DEF Place
  <2>2. QED
    BY <2>1
<1>10. Place(e, i, l).value = val /\ Place(e, i, l).prob = prob
  BY <1>3, <1>4 DEF Place
<1>11. Describes(g, e, i)
  <2>1. /\ \A h \in 1 .. c :
             Place(d, i, h).value \in DOMAIN f /\ f[Place(d, i, h).value] = Place(d, i, h).prob
        /\ \A x \in DOMAIN f : \E h \in 1 .. c : Place(d, i, h).value = x
    BY <1>6, <1>7 DEF Describes
  <2>2. /\ DOMAIN g = DOMAIN f \cup {val} /\ g = [x \in DOMAIN g |-> g[x]]
        /\ \A x \in DOMAIN g : g[x] = IF x = val THEN prob ELSE f[x]
    BY <1>6 DEF Put
  <2>3. l \in 1 .. c
    BY <1>6
  <2>4. ASSUME NEW h \in 1 .. c
        PROVE  Place(e, i, h).value \in DOMAIN g /\ g[Place(e, i, h).value] = Place(e, i, h).prob
    <3>1. CASE h = l
      BY <1>10, <2>2, <3>1
    <3>2. CASE h # l
      <4>1. PICK x, y : x = Place(d, i, h) /\ y = Place(e, i, h)
        OBVIOUS
      <4>2. x.value # val /\ y = x
        BY <1>9, <3>2, <4>1
      <4>3. x.value \in DOMAIN f /\ f[x.value] = x.prob
        BY <2>1, <4>1
      <4>4. x.value \in DOMAIN g /\ g[x.value] = x.prob
        BY <2>2, <4>2, <4>3
      <4>5. QED
        BY <4>1, <4>2, <4>4
    <3>3. QED
      BY <3>1, <3>2
  <2>5. ASSUME NEW x \in DOMAIN g
        PROVE  \E h \in 1 .. c : Place(e, i, h).value = x
    <3>1. CASE x = val
      BY <1>10, <2>3, <3>1
    <3>2. CASE x # val
      <4>1. PICK h \in 1 .. c : Place(d, i, h).value = x
        BY <2>1, <2>2, <3>2
      <4>2. h # l
        BY <1>8, <3>2, <4>1
      <4>3. Place(e, i, h) = Place(d, i, h)
        BY <1>9, <4>2
      <4>4. QED
        BY <4>1, <4>3
    <3>3. QED
      BY <3>1, <3>2
  <2>6. e.vars[i].card = c
    BY <1>3, <1>6
  <2>7. QED
    BY <2>2, <2>4, <2>5, <2>6 DEF Describes
<1>12. Describes(ValuesOf(e, i), e, i)
  BY <1>3, ValuesAre
<1>13. QED
  BY <1>3, <1>5, <1>6, <1>11, <1>12, DescribedOnce

(* Closing the gap behind a deleted value loses no other.                   *)
LEMMA DropValueDrops ==
  ASSUME NEW d, Sound(d), NEW i, i \in 1 .. Len(d.vars), NEW l, l \in 1 .. d.vars[i].card,
         NEW j, j = d.vars[i].offset + l, NEW val, val = d.vals[j].value,
         NEW e, e = DropValue(d, i, j)
  PROVE  /\ Sound(e) /\ OnlyChanges(d, i, e)
         /\ ValuesOf(e, i) = Drop(ValuesOf(d, i), val)
<1>1. d \in DictOver(Probabilities) /\ Layout(d)
  BY DEF Sound
<1>2. j \in 1 .. Len(d.vals) /\ j \in Segment(d.vars[i])
  BY PlaceIs
<1>3. PICK v : v = d.vars[i]
  OBVIOUS
<1>4. PICK o \in Nat, c \in Nat, n \in Nat : v.offset = o /\ v.card = c /\ Len(d.vals) = n
  BY <1>1, <1>3, DictFields
<1>5. c > 0 /\ o + c <= n /\ l \in 1 .. c /\ j = o + l
  <2>1. i \in DOMAIN d.vars
    BY <1>1, DictFields
  <2>2. o + c <= n
    BY <1>1, <1>3, <1>4, <2>1 DEF Layout, Inside
  <2>3. QED
    BY <1>3, <1>4, <2>2
<1>6. Sound(e)
  BY <1>1, <1>2, <1>3, <1>4, <1>5, DropValueKeeps DEF Sound
<1>7. /\ Len(e.vars) = Len(d.vars)
      /\ \A k \in 1 .. Len(d.vars) : k # i => e.vars[k] = d.vars[k]
      /\ e.vars[i].name = v.name /\ e.vars[i].offset = v.offset /\ e.vars[i].card = v.card - 1
      /\ \A k \in 1 .. Len(d.vals) :
           e.vals[k] = IF k \in j .. v.offset + v.card - 1 THEN d.vals[k + 1] ELSE d.vals[k]
  <2>1. v.card > 0 /\ v.offset + v.card <= Len(d.vals) /\ j \in Segment(v)
    BY <1>2, <1>3, <1>4, <1>5
  <2>2. QED
    BY <1>1, <1>3, <2>1, DropValueIs, SMTT(30)
<1>8. OnlyChanges(d, i, e)
  <2>1. ASSUME NEW k \in 1 .. Len(d.vars), k # i, NEW h \in 1 .. d.vars[k].card
        PROVE  Place(e, k, h) = Place(d, k, h)
    <3>1. d.vars[k].offset + h \in 1 .. Len(d.vals)
      BY PlaceIs
    <3>2. d.vars[k].offset + h \notin Segment(d.vars[i])
      BY <2>1, OtherPlace
    <3>3. PICK m \in Nat : m = d.vars[k].offset + h
      BY <3>1
    <3>4. m \notin j .. o + c - 1
      <4>1. m \notin o + 1 .. o + c
        BY <1>3, <1>4, <3>2, <3>3 DEF Segment
      <4>2. QED
        BY <1>5, <4>1
    <3>5. e.vals[m] = d.vals[m]
      BY <1>4, <1>7, <3>1, <3>3, <3>4
    <3>6. QED
      BY <1>7, <2>1, <3>3, <3>5 DEF Place
  <2>2. \A k \in 1 .. Len(d.vars) : k # i => SamePart(d, k, e, k)
    BY <1>7, <2>1 DEF SamePart
  <2>3. QED
    BY <1>3, <1>7, <2>2 DEF OnlyChanges
<1>9. PICK f, g : f = ValuesOf(d, i) /\ g = Drop(f, val)
  OBVIOUS
<1>10. Describes(f, d, i)
  BY <1>9, ValuesAre
<1>11. Place(d, i, l).value = val
  BY DEF Place
<1>12. \A h \in 1 .. c - 1 : Place(e, i, h) = IF h < l THEN Place(d, i, h) ELSE Place(d, i, h + 1)
  <2>1. ASSUME NEW h \in 1 .. c - 1
        PROVE  Place(e, i, h) = IF h < l THEN Place(d, i, h) ELSE Place(d, i, h + 1)
    <3>1. o + h \in 1 .. n /\ (o + h \in j .. o + c - 1 <=> ~(h < l)) /\ o + h + 1 = o + (h + 1)
      BY <1>5
    <3>2. e.vals[o + h] = IF o + h \in j .. o + c - 1 THEN d.vals[o + h + 1] ELSE d.vals[o + h]
      BY <1>4, <1>7, <3>1
    <3>3. QED
      BY <1>3, <1>4, <1>7, <3>1, <3>2 DEF Place
  <2>2. QED
    BY <2>1
<1>13. \A h \in 1 .. c : h # l => Place(d, i, h).value # val
  BY <1>3, <1>4, <1>11, PlacesDiffer
<1>14. Describes(g, e, i)
  <2>1. /\ \A h \in 1 .. c :
             Place(d, i, h).value \in DOMAIN f /\ f[Place(d, i, h).value] = Place(d, i, h).prob
        /\ \A x \in DOMAIN f : \E h \in 1 .. c : Place(d, i, h).value = x
    BY <1>3, <1>4, <1>10 DEF Describes
  <2>2. /\ DOMAIN g = DOMAIN f \ {val} /\ g = [x \in DOMAIN g |-> g[x]]
        /\ \A x \in DOMAIN g : g[x] = f[x]
    BY <1>9 DEF Drop
  <2>3. ASSUME NEW h \in 1 .. c - 1
        PROVE  Place(e, i, h).value \in DOMAIN g /\ g[Place(e, i, h).value] = Place(e, i, h).prob
    <3>1. PICK k \in 1 .. c : k # l /\ Place(e, i, h) = Place(d, i, k)
      <4>1. h \in 1 .. c /\ h + 1 \in 1 .. c
        BY <1>5
      <4>2. CASE h < l
        BY <1>12, <4>1, <4>2
      <4>3. CASE ~(h < l)
        <5>1. h + 1 # l
          BY <1>5, <4>3
        <5>2. QED
          BY <1>12, <4>1, <4>3, <5>1
      <4>4. QED
        BY <4>2, <4>3
    <3>2. QED
      BY <1>13, <2>1, <2>2, <3>1
  <2>4. ASSUME NEW x \in DOMAIN g
        PROVE  \E h \in 1 .. c - 1 : Place(e, i, h).value = x
    <3>1. PICK k \in 1 .. c : Place(d, i, k).value = x
      BY <2>1, <2>2
    <3>2. k # l
      BY <1>11, <2>2, <3>1
    <3>3. CASE k < l
      <4>1. k \in 1 .. c - 1
        BY <1>5, <3>3
      <4>2. QED
        BY <1>12, <3>1, <3>3, <4>1
    <3>4. CASE k > l
      <4>1. k - 1 \in 1 .. c - 1 /\ ~(k - 1 < l) /\ k - 1 + 1 = k
        BY <1>5, <3>4
      <4>2. QED
        BY <1>12, <3>1, <4>1
    <3>5. QED
      BY <1>5, <3>2, <3>3, <3>4
  <2>5. e.vars[i].card = c - 1
    BY <1>4, <1>7
  <2>6. QED
    BY <2>2, <2>3, <2>4, <2>5 DEF Describes
<1>15. Describes(ValuesOf(e, i), e, i)
  <2>1. i \in 1 .. Len(e.vars)
    BY <1>7
  <2>2. QED
    BY <1>6, <2>1, ValuesAre
<1>16. QED
  BY <1>6, <1>8, <1>9, <1>14, <1>15, DescribedOnce

(* A variable moved to the tail is the same one, and now the last.          *)
LEMMA MovedIs ==
  ASSUME NEW d, Sound(d), NEW i, i \in 1 .. Len(d.vars), NEW m, m = MoveToTail(d, i)
  PROVE  /\ m \in DictOver(Probabilities) /\ OnlyChanges(d, i, m) /\ SamePart(d, i, m, i)
         /\ m.vars[i].offset + m.vars[i].card = Len(m.vals)
<1>1. d \in DictOver(Probabilities) /\ Layout(d)
  BY DEF Sound
<1>2. PICK v : v = d.vars[i]
  OBVIOUS
<1>3. PICK o \in Nat, c \in Nat, n \in Nat : v.offset = o /\ v.card = c /\ Len(d.vals) = n
  BY <1>1, <1>2, DictFields
<1>4. o + c <= n
  <2>1. i \in DOMAIN d.vars
    BY <1>1, DictFields
  <2>2. QED
    BY <1>1, <1>2, <1>3, <2>1 DEF Layout, Inside
<1>5. CASE o + c = n
  <2>1. m = d
    BY <1>2, <1>3, <1>5 DEF MoveToTail
  <2>2. QED
    BY <1>1, <1>2, <1>3, <1>5, <2>1 DEF OnlyChanges, SamePart
<1>6. CASE o + c < n
  <2>1. v.offset + v.card < Len(d.vals)
    BY <1>3, <1>6
  <2>2. /\ m \in DictOver(Probabilities)
        /\ Len(m.vars) = Len(d.vars)
        /\ \A k \in 1 .. Len(d.vars) : k # i => m.vars[k] = d.vars[k]
        /\ m.vars[i].name = v.name /\ m.vars[i].offset = Len(d.vals) /\ m.vars[i].card = v.card
        /\ Len(m.vals) = Len(d.vals) + v.card
        /\ \A j \in 1 .. Len(d.vals) : m.vals[j] = d.vals[j]
        /\ \A j \in 1 .. v.card : m.vals[Len(d.vals) + j] = d.vals[v.offset + j]
    BY <1>1, <1>2, <2>1, MoveToTailIs
  <2>3. \A k \in 1 .. Len(d.vars) : k # i => SamePart(d, k, m, k)
    <3>1. ASSUME NEW k \in 1 .. Len(d.vars), k # i, NEW h \in 1 .. d.vars[k].card
          PROVE  Place(m, k, h) = Place(d, k, h)
      <4>1. d.vars[k].offset + h \in 1 .. Len(d.vals)
        BY PlaceIs
      <4>2. QED
        BY <2>2, <3>1, <4>1 DEF Place
    <3>2. QED
      BY <2>2, <3>1 DEF SamePart
  <2>4. SamePart(d, i, m, i)
    BY <1>2, <2>2 DEF SamePart, Place
  <2>5. m.vars[i].offset + m.vars[i].card = Len(m.vals)
    BY <2>2
  <2>6. QED
    BY <1>2, <2>2, <2>3, <2>4, <2>5 DEF OnlyChanges
<1>7. QED
  BY <1>3, <1>4, <1>5, <1>6

(* Variable i has no such value, and no other variable is without values.   *)
MayGet(d, i, val) ==
  /\ \A j \in Segment(d.vars[i]) : d.vals[j].value # val
  /\ \A k \in 1 .. Len(d.vars) : k # i => d.vars[k].card > 0

(* In e, variable i of d has the value with this probability.               *)
Gets(d, i, val, prob, e) ==
  Sound(e) /\ OnlyChanges(d, i, e) /\ ValuesOf(e, i) = Put(ValuesOf(d, i), val, prob)

(* The value is added, wherever the segment has to move for it.             *)
LEMMA AddValuePuts ==
  ASSUME NEW d, Sound(d), NEW i, i \in 1 .. Len(d.vars), NEW val, val \in Nat,
         NEW prob, prob \in Probabilities, NEW e, e = AddValue(d, i, val, prob), MayGet(d, i, val)
  PROVE  Gets(d, i, val, prob, e)
<1> USE DEF MayGet
<1>1. d \in DictOver(Probabilities) /\ Layout(d)
  BY DEF Sound
<1>2. Sound(e)
  <2>1. /\ \A j \in Segment(d.vars[i]) : d.vals[j].value # val
        /\ \A k \in 1 .. Len(d.vars) : k # i => d.vars[k].card > 0
    OBVIOUS
  <2>2. QED
    BY <1>1, <2>1, AddValueKeeps, SMTT(30) DEF Sound
<1>3. PICK x : x = [value |-> val, prob |-> prob]
  OBVIOUS
<1>4. x \in [value: Nat, prob: Probabilities] /\ x.value = val /\ x.prob = prob
  BY <1>3
<1>5. PICK m : m = MoveToTail(d, i)
  OBVIOUS
<1>6. e = Appended(m, i, x)
  BY <1>3, <1>5 DEF AddValue, Appended
<1>7. /\ m \in DictOver(Probabilities) /\ OnlyChanges(d, i, m) /\ SamePart(d, i, m, i)
      /\ m.vars[i].offset + m.vars[i].card = Len(m.vals)
  BY <1>5, MovedIs
<1>8. PICK w : w = m.vars[i] /\ i \in 1 .. Len(m.vars)
  BY <1>7 DEF OnlyChanges
<1>9. PICK o \in Nat, c \in Nat, n \in Nat :
        w.offset = o /\ w.card = c /\ Len(m.vals) = n /\ o + c = n /\ d.vars[i].card = c
  BY <1>7, <1>8, DictFields DEF SamePart
<1>10. /\ Len(e.vars) = Len(m.vars)
       /\ \A k \in 1 .. Len(m.vars) : k # i => e.vars[k] = m.vars[k]
       /\ e.vars[i].name = w.name /\ e.vars[i].offset = w.offset /\ e.vars[i].card = w.card + 1
       /\ \A j \in 1 .. Len(m.vals) : e.vals[j] = m.vals[j]
       /\ e.vals[Len(m.vals) + 1] = x
  BY <1>4, <1>6, <1>7, <1>8, AppendedIs
<1>11. \A k \in 1 .. Len(d.vars), h \in Nat :
         h \in 1 .. d.vars[k].card => m.vars[k].offset + h \in 1 .. n
  <2>1. SUFFICES ASSUME NEW k \in 1 .. Len(d.vars), NEW h \in Nat, h \in 1 .. d.vars[k].card
                 PROVE  m.vars[k].offset + h \in 1 .. n
    OBVIOUS
  <2>2. CASE k = i
    BY <1>8, <1>9, <2>1, <2>2
  <2>3. CASE k # i
    <3>1. Inside(m)
      <4>1. Layout(m)
        <5>1. CASE d.vars[i].offset + d.vars[i].card < Len(d.vals)
          BY <1>1, <1>5, <5>1, MoveToTailKeeps, SMTT(30)
        <5>2. CASE d.vars[i].offset + d.vars[i].card = Len(d.vals)
          BY <1>1, <1>5, <5>2 DEF MoveToTail
        <5>3. d.vars[i].offset + d.vars[i].card <= Len(d.vals)
          BY <1>1, DictFields DEF Layout, Inside
        <5>4. /\ d.vars[i].offset \in Nat /\ d.vars[i].card \in Nat /\ Len(d.vals) \in Nat
          BY <1>1, DictFields
        <5>5. PICK a \in Nat, b \in Nat, l \in Nat :
                d.vars[i].offset = a /\ d.vars[i].card = b /\ Len(d.vals) = l
          BY <5>4
        <5>6. a + b < l \/ a + b = l
          <6>1. a + b <= l
            BY <5>3, <5>5
          <6>2. QED
            BY <6>1
        <5>7. QED
          BY <5>1, <5>2, <5>5, <5>6
      <4>2. QED
        BY <4>1 DEF Layout
    <3>2. k \in 1 .. Len(m.vars) /\ m.vars[k].card = d.vars[k].card
      BY <1>7, <2>3 DEF OnlyChanges, SamePart
    <3>3. PICK a \in Nat, b \in Nat : m.vars[k].offset = a /\ m.vars[k].card = b
      BY <1>7, <3>2, DictFields
    <3>4. a + b <= n
      <4>1. k \in DOMAIN m.vars
        BY <1>7, <3>2, DictFields
      <4>2. QED
        BY <1>9, <3>1, <3>3, <4>1 DEF Inside
    <3>5. h \in 1 .. b
      BY <2>1, <3>2, <3>3
    <3>6. QED
      BY <3>3, <3>4, <3>5
  <2>4. QED
    BY <2>2, <2>3
<1>12. \A k \in 1 .. Len(d.vars) : d.vars[k].card \in Nat
  BY <1>1, DictFields
<1>13. OnlyChanges(d, i, e)
  <2>1. ASSUME NEW k \in 1 .. Len(d.vars), k # i
        PROVE  SamePart(d, k, e, k)
    <3>1. SamePart(d, k, m, k) /\ k \in 1 .. Len(m.vars)
      BY <1>7, <2>1 DEF OnlyChanges
    <3>2. e.vars[k] = m.vars[k]
      BY <1>10, <2>1, <3>1
    <3>3. ASSUME NEW h \in 1 .. d.vars[k].card
          PROVE  Place(e, k, h) = Place(m, k, h)
      <4>1. m.vars[k].offset + h \in 1 .. Len(m.vals)
        BY <1>9, <1>11, <1>12
      <4>2. QED
        BY <1>10, <3>2, <4>1 DEF Place
    <3>4. QED
      BY <3>1, <3>2, <3>3 DEF SamePart
  <2>2. QED
    BY <1>7, <1>8, <1>10, <2>1 DEF OnlyChanges
<1>14. /\ \A h \in 1 .. c : Place(e, i, h) = Place(d, i, h)
       /\ Place(e, i, c + 1) = x
  <2>1. ASSUME NEW h \in 1 .. c
        PROVE  Place(e, i, h) = Place(d, i, h)
    <3>1. o + h \in 1 .. n
      BY <1>9
    <3>2. e.vals[o + h] = m.vals[o + h]
      BY <1>9, <1>10, <3>1
    <3>3. Place(m, i, h) = Place(d, i, h)
      BY <1>7, <1>9 DEF SamePart
    <3>4. QED
      BY <1>8, <1>9, <1>10, <3>2, <3>3 DEF Place
  <2>2. o + (c + 1) = n + 1
    <3>1. o + c = n
      BY <1>9
    <3>2. QED
      BY <3>1
  <2>3. Place(e, i, c + 1) = x
    BY <1>9, <1>10, <2>2 DEF Place
  <2>4. QED
    BY <2>1, <2>3
<1>15. PICK f, g : f = ValuesOf(d, i) /\ g = Put(f, val, prob)
  OBVIOUS
<1>16. Describes(f, d, i)
  BY <1>15, ValuesAre
<1>17. \A h \in 1 .. c : Place(d, i, h).value # val
  <2>1. ASSUME NEW h \in 1 .. c
        PROVE  Place(d, i, h).value # val
    <3>1. d.vars[i].offset + h \in Segment(d.vars[i])
      BY <1>9, PlaceIs
    <3>2. QED
      BY <3>1 DEF Place
  <2>2. QED
    BY <2>1
<1>18. Describes(g, e, i)
  <2>1. /\ \A h \in 1 .. c :
             Place(d, i, h).value \in DOMAIN f /\ f[Place(d, i, h).value] = Place(d, i, h).prob
        /\ \A y \in DOMAIN f : \E h \in 1 .. c : Place(d, i, h).value = y
    BY <1>9, <1>16 DEF Describes
  <2>2. /\ DOMAIN g = DOMAIN f \cup {val} /\ g = [y \in DOMAIN g |-> g[y]]
        /\ \A y \in DOMAIN g : g[y] = IF y = val THEN prob ELSE f[y]
    BY <1>15 DEF Put
  <2>3. ASSUME NEW h \in 1 .. c + 1
        PROVE  Place(e, i, h).value \in DOMAIN g /\ g[Place(e, i, h).value] = Place(e, i, h).prob
    <3>1. CASE h = c + 1
      BY <1>4, <1>14, <2>2, <3>1
    <3>2. CASE h \in 1 .. c
      <4>1. PICK y : y = Place(d, i, h) /\ Place(e, i, h) = y
        BY <1>14, <3>2
      <4>2. y.value # val /\ y.value \in DOMAIN f /\ f[y.value] = y.prob
        BY <1>17, <2>1, <3>2, <4>1
      <4>3. y.value \in DOMAIN g /\ g[y.value] = y.prob
        BY <2>2, <4>2
      <4>4. QED
        BY <4>1, <4>3
    <3>3. QED
      BY <1>9, <3>1, <3>2
  <2>4. ASSUME NEW y \in DOMAIN g
        PROVE  \E h \in 1 .. c + 1 : Place(e, i, h).value = y
    <3>1. CASE y = val
      <4>1. c + 1 \in 1 .. c + 1
        BY <1>9
      <4>2. QED
        BY <1>4, <1>14, <3>1, <4>1
    <3>2. CASE y # val
      <4>1. PICK h \in 1 .. c : Place(d, i, h).value = y
        BY <2>1, <2>2, <3>2
      <4>2. h \in 1 .. c + 1
        BY <1>9
      <4>3. Place(e, i, h) = Place(d, i, h)
        BY <1>14
      <4>4. QED
        BY <4>1, <4>2, <4>3
    <3>3. QED
      BY <3>1, <3>2
  <2>5. e.vars[i].card = c + 1
    BY <1>9, <1>10
  <2>6. QED
    BY <2>2, <2>3, <2>4, <2>5 DEF Describes
<1>19. Describes(ValuesOf(e, i), e, i)
  <2>1. i \in 1 .. Len(e.vars)
    BY <1>8, <1>10
  <2>2. QED
    BY <1>2, <2>1, ValuesAre
<1>20. QED
  BY <1>2, <1>13, <1>15, <1>18, <1>19, DescribedOnce DEF Gets

(* The last one counts.                                                     *)
LEMMA PutPut ==
  ASSUME NEW f, NEW x, NEW y, NEW z
  PROVE  Put(Put(f, x, y), x, z) = Put(f, x, z)
BY DEF Put

(* The last variable of e is new.                                           *)
LEMMA AddVariablePuts ==
  ASSUME NEW d, Sound(d), NEW name, name \in Nat, \A k \in DOMAIN d.vars : d.vars[k].name # name,
         NEW e, e = AddVariable(d, name), NEW i, i = Len(e.vars)
  PROVE  /\ Sound(e) /\ i \in 1 .. Len(e.vars) /\ e.vars[i].name = name /\ e.vars[i].card = 0
         /\ DOMAIN ValuesOf(e, i) = {}
         /\ Contents(e) = Put(Contents(d), name, ValuesOf(e, i))
<1>1. d \in DictOver(Probabilities) /\ Layout(d)
  BY DEF Sound
<1>2. Sound(e)
  <2>1. e \in DictOver(Probabilities)
    BY <1>1, AddVariableIs
  <2>2. Layout(e)
    BY <1>1, AddVariableKeeps
  <2>3. QED
    BY <2>1, <2>2 DEF Sound
<1>3. /\ Len(e.vars) = Len(d.vars) + 1
      /\ \A k \in 1 .. Len(d.vars) : e.vars[k] = d.vars[k]
      /\ e.vars[Len(d.vars) + 1].name = name /\ e.vars[Len(d.vars) + 1].card = 0
      /\ e.vals = d.vals
  BY <1>1, AddVariableIs
<1>4. PICK n \in Nat : n = Len(d.vars) /\ DOMAIN d.vars = 1 .. n
  BY <1>1, DictFields
<1>5. i = n + 1 /\ i \in 1 .. Len(e.vars) /\ e.vars[i].name = name /\ e.vars[i].card = 0
  BY <1>3, <1>4
<1>6. PICK c, f : c = Contents(d) /\ f = ValuesOf(e, i)
  OBVIOUS
<1>7. Depicts(c, d)
  BY <1>6, ContentsDepict
<1>8. DOMAIN e.vars = 1 .. n + 1
  BY <1>2, <1>3, <1>4, DictFields DEF Sound
<1>9. \A k \in 1 .. n : e.vars[k].name = d.vars[k].name
  BY <1>3, <1>4
<1>10. NameSet(e) = NameSet(d) \cup {name}
  <2>1. \A k \in 1 .. n + 1 : k \in 1 .. n \/ k = i
    BY <1>5
  <2>2. \A k \in 1 .. n : k \in 1 .. n + 1
    OBVIOUS
  <2>3. i \in 1 .. n + 1
    BY <1>5
  <2>4. /\ NameSet(e) = {e.vars[k].name : k \in 1 .. n + 1}
        /\ NameSet(d) = {d.vars[k].name : k \in 1 .. n}
    BY <1>4, <1>8 DEF NameSet
  <2>5. \A x \in NameSet(e) : x \in NameSet(d) \cup {name}
    BY <1>5, <1>9, <2>1, <2>4
  <2>6. \A x \in NameSet(d) : x \in NameSet(e)
    BY <1>9, <2>2, <2>4
  <2>7. name \in NameSet(e)
    BY <1>5, <2>3, <2>4
  <2>8. QED
    BY <2>5, <2>6, <2>7
<1>11. ASSUME NEW k \in 1 .. Len(e.vars)
       PROVE  Put(c, name, f)[e.vars[k].name] = ValuesOf(e, k)
  <2>1. CASE k = i
    BY <1>5, <1>6, <2>1 DEF Put
  <2>2. CASE k # i
    <3>1. k \in 1 .. n /\ k \in 1 .. Len(d.vars)
      BY <1>3, <1>4, <1>5, <2>2
    <3>2. e.vars[k].name # name /\ e.vars[k].name = d.vars[k].name
      BY <1>4, <1>9, <3>1
    <3>3. SamePart(d, k, e, k)
      BY <1>3, <3>1 DEF SamePart, Place
    <3>4. ValuesOf(e, k) = ValuesOf(d, k)
      BY <1>2, <3>1, <3>3, SameValues
    <3>5. c[d.vars[k].name] = ValuesOf(d, k) /\ d.vars[k].name \in DOMAIN c
      BY <1>4, <1>7, <3>1 DEF Depicts, NameSet
    <3>6. QED
      BY <3>2, <3>4, <3>5 DEF Put
  <2>3. QED
    BY <2>1, <2>2
<1>12. Depicts(Put(c, name, f), e)
  <2>1. DOMAIN Put(c, name, f) = NameSet(e)
    BY <1>7, <1>10 DEF Put, Depicts
  <2>2. Put(c, name, f) = [x \in DOMAIN Put(c, name, f) |-> Put(c, name, f)[x]]
    BY DEF Put
  <2>3. QED
    BY <1>11, <2>1, <2>2 DEF Depicts
<1>13. Contents(e) = Put(c, name, f)
  BY <1>2, <1>12, DepictedOnce
<1>14. DOMAIN ValuesOf(e, i) = {}
  <2>1. Describes(ValuesOf(e, i), e, i)
    BY <1>2, <1>5, ValuesAre
  <2>2. \A x \in DOMAIN ValuesOf(e, i) : \E h \in 1 .. e.vars[i].card : Place(e, i, h).value = x
    BY <2>1 DEF Describes
  <2>3. 1 .. e.vars[i].card = {}
    BY <1>5
  <2>4. QED
    BY <2>2, <2>3
<1>15. QED
  BY <1>2, <1>5, <1>6, <1>13, <1>14

(* The variables behind a deleted one move, and keep their values.          *)
LEMMA DropVariableDrops ==
  ASSUME NEW d, Sound(d), NEW i, i \in 1 .. Len(d.vars), NEW name, name = d.vars[i].name,
         NEW e, e = DropVariable(d, i)
  PROVE  Sound(e) /\ Contents(e) = Drop(Contents(d), name)
<1>1. d \in DictOver(Probabilities) /\ Layout(d)
  BY DEF Sound
<1>2. Sound(e)
  BY <1>1, DropVariableKeeps DEF Sound
<1>3. PICK n \in Nat : n = Len(d.vars) /\ DOMAIN d.vars = 1 .. n /\ d.vars \in Seq(Variable)
  BY <1>1, DictFields
<1>4. PICK vs : vs = RemoveAt(d.vars, i)
  OBVIOUS
<1>5. Len(vs) = n - 1 /\ \A k \in 1 .. n - 1 : vs[k] = IF k < i THEN d.vars[k] ELSE d.vars[k + 1]
  <2>1. /\ Len(vs) = Len(d.vars) - 1
        /\ \A k \in 1 .. Len(d.vars) - 1 : vs[k] = IF k < i THEN d.vars[k] ELSE d.vars[k + 1]
    BY <1>3, <1>4, RemoveAtIs
  <2>2. QED
    BY <1>3, <2>1
<1>6. e.vars = vs /\ e.vals = d.vals
  BY <1>1, <1>4 DEF DropVariable, DictOver
<1>7. DOMAIN e.vars = 1 .. n - 1 /\ Len(e.vars) = n - 1
  BY <1>2, <1>5, <1>6, DictFields DEF Sound
<1>8. ASSUME NEW k \in 1 .. n - 1
      PROVE  \E l \in 1 .. n : l # i /\ e.vars[k] = d.vars[l]
  <2>1. k \in 1 .. n /\ k + 1 \in 1 .. n /\ (k < i => k # i) /\ (~(k < i) => k + 1 # i)
    BY <1>3
  <2>2. QED
    BY <1>5, <1>6, <2>1
<1>9. ASSUME NEW l \in 1 .. n, l # i
      PROVE  \E k \in 1 .. n - 1 : e.vars[k] = d.vars[l]
  <2>1. CASE l < i
    <3>1. l \in 1 .. n - 1
      BY <1>3, <2>1
    <3>2. QED
      BY <1>5, <1>6, <2>1, <3>1
  <2>2. CASE ~(l < i)
    <3>1. l - 1 \in 1 .. n - 1 /\ ~(l - 1 < i) /\ l - 1 + 1 = l
      BY <1>3, <1>9, <2>2
    <3>2. QED
      BY <1>5, <1>6, <3>1
  <2>3. QED
    BY <2>1, <2>2
<1>10. \A l \in 1 .. n : l # i => d.vars[l].name # name
  BY <1>1, <1>3 DEF Layout, NamesDiffer
<1>11. NameSet(e) = NameSet(d) \ {name}
  <2>1. /\ NameSet(e) = {e.vars[k].name : k \in 1 .. n - 1}
        /\ NameSet(d) = {d.vars[k].name : k \in 1 .. n}
    BY <1>3, <1>7 DEF NameSet
  <2>2. \A x \in NameSet(e) : x \in NameSet(d) /\ x # name
    BY <1>8, <1>10, <2>1
  <2>3. \A x \in NameSet(d) : x # name => x \in NameSet(e)
    <3>1. ASSUME NEW x \in NameSet(d), x # name
          PROVE  x \in NameSet(e)
      <4>1. PICK l \in 1 .. n : x = d.vars[l].name
        BY <2>1
      <4>2. l # i
        BY <3>1, <4>1
      <4>3. PICK k \in 1 .. n - 1 : e.vars[k] = d.vars[l]
        BY <1>9, <4>2
      <4>4. QED
        BY <2>1, <4>1, <4>3
    <3>2. QED
      BY <3>1
  <2>4. QED
    BY <2>2, <2>3
<1>12. PICK c : c = Contents(d)
  OBVIOUS
<1>13. Depicts(c, d)
  BY <1>12, ContentsDepict
<1>14. ASSUME NEW k \in 1 .. Len(e.vars)
       PROVE  Drop(c, name)[e.vars[k].name] = ValuesOf(e, k)
  <2>1. PICK l \in 1 .. n : l # i /\ e.vars[k] = d.vars[l]
    BY <1>7, <1>8
  <2>2. SamePart(d, l, e, k)
    BY <1>6, <2>1 DEF SamePart, Place
  <2>3. ValuesOf(e, k) = ValuesOf(d, l)
    BY <1>2, <1>3, <2>1, <2>2, SameValues
  <2>4. c[d.vars[l].name] = ValuesOf(d, l) /\ d.vars[l].name \in DOMAIN c
    BY <1>3, <1>13 DEF Depicts, NameSet
  <2>5. QED
    BY <1>10, <2>1, <2>3, <2>4 DEF Drop
<1>15. Depicts(Drop(c, name), e)
  <2>1. DOMAIN Drop(c, name) = NameSet(e)
    BY <1>11, <1>13 DEF Drop, Depicts
  <2>2. Drop(c, name) = [x \in DOMAIN Drop(c, name) |-> Drop(c, name)[x]]
    BY DEF Drop
  <2>3. QED
    BY <1>14, <2>1, <2>2 DEF Depicts
<1>16. QED
  BY <1>2, <1>12, <1>15, DepictedOnce

(* Packing copies the segments, values and all.                             *)
LEMMA ReorganizeContents ==
  ASSUME NEW d, Sound(d), NEW e, e = Reorganize(d)
  PROVE  Sound(e) /\ Contents(e) = Contents(d)
<1>1. d \in DictOver(Probabilities) /\ Layout(d) /\ Inside(d)
  BY DEF Sound, Layout
<1>2. /\ Sound(e) /\ Len(e.vars) = Len(d.vars)
      /\ \A i \in 1 .. Len(d.vars) :
           e.vars[i].name = d.vars[i].name /\ e.vars[i].card = d.vars[i].card
  BY <1>1, ReorganizeKeeps DEF Sound
<1>3. PICK n \in Nat : n = Len(d.vars) /\ DOMAIN d.vars = 1 .. n /\ DOMAIN e.vars = 1 .. n
  BY <1>1, <1>2, DictFields DEF Sound
<1>4. PICK g : Packs(g, d, [value: Nat, prob: Probabilities]) /\ e = Packed(d, g)
  BY <1>1, ReorganizeUnfolds
<1>5. \A j \in 0 .. n : Laid(g, d, j)
  BY <1>1, <1>3, <1>4, Packing
<1>6. e.vals = g[n] /\ \A i \in 1 .. n : e.vars[i].offset = Len(g[i - 1])
  <2>1. e.vals = g[n] /\ e.vars = [i \in 1 .. n |-> [d.vars[i] EXCEPT !.offset = Len(g[i - 1])]]
    BY <1>1, <1>3, <1>4 DEF Packed, DictOver
  <2>2. \A i \in 1 .. n : d.vars[i] \in Variable
    BY <1>1, <1>3, DictFields
  <2>3. ASSUME NEW i \in 1 .. n
        PROVE  e.vars[i].offset = Len(g[i - 1])
    <3>1. e.vars[i] = [d.vars[i] EXCEPT !.offset = Len(g[i - 1])]
      BY <2>1
    <3>2. PICK v \in Variable : v = d.vars[i]
      BY <2>2
    <3>3. QED
      BY <3>1, <3>2 DEF Variable
  <2>4. QED
    BY <2>1, <2>3
<1>7. ASSUME NEW i \in 1 .. n, NEW h \in 1 .. d.vars[i].card
      PROVE  Place(e, i, h) = Place(d, i, h)
  <2>1. i \in 0 .. n /\ n \in 0 .. n /\ i - 1 \in 0 .. n /\ i # 0
    OBVIOUS
  <2>2. Laid(g, d, i) /\ Laid(g, d, n)
    BY <1>5, <2>1
  <2>3. PICK a \in Nat, b \in Nat, c \in Nat :
          Len(g[i - 1]) = a /\ Len(g[i]) = b /\ d.vars[i].card = c
    <3>1. /\ g[i] \in Seq([value: Nat, prob: Probabilities])
          /\ g[i - 1] \in Seq([value: Nat, prob: Probabilities])
      BY <1>3, <1>4, <2>1 DEF Packs
    <3>2. Len(g[i]) \in Nat /\ Len(g[i - 1]) \in Nat
      BY <3>1, LenProperties
    <3>3. d.vars[i].card \in Nat
      BY <1>1, <1>3, DictFields
    <3>4. QED
      BY <3>2, <3>3
  <2>4. b = a + c /\ g[i][a + h] = d.vals[d.vars[i].offset + h]
    BY <2>1, <2>2, <2>3 DEF Laid
  <2>5. a + h \in 1 .. b
    BY <2>3, <2>4
  <2>6. g[n][a + h] = g[i][a + h]
    BY <2>1, <2>2, <2>3, <2>5 DEF Laid
  <2>7. QED
    BY <1>6, <2>3, <2>4, <2>6 DEF Place
<1>8. \A i \in 1 .. n : ValuesOf(e, i) = ValuesOf(d, i)
  <2>1. ASSUME NEW i \in 1 .. n
        PROVE  ValuesOf(e, i) = ValuesOf(d, i)
    <3>1. SamePart(d, i, e, i)
      BY <1>2, <1>3, <1>7 DEF SamePart
    <3>2. i \in 1 .. Len(d.vars) /\ i \in 1 .. Len(e.vars)
      BY <1>2, <1>3
    <3>3. QED
      BY <1>2, <3>1, <3>2, SameValues
  <2>2. QED
    BY <2>1
<1>9. PICK c : c = Contents(d)
  OBVIOUS
<1>10. Depicts(c, d)
  BY <1>9, ContentsDepict
<1>11. NameSet(e) = NameSet(d)
  BY <1>2, <1>3 DEF NameSet
<1>12. Depicts(c, e)
  BY <1>2, <1>3, <1>8, <1>10, <1>11 DEF Depicts
<1>13. QED
  BY <1>2, <1>9, <1>12, DepictedOnce

-----------------------------------------------------------------------------
(* The refinement of DictMap.                                              *)

(* What Map!After starts from, and what one more definition makes of it.    *)
AtFirst(how, old) == IF how = "in" THEN {Map!Nowhere} ELSE old
AndThen(how, defs, ms, i) ==
  {Map!Changed(how, defs, map, i) : map \in {m \in ms : Map!Legal(how, m, defs[i])}}

(* So Map!After goes on from definition to definition.                      *)
LEMMA AfterUnfolds ==
  ASSUME NEW how, NEW defs, NEW old, Len(defs) \in Nat
  PROVE  /\ Map!After(how, defs, old)[0] = AtFirst(how, old)
         /\ \A i \in 1 .. Len(defs) :
              Map!After(how, defs, old)[i] = AndThen(how, defs, Map!After(how, defs, old)[i - 1], i)
<1> DEFINE n == Len(defs)
           step(h, i) == IF i = 0 THEN AtFirst(how, old) ELSE AndThen(how, defs, h[i - 1], i)
           Some(k) == \E h : h = [i \in 0 .. k |-> step(h, i)]
           T == {k \in Nat : Some(k)}
<1>1. Some(0)
  <2>1. PICK h : h = [i \in 0 .. 0 |-> AtFirst(how, old)]
    OBVIOUS
  <2>2. \A i \in 0 .. 0 : i = 0
    OBVIOUS
  <2>3. \A i \in 0 .. 0 : step(h, i) = AtFirst(how, old)
    BY <2>2
  <2> HIDE DEF step
  <2>4. h = [i \in 0 .. 0 |-> step(h, i)]
    BY <2>1, <2>3
  <2>5. QED
    BY <2>4
<1>2. ASSUME NEW k \in Nat, k # 0, Some(k - 1)
      PROVE  Some(k)
  <2>1. PICK g : g = [i \in 0 .. k - 1 |-> step(g, i)]
    BY <1>2
  <2>2. PICK h : h = [i \in 0 .. k |-> IF i = k THEN step(g, k) ELSE g[i]]
    OBVIOUS
  <2>3. \A i \in 0 .. k : i # 0 => h[i - 1] = g[i - 1]
    BY <1>2, <2>2
  <2>4. \A i \in 0 .. k : step(h, i) = step(g, i)
    BY <2>3
  <2>5. \A i \in 0 .. k : i # k => i \in 0 .. k - 1
    OBVIOUS
  <2> HIDE DEF step
  <2>6. \A i \in 0 .. k - 1 : g[i] = step(g, i)
    BY <2>1
  <2>7. \A i \in 0 .. k : h[i] = step(h, i)
    BY <2>2, <2>4, <2>5, <2>6
  <2>8. h = [i \in 0 .. k |-> step(h, i)]
    BY <2>2, <2>7
  <2>9. QED
    BY <2>8
<1>3. \A k \in Nat : k \in T
  <2> HIDE DEF Some
  <2>1. ASSUME NEW k \in Nat, \A m \in Nat : m < k => m \in T PROVE k \in T
    <3>1. CASE k = 0
      BY <1>1, <3>1
    <3>2. CASE k # 0
      <4>1. k - 1 \in Nat /\ k - 1 < k
        BY <3>2
      <4>2. QED
        BY <1>2, <2>1, <3>2, <4>1
    <3>3. QED
      BY <3>1, <3>2
  <2> HIDE DEF T
  <2>2. QED
    BY <2>1, Strongly
<1>4. Some(n)
  <2> HIDE DEF Some
  <2>1. QED
    BY <1>3
<1>5. PICK h : h = Map!After(how, defs, old) /\ h = [i \in 0 .. n |-> step(h, i)]
  BY <1>4 DEF Map!After, AtFirst, AndThen
<1>6. \A i \in 0 .. n : h[i] = step(h, i)
  <2> HIDE DEF step
  <2>1. QED
    BY <1>5
<1>7. h[0] = AtFirst(how, old)
  BY <1>6
<1>8. \A i \in 1 .. n : h[i] = AndThen(how, defs, h[i - 1], i)
  BY <1>6
<1>9. QED
  BY <1>5, <1>7, <1>8

(* The operators of DictMap are those of the proofs above.                  *)
LEMMA PutIs == \A f, x, y : Map!Extend(f, x, y) = Put(f, x, y)
BY DEF Map!Extend, Put

(* Taking a name away is Drop.                                              *)
LEMMA DropIs == \A f, x : Map!Without(f, x) = Drop(f, x)
BY DEF Map!Without, Drop

(* The fractions of DictMap are those of DictValue.                         *)
LEMMA MapGcd == Map!Gcd = Gcd
BY DEF Map!Gcd, Gcd

(* They are reduced in the same way.                                        *)
LEMMA MapFrac == ASSUME NEW a, NEW b PROVE Map!Frac(a, b) = Frac(a, b)
BY MapGcd DEF Map!Frac, Frac, Map!NaN, NaN

(* They are added in the same way.                                          *)
LEMMA MapPlus == ASSUME NEW p, NEW q PROVE Map!Plus(p, q) = Plus(p, q)
BY MapGcd, MapFrac DEF Map!Plus, Plus, Map!NaN, NaN

(* They are scaled in the same way.                                         *)
LEMMA ScaledIs == ASSUME NEW f PROVE Map!Scaled(f) = Scale(f)
<1>1. FoldSet(LAMBDA val, sum : Map!Plus(sum, f[val]), <<0, 1>>, DOMAIN f) = SumOf(f)
  BY MapPlus DEF SumOf, FoldSet, MapThenFoldSet
<1>2. Map!FoldSet(LAMBDA val, sum : Map!Plus(sum, f[val]), <<0, 1>>, DOMAIN f) = SumOf(f)
  BY <1>1 DEF FoldSet, MapThenFoldSet, Map!FoldSet, Map!MapThenFoldSet
<1>3. \A p, t : Map!DividedBy(p, t) = DividedBy(p, t)
  BY MapFrac DEF Map!DividedBy, DividedBy
<1>4. QED
  BY <1>2, <1>3 DEF Map!Scaled, Scale, Map!One, One, Map!NaN, NaN

(* The dictionary in which the variable of the last definition is           *)
(* normalized, if its run ends there.                                       *)
Settled(d, i, ends) == IF ends THEN Normalize(d, i) ELSE d

ScaledIf(w, ends) == IF ends THEN Scale(w) ELSE w

(* Variable i of s, called name, has the distribution w in e.               *)
Reworks(s, i, name, e, w) ==
  /\ Sound(s) /\ i \in 1 .. Len(s.vars) /\ name = s.vars[i].name
  /\ Sound(e) /\ OnlyChanges(s, i, e) /\ w = ValuesOf(e, i)

(* Then the map has it, and scaled if the run of the variable ends.         *)
LEMMA OneStep ==
  ASSUME NEW s, NEW i, NEW name, NEW e, NEW w, Reworks(s, i, name, e, w), NEW ends
  PROVE  Contents(Settled(e, i, ends)) = Put(Contents(s), name, ScaledIf(w, ends))
<1> USE DEF ScaledIf, Reworks
<1>1. Contents(e) = Put(Contents(s), name, w)
  BY OneChanged
<1>2. CASE ~ends
  BY <1>1, <1>2 DEF Settled
<1>3. CASE ends
  <2>1. PICK n : n = Normalize(e, i)
    OBVIOUS
  <2>2. i \in 1 .. Len(e.vars) /\ e.vars[i].name = name
    BY DEF OnlyChanges
  <2>3. Sound(n) /\ OnlyChanges(e, i, n) /\ ValuesOf(n, i) = Scale(w)
    BY <2>1, <2>2, NormalizeScales
  <2>4. Contents(n) = Put(Contents(e), name, Scale(w))
    BY <2>2, <2>3, OneChanged
  <2>5. Contents(n) = Put(Contents(s), name, Scale(w))
    BY <1>1, <2>4, PutPut
  <2>6. QED
    BY <1>3, <2>1, <2>5 DEF Settled
<1>4. QED
  BY <1>2, <1>3

(* A dictionary between two definitions.                                    *)
LEMMA LegalSound ==
  ASSUME NEW d, Legal(d)
  PROVE  Sound(d) /\ \A i \in 1 .. Len(d.vars) : d.vars[i].card > 0
BY DEF Legal, Sound

(* What a user of the map finds under a name.                               *)
LEMMA DistributionFound ==
  ASSUME NEW s, Sound(s), NEW name, NEW f, IsPlaceOf(f, s.vars, name)
  PROVE  /\ f # 0 => /\ f \in 1 .. Len(s.vars)
                     /\ Map!DistributionOf(Contents(s), name) = ValuesOf(s, f)
         /\ f = 0 => /\ name \notin DOMAIN Contents(s)
                     /\ Map!DistributionOf(Contents(s), name) = Map!Nowhere
<1>1. PICK c : c = Contents(s)
  OBVIOUS
<1>2. Depicts(c, s)
  BY <1>1, ContentsDepict
<1>3. DOMAIN s.vars = 1 .. Len(s.vars) /\ Len(s.vars) \in Nat
  BY DictFields DEF Sound
<1>4. CASE f # 0
  <2>1. f \in 1 .. Len(s.vars) /\ s.vars[f].name = name
    BY <1>3, <1>4 DEF IsPlaceOf
  <2>2. name \in DOMAIN c /\ c[name] = ValuesOf(s, f)
    BY <1>2, <1>3, <2>1 DEF Depicts, NameSet
  <2>3. QED
    BY <1>1, <1>4, <2>1, <2>2 DEF Map!DistributionOf
<1>5. CASE f = 0
  <2>1. name \notin DOMAIN c
    BY <1>2, <1>5 DEF IsPlaceOf, Depicts, NameSet
  <2>2. QED
    BY <1>1, <1>5, <2>1 DEF Map!DistributionOf
<1>6. QED
  BY <1>4, <1>5

(* A value is present if the distribution has it.                           *)
LEMMA PresentIs ==
  ASSUME CallInv, def.name \in Nat
  PROVE  /\ Legal(Switched) /\ Sound(Switched)
         /\ IsPlaceOf(Found, Switched.vars, def.name)
         /\ Found = 0 => ~Present
         /\ Found # 0 =>
              /\ Found \in 1 .. Len(Switched.vars)
              /\ Present <=> def.val \in DOMAIN ValuesOf(Switched, Found)
              /\ DOMAIN ValuesOf(Switched, Found) # {}
              /\ DOMAIN ValuesOf(Switched, Found) \subseteq Nat
<1>1. PICK s, f, val : s = Switched /\ f = Found /\ val = def.val
  OBVIOUS
<1>2. Legal(s) /\ Sound(s) /\ \A i \in 1 .. Len(s.vars) : s.vars[i].card > 0
  BY <1>1, SwitchedLegal, LegalSound
<1>3. IsPlaceOf(f, s.vars, def.name)
  BY <1>1, FoundFinds
<1>4. Found = 0 => ~Present
  BY DEF Present
<1>5. ASSUME f # 0
      PROVE  /\ f \in 1 .. Len(s.vars)
             /\ Present <=> val \in DOMAIN ValuesOf(s, f)
             /\ DOMAIN ValuesOf(s, f) # {} /\ DOMAIN ValuesOf(s, f) \subseteq Nat
  <2>1. f \in 1 .. Len(s.vars)
    BY <1>2, <1>3, <1>5, DictFields DEF IsPlaceOf, Sound
  <2>2. PICK g : g = ValuesOf(s, f) /\ Describes(g, s, f)
    BY <1>2, <2>1, ValuesAre
  <2>3. DOMAIN g = {s.vals[j].value : j \in Segment(s.vars[f])}
    BY <2>2 DEF ValuesOf
  <2>4. Present => val \in DOMAIN g
    <3>1. CASE Present
      <4>1. FoundVal \in Segment(s.vars[f])
        BY <1>1, <3>1, PresentMeans
      <4>2. s.vars[f] \in Variable
        BY <1>2, <2>1, DictFields DEF Sound
      <4>3. PICK v, k : v = s.vars[f] /\ k = ValIndex(s, v, val)
        OBVIOUS
      <4>4. k # 0 /\ k \in Segment(v)
        BY <1>1, <3>1, <4>1, <4>3 DEF Present, FoundVal
      <4>5. s.vals[k].value = val
        BY <4>2, <4>3, <4>4, ValIndexFinds
      <4>6. QED
        BY <2>3, <4>3, <4>4, <4>5
    <3>2. QED
      BY <3>1
  <2>5. ~Present => val \notin DOMAIN g
    BY <1>1, <1>5, <2>3, PresentMeans
  <2>6. DOMAIN g # {}
    <3>1. s.vars[f].card > 0 /\ s.vars[f].card \in Nat
      BY <1>2, <2>1, DictFields DEF Sound
    <3>2. 1 \in 1 .. s.vars[f].card
      BY <3>1
    <3>3. QED
      BY <2>2, <3>2 DEF Describes
  <2>7. DOMAIN g \subseteq Nat
    BY <1>2, <2>1, <2>2, DistributionIs
  <2>8. QED
    BY <2>1, <2>2, <2>4, <2>5, <2>6, <2>7
<1>6. QED
  BY <1>1, <1>2, <1>3, <1>4, <1>5

(* The definitions that are refused.                                        *)
Refused ==
  \/ Malformed
  \/ Adds /\ Present
  \/ mode = "upd" /\ ~Present
  \/ mode = "del" /\ (Found = 0 \/ (def.val # Wildcard /\ ~Present))

(* They are those that no map takes.                                        *)
LEMMA RefusedIllegal ==
  ASSUME CallInv, at < Len(text)
  PROVE  Refused <=> ~Map!Legal(mode, Contents(Switched), def)
<1>1. def.name \in Nat /\ def.val \in {Wildcard, NoValue} \cup Nat
  BY DefinitionIs
<1>2. mode \in {"in", "add", "del", "upd"}
  BY DEF CallInv
<1>3. PICK s, f, val, d, g, how :
        /\ s = Switched /\ f = Found /\ val = def.val /\ d = def /\ how = mode
        /\ g = Map!DistributionOf(Contents(s), d.name)
  OBVIOUS
<1>4. f # 0 => /\ g = ValuesOf(s, f) /\ (Present <=> val \in DOMAIN g)
               /\ DOMAIN g # {} /\ DOMAIN g \subseteq Nat
  BY <1>1, <1>3, PresentIs, DistributionFound
<1>5. f = 0 => ~Present /\ DOMAIN g = {}
  <2>1. DOMAIN Map!Nowhere = {}
    BY DEF Map!Nowhere
  <2>2. QED
    BY <1>1, <1>3, <2>1, PresentIs, DistributionFound
<1>6. (Present <=> val \in DOMAIN g) /\ DOMAIN g \subseteq Nat /\ (f = 0 <=> DOMAIN g = {})
  BY <1>4, <1>5
<1>7. Map!Legal(how, Contents(s), d) =
        CASE how \in {"in", "add"} -> val \in Nat /\ val \notin DOMAIN g
          [] how = "upd"           -> val \in Nat /\ val \in DOMAIN g
          [] how = "del"           -> DOMAIN g # {} /\ val \in DOMAIN g \cup {Wildcard}
  BY <1>3 DEF Map!Legal
<1>8. Malformed <=> (val = NoValue \/ (val = Wildcard /\ how # "del"))
  BY <1>3 DEF Malformed
<1>9. /\ val \in {Wildcard, NoValue} \cup Nat
      /\ Wildcard \notin Nat /\ NoValue \notin Nat /\ NoValue # Wildcard
  BY <1>1, <1>3, MarkersAssumption
<1>10. CASE how \in {"in", "add"}
  <2>1. Refused <=> (Malformed \/ Present)
    BY <1>3, <1>10 DEF Refused, Adds
  <2>2. Map!Legal(how, Contents(s), d) = (val \in Nat /\ val \notin DOMAIN g)
    BY <1>7, <1>10
  <2>3. Malformed <=> val \notin Nat
    BY <1>8, <1>9, <1>10
  <2>4. QED
    BY <1>3, <1>6, <2>1, <2>2, <2>3
<1>11. CASE how = "upd"
  <2>1. Refused <=> (Malformed \/ ~Present)
    BY <1>3, <1>11 DEF Refused, Adds
  <2>2. Map!Legal(how, Contents(s), d) = (val \in Nat /\ val \in DOMAIN g)
    BY <1>7, <1>11
  <2>3. Malformed <=> val \notin Nat
    BY <1>8, <1>9, <1>11
  <2>4. QED
    BY <1>3, <1>6, <2>1, <2>2, <2>3
<1>12. CASE how = "del"
  <2>1. Refused <=> (Malformed \/ f = 0 \/ (val # Wildcard /\ ~Present))
    BY <1>3, <1>12 DEF Refused, Adds
  <2>2. Map!Legal(how, Contents(s), d) = (DOMAIN g # {} /\ val \in DOMAIN g \cup {Wildcard})
    BY <1>7, <1>12
  <2>3. Malformed <=> val = NoValue
    BY <1>8, <1>12
  <2>4. Refused <=> (val = NoValue \/ DOMAIN g = {} \/ (val # Wildcard /\ val \notin DOMAIN g))
    BY <1>6, <2>1, <2>3
  <2>5. val = NoValue => val \notin DOMAIN g /\ val # Wildcard
    BY <1>6, <1>9
  <2>6. Refused <=> (DOMAIN g = {} \/ val \notin DOMAIN g \cup {Wildcard})
    BY <2>4, <2>5
  <2>7. Refused <=> ~Map!Legal(how, Contents(s), d)
    BY <2>2, <2>6
  <2>8. QED
    BY <1>3, <2>7
<1>13. QED
  BY <1>2, <1>3, <1>10, <1>11, <1>12

(* What a definition that leaves the distribution w does to the map.        *)
LEMMA ChangedIs ==
  ASSUME NEW how, NEW defs, NEW m, NEW i, NEW d, d = defs[i],
         NEW w, w = Map!Defined(how, Map!DistributionOf(m, d.name), d)
  PROVE  Map!Changed(how, defs, m, i) =
           IF DOMAIN w = {} THEN Drop(m, d.name)
           ELSE Put(m, d.name, ScaledIf(w, Map!EndsRun(defs, i)))
BY PutIs, DropIs, ScaledIs DEF Map!Changed, ScaledIf

(* The dictionary after n definitions, once the run that ends there is      *)
(* normalized.                                                              *)
Ended(d, p, defs, n) == Settled(d, p, p # 0 /\ Map!EndsRun(defs, n))

(* What a step makes of the dictionary is what it makes of the map.         *)
Follows(e, p) ==
  /\ Contents(Ended(e, p, text, at + 1)) = Map!Changed(mode, text, Contents(Switched), at + 1)
  /\ p # 0 => e.vars[p].name = def.name

(* The step of a variable that keeps a value.                               *)
LEMMA OneFollows ==
  ASSUME NEW s, Sound(s), NEW i, i \in 1 .. Len(s.vars), s.vars[i].name = def.name,
         NEW e, Sound(e), OnlyChanges(s, i, e), NEW w, w = ValuesOf(e, i), DOMAIN w # {},
         NEW m, Contents(s) = m \/ \E y : Contents(s) = Put(m, def.name, y),
         m = Contents(Switched),
         w = Map!Defined(mode, Map!DistributionOf(m, def.name), def)
  PROVE  Follows(e, i)
<1>1. PICK ends, name : ends = Map!EndsRun(text, at + 1) /\ name = def.name
  OBVIOUS
<1>2. i # 0 /\ e.vars[i].name = name
  <2>1. i # 0
    BY DictFields DEF Sound
  <2>2. QED
    BY <1>1, <2>1 DEF OnlyChanges
<1>3. Contents(Settled(e, i, ends)) = Put(Contents(s), name, ScaledIf(w, ends))
  <2>1. Reworks(s, i, name, e, w)
    BY <1>1 DEF Reworks
  <2>2. QED
    BY <2>1, OneStep
<1>4. Put(Contents(s), name, ScaledIf(w, ends)) = Put(m, name, ScaledIf(w, ends))
  BY <1>1, PutPut
<1>5. Map!Changed(mode, text, m, at + 1) = Put(m, name, ScaledIf(w, ends))
  <2>1. PICK how, defs, n, d : how = mode /\ defs = text /\ n = at + 1 /\ d = def /\ d = defs[n]
    BY DEF def
  <2>2. w = Map!Defined(how, Map!DistributionOf(m, d.name), d)
    BY <2>1
  <2>3. Map!Changed(how, defs, m, n) =
           IF DOMAIN w = {} THEN Drop(m, d.name)
           ELSE Put(m, d.name, ScaledIf(w, Map!EndsRun(defs, n)))
    BY <2>1, <2>2, ChangedIs
  <2>4. QED
    BY <1>1, <2>1, <2>3
<1>6. Ended(e, i, text, at + 1) = Settled(e, i, ends)
  <2>1. (i # 0 /\ Map!EndsRun(text, at + 1)) = ends
    BY <1>1, <1>2 DEF Map!EndsRun
  <2>2. QED
    BY <2>1 DEF Ended
<1>7. QED
  BY <1>1, <1>2, <1>3, <1>4, <1>5, <1>6 DEF Follows

(* DICT_ADD, also where it adds the variable itself.                        *)
LEMMA AddFollows ==
  ASSUME CallInv, Add
  PROVE  Follows(dict', varp')
<1>1. at < Len(text) /\ ~Malformed /\ Adds /\ ~Present
  BY DEF Add, Defining
<1>2. def.name \in Nat /\ def.val \in Nat /\ def.prob \in Probabilities
  BY <1>1, DefinitionIs DEF Malformed, Adds
<1>3. PICK s, f, d, m, g :
        /\ s = Switched /\ f = Found /\ d = def
        /\ m = Contents(s) /\ g = Map!DistributionOf(m, d.name)
  OBVIOUS
<1>4. /\ Sound(s) /\ \A k \in 1 .. Len(s.vars) : s.vars[k].card > 0
      /\ IsPlaceOf(f, s.vars, d.name)
  BY <1>2, <1>3, PresentIs, LegalSound
<1>5. PICK b, i : /\ b = IF f # 0 THEN s ELSE AddVariable(s, d.name)
                  /\ i = IF f # 0 THEN f ELSE Len(b.vars)
                  /\ dict' = AddValue(b, i, d.val, d.prob) /\ varp' = i
  BY <1>3 DEF Add
<1>6. PICK w : w = Map!Defined(mode, g, d)
  OBVIOUS
<1>7. w = Put(g, d.val, d.prob) /\ DOMAIN w # {}
  <2>1. d.val # Wildcard /\ mode # "del"
    BY <1>1, <1>2, <1>3, MarkersAssumption DEF Adds
  <2>2. w = Put(g, d.val, d.prob)
    BY <1>6, <2>1, PutIs DEF Map!Defined
  <2>3. QED
    BY <2>2 DEF Put
<1>8. /\ Sound(b) /\ i \in 1 .. Len(b.vars) /\ b.vars[i].name = d.name
      /\ Contents(b) = m \/ \E y : Contents(b) = Put(m, d.name, y)
      /\ Put(ValuesOf(b, i), d.val, d.prob) = Put(g, d.val, d.prob)
      /\ \A j \in Segment(b.vars[i]) : b.vals[j].value # d.val
      /\ \A k \in 1 .. Len(b.vars) : k # i => b.vars[k].card > 0
  <2>1. CASE f # 0
    <3>1. b = s /\ i = f
      BY <1>5, <2>1
    <3>2. f \in 1 .. Len(s.vars) /\ g = ValuesOf(s, f) /\ s.vars[f].name = d.name
      BY <1>3, <1>4, <2>1, DistributionFound DEF IsPlaceOf
    <3>3. \A j \in Segment(s.vars[f]) : s.vals[j].value # d.val
      BY <1>1, <1>2, <1>3, <2>1, PresentMeans
    <3>4. QED
      BY <1>3, <1>4, <3>1, <3>2, <3>3
  <2>2. CASE f = 0
    <3>1. b = AddVariable(s, d.name) /\ i = Len(b.vars)
      BY <1>5, <2>2
    <3>2. \A k \in DOMAIN s.vars : s.vars[k].name # d.name
      BY <1>4, <2>2 DEF IsPlaceOf
    <3>3. d.name \in Nat
      BY <1>2, <1>3
    <3>4. /\ Sound(b) /\ i \in 1 .. Len(b.vars) /\ b.vars[i].name = d.name /\ b.vars[i].card = 0
          /\ DOMAIN ValuesOf(b, i) = {}
          /\ Contents(b) = Put(m, d.name, ValuesOf(b, i))
      BY <1>3, <1>4, <3>1, <3>2, <3>3, AddVariablePuts
    <3>5. g = Map!Nowhere
      BY <1>3, <1>4, <2>2, DistributionFound
    <3>6. Put(ValuesOf(b, i), d.val, d.prob) = Put(g, d.val, d.prob)
      <4>1. DOMAIN g = {}
        BY <3>5 DEF Map!Nowhere
      <4>2. QED
        BY <3>4, <4>1 DEF Put
    <3>7. Segment(b.vars[i]) = {}
      <4>1. b.vars[i].offset \in Nat
        BY <3>4, DictFields DEF Sound
      <4>2. QED
        BY <3>4, <4>1 DEF Segment
    <3>8. \A k \in 1 .. Len(b.vars) : k # i => b.vars[k].card > 0
      <4>1. s \in DictOver(Probabilities)
        BY <1>4 DEF Sound
      <4>2. Len(b.vars) = Len(s.vars) + 1 /\ \A k \in 1 .. Len(s.vars) : b.vars[k] = s.vars[k]
        BY <3>1, <3>3, <4>1, AddVariableIs
      <4>3. PICK n \in Nat : n = Len(s.vars)
        BY <4>1, DictFields
      <4>4. \A k \in 1 .. n + 1 : k # n + 1 => k \in 1 .. n
        OBVIOUS
      <4>5. QED
        BY <1>4, <3>1, <4>2, <4>3, <4>4
    <3>9. QED
      BY <3>4, <3>6, <3>7, <3>8
  <2>3. QED
    BY <2>1, <2>2
<1>9. PICK e : e = dict'
  OBVIOUS
<1>10. d.val \in Nat /\ d.prob \in Probabilities /\ e = AddValue(b, i, d.val, d.prob)
  BY <1>2, <1>3, <1>5, <1>9
<1>11. /\ Sound(e) /\ OnlyChanges(b, i, e)
       /\ ValuesOf(e, i) = Put(ValuesOf(b, i), d.val, d.prob)
  <2>1. PICK val, prob : val = d.val /\ prob = d.prob
    OBVIOUS
  <2>2. val \in Nat /\ prob \in Probabilities /\ e = AddValue(b, i, val, prob)
    BY <1>10, <2>1
  <2>3. MayGet(b, i, val)
    BY <1>8, <2>1 DEF MayGet
  <2>4. Gets(b, i, val, prob, e)
    BY <1>8, <2>2, <2>3, AddValuePuts
  <2>5. QED
    BY <2>1, <2>4 DEF Gets
<1>12. w = ValuesOf(e, i)
  BY <1>7, <1>8, <1>11
<1>13. Follows(e, i)
  BY <1>3, <1>6, <1>7, <1>8, <1>11, <1>12, OneFollows
<1>14. QED
  BY <1>5, <1>9, <1>13

(* What Present says of the dictionary and of the map.                      *)
LEMMA FoundThere ==
  ASSUME CallInv, at < Len(text), Found # 0,
         NEW s, s = Switched, NEW f, f = Found,
         NEW g, g = Map!DistributionOf(Contents(s), def.name)
  PROVE  /\ Sound(s) /\ f \in 1 .. Len(s.vars) /\ s.vars[f].name = def.name
         /\ g = ValuesOf(s, f) /\ Describes(g, s, f)
         /\ Present => /\ AtPlace(FoundVal, s, f)
                       /\ s.vals[FoundVal].value = def.val
<1>1. def.name \in Nat
  BY DefinitionIs
<1>2. Legal(s) /\ Sound(s) /\ IsPlaceOf(f, s.vars, def.name)
  BY <1>1, PresentIs
<1>3. f \in 1 .. Len(s.vars) /\ s.vars[f].name = def.name /\ g = ValuesOf(s, f)
  BY <1>2, DistributionFound DEF IsPlaceOf
<1>4. Describes(g, s, f)
  BY <1>2, <1>3, ValuesAre
<1>5. ASSUME Present
      PROVE  AtPlace(FoundVal, s, f) /\ s.vals[FoundVal].value = def.val
  <2>1. FoundVal \in Segment(s.vars[f])
    BY <1>1, <1>5, PresentMeans
  <2>2. PICK j : j = FoundVal /\ j \in Segment(s.vars[f])
    BY <2>1
  <2>3. AtPlace(j, s, f)
    BY <1>2, <1>3, <2>2, SegmentPlaces
  <2>4. PICK v, val : v = s.vars[f] /\ val = def.val
    OBVIOUS
  <2>5. v \in Variable
    BY <1>2, <1>3, <2>4, DictFields DEF Sound
  <2>6. j = ValIndex(s, v, val) /\ j # 0
    BY <1>5, <2>2, <2>4 DEF FoundVal, Present
  <2>7. s.vals[j].value = val
    BY <2>5, <2>6, ValIndexFinds
  <2>8. QED
    BY <2>2, <2>3, <2>4, <2>7
<1>6. QED
  BY <1>2, <1>3, <1>4, <1>5

(* DICT_UPD.                                                                *)
LEMMA UpdateFollows ==
  ASSUME CallInv, Update
  PROVE  Follows(dict', varp')
<1>1. at < Len(text) /\ ~Malformed /\ mode = "upd" /\ Present /\ Found # 0
  BY DEF Update, Defining, Present
<1>2. def.name \in Nat /\ def.val \in Nat /\ def.prob \in Probabilities
  BY <1>1, DefinitionIs DEF Malformed
<1>3. PICK s, f, g, j, val, prob, e :
        /\ s = Switched /\ f = Found /\ g = Map!DistributionOf(Contents(s), def.name)
        /\ j = FoundVal /\ val = def.val /\ prob = def.prob /\ e = SetProb(s, j, prob)
  OBVIOUS
<1>4. /\ Sound(s) /\ f \in 1 .. Len(s.vars) /\ s.vars[f].name = def.name
      /\ g = ValuesOf(s, f) /\ AtPlace(j, s, f) /\ s.vals[j].value = val
  BY <1>1, <1>3, FoundThere
<1>5. PICK l \in 1 .. s.vars[f].card : j = s.vars[f].offset + l
  BY <1>4 DEF AtPlace
<1>6. prob \in Probabilities
  BY <1>2, <1>3
<1>7. Sound(e) /\ OnlyChanges(s, f, e) /\ ValuesOf(e, f) = Put(g, val, prob)
  BY <1>3, <1>4, <1>5, <1>6, SetProbPuts
<1>8. PICK w : w = Put(g, val, prob) /\ DOMAIN w # {} /\ w = Map!Defined(mode, g, def)
  <2>1. val # Wildcard /\ mode # "del"
    BY <1>1, <1>2, <1>3, MarkersAssumption
  <2>2. Put(g, val, prob) = Map!Defined(mode, g, def)
    BY <1>3, <2>1, PutIs DEF Map!Defined
  <2>3. DOMAIN Put(g, val, prob) # {}
    BY DEF Put
  <2>4. QED
    BY <2>2, <2>3
<1>9. Follows(e, f)
  <2>1. PICK m : m = Contents(s)
    OBVIOUS
  <2>2. w = Map!Defined(mode, Map!DistributionOf(m, def.name), def)
    BY <1>3, <1>8, <2>1
  <2>3. QED
    BY <1>3, <1>4, <1>7, <1>8, <2>1, <2>2, OneFollows
<1>10. dict' = e /\ varp' = f
  BY <1>3 DEF Update
<1>11. QED
  BY <1>9, <1>10

(* DICT_DEL of one value.                                                   *)
LEMMA DeleteValueFollows ==
  ASSUME CallInv, DeleteValue
  PROVE  Follows(dict', varp')
<1>1. /\ at < Len(text) /\ mode = "del" /\ Present /\ Found # 0 /\ def.val # Wildcard
      /\ Switched.vars[Found].card > 1
  BY DEF DeleteValue, Defining, Present
<1>2. PICK s, f, g, j, val, e :
        /\ s = Switched /\ f = Found /\ g = Map!DistributionOf(Contents(s), def.name)
        /\ j = FoundVal /\ val = def.val /\ e = DropValue(s, f, j)
  OBVIOUS
<1>3. /\ Sound(s) /\ f \in 1 .. Len(s.vars) /\ s.vars[f].name = def.name
      /\ g = ValuesOf(s, f) /\ Describes(g, s, f) /\ AtPlace(j, s, f) /\ s.vals[j].value = val
  BY <1>1, <1>2, FoundThere
<1>4. PICK l \in 1 .. s.vars[f].card : j = s.vars[f].offset + l
  BY <1>3 DEF AtPlace
<1>5. Sound(e) /\ OnlyChanges(s, f, e) /\ ValuesOf(e, f) = Drop(g, val)
  BY <1>2, <1>3, <1>4, DropValueDrops
<1>6. PICK w : w = Drop(g, val) /\ DOMAIN w # {} /\ w = Map!Defined(mode, g, def)
  <2>1. Drop(g, val) = Map!Defined(mode, g, def)
    BY <1>1, <1>2, DropIs DEF Map!Defined
  <2>2. PICK c \in Nat : c = s.vars[f].card
    BY <1>3, DictFields DEF Sound
  <2>3. 1 \in 1 .. c /\ 2 \in 1 .. c
    BY <1>1, <1>2, <2>2
  <2>4. Place(s, f, 1).value \in DOMAIN g /\ Place(s, f, 2).value \in DOMAIN g
    BY <1>3, <2>2, <2>3 DEF Describes
  <2>5. Place(s, f, 1).value # Place(s, f, 2).value
    <3>1. PICK h, k : h = 1 /\ k = 2 /\ h \in 1 .. s.vars[f].card /\ k \in 1 .. s.vars[f].card
      BY <2>2, <2>3
    <3>2. Place(s, f, h).value = Place(s, f, k).value => h = k
      BY <1>3, <3>1, PlacesDiffer
    <3>3. QED
      BY <3>1, <3>2
  <2>6. DOMAIN Drop(g, val) # {}
    BY <2>4, <2>5 DEF Drop
  <2>7. QED
    BY <2>1, <2>6
<1>7. Follows(e, f)
  <2>1. PICK m : m = Contents(s)
    OBVIOUS
  <2>2. w = Map!Defined(mode, Map!DistributionOf(m, def.name), def)
    BY <1>2, <1>6, <2>1
  <2>3. QED
    BY <1>2, <1>3, <1>5, <1>6, <2>1, <2>2, OneFollows
<1>8. dict' = e /\ varp' = f
  BY <1>2 DEF DeleteValue
<1>9. QED
  BY <1>7, <1>8

(* DICT_DEL of the whole variable, by wildcard or with its last value.      *)
LEMMA DeleteVariableFollows ==
  ASSUME CallInv, DeleteVariable
  PROVE  Follows(dict', varp')
<1>1. /\ at < Len(text) /\ mode = "del" /\ Found # 0
      /\ def.val = Wildcard \/ (Present /\ Switched.vars[Found].card = 1)
  BY DEF DeleteVariable, Defining
<1>2. def.name \in Nat
  BY <1>1, DefinitionIs
<1>3. PICK s, f, g, j, val, name, i, e :
        /\ s = Switched /\ f = Found /\ g = Map!DistributionOf(Contents(s), def.name)
        /\ j = FoundVal /\ val = def.val /\ name = def.name /\ i = VarIndex(s, name)
        /\ e = DropVariable(s, i)
  OBVIOUS
<1>4. /\ Sound(s) /\ f \in 1 .. Len(s.vars) /\ s.vars[f].name = name
      /\ g = ValuesOf(s, f) /\ Describes(g, s, f)
      /\ Present => AtPlace(j, s, f) /\ s.vals[j].value = val
  BY <1>1, <1>3, FoundThere
<1>5. i = f
  <2>1. /\ s.vars \in Seq(Variable) /\ DOMAIN s.vars = 1 .. Len(s.vars)
        /\ (s.sorted => IncreasingNames(s.vars)) /\ NamesDiffer(s.vars)
    BY <1>4, DictFields DEF Sound, Layout
  <2>2. name \in Nat
    BY <1>2, <1>3
  <2>3. IsPlaceOf(i, s.vars, name)
    BY <1>3, <2>1, <2>2, VarIndexFinds
  <2>4. i \in 1 .. Len(s.vars) /\ s.vars[i].name = name
    BY <1>4, <2>1, <2>3 DEF IsPlaceOf
  <2>5. QED
    BY <1>4, <2>1, <2>4 DEF NamesDiffer
<1>6. PICK m : m = Contents(s)
  OBVIOUS
<1>7. Contents(e) = Drop(m, name)
  BY <1>3, <1>4, <1>5, <1>6, DropVariableDrops
<1>8. PICK w : w = Map!Defined(mode, g, def) /\ DOMAIN w = {}
  <2>1. CASE val = Wildcard
    <3>1. Map!Defined(mode, g, def) = Map!Nowhere
      BY <1>3, <2>1 DEF Map!Defined
    <3>2. QED
      BY <3>1 DEF Map!Nowhere
  <2>2. CASE val # Wildcard
    <3>1. Map!Defined(mode, g, def) = Drop(g, val)
      BY <1>1, <1>3, <2>2, DropIs DEF Map!Defined
    <3>2. s.vars[f].card = 1 /\ AtPlace(j, s, f) /\ s.vals[j].value = val
      BY <1>1, <1>3, <1>4, <2>2
    <3>3. \A h \in 1 .. s.vars[f].card : h = 1
      BY <3>2
    <3>4. PICK l \in 1 .. s.vars[f].card : j = s.vars[f].offset + l
      BY <3>2 DEF AtPlace
    <3>5. Place(s, f, l).value = val
      BY <3>2, <3>4 DEF Place
    <3>6. \A x \in DOMAIN g : x = val
      BY <1>4, <3>3, <3>5 DEF Describes
    <3>7. QED
      BY <3>1, <3>6 DEF Drop
  <2>3. QED
    BY <2>1, <2>2
<1>9. Map!Changed(mode, text, m, at + 1) = Drop(m, name)
  <2>1. PICK how, defs, n, d : how = mode /\ defs = text /\ n = at + 1 /\ d = def /\ d = defs[n]
    BY DEF def
  <2>2. w = Map!Defined(how, Map!DistributionOf(m, d.name), d)
    BY <1>3, <1>6, <1>8, <2>1
  <2>3. Map!Changed(how, defs, m, n) =
           IF DOMAIN w = {} THEN Drop(m, d.name)
           ELSE Put(m, d.name, ScaledIf(w, Map!EndsRun(defs, n)))
    BY <2>1, <2>2, ChangedIs
  <2>4. QED
    BY <1>3, <1>8, <2>1, <2>3
<1>10. dict' = e /\ varp' = 0
  BY <1>3 DEF DeleteVariable
<1>11. Ended(e, 0, text, at + 1) = e
  BY DEF Ended, Settled
<1>12. QED
  BY <1>3, <1>6, <1>7, <1>9, <1>10, <1>11 DEF Follows

(* What a legal definition makes of the only map there is.                  *)
LEMMA OneMap ==
  ASSUME NEW how, NEW defs, NEW m, NEW i
  PROVE  /\ Map!Legal(how, m, defs[i]) =>
              AndThen(how, defs, {m}, i) = {Map!Changed(how, defs, m, i)}
         /\ ~Map!Legal(how, m, defs[i]) => AndThen(how, defs, {m}, i) = {}
BY DEF AndThen

(* A call that fails at one definition fails.                               *)
LEMMA NoneStays ==
  ASSUME NEW how, NEW defs, NEW old, Len(defs) \in Nat, NEW i \in 0 .. Len(defs),
         Map!After(how, defs, old)[i] = {}
  PROVE  Map!Outcome(how, defs, old) = {}
<1> DEFINE after == Map!After(how, defs, old)
           T == {k \in Nat : i + k <= Len(defs) => after[i + k] = {}}
<1>1. ASSUME NEW k \in Nat, \A l \in Nat : l < k => l \in T PROVE k \in T
  <2>1. CASE k = 0
    BY <2>1
  <2>2. CASE k # 0 /\ i + k <= Len(defs)
    <3>1. k - 1 \in Nat /\ k - 1 < k /\ i + (k - 1) <= Len(defs) /\ i + (k - 1) = i + k - 1
          /\ i + k \in 1 .. Len(defs)
      BY <2>2
    <3>2. after[i + k - 1] = {}
      BY <1>1, <3>1
    <3>3. after[i + k] = AndThen(how, defs, after[i + k - 1], i + k)
      BY <3>1, AfterUnfolds
    <3>4. AndThen(how, defs, {}, i + k) = {}
      BY DEF AndThen
    <3>5. QED
      BY <3>2, <3>3, <3>4
  <2>3. CASE ~(i + k <= Len(defs))
    BY <2>3
  <2>4. QED
    BY <2>1, <2>2, <2>3
<1>2. \A k \in Nat : k \in T
  <2> HIDE DEF T
  <2>1. QED
    BY <1>1, Strongly
<1>3. Len(defs) - i \in Nat /\ i + (Len(defs) - i) = Len(defs)
  OBVIOUS
<1>4. after[Len(defs)] = {}
  BY <1>2, <1>3
<1>5. QED
  BY <1>4 DEF Map!Outcome

(* The working dictionary, once a run that ends at this definition is       *)
(* normalized, is the map after the definitions done so far; and the index  *)
(* varp is kept only from the definition before.                            *)
MapInv ==
  /\ pc = "modify" =>
       Map!After(mode, text, AsMap(table))[at] = {Contents(Ended(dict, varp, text, at))}
  /\ pc = "modify" /\ varp # 0 => at > 0 /\ dict.vars[varp].name = text[at].name
  /\ pc = "modified" => Map!Outcome(mode, text, AsMap(table)) = {Contents(dict)}
  /\ pc = "failed" => Map!Outcome(mode, text, AsMap(table)) = {}

(* Between two definitions.                                                 *)
LEMMA BetweenDefinitions ==
  ASSUME MapInv, pc = "modify", at < Len(text), at \in Nat, Len(text) \in Nat
  PROVE  Map!After(mode, text, AsMap(table))[at] = {Contents(Switched)}
<1>1. at # Len(text)
  OBVIOUS
<1>2. varp # 0 => dict.vars[varp].name = text[at].name
  BY DEF MapInv
<1>3. (varp # 0 /\ Map!EndsRun(text, at)) <=> (varp # 0 /\ dict.vars[varp].name # def.name)
  BY <1>1, <1>2 DEF Map!EndsRun, def
<1>4. Ended(dict, varp, text, at) = Switched
  BY <1>3 DEF Ended, Settled, Switched
<1>5. QED
  BY <1>4 DEF MapInv

(* A definition that is taken.                                              *)
LEMMA TakenFollows ==
  ASSUME CallInv, MapInv, pc = "modify", at < Len(text), at \in Nat, Len(text) \in Nat,
         ~Refused, Follows(dict', varp'),
         Done, table' = table
  PROVE  MapInv'
<1>1. PICK how, defs, old, i, m, e, p :
        /\ how = mode /\ defs = text /\ old = AsMap(table) /\ i = at + 1
        /\ m = Contents(Switched) /\ e = dict' /\ p = varp'
  OBVIOUS
<1>2. Map!Legal(how, m, defs[i])
  BY <1>1, RefusedIllegal DEF def
<1>3. AndThen(how, defs, {m}, i) = {Map!Changed(how, defs, m, i)}
  BY <1>2, OneMap
<1>4. Map!After(how, defs, old)[i] = AndThen(how, defs, Map!After(how, defs, old)[i - 1], i)
  <2>1. Len(defs) \in Nat /\ i \in 1 .. Len(defs)
    BY <1>1
  <2>2. QED
    BY <2>1, AfterUnfolds
<1>5. Map!After(how, defs, old)[i - 1] = {m}
  <2>1. i - 1 = at
    BY <1>1
  <2>2. QED
    BY <1>1, <2>1, BetweenDefinitions
<1>6. Contents(Ended(e, p, defs, i)) = Map!Changed(how, defs, m, i)
  BY <1>1 DEF Follows
<1>7. Map!After(how, defs, old)[i] = {Contents(Ended(e, p, defs, i))}
  BY <1>3, <1>4, <1>5, <1>6
<1>8. p # 0 => i > 0 /\ e.vars[p].name = defs[i].name
  BY <1>1 DEF Follows, def
<1>9. /\ mode' = how /\ text' = defs /\ AsMap(table)' = old /\ at' = i /\ dict' = e /\ varp' = p
      /\ pc' = "modify"
  BY <1>1 DEF Done
<1>10. QED
  BY <1>7, <1>8, <1>9 DEF MapInv

(* A definition that is refused.                                            *)
LEMMA RefuseFails ==
  ASSUME CallInv, MapInv, Refuse, at \in Nat, Len(text) \in Nat, table' = table
  PROVE  MapInv'
<1>1. PICK how, defs, old, i, m :
        /\ how = mode /\ defs = text /\ old = AsMap(table) /\ i = at + 1
        /\ m = Contents(Switched)
  OBVIOUS
<1>2. pc = "modify" /\ at < Len(text) /\ Refused
  BY DEF Refuse, Refused
<1>3. ~Map!Legal(how, m, defs[i])
  BY <1>1, <1>2, RefusedIllegal DEF def
<1>4. AndThen(how, defs, {m}, i) = {}
  BY <1>3, OneMap
<1>5. Len(defs) \in Nat /\ i \in 1 .. Len(defs) /\ i \in 0 .. Len(defs) /\ i - 1 = at
  BY <1>1, <1>2
<1>6. Map!After(how, defs, old)[i] = AndThen(how, defs, Map!After(how, defs, old)[i - 1], i)
  BY <1>5, AfterUnfolds
<1>7. Map!After(how, defs, old)[i - 1] = {m}
  BY <1>1, <1>2, <1>5, BetweenDefinitions
<1>8. Map!Outcome(how, defs, old) = {}
  BY <1>4, <1>5, <1>6, <1>7, NoneStays
<1>9. mode' = how /\ text' = defs /\ AsMap(table)' = old /\ pc' = "failed"
  BY <1>1 DEF Refuse
<1>10. QED
  BY <1>8, <1>9 DEF MapInv

(* Behind the last definition every run has ended.                          *)
LEMMA EndTextFollows ==
  ASSUME MapInv, EndText, table' = table
  PROVE  MapInv'
<1>1. PICK how, defs, old, e :
        how = mode /\ defs = text /\ old = AsMap(table) /\ e = dict'
  OBVIOUS
<1>2. pc = "modify" /\ at = Len(text) /\ Map!EndsRun(text, at)
  BY DEF EndText, Map!EndsRun
<1>3. Ended(dict, varp, text, at) = e
  BY <1>1, <1>2 DEF Ended, Settled, EndText
<1>4. Map!After(how, defs, old)[Len(defs)] = {Contents(e)}
  BY <1>1, <1>2, <1>3 DEF MapInv
<1>5. Map!Outcome(how, defs, old) = {Contents(e)}
  BY <1>4 DEF Map!Outcome
<1>6. mode' = how /\ text' = defs /\ AsMap(table)' = old /\ pc' = "modified" /\ dict' = e
  BY <1>1 DEF EndText
<1>7. QED
  BY <1>5, <1>6 DEF MapInv

(* Every step of the call.                                                  *)
LEMMA DefinitionFollows ==
  ASSUME CallInv, MapInv, Definition, table' = table
  PROVE  MapInv'
<1>1. at \in Nat /\ Len(text) \in Nat
  <2>1. text \in Texts \cup {<<>>} /\ at \in 0 .. Len(text)
    BY DEF CallInv
  <2>2. Len(text) \in Nat
    BY <2>1, TextsAssumption
  <2>3. QED
    BY <2>1, <2>2
<1>2. CASE Refuse
  BY <1>1, <1>2, RefuseFails
<1>3. CASE Add
  <2>1. pc = "modify" /\ at < Len(text) /\ Done /\ ~Refused
    BY <1>3 DEF Add, Defining, Adds, Refused
  <2>2. QED
    BY <1>1, <1>3, <2>1, AddFollows, TakenFollows
<1>4. CASE Update
  <2>1. pc = "modify" /\ at < Len(text) /\ Done /\ ~Refused
    BY <1>4 DEF Update, Defining, Adds, Refused
  <2>2. QED
    BY <1>1, <1>4, <2>1, UpdateFollows, TakenFollows
<1>5. CASE DeleteValue
  <2>1. pc = "modify" /\ at < Len(text) /\ Done /\ ~Refused
    BY <1>5 DEF DeleteValue, Defining, Adds, Present, Refused
  <2>2. QED
    BY <1>1, <1>5, <2>1, DeleteValueFollows, TakenFollows
<1>6. CASE DeleteVariable
  <2>1. pc = "modify" /\ at < Len(text) /\ Done /\ ~Refused
    BY <1>6 DEF DeleteVariable, Defining, Adds, Refused
  <2>2. QED
    BY <1>1, <1>6, <2>1, DeleteVariableFollows, TakenFollows
<1>7. CASE EndText
  BY <1>7, EndTextFollows
<1>8. QED
  BY <1>2, <1>3, <1>4, <1>5, <1>6, <1>7 DEF Definition

(* A call starts from the empty dictionary or from the one in the table.    *)
LEMMA CallStarts ==
  ASSUME Call
  PROVE  MapInv'
<1>1. PICK how, defs, old, d : how = mode' /\ defs = text' /\ old = AsMap(table) /\ d = dict'
  OBVIOUS
<1>2. Len(defs) \in Nat
  BY <1>1, TextsAssumption DEF Call
<1>3. Map!After(how, defs, old)[0] = AtFirst(how, old)
  BY <1>2, AfterUnfolds
<1>4. AtFirst(how, old) = {Contents(d)}
  <2>1. CASE how = "in"
    <3>1. d = EmptyDict
      BY <1>1, <2>1 DEF Call
    <3>2. Contents(EmptyDict) = Map!Nowhere
      <4>1. {EmptyDict.vars[i].name : i \in DOMAIN EmptyDict.vars} = {}
        BY DEF EmptyDict
      <4>2. QED
        BY <4>1 DEF Contents, Map!Nowhere
    <3>3. QED
      BY <2>1, <3>1, <3>2 DEF AtFirst
  <2>2. CASE how # "in"
    <3>1. table # NoDict /\ d = table
      BY <1>1, <2>2 DEF Call
    <3>2. QED
      BY <1>1, <2>2, <3>1 DEF AtFirst, AsMap
  <2>3. QED
    BY <2>1, <2>2
<1>5. Ended(d, 0, defs, 0) = d
  BY DEF Ended, Settled
<1>6. /\ mode' = how /\ text' = defs /\ AsMap(table)' = old /\ dict' = d
      /\ at' = 0 /\ varp' = 0 /\ pc' = "modify"
  BY <1>1 DEF Call, AsMap
<1>7. QED
  BY <1>3, <1>4, <1>5, <1>6 DEF MapInv

(* Packing a dictionary does not change what it says.                       *)
LEMMA PreparedSays ==
  ASSUME NEW d, Legal(d)
  PROVE  Contents(Prepare2Store(d)) = Contents(d)
<1>1. PICK s : s = Sort(d)
  OBVIOUS
<1>2. d \in DictOver(Probabilities) /\ Layout(d)
  BY DEF Legal
<1>3. Contents(s) = Contents(d)
  BY <1>1, <1>2, SortContents
<1>4. Sound(s)
  BY <1>1, <1>2, SortKeeps DEF Sound
<1>5. Contents(Reorganize(s)) = Contents(s)
  BY <1>4, ReorganizeContents
<1>6. QED
  BY <1>1, <1>3, <1>5 DEF Prepare2Store

(* No call runs at first.                                                   *)
LEMMA MapInvInit == Init => MapInv
<1>1. SUFFICES ASSUME Init PROVE MapInv
  OBVIOUS
<1>2. pc = "idle"
  BY <1>1 DEF Init
<1>3. QED
  BY <1>2 DEF MapInv

(* Every step keeps it, given the invariant of the dictionary.              *)
LEMMA MapInvStep ==
  ASSUME DictInv, MapInv, [Next]_vars
  PROVE  MapInv'
<1>1. CASE Call
  BY <1>1, CallStarts
<1>2. CASE Modify
  BY <1>2, DefinitionFollows DEF Modify, DictInv
<1>3. CASE Abort
  <2>1. pc' = "idle"
    BY <1>3 DEF Abort
  <2>2. QED
    BY <2>1 DEF MapInv
<1>4. CASE Return
  <2>1. pc' = "idle"
    BY <1>4 DEF Return
  <2>2. QED
    BY <2>1 DEF MapInv
<1>5. CASE UNCHANGED vars
  BY <1>5 DEF vars, callVars, MapInv, AsMap
<1>6. QED
  BY <1>1, <1>2, <1>3, <1>4, <1>5 DEF Next

(* Between two definitions the working dictionary is the map of the         *)
(* definitions done, and when a call ends it is its result                  *)
(* (modify_dictionary).                                                     *)
THEOREM MapInvariant == Spec => []MapInv
<1>1. Init => MapInv
  BY MapInvInit
<1>2. DictInv /\ MapInv /\ [Next]_vars => MapInv'
  BY MapInvStep
<1>3. QED
  BY <1>1, <1>2, DictInvariant, PTL DEF Spec

(* The table is empty at first.                                             *)
LEMMA MapsInit == Init => Map!Init
<1>1. SUFFICES ASSUME Init PROVE Map!Init
  OBVIOUS
<1>2. QED
  BY <1>1 DEF Init, Map!Init, AsMap

(* Every step of the dictionary is one of the map, or none.                 *)
LEMMA MapsStep ==
  ASSUME DictInv, MapInv, DictInv', [Next]_vars
  PROVE  [Map!Call \/ Map!Return]_Map!mapVars
<1>1. CASE Call
  <2>1. /\ (pc # "idle") = FALSE /\ (pc' # "idle") = TRUE
        /\ AsMap(table)' = AsMap(table) /\ AsMap(answer)' = AsMap(answer)
    BY <1>1 DEF Call, AsMap
  <2>2. mode' \in (IF AsMap(table) = {} THEN {"in"} ELSE {"in", "add", "del", "upd"})
    BY <1>1 DEF Call, AsMap
  <2>3. Map!Call
    BY <2>1, <2>2 DEF Map!Call
  <2>4. QED
    BY <2>3
<1>2. CASE Modify
  <2>1. /\ pc = "modify" /\ pc' \in {"modify", "failed", "modified"}
        /\ answer' = answer /\ table' = table
    BY <1>2, CallStep DEF Modify, DictInv
  <2>2. mode' = mode /\ text' = text
    BY <1>2 DEF Modify, Definition, Refuse, Add, Update, DeleteValue, DeleteVariable,
                EndText, Done
  <2>3. UNCHANGED Map!mapVars
    BY <2>1, <2>2 DEF Map!mapVars, AsMap
  <2>4. QED
    BY <2>3
<1>3. CASE Abort
  <2>1. /\ pc = "failed" /\ pc' = "idle" /\ answer' = NoDict /\ table' = table
        /\ mode' = mode /\ text' = text
    BY <1>3 DEF Abort
  <2>2. Map!Outcome(mode, text, AsMap(table)) = {}
    BY <2>1 DEF MapInv
  <2>3. AsMap(answer)' = {} /\ AsMap(table)' = AsMap(table)
    BY <2>1 DEF AsMap
  <2>4. Map!Return
    BY <2>1, <2>2, <2>3 DEF Map!Return
  <2>5. QED
    BY <2>4
<1>4. CASE Return
  <2>1. PICK d, e : d = dict /\ e = Prepare2Store(d)
    OBVIOUS
  <2>2. /\ pc = "modified" /\ pc' = "idle" /\ answer' = e /\ (table' = table \/ table' = e)
        /\ mode' = mode /\ text' = text
    BY <1>4, <2>1 DEF Return
  <2>3. Legal(d)
    BY <2>1 DEF DictInv, CallInv
  <2>4. Contents(e) = Contents(d) /\ Stored(e)
    BY <2>1, <2>3, PreparedSays, PreparedIsStored
  <2>5. e # NoDict
    BY <2>4, NoDictAssumption DEF Stored, Legal
  <2>6. AsMap(answer)' = {Contents(d)} /\ AsMap(e) = {Contents(d)}
    BY <2>2, <2>4, <2>5 DEF AsMap
  <2>7. AsMap(table)' \in {AsMap(table)} \cup ({AsMap(answer)'} \ {{}})
    <3>1. CASE table' = table
      BY <3>1 DEF AsMap
    <3>2. CASE table' = e
      BY <2>6, <3>2 DEF AsMap
    <3>3. QED
      BY <2>2, <3>1, <3>2
  <2>8. Map!Outcome(mode, text, AsMap(table)) = {Contents(d)}
    BY <2>1, <2>2 DEF MapInv
  <2>9. Map!Return
    BY <2>2, <2>6, <2>7, <2>8 DEF Map!Return
  <2>10. QED
    BY <2>9
<1>5. CASE UNCHANGED vars
  <2>1. UNCHANGED Map!mapVars
    BY <1>5 DEF vars, callVars, Map!mapVars, AsMap
  <2>2. QED
    BY <2>1
<1>6. QED
  BY <1>1, <1>2, <1>3, <1>4, <1>5 DEF Next

(* A dictionary is a map of distributions, and a call changes it as a whole *)
(* or fails: whatever modify_dictionary does with offsets, holes and sorted *)
(* vectors, the index varp and the moment it normalizes a variable, and     *)
(* however dictionary_prepare2store packs the result, the callers of        *)
(* dictionary_in and dictionary_modify see the map they defined.            *)
THEOREM DictionaryIsMap == Spec => ImplementsDictMap
<1>1. Init => Map!Init
  BY MapsInit
<1>2. DictInv /\ MapInv /\ DictInv' /\ [Next]_vars => [Map!Call \/ Map!Return]_Map!mapVars
  BY MapsStep
<1>3. QED
  BY <1>1, <1>2, DictInvariant, MapInvariant, PTL DEF Spec, ImplementsDictMap, Map!Spec
===============================================================================
