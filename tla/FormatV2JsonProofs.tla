-------------------------- MODULE FormatV2JsonProofs --------------------------
(***************************************************************************)
(* Proofs about the format V2JSON: what from_json makes of a token's object *)
(* and of each element of "c" by itself, and that none of the checks fails  *)
(* on what from_macaroon writes.                                            *)
(***************************************************************************)
EXTENDS FormatV2Json, MacaroonLemmas

USE ValueAssumption, SignatureAssumption

-----------------------------------------------------------------------------
(***************************************************************************)
(* The checks.                                                              *)
(***************************************************************************)

\* Several checks pass only if each of them does, and the other way round.
LEMMA FirstOfNone ==
  ASSUME NEW checks, DOMAIN checks \in SUBSET Nat
  PROVE  FirstOf(checks) = {} <=> \A n \in DOMAIN checks : checks[n] = {}
<1> DEFINE failed == { n \in DOMAIN checks : checks[n] # {} }
<1>1. ASSUME NEW n \in failed PROVE FirstOf(checks) # {}
  <2>1. failed \in SUBSET Nat /\ failed # {}
    BY <1>1
  <2> HIDE DEF failed
  <2>2. PICK k \in failed : \A j \in failed : k <= j
    BY <2>1, LeastElement
  <2>3. checks[k] \subseteq FirstOf(checks)
    BY <2>2 DEF FirstOf, failed
  <2>4. checks[k] # {}
    BY <2>2 DEF failed
  <2> QED
    BY <2>3, <2>4
<1>2. failed = {} => FirstOf(checks) = {}
  BY DEF FirstOf
<1> QED
  BY <1>1, <1>2

\* For the three checks of the object of a token.
LEMMA FirstOfThree ==
  ASSUME NEW a, NEW b, NEW c
  PROVE  FirstOf(<<a, b, c>>) = {} <=> a = {} /\ b = {} /\ c = {}
<1> DEFINE checks == <<a, b, c>>
<1>1. DOMAIN checks = 1..3 /\ checks[1] = a /\ checks[2] = b /\ checks[3] = c
  OBVIOUS
<1> HIDE DEF checks
<1>2. FirstOf(checks) = {} <=> \A n \in DOMAIN checks : checks[n] = {}
  BY <1>1, FirstOfNone
<1> QED
  BY <1>1, <1>2 DEF checks

\* For the four checks of an element of "c".
LEMMA FirstOfFour ==
  ASSUME NEW a, NEW b, NEW c, NEW d
  PROVE  FirstOf(<<a, b, c, d>>) = {} <=> a = {} /\ b = {} /\ c = {} /\ d = {}
<1> DEFINE checks == <<a, b, c, d>>
<1>1. /\ DOMAIN checks = 1..4
      /\ checks[1] = a /\ checks[2] = b /\ checks[3] = c /\ checks[4] = d
  OBVIOUS
<1> HIDE DEF checks
<1>2. FirstOf(checks) = {} <=> \A n \in DOMAIN checks : checks[n] = {}
  BY <1>1, FirstOfNone
<1> QED
  BY <1>1, <1>2 DEF checks

\* What several checks say is something that one of them says.
LEMMA FirstOfWithin ==
  ASSUME NEW checks, NEW errors, \A n \in DOMAIN checks : checks[n] \in SUBSET errors
  PROVE  FirstOf(checks) \in SUBSET errors
BY DEF FirstOf

\* For the three checks of the object of a token.
LEMMA FirstOfThreeWithin ==
  ASSUME NEW errors, NEW a \in SUBSET errors, NEW b \in SUBSET errors,
         NEW c \in SUBSET errors
  PROVE  FirstOf(<<a, b, c>>) \in SUBSET errors
<1> DEFINE checks == <<a, b, c>>
<1>1. \A n \in DOMAIN checks : checks[n] \in SUBSET errors
  OBVIOUS
<1> HIDE DEF checks
<1>2. FirstOf(checks) \in SUBSET errors
  BY <1>1, FirstOfWithin
<1> QED
  BY <1>2 DEF checks

\* For the four checks of an element of "c".
LEMMA FirstOfFourWithin ==
  ASSUME NEW errors, NEW a \in SUBSET errors, NEW b \in SUBSET errors,
         NEW c \in SUBSET errors, NEW d \in SUBSET errors
  PROVE  FirstOf(<<a, b, c, d>>) \in SUBSET errors
<1> DEFINE checks == <<a, b, c, d>>
<1>1. \A n \in DOMAIN checks : checks[n] \in SUBSET errors
  OBVIOUS
<1> HIDE DEF checks
<1>2. FirstOf(checks) \in SUBSET errors
  BY <1>1, FirstOfWithin
<1> QED
  BY <1>2 DEF checks

\* What a pair of keys gives.
LEMMA PairFacts ==
  ASSUME NEW plain \in SUBSET Value, NEW pair \in Pairs(plain), pair # BOTH
  PROVE  /\ pair = ABSENT => pair.value = None
         /\ pair # ABSENT => pair.value \in Value /\ pair.value # None
         /\ pair.as = "Plain" => pair.value \in plain
         /\ pair # ABSENT => pair.as \in {"Plain", "Base64"}
         /\ pair # ABSENT /\ SizeErrors(pair) = {} => pair.value \in Fields
<1>1. \/ pair = ABSENT
      \/ \E v \in plain : pair = Plain(v)
      \/ \E v \in Value : pair = Base64(v)
  BY DEF Pairs
<1>2. /\ pair = ABSENT => pair.value = None
      /\ pair # ABSENT => pair.value \in Value /\ pair.value # None
      /\ pair.as = "Plain" => pair.value \in plain
      /\ pair # ABSENT => pair.as \in {"Plain", "Base64"}
  BY <1>1 DEF ABSENT, Plain, Base64, Given
<1> QED
  BY <1>2 DEF SizeErrors, Fields

\* A location that from_json does not refuse.
LEMMA LocationFacts ==
  ASSUME NEW pair \in Pairs(Texts), pair # BOTH, LocationErrors(pair) = {}
  PROVE  pair.value \in Locations \cup {None}
<1>1. Texts \in SUBSET Value
  BY DEF Texts
<1>2. pair # ABSENT => SizeErrors(pair) = {} /\ Utf8(pair.value)
  BY <1>1, PairFacts DEF LocationErrors, Texts
<1> QED
  BY <1>1, <1>2, PairFacts DEF Locations

\* The object of a token.
LEMMA AcceptedObject ==
  ASSUME NEW o \in Objects, ObjectErrors(o) = {}
  PROVE  /\ o.i.value \in Fields
         /\ o.l.value \in Locations \cup {None}
         /\ o.s.value \in { v \in Value : Size(v) = SIGNATURE_SIZE }
<1>1. /\ BOTH \notin {o.i, o.l, o.s} /\ o.i # ABSENT
      /\ FirstOf(<<SizeErrors(o.i), LocationErrors(o.l), SignatureErrors(o.s)>>) = {}
  BY DEF ObjectErrors
<1>2. SizeErrors(o.i) = {} /\ LocationErrors(o.l) = {} /\ SignatureErrors(o.s) = {}
  BY <1>1, FirstOfThree
<1>3. o.i \in Pairs(Texts) /\ o.l \in Pairs(Texts) /\ o.s \in Pairs(Value)
  BY DEF Objects
<1>4. Texts \in SUBSET Value
  BY DEF Texts
<1>5. o.s # ABSENT /\ Size(o.s.value) = SIGNATURE_SIZE
  BY <1>2 DEF SignatureErrors, Failure
<1> QED
  BY <1>1, <1>2, <1>3, <1>4, <1>5, PairFacts, LocationFacts

\* An element of "c": the caveat that it describes, and room for it.
LEMMA AcceptedElement ==
  ASSUME NEW c \in CaveatObjects, caveat_builder = NewCaveatBuilder,
         CaveatObjectErrors(c) = {}
  PROVE  /\ HasRoom(builder)
         /\ CaveatOf(WithFields(caveat_builder, c)) = Described(c)
         /\ Described(c) \in Caveats
<1> DEFINE cb == WithFields(caveat_builder, c)
<1>1. /\ BOTH \notin {c.i, c.l, c.v} /\ c.i # ABSENT
      /\ FirstOf(<<SizeErrors(c.i), LocationErrors(c.l), SizeErrors(c.v),
                   CaveatErrors(builder, cb)>>) = {}
  BY DEF CaveatObjectErrors
<1>2. /\ SizeErrors(c.i) = {} /\ LocationErrors(c.l) = {} /\ SizeErrors(c.v) = {}
      /\ CaveatErrors(builder, cb) = {}
  BY <1>1, FirstOfFour
<1>3. c.i \in Pairs(Texts) /\ c.l \in Pairs(Texts) /\ c.v \in Pairs(Texts)
  BY DEF CaveatObjects
<1>4. Texts \in SUBSET Value
  BY DEF Texts
<1>5. /\ c.i.value \in Fields
      /\ c.v # ABSENT => c.v.value \in Fields /\ c.v.value # None
      /\ c.v = ABSENT => c.v.value = None
      /\ c.l # ABSENT => c.l.value \in Locations /\ c.l.value # None
      /\ c.l = ABSENT => c.l.value = None
  BY <1>1, <1>2, <1>3, <1>4, PairFacts, LocationFacts
<1>6. cb = [id |-> c.i.value, verifier_id |-> c.v.value, location |-> c.l.value]
  BY <1>5 DEF WithFields, NewCaveatBuilder
<1>7. Complete(cb) /\ HasRoom(builder)
  BY <1>2 DEF CaveatErrors
<1>8. c.v = ABSENT <=> c.l = ABSENT
  BY <1>5, <1>6, <1>7 DEF Complete
<1>9. CaveatOf(cb) = Described(c)
  BY <1>5, <1>6, <1>8 DEF CaveatOf, Described
<1>10. Described(c) \in Caveats
  BY <1>5, <1>8 DEF Described, Caveats
<1> QED
  BY <1>7, <1>9, <1>10

-----------------------------------------------------------------------------
(***************************************************************************)
(* What from_macaroon writes.                                               *)
(***************************************************************************)
Header(m) ==
  [i |-> Base64(m.identifier),
   l |-> IF m.location = None THEN ABSENT ELSE Plain(m.location),
   s |-> Base64(m.signature)]

Element(c) == IF IsFirstParty(c) THEN FromFirstParty(c) ELSE FromThirdParty(c)

ReadItems == Objects \cup CaveatObjects \cup {INVALID, END}

\* The caveats within the limits are of two kinds.
LEMMA CaveatKinds ==
  ASSUME NEW c \in Caveats
  PROVE  \/ /\ IsFirstParty(c) /\ c.predicate \in Fields
         \/ /\ ~IsFirstParty(c) /\ c.id \in Fields /\ c.verifier_id \in Fields
            /\ c.location \in Locations
BY DEF Caveats, FirstParty, ThirdParty, IsFirstParty

\* An element that from_macaroon writes can be read.
LEMMA ElementTyped ==
  ASSUME NEW c \in Caveats
  PROVE  Element(c) \in CaveatObjects
<1>1. \A v \in Fields : Base64(v) \in Pairs(Texts)
  BY DEF Pairs, Fields
<1>2. \A v \in Locations : Plain(v) \in Pairs(Texts)
  BY DEF Pairs, Locations, Fields, Texts
<1>3. ABSENT \in Pairs(Texts)
  BY DEF Pairs
<1>4. CASE IsFirstParty(c) /\ c.predicate \in Fields
  BY <1>1, <1>3, <1>4 DEF Element, FromFirstParty, CaveatObjects
<1>5. CASE ~IsFirstParty(c) /\ c.id \in Fields /\ c.verifier_id \in Fields
           /\ c.location \in Locations
  BY <1>1, <1>2, <1>5 DEF Element, FromThirdParty, CaveatObjects
<1> QED
  BY <1>4, <1>5, CaveatKinds

\* An element of "c" is no END: it has a key that END has not.
LEMMA CaveatObjectIsNotEnd ==
  ASSUME NEW c \in CaveatObjects
  PROVE  c # END
<1>1. "v" \in DOMAIN c
  BY DEF CaveatObjects
<1>2. "v" \notin DOMAIN END
  BY DEF END
<1> QED
  BY <1>1, <1>2

\* INVALID is none of the items of an encoding.
LEMMA InvalidIsNothingElse ==
  INVALID # END /\ INVALID \notin Objects /\ INVALID \notin CaveatObjects
<1>1. INVALID.i # END.i
  BY DEF INVALID, END, BOTH, ABSENT, Given
<1>2. "s" \notin DOMAIN INVALID /\ "v" \notin DOMAIN INVALID
  BY DEF INVALID
<1>3. \A o \in Objects : "s" \in DOMAIN o
  BY DEF Objects
<1>4. \A c \in CaveatObjects : "v" \in DOMAIN c
  BY DEF CaveatObjects
<1> QED
  BY <1>1, <1>2, <1>3, <1>4

\* Its fields pass all checks but that for room.
LEMMA ElementAccepted ==
  ASSUME NEW c \in Caveats, ~HasEmptyField(c), HasRoom(builder),
         caveat_builder = NewCaveatBuilder
  PROVE  CaveatObjectErrors(Element(c)) = {}
<1> DEFINE e  == Element(c)
           cb == WithFields(caveat_builder, e)
<1>1. \A v \in Fields \ {Empty} :
        /\ Decodes(Base64(v)) /\ Base64(v) # ABSENT /\ Base64(v) # BOTH
        /\ SizeErrors(Base64(v)) = {} /\ Base64(v).value = v /\ v # None
  BY DEF Decodes, Base64, Given, ABSENT, BOTH, SizeErrors, Fields
<1>2. \A v \in Locations :
        /\ Plain(v) # ABSENT /\ Plain(v) # BOTH
        /\ LocationErrors(Plain(v)) = {} /\ Plain(v).value = v /\ v # None
  BY DEF Plain, Given, ABSENT, BOTH, LocationErrors, SizeErrors, Fields, Locations
<1>3. /\ Decodes(ABSENT) /\ ABSENT # BOTH /\ ABSENT.value = None
      /\ SizeErrors(ABSENT) = {} /\ LocationErrors(ABSENT) = {}
  BY DEF Decodes, Base64, Given, ABSENT, BOTH, LocationErrors, SizeErrors
<1>4. /\ BOTH \notin {e.i, e.l, e.v} /\ e.i # ABSENT /\ Decodes(e.i) /\ Decodes(e.v)
      /\ SizeErrors(e.i) = {} /\ LocationErrors(e.l) = {} /\ SizeErrors(e.v) = {}
      /\ Complete(cb)
  <2>1. CASE IsFirstParty(c)
    <3>1. c.predicate \in Fields \ {Empty}
      BY <2>1, CaveatKinds DEF HasEmptyField
    <3>2. e.i = Base64(c.predicate) /\ e.l = ABSENT /\ e.v = ABSENT
      BY <2>1 DEF Element, FromFirstParty
    <3>3. cb.id # None /\ cb.verifier_id = None /\ cb.location = None
      BY <1>1, <3>1, <3>2 DEF WithFields, NewCaveatBuilder
    <3> HIDE DEF e, cb
    <3>4. Complete(cb)
      BY <3>3 DEF Complete
    <3> QED
      BY <1>1, <1>3, <3>1, <3>2, <3>4
  <2>2. CASE ~IsFirstParty(c)
    <3>1. /\ c.id \in Fields \ {Empty} /\ c.verifier_id \in Fields \ {Empty}
          /\ c.location \in Locations
      BY <2>2, CaveatKinds DEF HasEmptyField
    <3>2. /\ e.i = Base64(c.id) /\ e.l = Plain(c.location)
          /\ e.v = Base64(c.verifier_id)
      BY <2>2 DEF Element, FromThirdParty
    <3>3. cb.id # None /\ cb.verifier_id # None /\ cb.location # None
      BY <1>1, <1>2, <3>1, <3>2 DEF WithFields, NewCaveatBuilder
    <3> HIDE DEF e, cb
    <3>4. Complete(cb)
      BY <3>3 DEF Complete
    <3> QED
      BY <1>1, <1>2, <3>1, <3>2, <3>4
  <2> QED
    BY <2>1, <2>2
<1> HIDE DEF e, cb
<1>5. CaveatErrors(builder, cb) = {}
  BY <1>4 DEF CaveatErrors
<1>6. FirstOf(<<SizeErrors(e.i), LocationErrors(e.l), SizeErrors(e.v),
                CaveatErrors(builder, cb)>>) = {}
  BY <1>4, <1>5, FirstOfFour
<1>7. CaveatObjectErrors(e) = {}
  BY <1>4, <1>6 DEF CaveatObjectErrors, cb
<1> QED
  BY <1>7 DEF e

\* The object passes all checks.
LEMMA HeaderAccepted ==
  ASSUME NEW m \in Macaroons
  PROVE  Header(m) \in Objects /\ ObjectErrors(Header(m)) = {}
<1> DEFINE o == Header(m)
<1>1. /\ m.identifier \in Fields \ {Empty}
      /\ m.location \in Locations \cup {None}
      /\ m.signature \in Value /\ Size(m.signature) = SIGNATURE_SIZE
  BY DEF Macaroons
<1>2. m.signature # Empty
  BY <1>1
<1>3. /\ o.i = Base64(m.identifier) /\ o.s = Base64(m.signature)
      /\ o.l = IF m.location = None THEN ABSENT ELSE Plain(m.location)
      /\ o = [i |-> o.i, l |-> o.l, s |-> o.s]
  BY DEF Header
<1>4. /\ o.i \in Pairs(Texts) /\ o.s \in Pairs(Value) /\ o.l \in Pairs(Texts)
  BY <1>1, <1>3 DEF Pairs, Texts, Fields, Locations
<1>5. /\ Decodes(o.i) /\ o.i # ABSENT /\ o.i # BOTH /\ SizeErrors(o.i) = {}
      /\ o.s # BOTH /\ SignatureErrors(o.s) = {}
  BY <1>1, <1>2, <1>3
  DEF Decodes, Base64, Given, ABSENT, BOTH, SizeErrors, Fields, SignatureErrors, Failure
<1>6. o.l # BOTH /\ LocationErrors(o.l) = {}
  BY <1>1, <1>3
  DEF Plain, Given, ABSENT, BOTH, LocationErrors, SizeErrors, Fields, Locations
<1> HIDE DEF o
<1>7. FirstOf(<<SizeErrors(o.i), LocationErrors(o.l), SignatureErrors(o.s)>>) = {}
  BY <1>5, <1>6, FirstOfThree
<1>8. o \in Objects /\ ObjectErrors(o) = {}
  BY <1>3, <1>4, <1>5, <1>6, <1>7 DEF Objects, ObjectErrors
<1> QED
  BY <1>8 DEF o

\* The items of an encoding.
LEMMA EncodedItems ==
  ASSUME NEW m \in Macaroons
  PROVE  /\ Encode(m) \in Seq(ReadItems)
         /\ Len(m.caveats) \in 0..MAX_CAVEATS
         /\ Len(Encode(m)) = Len(m.caveats) + 2
         /\ Encode(m)[1] = Header(m)
         /\ \A j \in 1..Len(m.caveats) :
              m.caveats[j] \in Caveats /\ Encode(m)[j + 1] = Element(m.caveats[j])
         /\ Encode(m)[Len(m.caveats) + 2] = END
<1>1. PICK n \in 0..MAX_CAVEATS : m.caveats \in [1..n -> Caveats]
  BY DEF Macaroons
<1> DEFINE elements == [j \in 1..Len(m.caveats) |-> Element(m.caveats[j])]
<1>2. Len(m.caveats) = n /\ n \in Nat /\ \A j \in 1..n : m.caveats[j] \in Caveats
  BY <1>1
<1>3. elements \in Seq(ReadItems) /\ Len(elements) = n
  <2>1. \A j \in 1..n : Element(m.caveats[j]) \in ReadItems
    BY <1>2, ElementTyped DEF ReadItems
  <2> QED
    BY <1>2, <2>1
<1>4. Header(m) \in ReadItems /\ END \in ReadItems
  BY HeaderAccepted DEF ReadItems
<1>5. \A j \in 1..n : elements[j] = Element(m.caveats[j])
  BY <1>2
<1>6. Encode(m) = <<Header(m)>> \o elements \o <<END>>
  BY Zenon DEF Encode, Header, Element
<1> HIDE DEF elements
<1> DEFINE s == Encode(m)
<1> HIDE DEF s
<1>7. /\ s \in Seq(ReadItems) /\ Len(s) = Len(elements) + 2 /\ s[1] = Header(m)
      /\ \A j \in 1..Len(elements) : s[j + 1] = elements[j]
      /\ s[Len(elements) + 2] = END
  <2>1. s = <<Header(m)>> \o elements \o <<END>>
    BY <1>6 DEF s
  <2> QED
    BY <1>3, <1>4, <2>1, Framed
<1>8. /\ s \in Seq(ReadItems) /\ Len(s) = n + 2 /\ s[1] = Header(m)
      /\ \A j \in 1..n : s[j + 1] = elements[j]
      /\ s[n + 2] = END
  BY <1>3, <1>7
<1> QED
  BY <1>1, <1>2, <1>5, <1>8 DEF s

-----------------------------------------------------------------------------
(***************************************************************************)
(* The beginnings of encodings.                                             *)
(***************************************************************************)

\* A beginning is what its name says.
LEMMA BeginningIs ==
  ASSUME NEW t \in OrdinaryBeginnings
  PROVE  \E m \in OrdinaryMacaroons, k \in Nat :
           k <= Len(Encode(m)) /\ t = SubSeq(Encode(m), 1, k)
<1>1. PICK token \in { Encode(m) : m \in OrdinaryMacaroons } :
        t \in { SubSeq(token, 1, n) : n \in 0..Len(token) }
  BY DEF OrdinaryBeginnings, Beginnings
<1>2. PICK m \in OrdinaryMacaroons : token = Encode(m)
  BY <1>1
<1>3. Len(token) \in Nat
  BY <1>2, EncodedItems DEF OrdinaryMacaroons
<1>4. PICK k \in 0..Len(token) : t = SubSeq(token, 1, k)
  BY <1>1
<1>5. k \in Nat /\ k <= Len(token)
  BY <1>3, <1>4
<1> QED
  BY <1>2, <1>4, <1>5

\* What the last item of a beginning is, and its first.
LEMMA LastOfBeginning ==
  ASSUME NEW s \in Seq(ReadItems), NEW item \in ReadItems,
         Append(s, item) \in OrdinaryBeginnings
  PROVE  \E m \in OrdinaryMacaroons :
           /\ Len(s) + 1 <= Len(Encode(m))
           /\ item = Encode(m)[Len(s) + 1]
           /\ s # << >> => s[1] = Encode(m)[1]
<1>1. PICK m \in OrdinaryMacaroons, k \in Nat :
        k <= Len(Encode(m)) /\ Append(s, item) = SubSeq(Encode(m), 1, k)
  BY BeginningIs
<1> DEFINE e == Encode(m)
           t == Append(s, item)
           n == Len(s)
<1>2. e \in Seq(ReadItems)
  BY EncodedItems DEF OrdinaryMacaroons
<1> HIDE DEF e
<1>3. Len(SubSeq(e, 1, k)) = k /\ \A i \in 1..k : SubSeq(e, 1, k)[i] = e[i]
  BY <1>1, <1>2 DEF e
<1>4. n \in Nat /\ Len(t) = n + 1 /\ t[n + 1] = item /\ (s # << >> => n > 0 /\ t[1] = s[1])
  OBVIOUS
<1>5. t = SubSeq(e, 1, k)
  BY <1>1 DEF e
<1> HIDE DEF t, n
<1>6. k = n + 1 /\ item = e[n + 1] /\ (s # << >> => s[1] = e[1])
  <2>1. k = n + 1
    BY <1>3, <1>4, <1>5
  <2>2. n + 1 \in 1..k /\ 1 \in 1..k
    BY <1>4, <2>1
  <2>3. \A i \in 1..k : t[i] = e[i]
    BY <1>3, <1>5
  <2> QED
    BY <1>4, <2>1, <2>2, <2>3
<1> QED
  BY <1>1, <1>6 DEF e, n

-----------------------------------------------------------------------------
(***************************************************************************)
(* The invariant.                                                           *)
(***************************************************************************)
BuilderRecords ==
  [identifier : Fields,
   location   : Locations \cup {None},
   signature  : { v \in Value : Size(v) = SIGNATURE_SIZE } \cup {None},
   caveats    : Seq(Caveats)]

Within ==
  /\ read \in Seq(ReadItems)
  /\ builder \in BuilderRecords /\ Len(builder.caveats) <= MAX_CAVEATS
  /\ caveat_builder = NewCaveatBuilder
  /\ outcome \in ParseErrors \cup {"Idle", "Parsing", "Ok"}

\* What the builder has been given.
Progress ==
  /\ read = << >> => builder = NewMacaroonBuilder
  /\ read # << >> =>
       /\ builder.identifier = read[1].i.value
       /\ builder.signature = read[1].s.value /\ builder.signature # None
       /\ builder.caveats = [j \in 1..(Len(read) - 1) |-> Described(read[j + 1])]

JsonInv ==
  /\ Within
  /\ outcome \in {"Idle", "Parsing"} => Progress
  /\ CaveatsAsWritten
  /\ RefusesNoOrdinaryEncoding

\* The new builder is within the limits.
LEMMA NewBuilderTyped ==
  NewMacaroonBuilder \in BuilderRecords /\ NewMacaroonBuilder.caveats = << >>
BY DEF NewMacaroonBuilder, BuilderRecords, Fields, TooLarge

\* While the token is read, only the limits and the progress matter.
LEMMA InvFromProgress ==
  ASSUME Within', Progress', outcome' = "Parsing"
  PROVE  JsonInv'
<1>1. outcome' \notin ParseErrors /\ outcome' # "Ok"
  BY DEF ParseErrors
<1> QED
  BY <1>1 DEF JsonInv, CaveatsAsWritten, RefusesNoOrdinaryEncoding

\* A call that fails, if not on an encoding.
LEMMA FailInv ==
  ASSUME JsonInv, NEW errors \in SUBSET ParseErrors, Fail(errors),
         read' \in Seq(ReadItems), read' \notin OrdinaryBeginnings
  PROVE  JsonInv'
<1>1. Within' /\ outcome' \notin {"Idle", "Parsing", "Ok"}
  BY DEF JsonInv, Within, Fail, ParseErrors
<1>2. RefusesNoOrdinaryEncoding'
  BY DEF RefusesNoOrdinaryEncoding
<1> QED
  BY <1>1, <1>2 DEF JsonInv, CaveatsAsWritten

\* The invariant holds before the first call.
LEMMA JsonInit == Init => JsonInv
<1> SUFFICES ASSUME Init PROVE JsonInv
  OBVIOUS
<1>1. /\ read = << >> /\ builder = NewMacaroonBuilder
      /\ caveat_builder = NewCaveatBuilder /\ outcome = "Idle"
  BY DEF Init, ParserInit
<1>2. Within /\ Progress
  BY <1>1, NewBuilderTyped DEF Within, Progress
<1>3. outcome \notin ParseErrors /\ outcome # "Ok"
  BY <1>1 DEF ParseErrors
<1> QED
  BY <1>2, <1>3 DEF JsonInv, CaveatsAsWritten, RefusesNoOrdinaryEncoding

-----------------------------------------------------------------------------
(***************************************************************************)
(* The steps.                                                               *)
(***************************************************************************)

\* The item that an encoding goes on with.
LEMMA NextItem ==
  ASSUME Within, NEW item \in ReadItems, Append(read, item) \in OrdinaryBeginnings
  PROVE  \E m \in OrdinaryMacaroons :
           /\ read = << >> => item = Header(m)
           /\ read # << >> =>
                /\ read[1] = Header(m)
                /\ \/ item = END
                   \/ \E c \in Caveats :
                        /\ ~HasEmptyField(c) /\ item = Element(c)
                        /\ Len(read) - 1 < MAX_CAVEATS
<1> DEFINE n == Len(read)
<1>1. read \in Seq(ReadItems) /\ n \in Nat /\ (read = << >> <=> n = 0)
  BY DEF Within
<1>2. PICK m \in OrdinaryMacaroons :
        /\ n + 1 <= Len(Encode(m)) /\ item = Encode(m)[n + 1]
        /\ read # << >> => read[1] = Encode(m)[1]
  BY <1>1, LastOfBeginning
<1>3. /\ Len(m.caveats) \in 0..MAX_CAVEATS
      /\ Len(Encode(m)) = Len(m.caveats) + 2
      /\ Encode(m)[1] = Header(m)
      /\ \A j \in 1..Len(m.caveats) :
           m.caveats[j] \in Caveats /\ Encode(m)[j + 1] = Element(m.caveats[j])
      /\ Encode(m)[Len(m.caveats) + 2] = END
  BY EncodedItems DEF OrdinaryMacaroons
<1>4. \A j \in 1..Len(m.caveats) : ~HasEmptyField(m.caveats[j])
  BY DEF OrdinaryMacaroons
<1>5. CASE n = 0
  BY <1>1, <1>2, <1>3, <1>5
<1> HIDE DEF n
<1>6. CASE n \in 1..Len(m.caveats)
  <2>1. /\ m.caveats[n] \in Caveats /\ ~HasEmptyField(m.caveats[n])
        /\ item = Element(m.caveats[n]) /\ n - 1 < MAX_CAVEATS
    BY <1>2, <1>3, <1>4, <1>6
  <2> QED
    BY <1>1, <1>2, <1>3, <1>6, <2>1 DEF n
<1>7. CASE n = Len(m.caveats) + 1
  <2>1. item = END
    BY <1>2, <1>3, <1>7
  <2>2. read # << >>
    BY <1>1, <1>3, <1>7
  <2> QED
    BY <1>2, <1>3, <2>1, <2>2
<1> QED
  BY <1>1, <1>2, <1>3, <1>5, <1>6, <1>7

\* The elements that the model reads are elements of "c".
LEMMA ElementsTyped ==
  ASSUME NEW c \in Elements
  PROVE  c \in CaveatObjects
<1>1. \A x \in Caveats : Element(x) \in CaveatObjects
  BY ElementTyped
<1> QED
  BY <1>1 DEF Elements, Element

\* What is read of a token grows by one item.
LEMMA OneMore ==
  ASSUME Within, NEW item \in ReadItems, NEW end, Reads(item, end)
  PROVE  /\ read' = Append(read, item) /\ read' \in Seq(ReadItems)
         /\ read' # << >> /\ Len(read') = Len(read) + 1
         /\ read'[Len(read) + 1] = item
         /\ \A j \in 1..Len(read) : read'[j] = read[j]
BY DEF Within, Reads

\* The object gives a builder its fields.
LEMMA ReadObjectInv ==
  ASSUME JsonInv, outcome = "Parsing", read = << >>,
         NEW o \in Objects, Reads(o, END), ReadObject(o)
  PROVE  JsonInv'
<1>1. Within /\ builder = NewMacaroonBuilder
  BY DEF JsonInv, Progress
<1>2. o \in ReadItems
  BY DEF ReadItems
<1>3. /\ read' \in Seq(ReadItems) /\ read' # << >> /\ Len(read') = 1
      /\ read'[1] = o
  BY <1>1, <1>2, OneMore
<1>4. /\ o.i.value \in Fields /\ o.l.value \in Locations \cup {None}
      /\ o.s.value \in { v \in Value : Size(v) = SIGNATURE_SIZE }
  BY AcceptedObject DEF ReadObject
<1>5. /\ builder'.identifier = o.i.value /\ builder'.location = o.l.value
      /\ builder'.signature = o.s.value /\ builder'.caveats = << >>
      /\ builder' \in BuilderRecords
  BY <1>1, <1>4, NewBuilderTyped DEF ReadObject, NewMacaroonBuilder, BuilderRecords
<1>6. Within'
  BY <1>1, <1>3, <1>5 DEF Within, ReadObject
<1>7. o.s.value # None
  BY <1>4
<1>8. builder'.caveats = [j \in 1..(Len(read') - 1) |-> Described(read'[j + 1])]
  <2> DEFINE S == 1..(Len(read') - 1)
  <2>1. S = {}
    BY <1>3
  <2> HIDE DEF S
  <2>2. [j \in S |-> Described(read'[j + 1])] = << >>
    BY <2>1
  <2> QED
    BY <1>5, <2>2 DEF S
<1>9. Progress'
  BY <1>3, <1>5, <1>7, <1>8 DEF Progress
<1>10. outcome' = "Parsing"
  BY DEF ReadObject
<1> QED
  BY <1>6, <1>9, <1>10, InvFromProgress

\* An element of "c" gives it one more caveat.
LEMMA ReadCaveatInv ==
  ASSUME JsonInv, outcome = "Parsing", read # << >>,
         NEW c \in CaveatObjects, Reads(c, END), ReadCaveat(c)
  PROVE  JsonInv'
<1> DEFINE n == Len(read)
<1>1. Within /\ Progress
  BY DEF JsonInv
<1>2. c \in ReadItems
  BY DEF ReadItems
<1>3. /\ read' \in Seq(ReadItems) /\ read' # << >> /\ Len(read') = n + 1
      /\ read'[n + 1] = c /\ \A j \in 1..n : read'[j] = read[j]
  BY <1>1, <1>2, OneMore
<1>4. n \in Nat \ {0}
  BY <1>1 DEF Within
<1>5. /\ HasRoom(builder) /\ Described(c) \in Caveats
      /\ CaveatOf(WithFields(caveat_builder, c)) = Described(c)
  BY <1>1, AcceptedElement DEF ReadCaveat, Within
<1>6. /\ builder \in BuilderRecords /\ builder.caveats \in Seq(Caveats)
      /\ Len(builder.caveats) <= MAX_CAVEATS
  BY <1>1 DEF Within, BuilderRecords
<1> DEFINE more == Append(builder.caveats, Described(c))
<1>7. more \in Seq(Caveats) /\ Len(more) <= MAX_CAVEATS
  BY <1>5, <1>6 DEF HasRoom
<1>8. builder' = [builder EXCEPT !.caveats = more]
  BY <1>5 DEF ReadCaveat, WithBuilt
<1> HIDE DEF more
<1>9. /\ builder' \in BuilderRecords /\ builder'.caveats = more
      /\ builder'.identifier = builder.identifier
      /\ builder'.signature = builder.signature
  BY <1>6, <1>7, <1>8 DEF BuilderRecords
<1>10. Within'
  BY <1>1, <1>3, <1>7, <1>9 DEF Within, ReadCaveat
<1>11. builder.caveats = [j \in 1..(n - 1) |-> Described(read[j + 1])]
  BY <1>1 DEF Progress
<1> HIDE DEF n
<1>12. more = [j \in 1..n |-> Described(read'[j + 1])]
  <2>1. Len(builder.caveats) = n - 1 /\ Len(more) = n
    BY <1>4, <1>6, <1>11 DEF more
  <2>2. \A j \in 1..(n - 1) : more[j] = Described(read[j + 1])
    BY <1>4, <1>6, <1>11, <2>1 DEF more
  <2>3. more[n] = Described(c)
    BY <1>4, <1>5, <1>6, <2>1 DEF more
  <2>4. \A j \in 1..(n - 1) : read'[j + 1] = read[j + 1]
    BY <1>3, <1>4
  <2>5. \A j \in 1..n : more[j] = Described(read'[j + 1])
    <3> TAKE j \in 1..n
    <3>1. CASE j = n
      BY <1>3, <2>3, <3>1
    <3>2. CASE j # n
      <4>1. j \in 1..(n - 1)
        BY <1>4, <3>2
      <4> QED
        BY <2>2, <2>4, <4>1
    <3> QED
      BY <3>1, <3>2
  <2>6. DOMAIN more = 1..n /\ more = [j \in DOMAIN more |-> more[j]]
    BY <1>7, <2>1
  <2> QED
    BY <2>5, <2>6
<1>13. read'[1] = read[1] /\ Len(read') - 1 = n
  BY <1>3, <1>4
<1>14. Progress'
  <2>1. /\ builder'.identifier = read'[1].i.value
        /\ builder'.signature = read'[1].s.value /\ builder'.signature # None
    BY <1>1, <1>9, <1>13 DEF Progress
  <2> QED
    BY <1>3, <1>9, <1>12, <1>13, <2>1 DEF Progress
<1>15. outcome' = "Parsing"
  BY DEF ReadCaveat
<1> QED
  BY <1>10, <1>14, <1>15, InvFromProgress

\* The token ends: the builder has what makes a macaroon.
LEMMA BuildInv ==
  ASSUME JsonInv, outcome = "Parsing", read # << >>, Reads(END, END), Build
  PROVE  JsonInv'
<1>1. Within /\ Progress
  BY DEF JsonInv
<1>2. END \in ReadItems
  BY DEF ReadItems
<1>3. /\ read' \in Seq(ReadItems) /\ Len(read') = Len(read) + 1
      /\ \A j \in 1..Len(read) : read'[j] = read[j]
  BY <1>1, <1>2, OneMore
<1>4. UNCHANGED <<builder, caveat_builder>> /\ outcome' = "Ok"
  BY DEF Build
<1>5. Within'
  BY <1>1, <1>3, <1>4 DEF Within
<1>6. builder.identifier # Empty /\ builder.signature # None
  BY DEF Build, BuildErrors
<1>7. builder \in Macaroons
  <2> DEFINE n == Len(builder.caveats)
  <2>1. builder.caveats \in Seq(Caveats) /\ n <= MAX_CAVEATS
    BY <1>1 DEF Within, BuilderRecords
  <2>2. n \in 0..MAX_CAVEATS /\ builder.caveats \in [1..n -> Caveats]
    BY <2>1
  <2> HIDE DEF n
  <2>3. builder.caveats \in UNION { [1..k -> Caveats] : k \in 0..MAX_CAVEATS }
    BY <2>2
  <2> QED
    BY <1>1, <1>6, <2>3 DEF Within, BuilderRecords, Macaroons
<1>8. Len(read) \in Nat \ {0}
  BY <1>1 DEF Within
<1>9. builder.caveats = [j \in 1..(Len(read') - 2) |-> Described(read'[j + 1])]
  <2> DEFINE n == Len(read)
  <2>1. builder.caveats = [j \in 1..(n - 1) |-> Described(read[j + 1])]
    BY <1>1 DEF Progress
  <2>2. Len(read') - 2 = n - 1
    BY <1>3, <1>8
  <2>3. \A j \in 1..(n - 1) : read'[j + 1] = read[j + 1]
    BY <1>3, <1>8
  <2> HIDE DEF n
  <2> QED
    BY <2>1, <2>2, <2>3
<1>10. CaveatsAsWritten'
  BY <1>4, <1>7, <1>9 DEF CaveatsAsWritten
<1>11. outcome' \notin ParseErrors /\ outcome' \notin {"Idle", "Parsing"}
  BY <1>4 DEF ParseErrors
<1> QED
  BY <1>5, <1>10, <1>11 DEF JsonInv, RefusesNoOrdinaryEncoding

\* The builder lacks an identifier at the end of no encoding.
LEMMA RefuseEndInv ==
  ASSUME JsonInv, outcome = "Parsing", read # << >>, Reads(END, END),
         BuildErrors(builder) # {}, Fail(BuildErrors(builder))
  PROVE  JsonInv'
<1>1. Within /\ Progress
  BY DEF JsonInv
<1>2. END \in ReadItems
  BY DEF ReadItems
<1>3. read' = Append(read, END) /\ read' \in Seq(ReadItems)
  BY <1>1, <1>2, OneMore
<1>4. read' \notin OrdinaryBeginnings
  <2> SUFFICES ASSUME read' \in OrdinaryBeginnings PROVE FALSE
    OBVIOUS
  <2>1. PICK m \in OrdinaryMacaroons : read[1] = Header(m)
    BY <1>1, <1>2, <1>3, NextItem
  <2>2. read[1].i.value = m.identifier
    BY <2>1 DEF Header, Base64, Given
  <2>3. m.identifier # Empty
    BY DEF OrdinaryMacaroons, Macaroons
  <2>4. builder.identifier # Empty /\ builder.signature # None
    BY <1>1, <2>2, <2>3 DEF Progress
  <2> QED
    BY <2>4 DEF BuildErrors
<1>5. BuildErrors(builder) \in SUBSET ParseErrors
  BY DEF BuildErrors, ParseErrors
<1> QED
  BY <1>3, <1>4, <1>5, FailInv

\* An object that is refused is in no encoding.
LEMMA RefuseObjectInv ==
  ASSUME JsonInv, outcome = "Parsing", read = << >>,
         NEW o \in Objects, Reads(o, END), Refuse(ObjectErrors(o))
  PROVE  JsonInv'
<1>1. Within
  BY DEF JsonInv
<1>2. o \in ReadItems
  BY DEF ReadItems
<1>3. read' = Append(read, o) /\ read' \in Seq(ReadItems)
  BY <1>1, <1>2, OneMore
<1>4. read' \notin OrdinaryBeginnings
  <2> SUFFICES ASSUME read' \in OrdinaryBeginnings PROVE FALSE
    OBVIOUS
  <2>1. PICK m \in OrdinaryMacaroons : o = Header(m)
    BY <1>1, <1>2, <1>3, NextItem
  <2>2. m \in Macaroons
    BY DEF OrdinaryMacaroons
  <2> QED
    BY <2>1, <2>2, HeaderAccepted DEF Refuse
<1>5. ObjectErrors(o) \in SUBSET ParseErrors
  <2> DEFINE a == SizeErrors(o.i)
             b == LocationErrors(o.l)
             d == SignatureErrors(o.s)
  <2>1. a \in SUBSET ParseErrors /\ b \in SUBSET ParseErrors /\ d \in SUBSET ParseErrors
    BY DEF SizeErrors, LocationErrors, SignatureErrors, Failure, ParseErrors
  <2> HIDE DEF a, b, d
  <2>2. FirstOf(<<a, b, d>>) \in SUBSET ParseErrors
    BY <2>1, FirstOfThreeWithin, Zenon
  <2> QED
    BY <2>2 DEF ObjectErrors, ParseErrors, a, b, d
<1>6. ObjectErrors(o) \cup {"DeserializationError"} \in SUBSET ParseErrors
  BY <1>5 DEF ParseErrors
<1> QED
  BY <1>3, <1>4, <1>6, FailInv DEF Refuse

\* The elements of "c" that are refused are in none either.
LEMMA RefuseCaveatInv ==
  ASSUME JsonInv, outcome = "Parsing", read # << >>,
         NEW c \in CaveatObjects, Reads(c, END), Refuse(CaveatObjectErrors(c))
  PROVE  JsonInv'
<1>1. Within /\ Progress
  BY DEF JsonInv
<1>2. c \in ReadItems
  BY DEF ReadItems
<1>3. read' = Append(read, c) /\ read' \in Seq(ReadItems)
  BY <1>1, <1>2, OneMore
<1>4. read' \notin OrdinaryBeginnings
  <2> SUFFICES ASSUME read' \in OrdinaryBeginnings PROVE FALSE
    OBVIOUS
  <2>1. c # END
    BY CaveatObjectIsNotEnd
  <2>2. PICK x \in Caveats :
          /\ ~HasEmptyField(x) /\ c = Element(x)
          /\ Len(read) - 1 < MAX_CAVEATS
    BY <1>1, <1>2, <1>3, <2>1, NextItem
  <2>3. Len(builder.caveats) = Len(read) - 1
    <3> DEFINE n == Len(read) - 1
    <3>1. n \in Nat
      BY <1>1 DEF Within
    <3>2. builder.caveats = [j \in 1..n |-> Described(read[j + 1])]
      BY <1>1 DEF Progress
    <3> HIDE DEF n
    <3>3. Len(builder.caveats) = n
      BY <3>1, <3>2
    <3> QED
      BY <3>3 DEF n
  <2>4. HasRoom(builder)
    BY <2>2, <2>3 DEF HasRoom
  <2>5. CaveatObjectErrors(c) = {}
    BY <1>1, <2>2, <2>4, ElementAccepted DEF Within
  <2> QED
    BY <2>5 DEF Refuse
<1>5. CaveatObjectErrors(c) \in SUBSET ParseErrors
  <2> DEFINE a == SizeErrors(c.i)
             b == LocationErrors(c.l)
             d == SizeErrors(c.v)
             e == CaveatErrors(builder, WithFields(caveat_builder, c))
  <2>1. a \in SUBSET ParseErrors /\ b \in SUBSET ParseErrors /\ d \in SUBSET ParseErrors
    BY DEF SizeErrors, LocationErrors, ParseErrors
  <2>2. e \in SUBSET ParseErrors
    BY DEF CaveatErrors, ParseErrors
  <2> HIDE DEF a, b, d, e
  <2>3. FirstOf(<<a, b, d, e>>) \in SUBSET ParseErrors
    BY <2>1, <2>2, FirstOfFourWithin, Zenon
  <2> QED
    BY <2>3 DEF CaveatObjectErrors, ParseErrors, a, b, d, e
<1>6. CaveatObjectErrors(c) \cup {"DeserializationError"} \in SUBSET ParseErrors
  BY <1>5 DEF ParseErrors
<1> QED
  BY <1>3, <1>4, <1>6, FailInv DEF Refuse

\* What serde refuses is in no encoding either.
LEMMA InvalidInv ==
  ASSUME JsonInv, outcome = "Parsing", Reads(INVALID, INVALID),
         Fail({"DeserializationError"})
  PROVE  JsonInv'
<1>1. Within
  BY DEF JsonInv
<1>2. INVALID \in ReadItems
  BY DEF ReadItems
<1>3. read' = Append(read, INVALID) /\ read' \in Seq(ReadItems)
  BY <1>1, <1>2, OneMore
<1>4. read' \notin OrdinaryBeginnings
  <2> SUFFICES ASSUME read' \in OrdinaryBeginnings PROVE FALSE
    OBVIOUS
  <2>1. PICK m \in OrdinaryMacaroons :
          /\ read = << >> => INVALID = Header(m)
          /\ read # << >> => INVALID = END \/ \E c \in Caveats : INVALID = Element(c)
    BY <1>1, <1>2, <1>3, NextItem
  <2>2. Header(m) \in Objects /\ \A c \in Caveats : Element(c) \in CaveatObjects
    BY HeaderAccepted, ElementTyped DEF OrdinaryMacaroons
  <2> QED
    BY <2>1, <2>2, InvalidIsNothingElse
<1>5. {"DeserializationError"} \in SUBSET ParseErrors
  BY DEF ParseErrors
<1> QED
  BY <1>3, <1>4, <1>5, FailInv

\* A call begins, and the caller takes its result.
LEMMA CallInv ==
  ASSUME JsonInv, deserialize \/ Return
  PROVE  JsonInv'
<1>1. CASE deserialize
  <2>1. Within /\ Progress
    BY <1>1 DEF JsonInv, deserialize
  <2>2. /\ UNCHANGED <<read, builder, caveat_builder>>
        /\ outcome' = "Parsing"
    BY <1>1 DEF deserialize
  <2>3. Within' /\ Progress'
    BY <2>1, <2>2 DEF Within, Progress
  <2> QED
    BY <2>2, <2>3, InvFromProgress
<1>2. CASE Return
  <2>1. /\ read' = << >> /\ builder' = NewMacaroonBuilder
        /\ caveat_builder' = NewCaveatBuilder /\ outcome' = "Idle"
    BY <1>2 DEF Return
  <2>2. Within' /\ Progress'
    BY <2>1, NewBuilderTyped DEF Within, Progress
  <2>3. outcome' \notin ParseErrors /\ outcome' # "Ok"
    BY <2>1 DEF ParseErrors
  <2> QED
    BY <2>2, <2>3 DEF JsonInv, CaveatsAsWritten, RefusesNoOrdinaryEncoding
<1> QED
  BY <1>1, <1>2

\* Each step keeps the invariant.
LEMMA JsonNext == JsonInv /\ [Next]_vars => JsonInv'
<1> SUFFICES ASSUME JsonInv, [Next]_vars PROVE JsonInv'
  OBVIOUS
<1>1. CASE deserialize \/ Return
  BY <1>1, CallInv
<1>2. CASE Parsing /\ Step
  <2>0. outcome = "Parsing"
    BY <1>2 DEF Parsing
  <2>1. ASSUME read = << >>, NEW o \in Objects,
               Reads(o, END), ReadObject(o) \/ Refuse(ObjectErrors(o))
        PROVE  JsonInv'
    BY <2>0, <2>1, ReadObjectInv, RefuseObjectInv
  <2>2. ASSUME read # << >>, NEW c \in Elements,
               Reads(c, END), ReadCaveat(c) \/ Refuse(CaveatObjectErrors(c))
        PROVE  JsonInv'
    BY <2>0, <2>2, ElementsTyped, ReadCaveatInv, RefuseCaveatInv
  <2>3. ASSUME read # << >>, Reads(END, END),
               Build \/ (BuildErrors(builder) # {} /\ Fail(BuildErrors(builder)))
        PROVE  JsonInv'
    BY <2>0, <2>3, BuildInv, RefuseEndInv
  <2>4. ASSUME Reads(INVALID, INVALID), Fail({"DeserializationError"})
        PROVE  JsonInv'
    BY <2>0, <2>4, InvalidInv
  <2> QED
    BY <1>2, <2>1, <2>2, <2>3, <2>4, Zenon DEF Step
<1>3. CASE UNCHANGED vars
  BY <1>3
  DEF vars, parserVars, JsonInv, Within, Progress, CaveatsAsWritten,
      RefusesNoOrdinaryEncoding
<1> QED
  BY <1>1, <1>2, <1>3 DEF Next

-----------------------------------------------------------------------------
\* The invariant holds in every state.
THEOREM JsonInvariantHolds == Spec => []JsonInv
BY JsonInit, JsonNext, PTL DEF Spec

\* The types: from_json keeps the builders within the limits whatever it reads.
THEOREM JsonWithinLimits == Spec => []TypeOK
<1>1. JsonInv => TypeOK
  <2> SUFFICES ASSUME JsonInv PROVE TypeOK
    OBVIOUS
  <2>1. Within
    BY DEF JsonInv
  <2>2. BuilderOK
    BY <2>1 DEF Within, BuilderRecords, BuilderOK
  <2> QED
    BY <2>1, <2>2 DEF Within, TypeOK, ReadItems
<1> QED
  BY <1>1, JsonInvariantHolds, PTL

\* An accepted token is a macaroon within the limits, and each of its caveats is
\* what one element of "c" describes, whatever came before that element.
THEOREM JsonCaveatsAsWritten == Spec => []CaveatsAsWritten
<1>1. JsonInv => CaveatsAsWritten
  BY DEF JsonInv
<1> QED
  BY <1>1, JsonInvariantHolds, PTL

\* from_json refuses nothing that from_macaroon writes, except for a caveat with
\* an empty predicate, id or verifier id.
THEOREM JsonReadsWhatItWrites == Spec => []RefusesNoOrdinaryEncoding
<1>1. JsonInv => RefusesNoOrdinaryEncoding
  BY DEF JsonInv
<1> QED
  BY <1>1, JsonInvariantHolds, PTL
=============================================================================
