----------------------------- MODULE BytesV2Proofs -----------------------------
(***************************************************************************)
(* Proofs about the format V2, first as items and then as bytes, for digits *)
(* and sizes of any width.                                                  *)
(*                                                                          *)
(* OneEncoding is no invariant by itself: it says nothing until the last    *)
(* item.  The invariant that is inductive says, for each place where        *)
(* deserialize may be, that what has been read is what serialize makes of   *)
(* the two builders up to there (Progress).                                 *)
(*                                                                          *)
(* Each step on bytes is one on items or none (ByteSpec implements Spec),   *)
(* and the bytes read are those that serialize writes for the items read    *)
(* and, inside a field, for the digits of its size so far.                  *)
(***************************************************************************)
EXTENDS BytesV2, MacaroonLemmas, FiniteSetTheorems

-----------------------------------------------------------------------------
(***************************************************************************)
(* The encoding, up to each place.                                          *)
(***************************************************************************)
Location(l) == IF l = None THEN << >> ELSE <<Field("LOCATION", l)>>

EncodedCaveats(caveats) ==
  FlattenSeq([i \in 1..Len(caveats) |-> EncodeCaveat(caveats[i])])

Preamble(b) == Location(b.location) \o <<Field("IDENTIFIER", b.identifier), EOS>>

EncodedSoFar(b) == Preamble(b) \o EncodedCaveats(b.caveats)

\* The items that deserialize may accept.
GoodItems ==
  { Field(tag, v) : tag \in FieldTags, v \in Value } \cup {EOS, END}

\* Items written one after the other.
LEMMA ItemsConcat == \A s, t \in Seq(GoodItems) : s \o t \in Seq(GoodItems)
OBVIOUS

\* In whatever order.
LEMMA ItemsAssociate ==
  \A s, t, u \in Seq(GoodItems) : (s \o t) \o u = s \o (t \o u)
OBVIOUS

\* The items that may be accepted are items.
LEMMA GoodItemsAreItems ==
  GoodItems \subseteq Items /\ Seq(GoodItems) \subseteq Seq(Items)
<1>1. GoodItems \subseteq Items
  BY DEF GoodItems, Items
<1> QED
  BY <1>1

\* A caveat's encoding is of such items.
LEMMA CaveatItems ==
  ASSUME NEW c \in Caveats
  PROVE  EncodeCaveat(c) \in Seq(GoodItems)
<1>1. EOS \in GoodItems
  BY DEF GoodItems
<1>2. \A tag \in FieldTags, v \in Fields : Field(tag, v) \in GoodItems
  BY DEF GoodItems, Fields
<1>3. CASE \E p \in Fields : c = FirstParty(p)
  <2>1. PICK p \in Fields : c = FirstParty(p)
    BY <1>3
  <2>2. EncodeCaveat(c) = <<Field("IDENTIFIER", p), EOS>>
    BY <2>1 DEF EncodeCaveat, FirstParty, IsFirstParty
  <2>3. Field("IDENTIFIER", p) \in GoodItems
    BY <1>2 DEF FieldTags
  <2> HIDE DEF GoodItems
  <2> QED
    BY <1>1, <2>2, <2>3
<1>4. CASE \E i \in Fields, v \in Fields, l \in Locations : c = ThirdParty(i, v, l)
  <2>1. PICK i \in Fields, v \in Fields, l \in Locations : c = ThirdParty(i, v, l)
    BY <1>4
  <2>2. EncodeCaveat(c) = <<Field("LOCATION", l), Field("IDENTIFIER", i),
                            Field("VID", v), EOS>>
    BY <2>1 DEF EncodeCaveat, ThirdParty, IsFirstParty
  <2>3. /\ Field("LOCATION", l) \in GoodItems
        /\ Field("IDENTIFIER", i) \in GoodItems
        /\ Field("VID", v) \in GoodItems
    BY <1>2 DEF FieldTags, Locations
  <2> QED
    BY <1>1, <2>2, <2>3
<1> QED
  BY <1>3, <1>4 DEF Caveats

\* One more caveat is encoded after the others.
LEMMA EncodedAppend ==
  ASSUME NEW caveats \in Seq(Caveats), NEW c \in Caveats
  PROVE  /\ EncodedCaveats(caveats) \in Seq(GoodItems)
         /\ EncodedCaveats(Append(caveats, c))
              = EncodedCaveats(caveats) \o EncodeCaveat(c)
<1> DEFINE enc(s) == [i \in 1..Len(s) |-> EncodeCaveat(s[i])]
<1>1. EncodeCaveat(c) \in Seq(GoodItems)
  BY CaveatItems
<1>2. enc(caveats) \in Seq(Seq(GoodItems))
  <2>1. \A i \in 1..Len(caveats) : EncodeCaveat(caveats[i]) \in Seq(GoodItems)
    BY CaveatItems
  <2> QED
    BY <2>1
<1>3. enc(Append(caveats, c)) = Append(enc(caveats), EncodeCaveat(c))
  <2>1. /\ Len(Append(caveats, c)) = Len(caveats) + 1
        /\ Len(caveats) \in Nat
        /\ \A i \in 1..Len(caveats) : Append(caveats, c)[i] = caveats[i]
        /\ Append(caveats, c)[Len(caveats) + 1] = c
    OBVIOUS
  <2> QED
    BY <1>1, <1>2, <2>1
<1> HIDE DEF enc
<1>4. /\ FlattenSeq(enc(caveats)) \in Seq(GoodItems)
      /\ FlattenSeq(Append(enc(caveats), EncodeCaveat(c)))
           = FlattenSeq(enc(caveats)) \o EncodeCaveat(c)
  BY <1>1, <1>2, FlattenAppend
<1> QED
  BY <1>3, <1>4 DEF EncodedCaveats, enc

-----------------------------------------------------------------------------
(***************************************************************************)
(* The invariant.                                                           *)
(***************************************************************************)
BuilderRecords ==
  [identifier : Fields,
   location   : Locations \cup {None},
   signature  : { v \in Value : Size(v) = SIGNATURE_SIZE } \cup {None},
   caveats    : Seq(Caveats)]

CaveatBuilders ==
  [id          : Fields \cup {None},
   verifier_id : {None},
   location    : Locations \cup {None}]

Places ==
  { "Start", "Identifier", "Eos", "Caveat", "CaveatId", "CaveatEnd",
    "CaveatEos", "Signature", "End" }

Within ==
  /\ read \in Seq(Items)
  /\ builder \in BuilderRecords /\ Len(builder.caveats) <= MAX_CAVEATS
  /\ caveat_builder \in CaveatBuilders
  /\ at \in Places
  /\ outcome \in ParseErrors \cup {"Idle", "Parsing", "Ok"}

\* What has been read, by the place where deserialize is.
Progress ==
  /\ at \notin {"CaveatId", "CaveatEnd"} => caveat_builder = NewCaveatBuilder
  /\ at \in {"Start", "Identifier", "Eos"} => builder.caveats = << >>
  /\ at = "Start" => builder.location = None /\ read = << >>
  /\ at = "Identifier" => read = Location(builder.location)
  /\ at = "Eos" => Append(read, EOS) = Preamble(builder)
  /\ at = "Caveat" => read = EncodedSoFar(builder)
  /\ at = "CaveatId" =>
       read = EncodedSoFar(builder) \o Location(caveat_builder.location)
  /\ at = "CaveatEnd" =>
       /\ caveat_builder.id # None
       /\ read = EncodedSoFar(builder) \o Location(caveat_builder.location)
                   \o <<Field("IDENTIFIER", caveat_builder.id)>>
  /\ at = "CaveatEos" => Append(read, EOS) = EncodedSoFar(builder)
  /\ at = "Signature" => read = EncodedSoFar(builder) \o <<EOS>>
  /\ at = "End" =>
       /\ builder.signature # None
       /\ read = EncodedSoFar(builder)
                   \o <<EOS, Field("SIGNATURE", builder.signature)>>

FormatInv ==
  /\ Within
  /\ outcome \in {"Idle", "Parsing"} => Progress
  /\ OneEncoding

-----------------------------------------------------------------------------
(***************************************************************************)
(* One step.                                                                *)
(***************************************************************************)
USE ValueAssumption

\* The limits imply the type invariant.
LEMMA WithinTypeOK == Within => TypeOK
BY DEF Within, TypeOK, BuilderRecords, CaveatBuilders, BuilderOK, CaveatBuilderOK

\* The encodings of the two builders are sequences of items.
LEMMA SoFarGood ==
  ASSUME NEW b \in BuilderRecords
  PROVE  /\ Preamble(b) \in Seq(GoodItems)
         /\ EncodedCaveats(b.caveats) \in Seq(GoodItems)
         /\ EncodedSoFar(b) \in Seq(GoodItems)
         /\ EncodedCaveats(<< >>) = << >>
<1>1. EOS \in GoodItems
  BY DEF GoodItems
<1>2. \A tag \in FieldTags, v \in Fields : Field(tag, v) \in GoodItems
  BY DEF GoodItems, Fields
<1>3. Location(b.location) \in Seq(GoodItems)
  BY <1>2 DEF Location, BuilderRecords, Locations, FieldTags
<1>4. Field("IDENTIFIER", b.identifier) \in GoodItems
  BY <1>2 DEF BuilderRecords, FieldTags
<1>5. Preamble(b) \in Seq(GoodItems)
  BY <1>1, <1>3, <1>4 DEF Preamble
<1>6. EncodedCaveats(b.caveats) \in Seq(GoodItems)
  <2>1. b.caveats \in Seq(Caveats) /\ FirstParty(Empty) \in Caveats
    BY DEF BuilderRecords, Caveats, Fields, TooLarge
  <2> QED
    BY <2>1, EncodedAppend
<1>7. EncodedCaveats(<< >>) = << >>
  BY DEF EncodedCaveats, FlattenSeq
<1> QED
  BY <1>5, <1>6, <1>7 DEF EncodedSoFar

\* What is written of a macaroon so far are items that may be accepted.
LEMMA SoFarItems ==
  ASSUME NEW b \in BuilderRecords
  PROVE  /\ Preamble(b) \in Seq(Items)
         /\ EncodedCaveats(b.caveats) \in Seq(Items)
         /\ EncodedSoFar(b) \in Seq(Items)
         /\ EncodedCaveats(<< >>) = << >>
BY SoFarGood, GoodItemsAreItems

\* What an item holds that deserialize does not refuse.
LEMMA AcceptedItem ==
  ASSUME NEW item \in Items, Errors(item) = {}
  PROVE  /\ item.tag \in Expected
         /\ item = Field(item.tag, item.value)
         /\ item.tag \in FieldTags => item.value \in Fields
         /\ item.tag = "LOCATION" => item.value \in Locations
         /\ item.tag = "SIGNATURE" => Size(item.value) = SIGNATURE_SIZE
         /\ item.tag = "EOS" => item = EOS
         /\ item.tag = "END" => item = END
<1>1. item.tag \in Expected /\ FieldErrors(item) = {}
  BY DEF Errors
<1>2. item.tag \in FieldTags =>
        item.value # Unreadable /\ ~TooLarge(item.value)
  BY <1>1 DEF FieldErrors
<1>3. /\ item.tag = "LOCATION" => Utf8(item.value)
      /\ item.tag = "SIGNATURE" => Size(item.value) = SIGNATURE_SIZE
  <2>1. item.tag \in {"LOCATION", "SIGNATURE"} => item.tag \in FieldTags
    BY DEF FieldTags
  <2> QED
    BY <1>1, <1>2, <2>1 DEF FieldErrors
<1>4. \/ item \in { Field(tag, value) : tag \in FieldTags, value \in Value \cup {Unreadable} }
      \/ item \in {EOS, END, UNKNOWN}
  BY DEF Items
<1>5. item = Field(item.tag, item.value)
  BY <1>4 DEF Field, EOS, END, UNKNOWN
<1>6. item.tag \in FieldTags => item.value \in Value \cup {Unreadable}
  BY <1>4 DEF Field, EOS, END, UNKNOWN, FieldTags
<1>7. /\ item.tag = "EOS" => item = EOS
      /\ item.tag = "END" => item = END
  BY <1>4 DEF Field, EOS, END, UNKNOWN, FieldTags
<1> QED
  BY <1>1, <1>2, <1>3, <1>5, <1>6, <1>7 DEF Fields, Locations, FieldTags

\* What CaveatBuilder::build and the limit do not refuse.
LEMMA AcceptedCaveat ==
  ASSUME NEW item, at = "CaveatEnd", Errors(item) = {}
  PROVE  Complete(Completed(item)) /\ HasRoom(builder)
<1>1. CaveatErrors(builder, Completed(item)) = {}
  <2>1. Errors(item) =
          CASE at = "CaveatEnd" -> CaveatErrors(builder, Completed(item))
            [] at = "End"       -> BuildErrors(builder)
            [] OTHER            -> {}
    BY Zenon DEF Errors
  <2>2. at # "End"
    OBVIOUS
  <2> QED
    BY <2>1, <2>2, Zenon
<1> QED
  BY <1>1 DEF CaveatErrors

\* What MacaroonBuilder::build does not refuse.
LEMMA AcceptedBuild ==
  ASSUME NEW item, at = "End", Errors(item) = {}
  PROVE  builder.identifier # Empty /\ builder.signature # None
<1>1. BuildErrors(builder) = {}
  <2>1. Errors(item) =
          CASE at = "CaveatEnd" -> CaveatErrors(builder, Completed(item))
            [] at = "End"       -> BuildErrors(builder)
            [] OTHER            -> {}
    BY Zenon DEF Errors
  <2>2. at # "CaveatEnd"
    OBVIOUS
  <2> QED
    BY <2>1, <2>2, Zenon
<1> QED
  BY <1>1 DEF BuildErrors

\* An item that is refused is refused with an error of the parser.
LEMMA RefusedErrors ==
  ASSUME NEW item
  PROVE  Errors(item) \subseteq ParseErrors
<1>1. FieldErrors(item) \subseteq ParseErrors
  BY DEF FieldErrors, ParseErrors
<1>2. /\ CaveatErrors(builder, Completed(item)) \subseteq ParseErrors
      /\ BuildErrors(builder) \subseteq ParseErrors
  BY DEF CaveatErrors, BuildErrors, ParseErrors
<1>3. "DeserializationError" \in ParseErrors
  BY DEF ParseErrors
<1> QED
  BY <1>1, <1>2, <1>3, Zenon DEF Errors

\* One reading step: the item is accepted, and the next thing is at next.
LEMMA ReadFacts ==
  ASSUME FormatInv, Parsing, NEW item \in Items, NEW tag, NEW next,
         Reads(item, END), Read(item, tag, next)
  PROVE  /\ Within /\ Progress
         /\ read' = Append(read, item) /\ read' \in Seq(Items)
         /\ item.tag = tag /\ at' = next /\ outcome' = "Parsing"
         /\ Errors(item) = {}
         /\ tag \in FieldTags => item = Field(tag, item.value) /\ item.value \in Fields
BY AcceptedItem DEF FormatInv, Parsing, Read, Reads, Within

\* The invariant holds before the first call.
LEMMA FormatInit == Init => FormatInv
<1> SUFFICES ASSUME Init PROVE FormatInv
  OBVIOUS
<1>1. /\ read = << >> /\ builder = NewMacaroonBuilder
      /\ caveat_builder = NewCaveatBuilder /\ outcome = "Idle" /\ at = "Start"
  BY DEF Init, ParserInit
<1>2. Within
  BY <1>1
  DEF Within, NewMacaroonBuilder, NewCaveatBuilder, BuilderRecords,
      CaveatBuilders, Fields, TooLarge, Places
<1>3. Progress
  BY <1>1 DEF Progress, NewMacaroonBuilder
<1> QED
  BY <1>1, <1>2, <1>3 DEF FormatInv, OneEncoding

\* While nothing is accepted, OneEncoding says nothing.
LEMMA InvFromProgress ==
  ASSUME Within', Progress', outcome' # "Ok"
  PROVE  FormatInv'
BY DEF FormatInv, OneEncoding

\* ReadLocation: the encoding so far gets its first item.
LEMMA ReadLocationInv ==
  ASSUME FormatInv, Parsing, NEW item \in Items, Reads(item, END), ReadLocation(item)
  PROVE  FormatInv'
<1>1. /\ at = "Start" /\ Read(item, "LOCATION", "Identifier")
      /\ builder' = [builder EXCEPT !.location = item.value]
      /\ UNCHANGED caveat_builder
  BY DEF ReadLocation
<1>2. /\ Within /\ Progress
      /\ read' = Append(read, item) /\ read' \in Seq(Items)
      /\ item = Field("LOCATION", item.value) /\ Errors(item) = {}
      /\ at' = "Identifier" /\ outcome' = "Parsing"
  BY <1>1, ReadFacts DEF FieldTags
<1>3. item.value \in Locations /\ item.value # None
  BY <1>2, AcceptedItem DEF Locations, Fields, Field
<1>4. Within'
  BY <1>1, <1>2, <1>3 DEF Within, BuilderRecords, Places
<1>5. read' = Location(builder'.location)
  BY <1>1, <1>2, <1>3 DEF Progress, Location, Within, BuilderRecords
<1>6. Progress'
  BY <1>1, <1>2, <1>5 DEF Progress, Within, BuilderRecords
<1> QED
  BY <1>2, <1>4, <1>6, InvFromProgress

\* Items put at the end one by one.
LEMMA TwoItems ==
  ASSUME NEW s \in Seq(Items), NEW x \in Items, NEW y \in Items
  PROVE  Append(s \o << >> \o <<x>>, y) = s \o <<x, y>>
<1>1. s \o << >> = s
  OBVIOUS
<1>2. s \o <<x>> = Append(s, x)
  OBVIOUS
<1>3. Append(Append(s, x), y) = s \o <<x, y>>
  OBVIOUS
<1> QED
  BY <1>1, <1>2, <1>3

\* ReadIdentifier: the preamble lacks its EOS alone.
LEMMA ReadIdentifierInv ==
  ASSUME FormatInv, Parsing, NEW item \in Items, Reads(item, END), ReadIdentifier(item)
  PROVE  FormatInv'
<1>1. /\ at \in {"Start", "Identifier"} /\ Read(item, "IDENTIFIER", "Eos")
      /\ builder' = [builder EXCEPT !.identifier = item.value]
      /\ UNCHANGED caveat_builder
  BY DEF ReadIdentifier
<1>2. /\ Within /\ Progress
      /\ read' = Append(read, item) /\ read' \in Seq(Items)
      /\ item = Field("IDENTIFIER", item.value) /\ item.value \in Fields
      /\ at' = "Eos" /\ outcome' = "Parsing"
  BY <1>1, ReadFacts DEF FieldTags
<1>3. Within'
  BY <1>1, <1>2 DEF Within, BuilderRecords, Places
<1>4. builder'.location = builder.location /\ builder'.identifier = item.value
      /\ builder'.caveats = << >>
  BY <1>1, <1>2 DEF Within, BuilderRecords, Progress
<1>5. Append(read', EOS) = Preamble(builder')
  <2>1. read = Location(builder.location) /\ read \in Seq(Items) /\ EOS \in Items
        /\ item \in Items
    BY <1>1, <1>2 DEF Progress, Location, Within, Items
  <2>2. Append(Append(read, item), EOS) = read \o <<item, EOS>>
    BY <2>1
  <2> QED
    BY <1>2, <1>4, <2>1, <2>2 DEF Preamble
<1>6. Progress'
  BY <1>1, <1>2, <1>4, <1>5 DEF Progress
<1> QED
  BY <1>2, <1>3, <1>6, InvFromProgress

\* ReadCaveatLocation: a third-party caveat begins.
LEMMA ReadCaveatLocationInv ==
  ASSUME FormatInv, Parsing, NEW item \in Items, Reads(item, END),
         ReadCaveatLocation(item)
  PROVE  FormatInv'
<1>1. /\ at = "Caveat" /\ Read(item, "LOCATION", "CaveatId")
      /\ caveat_builder' = [caveat_builder EXCEPT !.location = item.value]
      /\ UNCHANGED builder
  BY DEF ReadCaveatLocation
<1>2. /\ Within /\ Progress
      /\ read' = Append(read, item) /\ read' \in Seq(Items)
      /\ item = Field("LOCATION", item.value) /\ Errors(item) = {}
      /\ at' = "CaveatId" /\ outcome' = "Parsing"
  BY <1>1, ReadFacts DEF FieldTags
<1>3. item.value \in Locations /\ item.value # None
  BY <1>2, AcceptedItem DEF Locations, Fields, Field
<1>4. caveat_builder'.location = item.value
  BY <1>1, <1>2 DEF Within, CaveatBuilders
<1>5. Within'
  BY <1>1, <1>2, <1>3 DEF Within, CaveatBuilders, Places
<1>6. read' = EncodedSoFar(builder) \o Location(caveat_builder'.location)
  <2>1. read = EncodedSoFar(builder) /\ read \in Seq(Items) /\ item \in Items
    BY <1>1, <1>2 DEF Progress, Within
  <2>2. Append(read, item) = read \o <<item>>
    BY <2>1
  <2> QED
    BY <1>2, <1>3, <1>4, <2>1, <2>2 DEF Location
<1>7. Progress'
  BY <1>1, <1>2, <1>6 DEF Progress
<1> QED
  BY <1>2, <1>5, <1>7, InvFromProgress

\* ReadCaveatIdentifier, of a caveat of either party.
LEMMA ReadCaveatIdentifierInv ==
  ASSUME FormatInv, Parsing, NEW item \in Items, Reads(item, END),
         ReadCaveatIdentifier(item)
  PROVE  FormatInv'
<1>1. /\ at \in {"Caveat", "CaveatId"} /\ Read(item, "IDENTIFIER", "CaveatEnd")
      /\ caveat_builder' = [caveat_builder EXCEPT !.id = item.value]
      /\ UNCHANGED builder
  BY DEF ReadCaveatIdentifier
<1>2. /\ Within /\ Progress
      /\ read' = Append(read, item) /\ read' \in Seq(Items)
      /\ item = Field("IDENTIFIER", item.value) /\ item.value \in Fields
      /\ at' = "CaveatEnd" /\ outcome' = "Parsing"
  BY <1>1, ReadFacts DEF FieldTags
<1>3. /\ caveat_builder'.id = item.value /\ item.value # None
      /\ caveat_builder'.location = caveat_builder.location
  BY <1>1, <1>2 DEF Within, CaveatBuilders, Fields
<1>4. Within'
  BY <1>1, <1>2 DEF Within, CaveatBuilders, Places
<1>5. read = EncodedSoFar(builder) \o Location(caveat_builder.location)
  <2>1. CASE at = "Caveat"
    <3>1. /\ read = EncodedSoFar(builder) /\ read \in Seq(Items)
          /\ Location(caveat_builder.location) = << >>
      BY <1>2, <2>1 DEF Progress, Within, NewCaveatBuilder, Location
    <3>2. read \o << >> = read
      BY <3>1
    <3> QED
      BY <3>1, <3>2
  <2>2. CASE at = "CaveatId"
    BY <1>2, <2>2 DEF Progress
  <2> QED
    BY <1>1, <2>1, <2>2
<1>6. read' = EncodedSoFar(builder) \o Location(caveat_builder'.location)
                \o <<Field("IDENTIFIER", caveat_builder'.id)>>
  <2>1. Append(read, item) = read \o <<item>>
    BY <1>2 DEF Within
  <2> QED
    BY <1>2, <1>3, <1>5, <2>1
<1>7. Progress'
  BY <1>1, <1>2, <1>3, <1>6 DEF Progress
<1> QED
  BY <1>2, <1>4, <1>7, InvFromProgress

\* One more caveat in the builder is one more in the encoding.
LEMMA SoFarGrows ==
  ASSUME NEW b \in BuilderRecords, NEW w, NEW c \in Caveats,
         w = [b EXCEPT !.caveats = Append(@, c)]
  PROVE  /\ w \in BuilderRecords
         /\ w.caveats = Append(b.caveats, c)
         /\ EncodedSoFar(w) = EncodedSoFar(b) \o EncodeCaveat(c)
<1>1. /\ w \in BuilderRecords /\ b.caveats \in Seq(Caveats)
      /\ w.caveats = Append(b.caveats, c)
      /\ w.location = b.location /\ w.identifier = b.identifier
  <2> DEFINE cs == Append(b.caveats, c)
  <2>1. b.caveats \in Seq(Caveats) /\ cs \in Seq(Caveats)
    <3>1. b.caveats \in Seq(Caveats)
      BY DEF BuilderRecords
    <3> QED
      BY <3>1
  <2>2. w = [b EXCEPT !.caveats = cs]
    OBVIOUS
  <2> HIDE DEF cs
  <2>3. w \in BuilderRecords /\ w.caveats = cs
        /\ w.location = b.location /\ w.identifier = b.identifier
    BY <2>1, <2>2 DEF BuilderRecords
  <2> QED
    BY <2>1, <2>3 DEF cs
<1>2. /\ Preamble(b) \in Seq(Items) /\ EncodedCaveats(b.caveats) \in Seq(Items)
      /\ EncodeCaveat(c) \in Seq(Items)
  BY SoFarItems, CaveatItems, GoodItemsAreItems
<1>3. Preamble(w) = Preamble(b)
  BY <1>1 DEF Preamble
<1>4. EncodedCaveats(w.caveats) = EncodedCaveats(b.caveats) \o EncodeCaveat(c)
  BY <1>1, EncodedAppend
<1>5. Preamble(b) \o (EncodedCaveats(b.caveats) \o EncodeCaveat(c))
        = (Preamble(b) \o EncodedCaveats(b.caveats)) \o EncodeCaveat(c)
  BY <1>2
<1> QED
  BY <1>1, <1>3, <1>4, <1>5 DEF EncodedSoFar

\* AddCaveat: the encoding so far grows by that of the caveat, whose EOS is still
\* to come after a VID.
LEMMA AddCaveatInv ==
  ASSUME FormatInv, Parsing, NEW item \in Items, Reads(item, END), AddCaveat(item)
  PROVE  FormatInv'
<1> DEFINE cb == Completed(item)
           c  == CaveatOf(cb)
           id == caveat_builder.id
           l  == caveat_builder.location
           B  == EncodedSoFar(builder)
<1>1. /\ at = "CaveatEnd"
      /\ Read(item, "VID", "CaveatEos") \/ Read(item, "EOS", "Caveat")
      /\ builder' = [builder EXCEPT !.caveats = Append(@, c)]
      /\ caveat_builder' = NewCaveatBuilder
  BY DEF AddCaveat, WithBuilt
<1>2. /\ Within /\ Progress
      /\ read' = Append(read, item) /\ read' \in Seq(Items)
      /\ Errors(item) = {} /\ outcome' = "Parsing"
      /\ \/ /\ item = Field("VID", item.value) /\ item.value \in Fields
            /\ at' = "CaveatEos"
         \/ item = EOS /\ at' = "Caveat"
  BY <1>1, ReadFacts, AcceptedItem DEF FieldTags
<1>3. Complete(cb) /\ Len(builder.caveats) < MAX_CAVEATS
  BY <1>1, <1>2, AcceptedCaveat DEF HasRoom
<1>4. /\ id \in Fields /\ l \in Locations \cup {None}
      /\ read = B \o Location(l) \o <<Field("IDENTIFIER", id)>>
      /\ B \in Seq(Items) /\ builder \in BuilderRecords
  BY <1>1, <1>2, SoFarItems DEF Progress, Within, CaveatBuilders
<1>5. cb = [id |-> id, verifier_id |-> IF item.tag = "VID" THEN item.value ELSE None,
            location |-> l]
  BY <1>2 DEF Completed, Within, CaveatBuilders
<1>6. EOS \in Items /\ \A tag \in FieldTags, v \in Fields : Field(tag, v) \in Items
  BY DEF Items, Fields
<1>7. CASE item = EOS /\ at' = "Caveat"
  <2>1. cb.verifier_id = None /\ cb.id = id /\ cb.location = l
    BY <1>5, <1>7 DEF EOS, Field
  <2>2. l = None /\ c = FirstParty(id)
    BY <1>3, <2>1 DEF Complete, CaveatOf
  <2>3. c \in Caveats /\ EncodeCaveat(c) = <<Field("IDENTIFIER", id), EOS>>
    BY <1>4, <2>2 DEF Caveats, EncodeCaveat, FirstParty, IsFirstParty
  <2>4. Field("IDENTIFIER", id) \in Items
    BY <1>4, <1>6 DEF FieldTags
  <2>5. read' = B \o EncodeCaveat(c)
    <3>1. read = B \o << >> \o <<Field("IDENTIFIER", id)>>
      BY <1>4, <2>2 DEF Location
    <3> HIDE DEF B, id
    <3>2. Append(B \o << >> \o <<Field("IDENTIFIER", id)>>, EOS)
            = B \o <<Field("IDENTIFIER", id), EOS>>
      BY <1>4, <1>6, <2>4, TwoItems
    <3> QED
      BY <1>2, <1>7, <2>3, <3>1, <3>2
  <2>6. /\ builder' \in BuilderRecords
        /\ builder'.caveats = Append(builder.caveats, c)
        /\ read' = EncodedSoFar(builder')
    <3> HIDE DEF c
    <3> QED
      BY <1>1, <1>4, <2>3, <2>5, SoFarGrows
  <2>7. Len(builder'.caveats) <= MAX_CAVEATS
    BY <1>3, <1>4, <2>6 DEF BuilderRecords
  <2>8. Within'
    BY <1>1, <1>2, <1>7, <2>6, <2>7
    DEF Within, Places, NewCaveatBuilder, CaveatBuilders
  <2>9. Progress'
    BY <1>1, <1>7, <2>6 DEF Progress
  <2> QED
    BY <1>2, <2>8, <2>9, InvFromProgress
<1>8. CASE item = Field("VID", item.value) /\ item.value \in Fields /\ at' = "CaveatEos"
  <2> DEFINE v == item.value
  <2>1. cb.verifier_id = v /\ cb.id = id /\ cb.location = l /\ v # None
    BY <1>5, <1>8 DEF Field, Fields
  <2>2. l \in Locations /\ l # None /\ c = ThirdParty(id, v, l)
    BY <1>3, <1>4, <2>1 DEF Complete, CaveatOf
  <2>3. /\ c \in Caveats
        /\ EncodeCaveat(c) = <<Field("LOCATION", l), Field("IDENTIFIER", id),
                               Field("VID", v), EOS>>
    BY <1>4, <1>8, <2>2 DEF Caveats, EncodeCaveat, ThirdParty, IsFirstParty
  <2>4. /\ Field("LOCATION", l) \in Items /\ Field("IDENTIFIER", id) \in Items
        /\ Field("VID", v) \in Items
    BY <1>4, <1>6, <1>8, <2>2 DEF FieldTags, Locations
  <2>5. Append(read', EOS) = B \o EncodeCaveat(c)
    <3>1. read = B \o <<Field("LOCATION", l)>> \o <<Field("IDENTIFIER", id)>>
      BY <1>4, <2>2 DEF Location
    <3> HIDE DEF B, id, l, v
    <3>2. Append(Append(B \o <<Field("LOCATION", l)>> \o <<Field("IDENTIFIER", id)>>,
                        Field("VID", v)), EOS)
            = B \o <<Field("LOCATION", l), Field("IDENTIFIER", id), Field("VID", v), EOS>>
      <4> DEFINE x == Field("LOCATION", l)
                 y == Field("IDENTIFIER", id)
                 z == Field("VID", v)
                 w == EOS
      <4>1. x \in Items /\ y \in Items /\ z \in Items /\ w \in Items
        BY <1>6, <2>4
      <4>2. B \in Seq(Items)
        BY <1>4
      <4> HIDE DEF x, y, z, w
      <4>3. B \o <<x>> \o <<y>> = Append(Append(B, x), y)
        BY <4>1, <4>2
      <4>4. Append(Append(Append(Append(B, x), y), z), w) = B \o <<x, y, z, w>>
        BY <4>1, <4>2
      <4> QED
        BY <4>3, <4>4, Zenon DEF x, y, z, w
    <3>3. read' = Append(read, Field("VID", v))
      BY <1>2, <1>8 DEF v
    <3> QED
      BY <2>3, <3>1, <3>2, <3>3
  <2>6. /\ builder' \in BuilderRecords
        /\ builder'.caveats = Append(builder.caveats, c)
        /\ Append(read', EOS) = EncodedSoFar(builder')
    <3> HIDE DEF c
    <3> QED
      BY <1>1, <1>4, <2>3, <2>5, SoFarGrows
  <2>7. Len(builder'.caveats) <= MAX_CAVEATS
    BY <1>3, <1>4, <2>6 DEF BuilderRecords
  <2>8. Within'
    BY <1>1, <1>2, <1>8, <2>6, <2>7
    DEF Within, Places, NewCaveatBuilder, CaveatBuilders
  <2>9. Progress'
    BY <1>1, <1>8, <2>6 DEF Progress
  <2> QED
    BY <1>2, <2>8, <2>9, InvFromProgress
<1> QED
  BY <1>2, <1>7, <1>8

\* ReadEos: the end of the preamble, of a third-party caveat, or of the caveats.
LEMMA ReadEosInv ==
  ASSUME FormatInv, Parsing, NEW item \in Items, Reads(item, END), ReadEos(item)
  PROVE  FormatInv'
<1>1. /\ \/ at \in {"Eos", "CaveatEos"} /\ Read(item, "EOS", "Caveat")
         \/ at = "Caveat" /\ Read(item, "EOS", "Signature")
      /\ UNCHANGED <<builder, caveat_builder>>
  BY DEF ReadEos
<1>2. /\ Within /\ Progress
      /\ read' = Append(read, item) /\ read' \in Seq(Items)
      /\ item = EOS /\ outcome' = "Parsing"
      /\ \/ at \in {"Eos", "CaveatEos"} /\ at' = "Caveat"
         \/ at = "Caveat" /\ at' = "Signature"
  BY <1>1, ReadFacts, AcceptedItem
<1>3. Within'
  BY <1>1, <1>2 DEF Within, Places
<1>4. caveat_builder' = NewCaveatBuilder
  BY <1>1, <1>2 DEF Progress
<1>5. /\ EncodedCaveats(<< >>) = << >>
      /\ Preamble(builder) \in Seq(Items) /\ read \in Seq(Items)
      /\ EncodedSoFar(builder) \in Seq(Items)
  BY <1>2, SoFarItems DEF Within
<1>6. CASE at = "Eos" /\ at' = "Caveat"
  <2>1. builder.caveats = << >> /\ read' = Preamble(builder)
    BY <1>2, <1>6 DEF Progress
  <2>2. Preamble(builder) \o << >> = Preamble(builder)
    BY <1>5
  <2>3. read' = EncodedSoFar(builder)
    BY <1>5, <2>1, <2>2 DEF EncodedSoFar
  <2>4. Progress'
    BY <1>1, <1>4, <1>6, <2>3 DEF Progress
  <2> QED
    BY <1>2, <1>3, <2>4, InvFromProgress
<1>7. CASE at = "CaveatEos" /\ at' = "Caveat"
  <2>1. read' = EncodedSoFar(builder)
    BY <1>2, <1>7 DEF Progress
  <2>2. Progress'
    BY <1>1, <1>4, <1>7, <2>1 DEF Progress
  <2> QED
    BY <1>2, <1>3, <2>2, InvFromProgress
<1>8. CASE at = "Caveat" /\ at' = "Signature"
  <2>1. read = EncodedSoFar(builder)
    BY <1>2, <1>8 DEF Progress
  <2>2. read' = EncodedSoFar(builder) \o <<EOS>>
    BY <1>2, <1>5, <2>1
  <2>3. Progress'
    BY <1>1, <1>4, <1>8, <2>2 DEF Progress
  <2> QED
    BY <1>2, <1>3, <2>3, InvFromProgress
<1> QED
  BY <1>2, <1>6, <1>7, <1>8

\* ReadSignature: only the end is missing.
LEMMA ReadSignatureInv ==
  ASSUME FormatInv, Parsing, NEW item \in Items, Reads(item, END), ReadSignature(item)
  PROVE  FormatInv'
<1>1. /\ at = "Signature" /\ Read(item, "SIGNATURE", "End")
      /\ builder' = [builder EXCEPT !.signature = item.value]
      /\ UNCHANGED caveat_builder
  BY DEF ReadSignature
<1>2. /\ Within /\ Progress
      /\ read' = Append(read, item) /\ read' \in Seq(Items)
      /\ item = Field("SIGNATURE", item.value) /\ item.value \in Fields
      /\ Errors(item) = {} /\ at' = "End" /\ outcome' = "Parsing"
  BY <1>1, ReadFacts DEF FieldTags
<1>3. Size(item.value) = SIGNATURE_SIZE /\ item.value \in Value /\ item.value # None
  BY <1>2, AcceptedItem DEF Fields, Field
<1>4. /\ Within'
      /\ builder'.signature = item.value /\ builder'.caveats = builder.caveats
      /\ builder'.location = builder.location
      /\ builder'.identifier = builder.identifier
  BY <1>1, <1>2, <1>3 DEF Within, BuilderRecords, Places
<1>5. EncodedSoFar(builder') = EncodedSoFar(builder)
  BY <1>4 DEF EncodedSoFar, Preamble
<1>6. read' = EncodedSoFar(builder') \o <<EOS, Field("SIGNATURE", builder'.signature)>>
  <2>1. /\ read = EncodedSoFar(builder) \o <<EOS>>
        /\ EncodedSoFar(builder) \in Seq(Items)
        /\ EOS \in Items /\ item \in Items
    BY <1>1, <1>2, SoFarItems DEF Progress, Within, Items
  <2>2. Append(EncodedSoFar(builder) \o <<EOS>>, item)
          = EncodedSoFar(builder) \o <<EOS, item>>
    BY <2>1
  <2> QED
    BY <1>2, <1>4, <1>5, <2>1, <2>2
<1>7. Progress'
  BY <1>1, <1>2, <1>3, <1>4, <1>6 DEF Progress
<1> QED
  BY <1>2, <1>4, <1>7, InvFromProgress

\* Build: the items read are the encoding of the macaroon.
LEMMA BuildInv ==
  ASSUME FormatInv, Parsing, NEW item \in Items, Reads(item, END), Build(item)
  PROVE  FormatInv'
<1>1. /\ at = "End" /\ Errors(item) = {} /\ outcome' = "Ok"
      /\ UNCHANGED <<at, builder, caveat_builder>> /\ read' = Append(read, item)
      /\ Within /\ Progress
  BY DEF Build, Reads, FormatInv, Parsing
<1>2. item = END
  <2>1. Expected = {"END"}
    BY <1>1 DEF Expected
  <2> QED
    BY <1>1, <2>1, AcceptedItem
<1>3. /\ builder.identifier # Empty /\ builder.signature # None
      /\ builder \in BuilderRecords /\ read \in Seq(Items) /\ item \in Items
  BY <1>1, AcceptedBuild DEF Within
<1>4. Within'
  BY <1>1, <1>3 DEF Within
<1>5. builder \in Macaroons
  <2>1. builder.caveats \in [1..Len(builder.caveats) -> Caveats]
        /\ Len(builder.caveats) \in 0..MAX_CAVEATS
    BY <1>1 DEF Within, BuilderRecords
  <2>2. builder.caveats \in UNION { [1..n -> Caveats] : n \in 0..MAX_CAVEATS }
    BY <2>1
  <2> QED
    BY <1>3, <2>2 DEF BuilderRecords, Macaroons
<1>6. read' = Encode(builder)
  <2> DEFINE B == EncodedSoFar(builder)
             sig == Field("SIGNATURE", builder.signature)
  <2>1. /\ read = B \o <<EOS, sig>> /\ B \in Seq(Items)
        /\ EOS \in Items /\ END \in Items
    <3>1. read = B \o <<EOS, sig>>
      BY <1>1 DEF Progress
    <3>2. B \in Seq(Items)
      BY <1>3, SoFarItems
    <3>3. EOS \in Items /\ END \in Items
      BY DEF Items
    <3> QED
      BY <3>1, <3>2, <3>3
  <2>2. sig \in Items
    BY <1>3 DEF Items, FieldTags, BuilderRecords
  <2>3. Encode(builder) = B \o <<EOS, sig, END>>
    <3>1. /\ Location(builder.location) \o <<Field("IDENTIFIER", builder.identifier), EOS>>
               = Preamble(builder)
          /\ FlattenSeq([i \in 1..Len(builder.caveats) |-> EncodeCaveat(builder.caveats[i])])
               = EncodedCaveats(builder.caveats)
      BY Zenon DEF Preamble, EncodedCaveats
    <3>2. Encode(builder) =
            Preamble(builder) \o EncodedCaveats(builder.caveats) \o <<EOS, sig, END>>
      BY <3>1, Zenon DEF Encode, Location
    <3> QED
      BY <3>2, Zenon DEF EncodedSoFar
  <2> HIDE DEF B, sig
  <2>4. Append(B \o <<EOS, sig>>, END) = B \o <<EOS, sig, END>>
    BY <2>1, <2>2
  <2> QED
    BY <1>1, <1>2, <2>1, <2>3, <2>4
<1> QED
  BY <1>1, <1>4, <1>5, <1>6 DEF FormatInv, OneEncoding

\* A call that fails accepts nothing.
LEMMA FailInv ==
  ASSUME FormatInv, NEW errors \in SUBSET ParseErrors, Fail(errors),
         UNCHANGED at, read' \in Seq(Items)
  PROVE  FormatInv'
<1>1. Within' /\ outcome' \notin {"Idle", "Parsing", "Ok"}
  BY DEF FormatInv, Within, Fail, ParseErrors
<1> QED
  BY <1>1 DEF FormatInv, OneEncoding

\* Every item preserves the invariant.
LEMMA StepInv ==
  ASSUME FormatInv, Parsing, NEW item \in Items, Step(item)
  PROVE  FormatInv'
<1>1. Reads(item, END)
  BY DEF Step
<1>2. CASE Refuse(item)
  <2>1. read' \in Seq(Items)
    BY <1>1 DEF Reads, FormatInv, Within
  <2> QED
    BY <1>2, <2>1, RefusedErrors, FailInv DEF Refuse
<1> QED
  BY <1>1, <1>2, ReadLocationInv, ReadIdentifierInv, ReadCaveatLocationInv,
     ReadCaveatIdentifierInv, AddCaveatInv, ReadEosInv, ReadSignatureInv, BuildInv
  DEF Step

\* Every step preserves the invariant.
LEMMA FormatNext ==
  ASSUME FormatInv, [Next]_vars
  PROVE  FormatInv'
<1>1. CASE deserialize /\ UNCHANGED at
  <2>1. UNCHANGED <<read, builder, caveat_builder, at>>
        /\ outcome = "Idle" /\ outcome' = "Parsing" /\ Within /\ Progress
    BY <1>1 DEF deserialize, FormatInv
  <2>2. Within' /\ Progress'
    BY <2>1 DEF Within, Progress
  <2> QED
    BY <2>1, <2>2, InvFromProgress
<1>2. CASE Parsing /\ WrongVersion
  <2>1. /\ read' \in Seq(Items) /\ UNCHANGED at
        /\ Fail({"DeserializationError"})
        /\ {"DeserializationError"} \in SUBSET ParseErrors
    BY <1>2 DEF WrongVersion, ParseErrors, FormatInv, Within
  <2> QED
    BY <2>1, FailInv
<1>3. CASE Parsing /\ \E item \in Items : Step(item)
  BY <1>3, StepInv
<1>4. CASE Return /\ at' = "Start"
  <2>1. /\ read' = << >> /\ builder' = NewMacaroonBuilder
        /\ caveat_builder' = NewCaveatBuilder /\ outcome' = "Idle" /\ at' = "Start"
    BY <1>4 DEF Return
  <2>2. Within'
    BY <2>1
    DEF Within, NewMacaroonBuilder, NewCaveatBuilder, BuilderRecords,
        CaveatBuilders, Fields, TooLarge, Places
  <2>3. Progress'
    BY <2>1 DEF Progress, NewMacaroonBuilder
  <2> QED
    BY <2>1, <2>2, <2>3, InvFromProgress
<1>5. CASE UNCHANGED vars
  <2>1. UNCHANGED <<read, builder, caveat_builder, outcome, at>>
    BY <1>5 DEF vars, parserVars
  <2>2. Within' <=> Within
    BY <2>1 DEF Within
  <2>3. Progress' <=> Progress
    BY <2>1 DEF Progress
  <2> QED
    BY <2>1, <2>2, <2>3 DEF FormatInv, OneEncoding
<1> QED
  BY <1>1, <1>2, <1>3, <1>4, <1>5 DEF Next

\* The invariant that is inductive.
THEOREM FormatInvariantHolds == Spec => []FormatInv
BY FormatInit, FormatNext, PTL DEF Spec

\* TypeOK: whatever items a token has, the builders stay within the limits.
THEOREM BuildersWithinLimits == Spec => []TypeOK
<1>1. FormatInv => TypeOK
  BY WithinTypeOK DEF FormatInv
<1> QED
  BY <1>1, FormatInvariantHolds, PTL

\* OneEncoding: an accepted token is, item for item, what serialize makes of
\* the macaroon that was read, for any values, sizes and limits.
THEOREM ItemsAreCanonical == Spec => []OneEncoding
<1>1. FormatInv => OneEncoding
  BY DEF FormatInv
<1> QED
  BY <1>1, FormatInvariantHolds, PTL

-----------------------------------------------------------------------------
(***************************************************************************)
(* A walk along an encoding: while what has been read begins that of m, the *)
(* builders hold as much of m as that is.                                   *)
(***************************************************************************)
\* The caveat of m that is read, or comes next.
Current(m) == m.caveats[Len(builder.caveats) + 1]

\* What the caveat builder has of c after its identifier.
HalfBuilt(c) ==
  IF IsFirstParty(c)
    THEN [id |-> c.predicate, verifier_id |-> None, location |-> None]
    ELSE [id |-> c.id, verifier_id |-> None, location |-> c.location]

Holds(m) ==
  /\ at # "Start" => builder.location = m.location
  /\ at \notin {"Start", "Identifier"} => builder.identifier = m.identifier
  /\ IsStart(builder.caveats, m.caveats)
  /\ at \in {"CaveatId", "CaveatEnd"} => Len(builder.caveats) < Len(m.caveats)
  /\ at = "CaveatId" =>
       ~IsFirstParty(Current(m)) /\ caveat_builder.location = Current(m).location
  /\ at = "CaveatEnd" => caveat_builder = HalfBuilt(Current(m))
  /\ at \in {"Signature", "End"} => builder.caveats = m.caveats
  /\ at = "End" => builder.signature = m.signature

\* The item of m's encoding that is next.
NextItem(m) ==
  LET named == Field("IDENTIFIER", m.identifier)
      c     == Current(m)
  IN  CASE at = "Start"      -> IF m.location = None THEN named
                                ELSE Field("LOCATION", m.location)
        [] at = "Identifier" -> named
        [] at \in {"Eos", "CaveatEos"} -> EOS
        [] at = "Caveat"     -> IF builder.caveats = m.caveats THEN EOS
                                ELSE IF IsFirstParty(c) THEN Field("IDENTIFIER", c.predicate)
                                ELSE Field("LOCATION", c.location)
        [] at = "CaveatId"   -> Field("IDENTIFIER", c.id)
        [] at = "CaveatEnd"  -> IF IsFirstParty(c) THEN EOS
                                ELSE Field("VID", c.verifier_id)
        [] at = "Signature"  -> Field("SIGNATURE", m.signature)
        [] at = "End"        -> END

\* Macaroons are builders that lack nothing.
LEMMA MacaroonFacts ==
  ASSUME NEW m \in Macaroons
  PROVE  /\ m \in BuilderRecords
         /\ m.identifier \in Fields \ {Empty} /\ m.location \in Locations \cup {None}
         /\ m.signature \in Value /\ Size(m.signature) = SIGNATURE_SIZE
         /\ m.caveats \in Seq(Caveats) /\ Len(m.caveats) <= MAX_CAVEATS
<1>1. /\ m.identifier \in Fields \ {Empty} /\ m.location \in Locations \cup {None}
      /\ m.signature \in Value /\ Size(m.signature) = SIGNATURE_SIZE
      /\ m.caveats \in UNION { [1..n -> Caveats] : n \in 0..MAX_CAVEATS }
      /\ m = [identifier |-> m.identifier, location |-> m.location,
              signature |-> m.signature, caveats |-> m.caveats]
  BY DEF Macaroons
<1>2. PICK n \in 0..MAX_CAVEATS : m.caveats \in [1..n -> Caveats]
  BY <1>1
<1>3. m.caveats \in Seq(Caveats) /\ Len(m.caveats) = n
  BY <1>2
<1>4. m \in BuilderRecords
  BY <1>1, <1>3 DEF BuilderRecords
<1> QED
  BY <1>1, <1>2, <1>3, <1>4

\* The two kinds of caveats and their encodings.
LEMMA CaveatCases ==
  ASSUME NEW c \in Caveats
  PROVE  \/ /\ IsFirstParty(c) /\ c = FirstParty(c.predicate) /\ c.predicate \in Fields
            /\ EncodeCaveat(c) = <<Field("IDENTIFIER", c.predicate), EOS>>
         \/ /\ ~IsFirstParty(c) /\ c = ThirdParty(c.id, c.verifier_id, c.location)
            /\ c.id \in Fields /\ c.verifier_id \in Fields /\ c.location \in Locations
            /\ EncodeCaveat(c) = <<Field("LOCATION", c.location), Field("IDENTIFIER", c.id),
                                   Field("VID", c.verifier_id), EOS>>
<1>1. CASE \E p \in Fields : c = FirstParty(p)
  <2>1. PICK p \in Fields : c = FirstParty(p)
    BY <1>1
  <2>2. IsFirstParty(c) /\ c.predicate = p
    BY <2>1 DEF FirstParty, IsFirstParty
  <2> QED
    BY <2>1, <2>2 DEF EncodeCaveat
<1>2. CASE \E i \in Fields, v \in Fields, l \in Locations : c = ThirdParty(i, v, l)
  <2>1. PICK i \in Fields, v \in Fields, l \in Locations : c = ThirdParty(i, v, l)
    BY <1>2
  <2>2. ~IsFirstParty(c) /\ c.id = i /\ c.verifier_id = v /\ c.location = l
    BY <2>1 DEF ThirdParty, IsFirstParty
  <2> QED
    BY <2>1, <2>2 DEF EncodeCaveat
<1> QED
  BY <1>1, <1>2 DEF Caveats

\* The encoding of some caveats begins that of more.
LEMMA MoreCaveats ==
  ASSUME NEW cs \in Seq(Caveats)
  PROVE  \A ds \in Seq(Caveats) : IsStart(cs, ds) =>
           \E more \in Seq(GoodItems) : EncodedCaveats(ds) = EncodedCaveats(cs) \o more
<1> DEFINE Claim(ds) ==
             \E more \in Seq(GoodItems) : EncodedCaveats(ds) = EncodedCaveats(cs) \o more
           X == { k \in Nat : \A ds \in Seq(Caveats) :
                    IsStart(cs, ds) /\ Len(ds) = Len(cs) + k => Claim(ds) }
<1> HIDE DEF Claim
<1>0. \A s \in Seq(Caveats) : EncodedCaveats(s) \in Seq(GoodItems)
  <2>1. FirstParty(Empty) \in Caveats
    BY DEF Caveats, Fields, TooLarge
  <2> QED
    BY <2>1, EncodedAppend
<1>1. 0 \in X
  <2> SUFFICES ASSUME NEW ds \in Seq(Caveats), IsStart(cs, ds), Len(ds) = Len(cs) + 0
               PROVE  Claim(ds)
    OBVIOUS
  <2>1. ds = cs
    BY DEF IsStart
  <2> DEFINE e == EncodedCaveats(cs)
  <2>2. e \in Seq(GoodItems)
    BY <1>0
  <2> HIDE DEF e
  <2>3. e = e \o << >> /\ << >> \in Seq(GoodItems)
    BY <2>2
  <2> QED
    BY <2>1, <2>3 DEF e, Claim
<1>2. ASSUME NEW k \in Nat, k \in X PROVE k + 1 \in X
  <2> SUFFICES ASSUME NEW ds \in Seq(Caveats), IsStart(cs, ds), Len(ds) = Len(cs) + (k + 1)
               PROVE  Claim(ds)
    OBVIOUS
  <2> DEFINE n     == Len(cs) + k
             front == SubSeq(ds, 1, n)
             c     == ds[n + 1]
  <2>1. /\ front \in Seq(Caveats) /\ Len(front) = n /\ c \in Caveats
        /\ ds = Append(front, c) /\ IsStart(cs, front)
    <3>1. Len(cs) \in Nat /\ n \in Nat /\ Len(ds) = n + 1
      OBVIOUS
    <3>2. Len(cs) <= Len(ds) /\ \A i \in 1..Len(cs) : cs[i] = ds[i]
      BY DEF IsStart
    <3> HIDE DEF n
    <3>3. /\ front \in Seq(Caveats) /\ Len(front) = n /\ c \in Caveats
          /\ \A i \in 1..n : front[i] = ds[i]
      BY <3>1
    <3> HIDE DEF front, c
    <3>4. ds = Append(front, c)
      <4> DEFINE a == Append(front, c)
      <4>1. a \in Seq(Caveats) /\ Len(a) = n + 1
        BY <3>1, <3>3
      <4>2. \A i \in 1..(n + 1) : a[i] = ds[i]
        BY <3>1, <3>3 DEF c
      <4> HIDE DEF a
      <4>3. a = ds
        BY <3>1, <4>1, <4>2
      <4> QED
        BY <4>3 DEF a
    <3>5. IsStart(cs, front)
      BY <3>1, <3>2, <3>3 DEF IsStart, n
    <3> QED
      BY <3>3, <3>4, <3>5
  <2>2. Claim(front)
    BY <1>2, <2>1
  <2> HIDE DEF front, c, n
  <2>3. PICK more \in Seq(GoodItems) : EncodedCaveats(front) = EncodedCaveats(cs) \o more
    BY <2>2 DEF Claim
  <2>4. EncodedCaveats(ds) = EncodedCaveats(front) \o EncodeCaveat(c)
        /\ EncodeCaveat(c) \in Seq(GoodItems) /\ EncodedCaveats(cs) \in Seq(GoodItems)
    BY <1>0, <2>1, EncodedAppend, CaveatItems
  <2> DEFINE e == EncodedCaveats(cs)
             f == EncodeCaveat(c)
  <2> HIDE DEF e, f
  <2>5. (e \o more) \o f = e \o (more \o f) /\ more \o f \in Seq(GoodItems)
    BY <2>4, ItemsConcat, ItemsAssociate, Zenon DEF e, f
  <2> QED
    BY <2>3, <2>4, <2>5 DEF e, f, Claim
<1> HIDE DEF X
<1>3. Nat \subseteq X
  BY <1>1, <1>2, Induction
<1> SUFFICES ASSUME NEW ds \in Seq(Caveats), IsStart(cs, ds) PROVE Claim(ds)
  BY DEF Claim
<1>4. Len(ds) - Len(cs) \in Nat /\ Len(ds) = Len(cs) + (Len(ds) - Len(cs))
  BY DEF IsStart
<1>5. Len(ds) - Len(cs) \in X
  BY <1>3, <1>4
<1> QED
  BY <1>4, <1>5 DEF X

\* ... and is followed by that of the next one.
LEMMA NextCaveat ==
  ASSUME NEW cs \in Seq(Caveats), NEW ds \in Seq(Caveats), IsStart(cs, ds),
         Len(cs) < Len(ds)
  PROVE  /\ ds[Len(cs) + 1] \in Caveats
         /\ IsStart(Append(cs, ds[Len(cs) + 1]), ds)
         /\ \E more \in Seq(GoodItems) :
              EncodedCaveats(ds)
                = EncodedCaveats(cs) \o (EncodeCaveat(ds[Len(cs) + 1]) \o more)
<1> DEFINE c == ds[Len(cs) + 1]
<1>1. c \in Caveats
  OBVIOUS
<1>2. Append(cs, c) \in Seq(Caveats) /\ IsStart(Append(cs, c), ds)
  BY DEF IsStart
<1> HIDE DEF c
<1>3. PICK more \in Seq(GoodItems) :
        EncodedCaveats(ds) = EncodedCaveats(Append(cs, c)) \o more
  BY <1>2, MoreCaveats
<1> DEFINE e == EncodedCaveats(cs)
           f == EncodeCaveat(c)
<1>4. /\ EncodedCaveats(Append(cs, c)) = e \o f
      /\ e \in Seq(GoodItems) /\ f \in Seq(GoodItems)
  BY <1>1, EncodedAppend, CaveatItems
<1> HIDE DEF e, f
<1>5. (e \o f) \o more = e \o (f \o more)
  BY <1>4, ItemsAssociate, Zenon
<1> QED
  BY <1>1, <1>2, <1>3, <1>4, <1>5 DEF c, e, f

\* The encoding, around its caveats.
LEMMA EncodingParts ==
  ASSUME NEW m \in Macaroons
  PROVE  /\ Encode(m) = Preamble(m) \o
                          (EncodedCaveats(m.caveats)
                             \o <<EOS, Field("SIGNATURE", m.signature), END>>)
         /\ Preamble(m) \in Seq(GoodItems)
         /\ EncodedCaveats(m.caveats) \in Seq(GoodItems)
         /\ EOS \in GoodItems /\ END \in GoodItems
         /\ Field("SIGNATURE", m.signature) \in GoodItems
         /\ Field("IDENTIFIER", m.identifier) \in GoodItems
         /\ m.location # None => Field("LOCATION", m.location) \in GoodItems
         /\ Encode(m) \in Seq(GoodItems)
<1> DEFINE e  == <<EOS, Field("SIGNATURE", m.signature), END>>
           p  == Preamble(m)
           cs == EncodedCaveats(m.caveats)
<1>1. EOS \in GoodItems /\ END \in GoodItems
  BY DEF GoodItems
<1>2. /\ Field("SIGNATURE", m.signature) \in GoodItems
      /\ Field("IDENTIFIER", m.identifier) \in GoodItems
      /\ m.location # None => Field("LOCATION", m.location) \in GoodItems
  BY MacaroonFacts DEF GoodItems, FieldTags, Fields, Locations
<1>3. p \in Seq(GoodItems) /\ cs \in Seq(GoodItems)
  BY MacaroonFacts, SoFarGood
<1>4. e \in Seq(GoodItems)
  <2> DEFINE x == EOS
             y == Field("SIGNATURE", m.signature)
             z == END
  <2>1. x \in GoodItems /\ y \in GoodItems /\ z \in GoodItems
    BY <1>1, <1>2
  <2> HIDE DEF x, y, z
  <2>2. <<x, y, z>> \in Seq(GoodItems)
    BY <2>1
  <2> QED
    BY <2>2 DEF x, y, z
<1>5. Encode(m) = p \o cs \o e
  BY Zenon DEF Encode, Preamble, Location, EncodedCaveats
<1> HIDE DEF e, p, cs
<1>6. p \o cs \o e = p \o (cs \o e) /\ p \o (cs \o e) \in Seq(GoodItems)
  <2>1. p \o cs \o e = p \o (cs \o e)
    BY <1>3, <1>4, ItemsAssociate, Zenon
  <2>2. cs \o e \in Seq(GoodItems)
    BY <1>3, <1>4, ItemsConcat, Zenon
  <2>3. p \o (cs \o e) \in Seq(GoodItems)
    BY <1>3, <2>2, ItemsConcat, Zenon
  <2> QED
    BY <2>1, <2>3, Zenon
<1> QED
  BY <1>1, <1>2, <1>3, <1>5, <1>6 DEF e, p, cs

Follows(m) ==
  /\ NextItem(m) \in GoodItems
  /\ NextIs(GoodItems, read, NextItem(m), Encode(m))

\* In the preamble.
LEMMA FollowsInPreamble ==
  ASSUME Within, Progress, NEW m \in Macaroons, Holds(m),
         at \in {"Start", "Identifier", "Eos"}
  PROVE  Follows(m)
<1> DEFINE named == Field("IDENTIFIER", m.identifier)
           tail  == EncodedCaveats(m.caveats) \o <<EOS, Field("SIGNATURE", m.signature), END>>
<1>1. /\ Encode(m) = Preamble(m) \o tail
      /\ Encode(m) \in Seq(GoodItems)
      /\ EOS \in GoodItems /\ named \in GoodItems
      /\ m.location # None => Field("LOCATION", m.location) \in GoodItems
  BY EncodingParts
<1>2. tail \in Seq(GoodItems)
  <2> DEFINE e == <<EOS, Field("SIGNATURE", m.signature), END>>
  <2>1. EncodedCaveats(m.caveats) \in Seq(GoodItems)
    BY EncodingParts
  <2>2. e \in Seq(GoodItems)
    <3> DEFINE x == EOS
               y == Field("SIGNATURE", m.signature)
               z == END
    <3>1. x \in GoodItems /\ y \in GoodItems /\ z \in GoodItems
      BY EncodingParts
    <3> HIDE DEF x, y, z
    <3>2. <<x, y, z>> \in Seq(GoodItems)
      BY <3>1
    <3> QED
      BY <3>2 DEF x, y, z
  <2> HIDE DEF e
  <2> QED
    BY <2>1, <2>2, ItemsConcat, Zenon DEF tail, e
<1>3. Preamble(m) = Location(m.location) \o <<named, EOS>>
  BY DEF Preamble
<1> HIDE DEF named, tail
<1>4. CASE at = "Start" /\ m.location # None
  <2> DEFINE x == Field("LOCATION", m.location)
             y == EOS
  <2>1. NextItem(m) = x
    BY <1>4 DEF NextItem
  <2>2. read = << >>
    BY <1>4 DEF Progress
  <2>3. Preamble(m) = <<x>> \o <<named, y>>
    BY <1>3, <1>4 DEF Location
  <2>4. x \in GoodItems /\ y \in GoodItems
    BY <1>1, <1>4
  <2> HIDE DEF x, y
  <2>5. (<<x>> \o <<named, y>>) \o tail = Append(<< >>, x) \o (<<named, y>> \o tail)
        /\ <<named, y>> \o tail \in Seq(GoodItems)
    <3> DEFINE one == <<x>>
               two == <<named, y>>
    <3>1. one \in Seq(GoodItems) /\ two \in Seq(GoodItems) /\ Append(<< >>, x) = one
      BY <1>1, <2>4
    <3> HIDE DEF one, two
    <3> QED
      BY <1>2, <3>1, ConcatAssociates DEF one, two
  <2> QED
    BY <1>1, <2>1, <2>2, <2>3, <2>4, <2>5 DEF Follows, NextIs
<1>5. CASE (at = "Start" /\ m.location = None) \/ at = "Identifier"
  <2> DEFINE l == Location(m.location)
             y == EOS
  <2>1. NextItem(m) = named
    BY <1>5 DEF NextItem, named
  <2>2. read = l
    BY <1>5 DEF Progress, Location, Holds
  <2>3. l \in Seq(GoodItems)
    <3> DEFINE x == Field("LOCATION", m.location)
    <3>1. m.location # None => x \in GoodItems
      BY <1>1
    <3>2. l = IF m.location = None THEN << >> ELSE <<x>>
      BY DEF Location
    <3> HIDE DEF x, l
    <3> QED
      BY <3>1, <3>2
  <2>4. Preamble(m) = l \o <<named, y>> /\ y \in GoodItems
    BY <1>1, <1>3
  <2> HIDE DEF l, y
  <2>5. (l \o <<named, y>>) \o tail = Append(l, named) \o (<<y>> \o tail)
        /\ <<y>> \o tail \in Seq(GoodItems)
    <3> DEFINE one == <<named>>
               two == <<y>>
    <3>1. /\ one \in Seq(GoodItems) /\ two \in Seq(GoodItems)
          /\ Append(l, named) = l \o one /\ <<named, y>> = one \o two
      BY <1>1, <2>3, <2>4
    <3> HIDE DEF one, two
    <3>2. (l \o (one \o two)) \o tail = (l \o one) \o (two \o tail)
          /\ two \o tail \in Seq(GoodItems)
      <4>1. one \o two \in Seq(GoodItems) /\ two \o tail \in Seq(GoodItems)
        BY <1>2, <3>1, ItemsConcat, Zenon
      <4>2. (l \o (one \o two)) \o tail = l \o ((one \o two) \o tail)
        BY <1>2, <2>3, <4>1, ItemsAssociate, Zenon
      <4>3. (one \o two) \o tail = one \o (two \o tail)
        BY <1>2, <3>1, ItemsAssociate, Zenon
      <4>4. (l \o one) \o (two \o tail) = l \o (one \o (two \o tail))
        BY <2>3, <3>1, <4>1, ItemsAssociate, Zenon
      <4> QED
        BY <4>1, <4>2, <4>3, <4>4
    <3> QED
      BY <3>1, <3>2 DEF two
  <2> QED
    BY <1>1, <2>1, <2>2, <2>4, <2>5 DEF Follows, NextIs
<1>6. CASE at = "Eos"
  <2>1. NextItem(m) = EOS
    BY <1>6 DEF NextItem
  <2>2. Append(read, EOS) = Preamble(m)
    BY <1>6 DEF Progress, Holds, Preamble
  <2> QED
    BY <1>1, <1>2, <2>1, <2>2 DEF Follows, NextIs
<1> QED
  BY <1>4, <1>5, <1>6

\* After the preamble, and the caveats that were read.
LEMMA AfterSoFar ==
  ASSUME Within, NEW m \in Macaroons, Holds(m), at \notin {"Start", "Identifier"}
  PROVE  /\ EncodedSoFar(builder) \in Seq(GoodItems)
         /\ builder.caveats = m.caveats =>
              After(GoodItems, EncodedSoFar(builder),
                    <<EOS, Field("SIGNATURE", m.signature), END>>, Encode(m))
         /\ builder.caveats # m.caveats =>
              /\ Current(m) \in Caveats
              /\ IsStart(Append(builder.caveats, Current(m)), m.caveats)
              /\ After(GoodItems, EncodedSoFar(builder), EncodeCaveat(Current(m)), Encode(m))
<1> DEFINE p  == Preamble(m)
           e  == EncodedCaveats(builder.caveats)
           ds == EncodedCaveats(m.caveats)
           t  == <<EOS, Field("SIGNATURE", m.signature), END>>
           b  == EncodedSoFar(builder)
<1>1. /\ Encode(m) = p \o (ds \o t) /\ p \in Seq(GoodItems) /\ ds \in Seq(GoodItems)
  BY EncodingParts
<1>2. t \in Seq(GoodItems)
  <2> DEFINE x == EOS
             y == Field("SIGNATURE", m.signature)
             z == END
  <2>1. x \in GoodItems /\ y \in GoodItems /\ z \in GoodItems
    BY EncodingParts
  <2> HIDE DEF x, y, z
  <2>2. <<x, y, z>> \in Seq(GoodItems)
    BY <2>1
  <2> QED
    BY <2>2 DEF x, y, z
<1>3. b = p \o e /\ e \in Seq(GoodItems) /\ b \in Seq(GoodItems)
  <2>1. Preamble(builder) = p
    BY DEF Holds, Preamble
  <2>2. builder \in BuilderRecords
    BY DEF Within
  <2> QED
    BY <2>1, <2>2, SoFarGood, Zenon DEF EncodedSoFar
<1>4. /\ builder.caveats \in Seq(Caveats) /\ m.caveats \in Seq(Caveats)
      /\ IsStart(builder.caveats, m.caveats)
  BY MacaroonFacts DEF Within, BuilderRecords, Holds
<1>5. CASE builder.caveats = m.caveats
  <2>1. ds = e
    BY <1>5
  <2> HIDE DEF p, e, ds, t, b
  <2>2. Encode(m) = b \o t
    <3>1. p \in Seq(GoodItems) /\ e \in Seq(GoodItems) /\ t \in Seq(GoodItems)
      BY <1>1, <1>2, <1>3
    <3>2. (p \o e) \o t = p \o (e \o t)
      BY <3>1, ItemsAssociate, Zenon
    <3> QED
      BY <1>1, <1>3, <2>1, <3>2
  <2>3. t = t \o << >> /\ << >> \in Seq(GoodItems)
    BY <1>2
  <2>4. After(GoodItems, b, t, Encode(m))
    BY <2>2, <2>3, Zenon DEF After
  <2> QED
    BY <1>3, <1>5, <2>4, Zenon DEF b, t
<1>6. CASE builder.caveats # m.caveats
  <2>1. Len(builder.caveats) < Len(m.caveats)
    BY <1>4, <1>6 DEF IsStart
  <2>2. /\ Current(m) \in Caveats
        /\ IsStart(Append(builder.caveats, Current(m)), m.caveats)
        /\ \E more \in Seq(GoodItems) : ds = e \o (EncodeCaveat(Current(m)) \o more)
    BY <1>4, <2>1, NextCaveat, Zenon DEF Current
  <2> DEFINE f == EncodeCaveat(Current(m))
  <2>3. f \in Seq(GoodItems)
    BY <2>2, CaveatItems
  <2> HIDE DEF f
  <2>4. PICK more \in Seq(GoodItems) : ds = e \o (f \o more)
    BY <2>2 DEF f
  <2> HIDE DEF p, e, ds, t, b
  <2> DEFINE fm   == f \o more
             rest == more \o t
  <2>5. fm \in Seq(GoodItems) /\ rest \in Seq(GoodItems)
    BY <1>2, <2>3, <2>4, ItemsConcat, Zenon
  <2>6. fm \o t = f \o rest
    BY <1>2, <2>3, <2>4, ItemsAssociate, Zenon
  <2> HIDE DEF fm, rest
  <2>7. ds \o t = e \o (fm \o t)
    <3>1. ds = e \o fm
      BY <2>4 DEF fm
    <3> QED
      <4>1. e \in Seq(GoodItems) /\ fm \in Seq(GoodItems) /\ t \in Seq(GoodItems)
        BY <1>2, <1>3, <2>5
      <4>2. (e \o fm) \o t = e \o (fm \o t)
        BY <4>1, ItemsAssociate, Zenon
      <4> QED
        BY <3>1, <4>2
  <2> DEFINE g == f \o rest
  <2>8. g \in Seq(GoodItems)
    BY <2>3, <2>5, ItemsConcat, Zenon
  <2>9. Encode(m) = p \o (e \o g)
    BY <1>1, <2>6, <2>7
  <2> HIDE DEF g
  <2>10. p \o (e \o g) = (p \o e) \o g
    <3>1. p \in Seq(GoodItems) /\ e \in Seq(GoodItems) /\ g \in Seq(GoodItems)
      BY <1>1, <1>3, <2>8
    <3> QED
      BY <3>1, ItemsAssociate, Zenon
  <2>11. After(GoodItems, b, f, Encode(m))
    BY <1>3, <2>5, <2>9, <2>10, Zenon DEF After, g
  <2> QED
    BY <1>3, <1>6, <2>2, <2>11, Zenon DEF b, f
<1> QED
  BY <1>5, <1>6

\* Once the caveats have been read.
LEMMA FollowsAtEnd ==
  ASSUME Within, Progress, NEW m \in Macaroons, Holds(m),
         at \in {"Signature", "End"} \/ (at = "Caveat" /\ builder.caveats = m.caveats)
  PROVE  Follows(m)
<1> DEFINE b == EncodedSoFar(builder)
           x == EOS
           y == Field("SIGNATURE", m.signature)
           z == END
           w == Encode(m)
<1>1. b \in Seq(GoodItems) /\ x \in GoodItems /\ y \in GoodItems /\ z \in GoodItems
  BY AfterSoFar, EncodingParts
<1>2. builder.caveats = m.caveats
  BY DEF Holds
<1>3. After(GoodItems, b, <<x, y, z>>, w)
  BY <1>2, AfterSoFar
<1>4. /\ at = "Caveat" => read = b /\ NextItem(m) = x
      /\ at = "Signature" => read = b \o <<x>> /\ NextItem(m) = y
      /\ at = "End" => read = b \o <<x, y>> /\ NextItem(m) = z
  <2>1. at = "Caveat" => read = b
    BY DEF Progress
  <2>2. at = "Signature" => read = b \o <<x>>
    BY DEF Progress
  <2>3. at = "End" => read = b \o <<x, y>>
    BY DEF Progress, Holds
  <2>4. at = "Caveat" => NextItem(m) = x
    BY <1>2 DEF NextItem
  <2>5. at = "Signature" => NextItem(m) = y
    BY DEF NextItem
  <2>6. at = "End" => NextItem(m) = z
    BY DEF NextItem
  <2> QED
    BY <2>1, <2>2, <2>3, <2>4, <2>5, <2>6
<1> HIDE DEF b, x, y, z, w
<1>5. /\ NextIs(GoodItems, b, x, w)
      /\ NextIs(GoodItems, Append(b, x), y, w)
      /\ NextIs(GoodItems, Append(Append(b, x), y), z, w)
  BY <1>1, <1>3, AfterThree
<1>6. Append(b, x) = b \o <<x>> /\ Append(Append(b, x), y) = b \o <<x, y>>
  BY <1>1, AppendTwo
<1> QED
  BY <1>1, <1>4, <1>5, <1>6, Zenon DEF Follows, w

\* Inside a first-party caveat.
LEMMA FollowsInFirstParty ==
  ASSUME Within, Progress, NEW m \in Macaroons, Holds(m),
         at \in {"Caveat", "CaveatId", "CaveatEnd"},
         builder.caveats # m.caveats, IsFirstParty(Current(m))
  PROVE  Follows(m)
<1> DEFINE b == EncodedSoFar(builder)
           x == Field("IDENTIFIER", Current(m).predicate)
           y == EOS
           w == Encode(m)
<1>1. /\ Current(m).predicate \in Fields
      /\ EncodeCaveat(Current(m)) = <<x, y>>
  <2>1. Current(m) \in Caveats
    BY AfterSoFar
  <2> QED
    BY <2>1, CaveatCases
<1>2. b \in Seq(GoodItems) /\ x \in GoodItems /\ y \in GoodItems
  <2>1. b \in Seq(GoodItems)
    BY AfterSoFar
  <2>2. x \in GoodItems /\ y \in GoodItems
    BY <1>1 DEF GoodItems, FieldTags, Fields
  <2> QED
    BY <2>1, <2>2
<1>3. After(GoodItems, b, <<x, y>>, w)
  BY <1>1, AfterSoFar
<1>4. CASE at = "Caveat"
  <2>1. read = b
    BY <1>4 DEF Progress
  <2>2. NextItem(m) = x
    BY <1>4 DEF NextItem
  <2> HIDE DEF b, x, y, w
  <2>3. NextIs(GoodItems, b, x, w)
    BY <1>2, <1>3, AfterTwo
  <2> QED
    BY <1>2, <2>1, <2>2, <2>3, Zenon DEF Follows, w
<1>5. CASE at = "CaveatEnd"
  <2>1. caveat_builder = HalfBuilt(Current(m))
    BY <1>5 DEF Holds
  <2>2. caveat_builder.location = None /\ caveat_builder.id = Current(m).predicate
    BY <2>1 DEF HalfBuilt
  <2>3. read = b \o << >> \o <<x>>
    BY <1>5, <2>2 DEF Progress, Location
  <2>4. NextItem(m) = y
    BY <1>5 DEF NextItem
  <2> HIDE DEF b, x, y, w
  <2>5. NextIs(GoodItems, Append(b, x), y, w)
    BY <1>2, <1>3, AfterTwo
  <2>6. b \o << >> = b /\ Append(b, x) = b \o <<x>>
    BY <1>2
  <2> QED
    BY <1>2, <2>3, <2>4, <2>5, <2>6, Zenon DEF Follows, w
<1>6. at # "CaveatId"
  BY DEF Holds
<1> QED
  BY <1>4, <1>5, <1>6

\* Inside a third-party caveat.
LEMMA FollowsInThirdParty ==
  ASSUME Within, Progress, NEW m \in Macaroons, Holds(m),
         at \in {"Caveat", "CaveatId", "CaveatEnd"},
         builder.caveats # m.caveats, ~IsFirstParty(Current(m))
  PROVE  Follows(m)
<1> DEFINE b == EncodedSoFar(builder)
           c == Current(m)
           x == Field("LOCATION", c.location)
           y == Field("IDENTIFIER", c.id)
           z == Field("VID", c.verifier_id)
           u == EOS
           w == Encode(m)
<1>1. /\ c.location \in Locations /\ c.id \in Fields /\ c.verifier_id \in Fields
      /\ EncodeCaveat(c) = <<x, y, z, u>>
  <2>1. Current(m) \in Caveats
    BY AfterSoFar
  <2> QED
    BY <2>1, CaveatCases
<1>2. /\ b \in Seq(GoodItems) /\ x \in GoodItems /\ y \in GoodItems /\ z \in GoodItems
      /\ u \in GoodItems
  <2>1. b \in Seq(GoodItems)
    BY AfterSoFar
  <2>2. x \in GoodItems /\ y \in GoodItems /\ z \in GoodItems /\ u \in GoodItems
    BY <1>1 DEF GoodItems, FieldTags, Fields, Locations
  <2> QED
    BY <2>1, <2>2
<1>3. After(GoodItems, b, <<x, y, z, u>>, w)
  BY <1>1, AfterSoFar
<1>4. c.location # None
  BY <1>1 DEF Locations, Fields
<1>5. CASE at = "Caveat"
  <2>1. read = b
    BY <1>5 DEF Progress
  <2>2. NextItem(m) = x
    BY <1>5 DEF NextItem
  <2> HIDE DEF b, x, y, z, u, w, c
  <2>3. NextIs(GoodItems, b, x, w)
    BY <1>2, <1>3, AfterFour
  <2> QED
    BY <1>2, <2>1, <2>2, <2>3, Zenon DEF Follows, w
<1>6. CASE at = "CaveatId"
  <2>1. caveat_builder.location = c.location
    BY <1>6 DEF Holds
  <2>2. read = b \o <<x>>
    BY <1>4, <1>6, <2>1 DEF Progress, Location
  <2>3. NextItem(m) = y
    BY <1>6 DEF NextItem
  <2> HIDE DEF b, x, y, z, u, w, c
  <2>4. NextIs(GoodItems, Append(b, x), y, w)
    BY <1>2, <1>3, AfterFour
  <2>5. Append(b, x) = b \o <<x>>
    BY <1>2
  <2> QED
    BY <1>2, <2>2, <2>3, <2>4, <2>5, Zenon DEF Follows, w
<1>7. CASE at = "CaveatEnd"
  <2>1. caveat_builder = HalfBuilt(c)
    BY <1>7 DEF Holds
  <2>2. caveat_builder.location = c.location /\ caveat_builder.id = c.id
    BY <2>1 DEF HalfBuilt
  <2>3. read = b \o <<x>> \o <<y>>
    BY <1>4, <1>7, <2>2 DEF Progress, Location
  <2>4. NextItem(m) = z
    BY <1>7 DEF NextItem
  <2> HIDE DEF b, x, y, z, u, w, c
  <2>5. NextIs(GoodItems, Append(Append(b, x), y), z, w)
    BY <1>2, <1>3, AfterFour
  <2>6. b \o <<x>> \o <<y>> = Append(Append(b, x), y)
    <3> DEFINE a == Append(b, x)
    <3>1. a = b \o <<x>> /\ a \in Seq(GoodItems)
      BY <1>2
    <3> HIDE DEF a
    <3>2. a \o <<y>> = Append(a, y)
      BY <1>2, <3>1
    <3> QED
      BY <3>1, <3>2 DEF a
  <2> QED
    BY <1>2, <2>3, <2>4, <2>5, <2>6, Zenon DEF Follows, w
<1> QED
  BY <1>5, <1>6, <1>7

\* Where an EOS follows a caveat's verifier id.
LEMMA FollowsVid ==
  ASSUME Within, Progress, NEW m \in Macaroons, Holds(m), at = "CaveatEos"
  PROVE  Follows(m)
<1> DEFINE b == EncodedSoFar(builder)
           w == Encode(m)
<1>1. NextItem(m) = EOS /\ EOS \in GoodItems
  BY EncodingParts DEF NextItem
<1>2. Append(read, EOS) = b
  BY DEF Progress
<1>3. b \in Seq(GoodItems)
  BY AfterSoFar
<1>4. PICK e \in Seq(GoodItems) : After(GoodItems, b, e, w)
  <2>1. builder.caveats = m.caveats =>
          <<EOS, Field("SIGNATURE", m.signature), END>> \in Seq(GoodItems)
    <3> DEFINE x == EOS
               y == Field("SIGNATURE", m.signature)
               z == END
    <3>1. x \in GoodItems /\ y \in GoodItems /\ z \in GoodItems
      BY EncodingParts
    <3> HIDE DEF x, y, z
    <3>2. <<x, y, z>> \in Seq(GoodItems)
      BY <3>1
    <3> QED
      BY <3>2 DEF x, y, z
  <2>2. builder.caveats # m.caveats => EncodeCaveat(Current(m)) \in Seq(GoodItems)
    BY AfterSoFar, CaveatItems
  <2> QED
    BY <2>1, <2>2, AfterSoFar, Zenon
<1> HIDE DEF b, w
<1>5. PICK more \in Seq(GoodItems) : w = b \o (e \o more)
  BY <1>4 DEF After
<1>6. e \o more \in Seq(GoodItems)
  BY <1>4, <1>5, ItemsConcat, Zenon
<1> QED
  BY <1>1, <1>2, <1>5, <1>6, Zenon DEF Follows, NextIs, w

\* Wherever the walk is, the next item of the encoding is NextItem.
LEMMA ItemFollows ==
  ASSUME Within, Progress, NEW m \in Macaroons, Holds(m)
  PROVE  Follows(m)
<1>1. at \in Places
  BY DEF Within
<1>2. CASE at \in {"Start", "Identifier", "Eos"}
  BY <1>2, FollowsInPreamble
<1>3. CASE at = "CaveatEos"
  BY <1>3, FollowsVid
<1>4. CASE at \in {"Signature", "End"}
  BY <1>4, FollowsAtEnd
<1>5. CASE at \in {"Caveat", "CaveatId", "CaveatEnd"}
  <2>1. CASE builder.caveats = m.caveats
    <3>1. at = "Caveat"
      BY <1>5, <2>1, MacaroonFacts DEF Holds
    <3> QED
      BY <2>1, <3>1, FollowsAtEnd
  <2>2. CASE builder.caveats # m.caveats
    BY <1>5, <2>2, FollowsInFirstParty, FollowsInThirdParty
  <2> QED
    BY <2>1, <2>2
<1> QED
  BY <1>1, <1>2, <1>3, <1>4, <1>5 DEF Places

USE FieldAssumption

\* An item in which nothing is refused.
WellFormed(item) ==
  \/ item \in {EOS, END}
  \/ \E tag \in FieldTags, v \in Fields :
       /\ item = Field(tag, v)
       /\ tag = "LOCATION" => Utf8(v)
       /\ tag = "SIGNATURE" => Size(v) = SIGNATURE_SIZE

\* The items of an encoding are well formed.
LEMMA WellFormedFields ==
  /\ \A v \in Fields : WellFormed(Field("IDENTIFIER", v)) /\ WellFormed(Field("VID", v))
  /\ \A v \in Locations : WellFormed(Field("LOCATION", v))
  /\ \A v \in Fields : Size(v) = SIGNATURE_SIZE => WellFormed(Field("SIGNATURE", v))
  /\ WellFormed(EOS) /\ WellFormed(END)
<1>1. {"LOCATION", "IDENTIFIER", "VID", "SIGNATURE"} = FieldTags
  BY DEF FieldTags
<1>2. \A v \in Fields : WellFormed(Field("IDENTIFIER", v))
  BY <1>1, Zenon DEF WellFormed
<1>3. \A v \in Fields : WellFormed(Field("VID", v))
  BY <1>1, Zenon DEF WellFormed
<1>4. \A v \in Locations : WellFormed(Field("LOCATION", v))
  BY <1>1, Zenon DEF WellFormed, Locations
<1>5. \A v \in Fields : Size(v) = SIGNATURE_SIZE => WellFormed(Field("SIGNATURE", v))
  BY <1>1, Zenon DEF WellFormed
<1>6. WellFormed(EOS) /\ WellFormed(END)
  BY Zenon DEF WellFormed
<1> QED
  BY <1>2, <1>3, <1>4, <1>5, <1>6, Zenon

\* The next item of m's encoding is expected, and nothing in it is refused.
LEMMA NextItemIs ==
  ASSUME Within, NEW m \in Macaroons, Holds(m)
  PROVE  WellFormed(NextItem(m)) /\ NextItem(m).tag \in Expected
<1> DEFINE c    == Current(m)
           item == NextItem(m)
<1>0. /\ m.identifier \in Fields /\ m.location \in Locations \cup {None}
      /\ m.signature \in Fields /\ Size(m.signature) = SIGNATURE_SIZE
  BY MacaroonFacts DEF Fields, TooLarge
<1>1. builder.caveats # m.caveats /\ at \in {"Caveat", "CaveatId", "CaveatEnd"} =>
        /\ IsFirstParty(c) => c.predicate \in Fields
        /\ ~IsFirstParty(c) =>
             c.id \in Fields /\ c.verifier_id \in Fields /\ c.location \in Locations
  BY AfterSoFar, CaveatCases
<1>2. builder.caveats = m.caveats => at \notin {"CaveatId", "CaveatEnd"}
  BY MacaroonFacts DEF Holds
<1>3. at = "CaveatId" => ~IsFirstParty(c)
  BY DEF Holds
<1>4. CASE at = "Start" /\ m.location # None
  <2>1. item = Field("LOCATION", m.location)
    BY <1>4 DEF NextItem
  <2>2. "LOCATION" \in Expected
    BY <1>4 DEF Expected
  <2>3. Field("LOCATION", m.location).tag = "LOCATION"
    BY DEF Field
  <2>4. WellFormed(Field("LOCATION", m.location))
    BY <1>0, <1>1, <1>2, <1>3, <1>4, WellFormedFields
  <2> QED
    BY <2>1, <2>2, <2>3, <2>4, Zenon
<1>5. CASE (at = "Start" /\ m.location = None) \/ at = "Identifier"
  <2>1. item = Field("IDENTIFIER", m.identifier)
    BY <1>5 DEF NextItem
  <2>2. "IDENTIFIER" \in Expected
    BY <1>5 DEF Expected
  <2>3. Field("IDENTIFIER", m.identifier).tag = "IDENTIFIER"
    BY DEF Field
  <2>4. WellFormed(Field("IDENTIFIER", m.identifier))
    BY <1>0, <1>1, <1>2, <1>3, <1>5, WellFormedFields
  <2> QED
    BY <2>1, <2>2, <2>3, <2>4, Zenon
<1>6. CASE at \in {"Eos", "CaveatEos"} \/ (at = "Caveat" /\ builder.caveats = m.caveats)
  <2>1. item = EOS
    BY <1>6 DEF NextItem
  <2>2. "EOS" \in Expected
    BY <1>6 DEF Expected
  <2>3. EOS.tag = "EOS"
    BY DEF Field, EOS, END
  <2>4. WellFormed(EOS)
    BY <1>0, <1>1, <1>2, <1>3, <1>6, WellFormedFields
  <2> QED
    BY <2>1, <2>2, <2>3, <2>4, Zenon
<1>7. CASE at = "Caveat" /\ builder.caveats # m.caveats /\ IsFirstParty(c)
  <2>1. item = Field("IDENTIFIER", c.predicate)
    BY <1>7 DEF NextItem
  <2>2. "IDENTIFIER" \in Expected
    BY <1>7 DEF Expected
  <2>3. Field("IDENTIFIER", c.predicate).tag = "IDENTIFIER"
    BY DEF Field
  <2>4. WellFormed(Field("IDENTIFIER", c.predicate))
    BY <1>0, <1>1, <1>2, <1>3, <1>7, WellFormedFields
  <2> QED
    BY <2>1, <2>2, <2>3, <2>4, Zenon
<1>8. CASE at = "Caveat" /\ builder.caveats # m.caveats /\ ~IsFirstParty(c)
  <2>1. item = Field("LOCATION", c.location)
    BY <1>8 DEF NextItem
  <2>2. "LOCATION" \in Expected
    BY <1>8 DEF Expected
  <2>3. Field("LOCATION", c.location).tag = "LOCATION"
    BY DEF Field
  <2>4. WellFormed(Field("LOCATION", c.location))
    BY <1>0, <1>1, <1>2, <1>3, <1>8, WellFormedFields
  <2> QED
    BY <2>1, <2>2, <2>3, <2>4, Zenon
<1>9. CASE at = "CaveatId"
  <2>1. item = Field("IDENTIFIER", c.id)
    BY <1>9 DEF NextItem
  <2>2. "IDENTIFIER" \in Expected
    BY <1>9 DEF Expected
  <2>3. Field("IDENTIFIER", c.id).tag = "IDENTIFIER"
    BY DEF Field
  <2>4. WellFormed(Field("IDENTIFIER", c.id))
    BY <1>0, <1>1, <1>2, <1>3, <1>9, WellFormedFields
  <2> QED
    BY <2>1, <2>2, <2>3, <2>4, Zenon
<1>10. CASE at = "CaveatEnd" /\ IsFirstParty(c)
  <2>1. item = EOS
    BY <1>10 DEF NextItem
  <2>2. "EOS" \in Expected
    BY <1>10 DEF Expected
  <2>3. EOS.tag = "EOS"
    BY DEF Field, EOS, END
  <2>4. WellFormed(EOS)
    BY <1>0, <1>1, <1>2, <1>3, <1>10, WellFormedFields
  <2> QED
    BY <2>1, <2>2, <2>3, <2>4, Zenon
<1>11. CASE at = "CaveatEnd" /\ ~IsFirstParty(c)
  <2>1. item = Field("VID", c.verifier_id)
    BY <1>11 DEF NextItem
  <2>2. "VID" \in Expected
    BY <1>11 DEF Expected
  <2>3. Field("VID", c.verifier_id).tag = "VID"
    BY DEF Field
  <2>4. WellFormed(Field("VID", c.verifier_id))
    BY <1>0, <1>1, <1>2, <1>3, <1>11, WellFormedFields
  <2> QED
    BY <2>1, <2>2, <2>3, <2>4, Zenon
<1>12. CASE at = "Signature"
  <2>1. item = Field("SIGNATURE", m.signature)
    BY <1>12 DEF NextItem
  <2>2. "SIGNATURE" \in Expected
    BY <1>12 DEF Expected
  <2>3. Field("SIGNATURE", m.signature).tag = "SIGNATURE"
    BY DEF Field
  <2>4. WellFormed(Field("SIGNATURE", m.signature))
    BY <1>0, <1>1, <1>2, <1>3, <1>12, WellFormedFields
  <2> QED
    BY <2>1, <2>2, <2>3, <2>4, Zenon
<1>13. CASE at = "End"
  <2>1. item = END
    BY <1>13 DEF NextItem
  <2>2. "END" \in Expected
    BY <1>13 DEF Expected
  <2>3. END.tag = "END"
    BY DEF Field, EOS, END
  <2>4. WellFormed(END)
    BY <1>0, <1>1, <1>2, <1>3, <1>13, WellFormedFields
  <2> QED
    BY <2>1, <2>2, <2>3, <2>4, Zenon
<1> QED
  BY <1>4, <1>5, <1>6, <1>7, <1>8, <1>9, <1>10, <1>11, <1>12, <1>13, <1>2 DEF Within, Places

\* The item that completes the caveat builder makes it the caveat of m.
LEMMA CompletedCaveat ==
  ASSUME Within, NEW m \in Macaroons, Holds(m), at = "CaveatEnd"
  PROVE  /\ Len(builder.caveats) < Len(m.caveats) /\ builder.caveats # m.caveats
         /\ Current(m) \in Caveats
         /\ Complete(Completed(NextItem(m)))
         /\ CaveatOf(Completed(NextItem(m))) = Current(m)
<1> DEFINE c    == Current(m)
           item == NextItem(m)
<1>1. Len(builder.caveats) < Len(m.caveats) /\ caveat_builder = HalfBuilt(c)
  BY DEF Holds
<1>2. builder.caveats # m.caveats
  <2>1. Len(m.caveats) \in Nat
    BY MacaroonFacts
  <2> QED
    BY <1>1, <2>1
<1>3. c \in Caveats
  BY <1>2, AfterSoFar
<1>4. CASE IsFirstParty(c)
  <2>1. c.predicate \in Value /\ item = EOS /\ c = FirstParty(c.predicate)
    BY <1>3, <1>4, CaveatCases DEF NextItem, Fields
  <2>2. Completed(item) = [id |-> c.predicate, verifier_id |-> None, location |-> None]
    BY <1>1, <1>4, <2>1 DEF Completed, HalfBuilt, EOS, Field
  <2>3. Complete(Completed(item)) /\ CaveatOf(Completed(item)) = FirstParty(c.predicate)
    BY <2>1, <2>2 DEF Complete, CaveatOf
  <2> QED
    BY <1>1, <1>2, <1>3, <2>1, <2>3, Zenon
<1>5. CASE ~IsFirstParty(c)
  <2>1. /\ {c.id, c.verifier_id, c.location} \subseteq Value
        /\ item = Field("VID", c.verifier_id)
        /\ c = ThirdParty(c.id, c.verifier_id, c.location)
    BY <1>3, <1>5, CaveatCases DEF NextItem, Fields, Locations
  <2>2. Completed(item) = [id |-> c.id, verifier_id |-> c.verifier_id,
                           location |-> c.location]
    BY <1>1, <1>5, <2>1 DEF Completed, HalfBuilt, Field
  <2>3. /\ Complete(Completed(item))
        /\ CaveatOf(Completed(item)) = ThirdParty(c.id, c.verifier_id, c.location)
    BY <2>1, <2>2 DEF Complete, CaveatOf
  <2> QED
    BY <1>1, <1>2, <1>3, <2>1, <2>3, Zenon
<1> QED
  BY <1>4, <1>5

\* It is not refused.
LEMMA NextAccepted ==
  ASSUME Within, Progress, NEW m \in Macaroons, Holds(m)
  PROVE  Errors(NextItem(m)) = {}
<1> DEFINE item == NextItem(m)
<1>1. item.tag \in Expected
  BY NextItemIs
<1>2. FieldErrors(item) = {}
  <2>1. CASE item \in {EOS, END}
    <3>1. item.value = None /\ item.tag \in {"EOS", "END"}
      BY <2>1 DEF EOS, END, Field
    <3> QED
      BY <3>1 DEF FieldErrors, FieldTags
  <2>2. CASE \E tag \in FieldTags, v \in Fields :
                 /\ item = Field(tag, v)
                 /\ tag = "LOCATION" => Utf8(v)
                 /\ tag = "SIGNATURE" => Size(v) = SIGNATURE_SIZE
    <3>1. PICK tag \in FieldTags, v \in Fields :
                 /\ item = Field(tag, v)
                 /\ tag = "LOCATION" => Utf8(v)
                 /\ tag = "SIGNATURE" => Size(v) = SIGNATURE_SIZE
      BY <2>2
    <3>2. item.tag = tag /\ item.value = v
      BY <3>1 DEF Field
    <3>3. v # Unreadable /\ ~TooLarge(v)
      BY DEF Fields
    <3> HIDE DEF item
    <3> QED
      BY <3>1, <3>2, <3>3 DEF FieldErrors
  <2> QED
    BY <2>1, <2>2, NextItemIs, Zenon DEF WellFormed
<1>3. Errors(item) =
        CASE at = "CaveatEnd" -> CaveatErrors(builder, Completed(item))
          [] at = "End"       -> BuildErrors(builder)
          [] OTHER            -> {}
  BY <1>1, <1>2, Zenon DEF Errors
<1>4. at = "CaveatEnd" => CaveatErrors(builder, Completed(item)) = {}
  <2> SUFFICES ASSUME at = "CaveatEnd" PROVE CaveatErrors(builder, Completed(item)) = {}
    OBVIOUS
  <2>1. HasRoom(builder)
    BY CompletedCaveat, MacaroonFacts DEF HasRoom, Within, BuilderRecords
  <2> QED
    BY <2>1, CompletedCaveat DEF CaveatErrors
<1>5. at = "End" => BuildErrors(builder) = {}
  BY MacaroonFacts DEF Holds, BuildErrors
<1> QED
  BY <1>3, <1>4, <1>5

-----------------------------------------------------------------------------
(***************************************************************************)
(* The step that reads the next item.                                       *)
(***************************************************************************)
WalksOn(m) == outcome' = "Parsing" /\ Holds(m)'

\* What the next item's tag tells of its value, at each place.
LEMMA NextTag ==
  ASSUME Within, NEW m \in Macaroons, Holds(m)
  PROVE  /\ at = "Start" /\ NextItem(m).tag = "LOCATION" =>
               m.location # None /\ NextItem(m).value = m.location
         /\ at = "Start" /\ NextItem(m).tag = "IDENTIFIER" =>
               m.location = None /\ NextItem(m).value = m.identifier
         /\ at = "Identifier" => NextItem(m).value = m.identifier
         /\ at = "Caveat" /\ NextItem(m).tag = "LOCATION" =>
               /\ builder.caveats # m.caveats /\ ~IsFirstParty(Current(m))
               /\ NextItem(m).value = Current(m).location
         /\ at = "Caveat" /\ NextItem(m).tag = "IDENTIFIER" =>
               /\ builder.caveats # m.caveats /\ IsFirstParty(Current(m))
               /\ NextItem(m).value = Current(m).predicate
         /\ at = "Caveat" /\ NextItem(m).tag = "EOS" => builder.caveats = m.caveats
         /\ at = "CaveatId" => NextItem(m).value = Current(m).id
         /\ at = "Signature" => NextItem(m).value = m.signature
<1>1. \A tag, v : Field(tag, v).tag = tag /\ Field(tag, v).value = v
  BY DEF Field
<1>2. EOS.tag = "EOS"
  BY <1>1 DEF EOS
<1>3. /\ at = "Start" /\ m.location = None => NextItem(m) = Field("IDENTIFIER", m.identifier)
      /\ at = "Start" /\ m.location # None => NextItem(m) = Field("LOCATION", m.location)
      /\ at = "Identifier" => NextItem(m) = Field("IDENTIFIER", m.identifier)
  BY DEF NextItem
<1>4. at = "Caveat" =>
        /\ builder.caveats = m.caveats => NextItem(m) = EOS
        /\ builder.caveats # m.caveats /\ IsFirstParty(Current(m)) =>
             NextItem(m) = Field("IDENTIFIER", Current(m).predicate)
        /\ builder.caveats # m.caveats /\ ~IsFirstParty(Current(m)) =>
             NextItem(m) = Field("LOCATION", Current(m).location)
  BY DEF NextItem
<1>5. /\ at = "CaveatId" => NextItem(m) = Field("IDENTIFIER", Current(m).id)
      /\ at = "Signature" => NextItem(m) = Field("SIGNATURE", m.signature)
  BY DEF NextItem
<1> QED
  BY <1>1, <1>2, <1>3, <1>4, <1>5

\* In the preamble, and the signature after the caveats.
LEMMA WalkPreamble ==
  ASSUME FormatInv, Parsing, NEW m \in Macaroons, Holds(m),
         \/ ReadLocation(NextItem(m)) \/ ReadIdentifier(NextItem(m))
         \/ ReadSignature(NextItem(m))
  PROVE  WalksOn(m)
<1> DEFINE item == NextItem(m)
<1>0. Within /\ Progress
  BY DEF FormatInv, Parsing
<1>1. /\ builder \in BuilderRecords
      /\ IsStart(builder.caveats, m.caveats)
  BY <1>0 DEF Within, Holds
<1>2. CASE ReadLocation(item)
  <2>1. /\ at = "Start" /\ item.tag = "LOCATION" /\ at' = "Identifier"
        /\ outcome' = "Parsing"
        /\ builder' = [builder EXCEPT !.location = item.value]
    BY <1>2 DEF ReadLocation, Read, Parsing
  <2>2. item.value = m.location
    BY <1>0, <2>1, NextTag
  <2>3. builder'.location = m.location /\ builder'.caveats = builder.caveats
    BY <1>1, <2>1, <2>2 DEF BuilderRecords
  <2> QED
    BY <1>1, <2>1, <2>3 DEF WalksOn, Holds
<1>3. CASE ReadIdentifier(item)
  <2>1. /\ at \in {"Start", "Identifier"} /\ item.tag = "IDENTIFIER" /\ at' = "Eos"
        /\ outcome' = "Parsing"
        /\ builder' = [builder EXCEPT !.identifier = item.value]
    BY <1>3 DEF ReadIdentifier, Read, Parsing
  <2>2. item.value = m.identifier
    BY <1>0, <2>1, NextTag
  <2>3. builder.location = m.location
    <3>1. at = "Start" => builder.location = None /\ m.location = None
      BY <1>0, <2>1, NextTag DEF Progress
    <3>2. at = "Identifier" => builder.location = m.location
      BY DEF Holds
    <3> QED
      BY <2>1, <3>1, <3>2
  <2>4. /\ builder'.location = m.location /\ builder'.identifier = m.identifier
        /\ builder'.caveats = builder.caveats
    BY <1>1, <2>1, <2>2, <2>3 DEF BuilderRecords
  <2> QED
    BY <1>1, <2>1, <2>4 DEF WalksOn, Holds
<1>4. CASE ReadSignature(item)
  <2>1. /\ at = "Signature" /\ at' = "End" /\ outcome' = "Parsing"
        /\ builder' = [builder EXCEPT !.signature = item.value]
    BY <1>4 DEF ReadSignature, Read, Parsing
  <2>2. item.value = m.signature
    BY <1>0, <2>1, NextTag
  <2>3. /\ builder.location = m.location /\ builder.identifier = m.identifier
        /\ builder.caveats = m.caveats
    BY <2>1 DEF Holds
  <2>4. /\ builder'.location = m.location /\ builder'.identifier = m.identifier
        /\ builder'.caveats = m.caveats /\ builder'.signature = m.signature
    BY <1>1, <2>1, <2>2, <2>3 DEF BuilderRecords
  <2>5. IsStart(builder'.caveats, m.caveats)
    BY <1>1, <2>3, <2>4
  <2> QED
    BY <2>1, <2>4, <2>5 DEF WalksOn, Holds
<1> QED
  BY <1>2, <1>3, <1>4

\* In a caveat.
LEMMA WalkCaveat ==
  ASSUME FormatInv, Parsing, NEW m \in Macaroons, Holds(m),
         \/ ReadCaveatLocation(NextItem(m)) \/ ReadCaveatIdentifier(NextItem(m))
  PROVE  WalksOn(m)
<1> DEFINE item == NextItem(m)
           c    == Current(m)
<1>0. Within /\ Progress
  BY DEF FormatInv, Parsing
<1>1. IsStart(builder.caveats, m.caveats) /\ caveat_builder \in CaveatBuilders
  BY <1>0 DEF Within, Holds
<1>2. builder.caveats # m.caveats => Len(builder.caveats) < Len(m.caveats)
  <2>1. builder.caveats \in Seq(Caveats) /\ m.caveats \in Seq(Caveats)
    BY <1>0, MacaroonFacts DEF Within, BuilderRecords
  <2> QED
    BY <1>1, <2>1 DEF IsStart
<1>3. CASE ReadCaveatLocation(item)
  <2>1. /\ at = "Caveat" /\ item.tag = "LOCATION" /\ at' = "CaveatId"
        /\ outcome' = "Parsing" /\ builder' = builder
        /\ caveat_builder' = [caveat_builder EXCEPT !.location = item.value]
    BY <1>3 DEF ReadCaveatLocation, Read, Parsing
  <2>2. /\ item.value = c.location /\ ~IsFirstParty(c)
        /\ Len(builder.caveats) < Len(m.caveats)
    BY <1>0, <1>2, <2>1, NextTag
  <2>3. caveat_builder'.location = c.location
    BY <1>1, <2>1, <2>2 DEF CaveatBuilders
  <2>4. builder.location = m.location /\ builder.identifier = m.identifier
    BY <2>1 DEF Holds
  <2>5. Current(m)' = c
    BY <2>1 DEF Current
  <2> QED
    BY <1>1, <2>1, <2>2, <2>3, <2>4, <2>5 DEF WalksOn, Holds
<1>4. CASE ReadCaveatIdentifier(item)
  <2>1. /\ at \in {"Caveat", "CaveatId"} /\ item.tag = "IDENTIFIER" /\ at' = "CaveatEnd"
        /\ outcome' = "Parsing" /\ builder' = builder
        /\ caveat_builder' = [caveat_builder EXCEPT !.id = item.value]
    BY <1>4 DEF ReadCaveatIdentifier, Read, Parsing
  <2>2. builder.location = m.location /\ builder.identifier = m.identifier
    BY <2>1 DEF Holds
  <2>3. Current(m)' = c
    BY <2>1 DEF Current
  <2>4. Len(builder.caveats) < Len(m.caveats)
    BY <1>0, <1>2, <2>1, NextTag DEF Holds
  <2>5. caveat_builder' = HalfBuilt(c)
    <3>1. CASE at = "Caveat"
      <4>1. item.value = c.predicate /\ IsFirstParty(c)
        BY <1>0, <2>1, <3>1, NextTag
      <4>2. caveat_builder = [id |-> None, verifier_id |-> None, location |-> None]
        BY <1>0, <3>1 DEF Progress, NewCaveatBuilder
      <4> QED
        BY <2>1, <4>1, <4>2 DEF HalfBuilt
    <3>2. CASE at = "CaveatId"
      <4>1. item.value = c.id /\ ~IsFirstParty(c) /\ caveat_builder.location = c.location
        BY <1>0, <3>2, NextTag DEF Holds
      <4>2. caveat_builder.verifier_id = None
        BY <1>1 DEF CaveatBuilders
      <4>3. caveat_builder' = [id |-> c.id, verifier_id |-> None, location |-> c.location]
        BY <1>1, <2>1, <4>1, <4>2 DEF CaveatBuilders
      <4> QED
        BY <4>1, <4>3 DEF HalfBuilt
    <3> QED
      BY <2>1, <3>1, <3>2
  <2>6. HalfBuilt(c)' = HalfBuilt(c)
    BY <2>3 DEF HalfBuilt
  <2> QED
    BY <1>1, <2>1, <2>2, <2>3, <2>4, <2>5, <2>6 DEF WalksOn, Holds
<1> QED
  BY <1>3, <1>4

\* After a caveat, and after the last one.
LEMMA WalkEos ==
  ASSUME FormatInv, Parsing, NEW m \in Macaroons, Holds(m),
         AddCaveat(NextItem(m)) \/ ReadEos(NextItem(m))
  PROVE  WalksOn(m)
<1> DEFINE item == NextItem(m)
           c    == Current(m)
<1>0. Within /\ Progress
  BY DEF FormatInv, Parsing
<1>1. IsStart(builder.caveats, m.caveats) /\ builder \in BuilderRecords
  BY <1>0 DEF Within, Holds
<1>2. CASE AddCaveat(item)
  <2>1. /\ at = "CaveatEnd" /\ at' \in {"Caveat", "CaveatEos"} /\ outcome' = "Parsing"
        /\ builder' = WithBuilt(builder, Completed(item))
    BY <1>2 DEF AddCaveat, Read, Parsing
  <2>2. builder.location = m.location /\ builder.identifier = m.identifier
    BY <2>1 DEF Holds
  <2>3. CaveatOf(Completed(item)) = c /\ builder.caveats # m.caveats
    BY <1>0, <2>1, CompletedCaveat
  <2>4. IsStart(Append(builder.caveats, c), m.caveats)
    BY <1>0, <2>1, <2>3, AfterSoFar
  <2> DEFINE cs == Append(builder.caveats, c)
  <2>5. builder' = [builder EXCEPT !.caveats = cs]
    BY <2>1, <2>3 DEF WithBuilt
  <2> HIDE DEF cs
  <2>6. /\ builder'.location = m.location /\ builder'.identifier = m.identifier
        /\ builder'.caveats = cs
    BY <1>1, <2>2, <2>5 DEF BuilderRecords
  <2>7. IsStart(builder'.caveats, m.caveats)
    BY <2>4, <2>6 DEF cs
  <2> QED
    BY <2>1, <2>6, <2>7 DEF WalksOn, Holds
<1>3. CASE ReadEos(item)
  <2>1. /\ at \in {"Eos", "CaveatEos", "Caveat"} /\ item.tag = "EOS"
        /\ at' = IF at = "Caveat" THEN "Signature" ELSE "Caveat"
        /\ outcome' = "Parsing" /\ builder' = builder
    BY <1>3 DEF ReadEos, Read, Parsing
  <2>2. builder.location = m.location /\ builder.identifier = m.identifier
    BY <2>1 DEF Holds
  <2>3. at = "Caveat" => builder.caveats = m.caveats
    BY <1>0, <2>1, NextTag
  <2> QED
    BY <1>1, <2>1, <2>2, <2>3 DEF WalksOn, Holds
<1> QED
  BY <1>2, <1>3

\* Every step that reads the next item of the encoding goes on along it.
LEMMA WalkStep ==
  ASSUME FormatInv, Parsing, NEW m \in Macaroons, Holds(m), Step(NextItem(m))
  PROVE  outcome' = "Ok" \/ WalksOn(m)
<1> DEFINE item == NextItem(m)
<1>1. Within /\ Progress
  BY DEF FormatInv, Parsing
<1>2. Errors(item) = {}
  BY <1>1, NextAccepted
<1>3. ~Refuse(item)
  BY <1>2 DEF Refuse, Fail
<1>4. Build(item) => outcome' = "Ok"
  BY DEF Build
<1> QED
  BY <1>3, <1>4, WalkPreamble, WalkCaveat, WalkEos, Zenon DEF Step

\* Before the first item, nothing is held.
LEMMA HoldsAtStart ==
  ASSUME at = "Start", builder.caveats = << >>, NEW m \in Macaroons
  PROVE  Holds(m)
<1>1. m.caveats \in Seq(Caveats)
  BY MacaroonFacts
<1>2. IsStart(builder.caveats, m.caveats)
  BY <1>1 DEF IsStart
<1> QED
  BY <1>2 DEF Holds

HIDE ValueAssumption
HIDE FieldAssumption


-----------------------------------------------------------------------------
(***************************************************************************)
(* Powers of two.  All that is known of them is that they count subsets.    *)
(***************************************************************************)

\* The subsets of 1..(n + 1) are those of 1..n, each without n + 1 and with it.
LEMMA PowerDoubles ==
  ASSUME NEW n \in Nat
  PROVE  2^n \in Nat /\ 2^(n + 1) = 2 * 2^n
<1> DEFINE A == 1..n
           B == 1..(n + 1)
           With == { T \cup {n + 1} : T \in SUBSET A }
<1>1. /\ IsFiniteSet(A) /\ Cardinality(A) = n
      /\ IsFiniteSet(B) /\ Cardinality(B) = n + 1
  <2>1. 1 \in Int /\ n \in Int /\ n + 1 \in Int
    OBVIOUS
  <2>2. /\ IsFiniteSet(A) /\ Cardinality(A) = IF 1 > n THEN 0 ELSE n - 1 + 1
        /\ IsFiniteSet(B) /\ Cardinality(B) = IF 1 > n + 1 THEN 0 ELSE (n + 1) - 1 + 1
    BY <2>1, FS_Interval
  <2> QED
    BY <2>2
<1>2. /\ IsFiniteSet(SUBSET A) /\ Cardinality(SUBSET A) = 2^n
      /\ Cardinality(SUBSET B) = 2^(n + 1)
  BY <1>1, FS_SUBSET
<1>3. SUBSET B = (SUBSET A) \cup With
  <2>1. ASSUME NEW T \in SUBSET B, n + 1 \in T PROVE T \in With
    <3>1. T \ {n + 1} \in SUBSET A /\ T = (T \ {n + 1}) \cup {n + 1}
      BY <2>1
    <3> QED
      BY <3>1
  <2>2. ASSUME NEW T \in SUBSET B, n + 1 \notin T PROVE T \in SUBSET A
    BY <2>2
  <2>3. ASSUME NEW T \in SUBSET A PROVE T \in SUBSET B /\ T \cup {n + 1} \in SUBSET B
    OBVIOUS
  <2>4. ASSUME NEW T \in With PROVE T \in SUBSET B
    BY <2>3
  <2> HIDE DEF A, B, With
  <2> QED
    BY <2>1, <2>2, <2>3, <2>4
<1>4. (SUBSET A) \cap With = {}
  OBVIOUS
<1>5. IsFiniteSet(With) /\ Cardinality(With) = Cardinality(SUBSET A)
  <2> DEFINE f == [T \in SUBSET A |-> T \cup {n + 1}]
  <2>1. f \in Bijection(SUBSET A, With)
    <3>1. f \in [SUBSET A -> With]
      OBVIOUS
    <3>2. ASSUME NEW T \in SUBSET A, NEW U \in SUBSET A, f[T] = f[U] PROVE T = U
      <4>1. T = f[T] \ {n + 1} /\ U = f[U] \ {n + 1}
        OBVIOUS
      <4> QED
        BY <3>2, <4>1
    <3>3. \A y \in With : \E T \in SUBSET A : f[T] = y
      OBVIOUS
    <3> HIDE DEF f, With, A
    <3> QED
      BY <3>1, <3>2, <3>3 DEF Bijection, Injection, Surjection, IsInjective
  <2>2. ExistsBijection(SUBSET A, With)
    BY <2>1 DEF ExistsBijection
  <2> QED
    BY <1>2, <2>2, FS_Bijection
<1>6. /\ Cardinality((SUBSET A) \cup With)
           = Cardinality(SUBSET A) + Cardinality(With) - Cardinality((SUBSET A) \cap With)
      /\ Cardinality({}) = 0
  BY <1>2, <1>5, FS_Union, FS_EmptySet
<1>7. Cardinality(SUBSET A) \in Nat
  BY <1>2, FS_CardinalityType
<1> DEFINE p == Cardinality(SUBSET A)
           q == Cardinality(SUBSET B)
<1>8. q = p + p - 0
  BY <1>3, <1>4, <1>5, <1>6
<1>9. p \in Nat /\ p = 2^n /\ q = 2^(n + 1)
  BY <1>2, <1>7
<1> HIDE DEF p, q
<1>10. q = 2 * p
  BY <1>8, <1>9
<1> QED
  BY <1>9, <1>10

\* Exponents add up, and powers grow with them.
LEMMA Powers ==
  ASSUME NEW a \in Nat, NEW b \in Nat
  PROVE  /\ 2^a \in Nat /\ 2^a > 0
         /\ 2^(a + b) = 2^a * 2^b
         /\ 2^a <= 2^(a + b)
<1>1. \A n \in Nat : 2^n \in Nat /\ 2^(n + 1) = 2 * 2^n
  BY PowerDoubles
<1>2. 2^0 = 1
  OBVIOUS
<1>3. \A n \in Nat : 2^n > 0
  <2> DEFINE X == { n \in Nat : 2^n > 0 }
  <2>1. 0 \in X
    BY <1>2
  <2>2. \A n \in Nat : n \in X => n + 1 \in X
    BY <1>1
  <2> HIDE DEF X
  <2>3. Nat \subseteq X
    BY <2>1, <2>2, Induction
  <2> QED
    BY <2>3 DEF X
<1>4. 2^(a + b) = 2^a * 2^b
  <2> DEFINE X == { n \in Nat : 2^(a + n) = 2^a * 2^n }
  <2>1. 0 \in X
    <3>1. a + 0 = a /\ 2^a * 1 = 2^a
      BY <1>1
    <3> QED
      BY <1>2, <3>1
  <2>2. ASSUME NEW n \in Nat, n \in X PROVE n + 1 \in X
    <3>1. 2^(a + n) = 2^a * 2^n
      BY <2>2
    <3>2. a + (n + 1) = (a + n) + 1 /\ a + n \in Nat
      OBVIOUS
    <3>3. 2^((a + n) + 1) = 2 * 2^(a + n) /\ 2^(n + 1) = 2 * 2^n
      BY <1>1, <3>2
    <3>4. 2 * (2^a * 2^n) = 2^a * (2 * 2^n)
      BY <1>1
    <3>5. 2^(a + (n + 1)) = 2^a * 2^(n + 1)
      BY <3>1, <3>2, <3>3, <3>4
    <3> QED
      BY <3>5
  <2> HIDE DEF X
  <2>3. Nat \subseteq X
    BY <2>1, <2>2, Induction
  <2> QED
    BY <2>3 DEF X
<1>5. 2^a <= 2^a * 2^b
  BY <1>1, <1>3
<1> QED
  BY <1>1, <1>3, <1>4, <1>5

-----------------------------------------------------------------------------
AllBytes == Byte \cup {EOF}

\* A digit with the flag above it.
LEMMA OneAbove ==
  ASSUME NEW n \in Nat, n > 1, NEW d \in 0..(n - 1)
  PROVE  d + n >= n /\ (d + n) % n = d
<1>1. d + n \in 0..(2 * n - 1) /\ d + n >= n
  OBVIOUS
<1>2. (d + n) % n = d
  BY <1>1
<1> QED
  BY <1>1, <1>2

\* Putting together sequences of bytes, and of items.
LEMMA ByteConcat == \A s, t \in Seq(AllBytes) : s \o t \in Seq(AllBytes)
OBVIOUS

\* In whatever order.
LEMMA ByteAssociate ==
  \A s, t, u \in Seq(AllBytes) : (s \o t) \o u = s \o (t \o u)
OBVIOUS

\* An item added to the second of two sequences.
LEMMA AppendOfConcat ==
  \A s, t \in Seq(GoodItems), x \in GoodItems : s \o Append(t, x) = Append(s \o t, x)
OBVIOUS

-----------------------------------------------------------------------------
(***************************************************************************)
(* varint_size.  A recursive function is known by what it is equal to, so   *)
(* first there must be one.                                                 *)
(***************************************************************************)
USE WidthAssumption

D == VARINT_PACK_SIZE

\* What is known of the pack size, and of division by it.
LEMMA PackSize ==
  /\ D \in Nat /\ D >= 4 /\ D > 1
  /\ VARINT_PACK_SIZE = D
  /\ \A n \in Nat : n % D \in 0..(D - 1) /\ n \div D \in Nat /\ n = (n \div D) * D + (n % D)
  /\ \A n \in Nat : n >= D => n \div D < n /\ n \div D > 0
<1>1. D \in Nat /\ D >= 4 /\ D > 1
  <2>1. 2^0 = 1 /\ 2^(0 + 1) = 2 * 2^0 /\ 2^(1 + 1) = 2 * 2^1
    BY PowerDoubles
  <2>2. 2^2 = 4
    BY <2>1
  <2>3. DIGIT - 2 \in Nat /\ 2 + (DIGIT - 2) = DIGIT /\ DIGIT \in Nat
    OBVIOUS
  <2>4. 2^2 <= 2^(2 + (DIGIT - 2)) /\ 2^DIGIT \in Nat
    BY <2>3, Powers, PowerDoubles
  <2>5. 2^DIGIT \in Nat /\ 2^DIGIT >= 4
    BY <2>2, <2>3, <2>4
  <2> QED
    BY <2>5 DEF D, VARINT_PACK_SIZE
<1>2. VARINT_PACK_SIZE = D
  BY DEF D
<1> HIDE DEF D
<1>3. ASSUME NEW n \in Nat
      PROVE  n % D \in 0..(D - 1) /\ n \div D \in Nat /\ n = (n \div D) * D + (n % D)
  BY <1>1
<1>4. ASSUME NEW n \in Nat, n >= D
      PROVE  n \div D < n /\ n \div D > 0
  <2> DEFINE q == n \div D
             m == n % D
  <2>1. q \in Nat /\ m \in 0..(D - 1) /\ n = q * D + m
    BY <1>3
  <2> HIDE DEF q, m
  <2>2. q > 0
    <3>1. ASSUME q = 0 PROVE FALSE
      <4>1. n = 0 * D + m /\ 0 * D = 0
        BY <1>1, <2>1, <3>1
      <4> QED
        BY <1>1, <1>4, <2>1, <4>1
    <3> QED
      BY <2>1, <3>1
  <2>3. q < q * D
    BY <1>1, <2>1, <2>2
  <2> QED
    BY <1>1, <2>1, <2>2, <2>3 DEF q
<1> QED
  BY <1>1, <1>2, <1>3, <1>4

VarintBody(f, size) ==
  IF FillsDigit(size)
    THEN <<Digit(size) + VARINT_PACK_SIZE>> \o f[size \div VARINT_PACK_SIZE]
    ELSE <<size>>

IsVarint(f, n) == f = [size \in 0..n |-> VarintBody(f, size)]

\* What one of these functions is at one size.
LEMMA VarintAt ==
  ASSUME NEW f, NEW n, IsVarint(f, n), NEW size \in 0..n
  PROVE  f[size] = VarintBody(f, size)
<1> DEFINE F == [k \in 0..n |-> VarintBody(f, k)]
<1>1. F[size] = VarintBody(f, size)
  OBVIOUS
<1>2. f = F
  BY Zenon DEF IsVarint
<1> HIDE DEF F
<1> QED
  BY <1>1, <1>2

\* The body looks at smaller sizes only.
LEMMA BodyAgrees ==
  ASSUME NEW f, NEW g, NEW size \in Nat,
         \A k \in Nat : k < size => f[k] = g[k]
  PROVE  VarintBody(f, size) = VarintBody(g, size)
<1>1. FillsDigit(size) => size \div D \in Nat /\ size \div D < size
  BY PackSize DEF FillsDigit
<1>2. FillsDigit(size) => f[size \div D] = g[size \div D]
  BY <1>1
<1> QED
  BY <1>2, PackSize DEF VarintBody

\* Two of these functions agree where both are defined.
LEMMA VarintsAgree ==
  ASSUME NEW n \in Nat, NEW m \in Nat,
         NEW f, IsVarint(f, n), NEW g, IsVarint(g, m)
  PROVE  \A k \in Nat : k <= n /\ k <= m => f[k] = g[k]
<1> DEFINE X == { k \in Nat : k <= n /\ k <= m /\ f[k] # g[k] }
<1> SUFFICES ASSUME X # {} PROVE FALSE
  OBVIOUS
<1>1. PICK k \in X : \A j \in X : k <= j
  <2>1. X \in SUBSET Nat
    OBVIOUS
  <2> HIDE DEF X
  <2> QED
    BY <2>1, LeastElement
<1>2. \A j \in Nat : j < k => f[j] = g[j]
  BY <1>1
<1>3. VarintBody(f, k) = VarintBody(g, k)
  BY <1>2, BodyAgrees
<1>4. f[k] = VarintBody(f, k) /\ g[k] = VarintBody(g, k)
  <2>1. k \in 0..n /\ k \in 0..m
    OBVIOUS
  <2> QED
    BY <2>1, VarintAt
<1> QED
  BY <1>3, <1>4

\* There is one for every bound.
LEMMA VarintExists ==
  ASSUME NEW n \in Nat
  PROVE  \E f : IsVarint(f, n)
<1> DEFINE X == { k \in Nat : \E f : IsVarint(f, k) }
           extended(f, k) ==
             [size \in 0..k |-> IF size < k THEN f[size] ELSE VarintBody(f, size)]
<1>1. ASSUME NEW k \in Nat, NEW f,
             \A size \in 0..k : size < k => f[size] = VarintBody(f, size)
      PROVE  IsVarint(extended(f, k), k)
  <2> DEFINE g == extended(f, k)
  <2>1. ASSUME NEW size \in 0..k PROVE g[size] = VarintBody(g, size)
    <3>1. g[size] = VarintBody(f, size)
      BY <1>1
    <3>2. \A j \in Nat : j < size => f[j] = g[j]
      OBVIOUS
    <3> HIDE DEF g
    <3>3. VarintBody(f, size) = VarintBody(g, size)
      BY <3>2, BodyAgrees
    <3> QED
      BY <3>1, <3>3
  <2>2. g = [size \in 0..k |-> g[size]]
    OBVIOUS
  <2> HIDE DEF g
  <2>3. g = [size \in 0..k |-> VarintBody(g, size)]
    BY <2>1, <2>2
  <2> QED
    BY <2>3 DEF IsVarint, g
<1> HIDE DEF extended
<1>2. 0 \in X
  <2>1. IsVarint(extended(<< >>, 0), 0)
    BY <1>1
  <2> QED
    BY <2>1
<1>3. ASSUME NEW k \in Nat, k \in X PROVE k + 1 \in X
  <2>1. PICK f : IsVarint(f, k)
    BY <1>3
  <2>2. \A size \in 0..(k + 1) : size < k + 1 => f[size] = VarintBody(f, size)
    BY <2>1, VarintAt
  <2>3. IsVarint(extended(f, k + 1), k + 1)
    BY <1>1, <2>2
  <2> QED
    BY <2>3
<1> HIDE DEF X
<1>4. Nat \subseteq X
  BY <1>2, <1>3, Induction
<1> QED
  BY <1>4 DEF X

\* The recursion of varint_size.
LEMMA VarintIs ==
  ASSUME NEW n \in Nat
  PROVE  varint_size[n] = IF n >= D THEN <<(n % D) + D>> \o varint_size[n \div D]
                                    ELSE <<n>>
<1> DEFINE part_(k) == CHOOSE f : IsVarint(f, k)
           F == [k \in Nat |-> part_(k)[k]]
<1>1. \A k \in Nat : IsVarint(part_(k), k)
  BY VarintExists
<1> HIDE DEF part_
<1>2. ASSUME NEW k \in Nat PROVE F[k] = VarintBody(F, k)
  <2>1. part_(k)[k] = VarintBody(part_(k), k)
    BY <1>1, VarintAt
  <2>2. ASSUME NEW j \in Nat, j < k PROVE part_(k)[j] = F[j]
    <3>1. part_(k)[j] = part_(j)[j]
      BY <1>1, <2>2, VarintsAgree
    <3> QED
      BY <3>1
  <2>3. VarintBody(part_(k), k) = VarintBody(F, k)
    <3> HIDE DEF F
    <3> QED
      BY <2>2, BodyAgrees
  <2> QED
    BY <2>1, <2>3
<1>3. F = [k \in Nat |-> VarintBody(F, k)]
  <2>1. F = [k \in Nat |-> F[k]]
    OBVIOUS
  <2> HIDE DEF F
  <2> QED
    BY <1>2, <2>1
<1>4. \E f : f = [k \in Nat |-> VarintBody(f, k)]
  BY <1>3
<1>5. varint_size = [k \in Nat |-> VarintBody(varint_size, k)]
  BY <1>4, Zenon DEF varint_size, VarintBody
<1>6. varint_size[n] = VarintBody(varint_size, n)
  <2> DEFINE G == [k \in Nat |-> VarintBody(varint_size, k)]
  <2>1. G[n] = VarintBody(varint_size, n)
    OBVIOUS
  <2>2. varint_size = G
    BY <1>5
  <2> HIDE DEF G
  <2> QED
    BY <2>1, <2>2
<1> QED
  BY <1>6, PackSize DEF VarintBody, FillsDigit, Digit

\* Two ways to meet it: a last digit, and a digit that more follow.
LEMMA VarintDigits ==
  /\ \A d \in 0..(D - 1) : varint_size[d] = <<d>>
  /\ \A d \in 0..(D - 1), r \in Nat \ {0} :
       varint_size[d + r * D] = <<d + D>> \o varint_size[r]
<1>1. ASSUME NEW d \in 0..(D - 1)
      PROVE  varint_size[d] = <<d>>
  <2>1. D \in Nat
    BY PackSize
  <2>2. d \in Nat /\ ~(d >= D)
    BY <2>1
  <2> QED
    BY <2>2, VarintIs
<1>2. ASSUME NEW d \in 0..(D - 1), NEW r \in Nat \ {0}
      PROVE  varint_size[d + r * D] = <<d + D>> \o varint_size[r]
  <2> DEFINE n == d + r * D
  <2>1. D \in Nat /\ D > 1
    BY PackSize
  <2> HIDE DEF D
  <2>2. r * D \in Nat /\ r * D >= D
    BY <2>1
  <2>3. n \in Nat /\ n >= D
    BY <2>1, <2>2
  <2>4. n % D = d /\ n \div D = r
    BY <2>1
  <2> HIDE DEF n
  <2>5. varint_size[n] = <<(n % D) + D>> \o varint_size[n \div D]
    BY <2>3, VarintIs
  <2> QED
    BY <2>4, <2>5 DEF n
<1> QED
  BY <1>1, <1>2

\* It writes bytes.
LEMMA VarintBytes ==
  \A n \in Nat : varint_size[n] \in Seq(Byte)
<1> DEFINE X == { n \in Nat : varint_size[n] \notin Seq(Byte) }
<1> SUFFICES ASSUME X # {} PROVE FALSE
  OBVIOUS
<1>1. PICK n \in X : \A k \in X : n <= k
  <2>1. X \in SUBSET Nat
    OBVIOUS
  <2> HIDE DEF X
  <2> QED
    BY <2>1, LeastElement
<1>2. varint_size[n] \notin Seq(Byte) /\ n \in Nat
  OBVIOUS
<1>3. \A k \in Nat : k < n => varint_size[k] \in Seq(Byte)
  BY <1>1
<1>4. Byte = 0..(2 * D - 1) /\ D \in Nat /\ D > 1
  BY PackSize DEF Byte
<1> HIDE DEF X
<1>5. CASE n >= D
  <2>1. (n % D) + D \in Byte
    <3>1. n % D \in 0..(D - 1)
      BY <1>2, PackSize
    <3> HIDE DEF D
    <3> QED
      BY <1>4, <3>1
  <2>2. varint_size[n \div D] \in Seq(Byte)
    BY <1>2, <1>3, <1>5, PackSize
  <2>3. varint_size[n] = <<(n % D) + D>> \o varint_size[n \div D]
    BY <1>2, <1>5, VarintIs
  <2> QED
    BY <1>2, <2>1, <2>2, <2>3
<1>6. CASE ~(n >= D)
  <2>1. varint_size[n] = <<n>> /\ n \in Byte
    <3>1. varint_size[n] = <<n>>
      BY <1>2, <1>6, VarintIs
    <3>2. n \in Byte
      BY <1>2, <1>4, <1>6
    <3> QED
      BY <3>1, <3>2
  <2> QED
    BY <1>2, <2>1
<1> QED
  BY <1>5, <1>6

-----------------------------------------------------------------------------
(***************************************************************************)
(* The bytes of the items that deserialize accepts.                         *)
(***************************************************************************)
BytesOf(items) ==
  <<VERSION>> \o FlattenSeq([i \in 1..Len(items) |-> serialize_field(items[i])])

\* serialize_field, by the kinds of items.
LEMMA SerializedField ==
  /\ serialize_field(END) = <<EOF>>
  /\ serialize_field(EOS) = <<TagByte["EOS"]>>
  /\ \A tag \in FieldTags, v \in Value :
       serialize_field(Field(tag, v))
         = <<TagByte[tag]>> \o varint_size[Size(v)] \o v
<1>1. serialize_field(END) = <<EOF>>
  <2>1. END = END
    OBVIOUS
  <2>2. END # EOS
    BY DEF END, EOS, Field
  <2> QED
    BY <2>1, <2>2, Zenon DEF serialize_field
<1>2. serialize_field(EOS) = <<TagByte["EOS"]>>
  <2>1. EOS # END
    BY DEF END, EOS, Field
  <2> QED
    BY <2>1, Zenon DEF serialize_field
<1>3. ASSUME NEW tag \in FieldTags, NEW v \in Value
      PROVE  serialize_field(Field(tag, v))
               = <<TagByte[tag]>> \o varint_size[Size(v)] \o v
  <2> DEFINE item == Field(tag, v)
  <2>1. item # END /\ item # EOS /\ item.tag = tag /\ item.value = v
    BY DEF END, EOS, Field, FieldTags
  <2> HIDE DEF item
  <2>2. serialize_field(item)
          = <<TagByte[item.tag]>> \o varint_size[Size(item.value)] \o item.value
    BY <2>1, Zenon DEF serialize_field
  <2> QED
    BY <2>1, <2>2 DEF item
<1> QED
  BY <1>1, <1>2, <1>3

\* A byte is below the mark of the end.
LEMMA ByteRange ==
  /\ D \in Nat /\ D > 1 /\ Byte = 0..(2 * D - 1) /\ EOF = 2 * D
  /\ D >= 4
BY PackSize DEF Byte, EOF

\* Tags and the version are bytes.
LEMMA TagBytes ==
  /\ TagByte["EOS"] = 0
  /\ \A tag \in FieldTags : TagByte[tag] \in Byte
  /\ VERSION \in Byte
BY ByteRange DEF TagByte, FieldTags, VERSION

\* The bytes of a good item.
LEMMA GoodBytes ==
  ASSUME NEW item \in GoodItems
  PROVE  serialize_field(item) \in Seq(AllBytes)
<1>1. CASE item = END
  BY <1>1, SerializedField DEF AllBytes
<1>2. CASE item = EOS
  <2>1. 0 \in Byte
    BY ByteRange
  <2> QED
    BY <1>2, <2>1, SerializedField, TagBytes DEF AllBytes
<1>3. CASE \E tag \in FieldTags, v \in Value : item = Field(tag, v)
  <2>1. PICK tag \in FieldTags, v \in Value : item = Field(tag, v)
    BY <1>3
  <2>2. /\ serialize_field(item) = <<TagByte[tag]>> \o varint_size[Size(v)] \o v
        /\ TagByte[tag] \in Byte /\ varint_size[Size(v)] \in Seq(Byte) /\ v \in Seq(Byte)
    BY <2>1, SerializedField, TagBytes, VarintBytes, ValueAssumption
  <2>3. \A s \in Seq(Byte) : s \in Seq(AllBytes)
    BY DEF AllBytes
  <2> DEFINE digits == varint_size[Size(v)]
             first  == TagByte[tag]
  <2>4. <<first>> \in Seq(AllBytes) /\ digits \in Seq(AllBytes) /\ v \in Seq(AllBytes)
    <3>1. first \in Byte /\ digits \in Seq(Byte) /\ v \in Seq(Byte)
      BY <2>2
    <3> HIDE DEF digits, first
    <3>2. <<first>> \in Seq(Byte)
      BY <3>1
    <3> QED
      BY <2>3, <3>1, <3>2
  <2> HIDE DEF digits, first, AllBytes
  <2>5. <<first>> \o digits \o v \in Seq(AllBytes)
    BY <2>4
  <2> QED
    BY <2>2, <2>5 DEF digits, first
<1> QED
  BY <1>1, <1>2, <1>3 DEF GoodItems

\* One more item is written after the others.
LEMMA BytesAppend ==
  ASSUME NEW items \in Seq(GoodItems), NEW item \in GoodItems
  PROVE  /\ BytesOf(items) \in Seq(AllBytes)
         /\ BytesOf(Append(items, item)) = BytesOf(items) \o serialize_field(item)
<1> DEFINE enc(s) == [i \in 1..Len(s) |-> serialize_field(s[i])]
<1>1. serialize_field(item) \in Seq(AllBytes)
  BY GoodBytes
<1>2. enc(items) \in Seq(Seq(AllBytes))
  <2>1. \A i \in 1..Len(items) : serialize_field(items[i]) \in Seq(AllBytes)
    BY GoodBytes
  <2> QED
    BY <2>1
<1>3. enc(Append(items, item)) = Append(enc(items), serialize_field(item))
  <2>1. /\ Len(Append(items, item)) = Len(items) + 1
        /\ Len(items) \in Nat
        /\ \A i \in 1..Len(items) : Append(items, item)[i] = items[i]
        /\ Append(items, item)[Len(items) + 1] = item
    OBVIOUS
  <2> QED
    BY <1>1, <1>2, <2>1
<1>4. VERSION \in AllBytes
  BY TagBytes DEF AllBytes
<1> HIDE DEF enc
<1>5. /\ FlattenSeq(enc(items)) \in Seq(AllBytes)
      /\ FlattenSeq(enc(Append(items, item)))
           = FlattenSeq(enc(items)) \o serialize_field(item)
  BY <1>1, <1>2, <1>3, FlattenAppend
<1>6. /\ BytesOf(items) = <<VERSION>> \o FlattenSeq(enc(items))
      /\ BytesOf(Append(items, item)) = <<VERSION>> \o FlattenSeq(enc(Append(items, item)))
  BY Zenon DEF BytesOf, enc
<1> QED
  BY <1>1, <1>4, <1>5, <1>6

\* Before the first item there is the version.
LEMMA BytesOfNone == BytesOf(<< >>) = <<VERSION>>
<1>1. FlattenSeq([i \in 1..Len(<< >>) |-> serialize_field(<< >>[i])]) = << >>
  BY DEF FlattenSeq
<1>2. <<VERSION>> \o << >> = <<VERSION>>
  OBVIOUS
<1> QED
  BY <1>1, <1>2 DEF BytesOf

-----------------------------------------------------------------------------
(***************************************************************************)
(* The digits of a size, one at a time.                                     *)
(***************************************************************************)

\* digits are the beginning of what varint_size writes for any size that has
\* more of them.
DigitsSoFar(digits, size, shift) ==
  /\ digits \in Seq(Byte)
  /\ shift = 0 => digits = << >>
  /\ \A r \in Nat \ {0} : varint_size[size + r * 2^shift] = digits \o varint_size[r]

\* The bits so far do not reach the next digit, nor that the end of a usize.
SizeFits(size, shift) ==
  /\ size \in Nat /\ shift \in Nat
  /\ size < 2^shift /\ shift + DIGIT <= BITS

\* What one more digit makes of the size: | is +, and nothing is cut off.
LEMMA NoneLost ==
  ASSUME NEW size, NEW shift, SizeFits(size, shift), NEW d \in 0..(D - 1)
  PROVE  /\ (size + d * 2^shift) % 2^BITS = size + d * 2^shift
         /\ size + d * 2^shift \in Nat
         /\ size + d * 2^shift < 2^(shift + DIGIT)
         /\ 2^(shift + DIGIT) = D * 2^shift
<1> DEFINE P == 2^shift
           W == 2^BITS
           Q == 2^(shift + DIGIT)
<1>1. shift \in Nat /\ DIGIT \in Nat /\ BITS \in Nat /\ size \in Nat /\ size < P
      /\ D \in Nat /\ D > 1
  BY PackSize DEF SizeFits
<1>2. P \in Nat /\ P > 0 /\ Q = P * D
  BY <1>1, Powers DEF D, VARINT_PACK_SIZE
<1>3. Q <= W /\ W \in Nat
  <2>1. BITS - (shift + DIGIT) \in Nat /\ shift + DIGIT \in Nat
        /\ (shift + DIGIT) + (BITS - (shift + DIGIT)) = BITS
    BY <1>1 DEF SizeFits
  <2> DEFINE rest == BITS - (shift + DIGIT)
             low  == shift + DIGIT
  <2>2. rest \in Nat /\ low \in Nat /\ low + rest = BITS
    BY <2>1
  <2> HIDE DEF rest, low
  <2>3. 2^low <= 2^(low + rest) /\ 2^(low + rest) \in Nat
    BY <2>2, Powers
  <2> QED
    BY <2>2, <2>3 DEF low
<1> HIDE DEF P, W, Q, D
<1>4. d \in Nat /\ D - 1 - d \in Nat /\ d <= D - 1
  BY <1>1
<1>5. d * P <= (D - 1) * P /\ d * P \in Nat
  BY <1>1, <1>2, <1>4
<1>6. (D - 1) * P = P * D - P
  BY <1>1, <1>2
<1>7. size + d * P < Q /\ size + d * P \in Nat
  BY <1>1, <1>2, <1>5, <1>6
<1>8. (size + d * P) % W = size + d * P
  BY <1>3, <1>7, <1>2, <1>1
<1>9. P * D = D * P
  BY <1>1, <1>2
<1> QED
  BY <1>2, <1>7, <1>8, <1>9 DEF P, W, Q

\* A digit that more follow.
LEMMA OneMoreDigit ==
  ASSUME NEW size, NEW shift, SizeFits(size, shift),
         NEW digits, DigitsSoFar(digits, size, shift), NEW d \in 0..(D - 1)
  PROVE  DigitsSoFar(Append(digits, d + D), size + d * 2^shift, shift + DIGIT)
<1> DEFINE P == 2^shift
           b == d + D
<1>1. digits \in Seq(Byte) /\ b \in Byte /\ shift \in Nat /\ size \in Nat
      /\ D \in Nat /\ D > 1
  BY ByteRange DEF DigitsSoFar, SizeFits
<1>2. P \in Nat /\ P > 0 /\ 2^(shift + DIGIT) = D * P
  <2>1. shift \in Nat
    BY <1>1
  <2> QED
    BY <2>1, NoneLost, Powers
<1>3. shift + DIGIT # 0
  BY <1>1
<1>4. ASSUME NEW r \in Nat \ {0}
      PROVE  varint_size[(size + d * P) + r * (D * P)] = Append(digits, b) \o varint_size[r]
  <2>1. r * D \in Nat \ {0} /\ d + r * D \in Nat \ {0}
    <3> HIDE DEF D
    <3> QED
      BY <1>1
  <2>2. (size + d * P) + r * (D * P) = size + (d + r * D) * P
    <3> HIDE DEF D, P
    <3> QED
      BY <1>1, <1>2
  <2>3. varint_size[size + (d + r * D) * P] = digits \o varint_size[d + r * D]
    BY <2>1 DEF DigitsSoFar
  <2>4. varint_size[d + r * D] = <<b>> \o varint_size[r]
    BY VarintDigits
  <2>5. varint_size[r] \in Seq(Byte)
    BY VarintBytes
  <2> DEFINE rest == varint_size[r]
  <2> HIDE DEF b, rest
  <2>6. digits \o (<<b>> \o rest) = Append(digits, b) \o rest
    <3> DEFINE one == <<b>>
    <3>1. one \in Seq(Byte) /\ rest \in Seq(Byte) /\ digits \in Seq(Byte)
          /\ Append(digits, b) = digits \o one
      BY <1>1, <2>5 DEF rest
    <3> HIDE DEF one
    <3>2. digits \o (one \o rest) = (digits \o one) \o rest
      BY <3>1
    <3> QED
      BY <3>1, <3>2 DEF one
  <2> QED
    BY <2>2, <2>3, <2>4, <2>6 DEF rest
<1>5. Append(digits, b) \in Seq(Byte)
  <2> HIDE DEF b
  <2> QED
    BY <1>1
<1> QED
  BY <1>2, <1>3, <1>4, <1>5 DEF DigitsSoFar

\* The last digit, which is not a zero too many.
LEMMA LastDigitEnds ==
  ASSUME NEW size, NEW shift, SizeFits(size, shift),
         NEW digits, DigitsSoFar(digits, size, shift),
         NEW d \in 0..(D - 1), ~(d = 0 /\ shift > 0)
  PROVE  varint_size[size + d * 2^shift] = Append(digits, d)
<1>1. digits \in Seq(Byte) /\ shift \in Nat /\ size \in Nat /\ D \in Nat
      /\ d \in Nat /\ varint_size[d] = <<d>> /\ d \in Byte
  <2>1. digits \in Seq(Byte) /\ shift \in Nat /\ size \in Nat
    BY DEF DigitsSoFar, SizeFits
  <2>2. varint_size[d] = <<d>>
    BY VarintDigits
  <2>3. D \in Nat /\ d \in Nat /\ d \in Byte
    BY ByteRange
  <2> QED
    BY <2>1, <2>2, <2>3
<1>2. digits \o <<d>> = Append(digits, d)
  BY <1>1
<1>3. CASE d # 0
  <2>1. varint_size[size + d * 2^shift] = digits \o varint_size[d]
    BY <1>1, <1>3 DEF DigitsSoFar
  <2> QED
    BY <1>1, <1>2, <2>1
<1>4. CASE d = 0
  <2>1. shift = 0
    BY <1>1, <1>4
  <2>2. 2^0 = 1
    OBVIOUS
  <2>3. size = 0 /\ digits = << >>
    BY <1>1, <2>1, <2>2 DEF SizeFits, DigitsSoFar
  <2>4. size + d * 2^shift = 0
    BY <1>4, <2>1, <2>2, <2>3
  <2>5. << >> \o <<d>> = <<d>>
    OBVIOUS
  <2> QED
    BY <1>1, <1>2, <1>4, <2>3, <2>4, <2>5
<1> QED
  BY <1>3, <1>4

-----------------------------------------------------------------------------
(***************************************************************************)
(* The invariant.                                                           *)
(***************************************************************************)
SizeOK ==
  /\ part \in {"Size", "Data"} => field.tag \in FieldTags
  /\ part = "Size" => SizeFits(field.size, field.shift)
  /\ part = "Data" => field.size \in Nat
  /\ field = [tag |-> field.tag, size |-> field.size, shift |-> field.shift]

\* The bytes read are those of the items read and of the field being read.
BytesSoFar ==
  /\ part \in {"Version", "Tag", "Size", "Data"}
  /\ part = "Version" => bytes = << >> /\ read = << >>
  /\ part = "Tag" => bytes = BytesOf(read)
  /\ part = "Size" =>
       \E digits :
         /\ DigitsSoFar(digits, field.size, field.shift)
         /\ bytes = BytesOf(read) \o <<TagByte[field.tag]>> \o digits
  /\ part = "Data" =>
       bytes = BytesOf(read) \o <<TagByte[field.tag]>> \o varint_size[field.size]

ByteInv ==
  /\ FormatInv
  /\ SizeOK
  /\ outcome \in {"Idle", "Parsing"} => BytesSoFar
  /\ outcome \in {"Idle", "Parsing", "Ok"} => read \in Seq(GoodItems)
  /\ OneEncodingInBytes

-----------------------------------------------------------------------------
(***************************************************************************)
(* One step.                                                                *)
(***************************************************************************)

\* An item that deserialize does not refuse is a good one.
LEMMA StepAnswers ==
  ASSUME FormatInv, Parsing, NEW item \in Items, Step(item),
         outcome' \in {"Idle", "Parsing", "Ok"}
  PROVE  /\ item \in GoodItems /\ Errors(item) = {}
         /\ read' = Append(read, item) /\ outcome' # "Idle"
<1>1. read' = Append(read, item)
  BY DEF Step, Reads
<1>2. ~Refuse(item)
  <2>1. Errors(item) \subseteq ParseErrors
    BY RefusedErrors
  <2> QED
    BY <2>1 DEF Refuse, Fail, ParseErrors
<1>3. Errors(item) = {} /\ outcome' # "Idle"
  BY <1>2
  DEF Step, ReadLocation, ReadIdentifier, ReadCaveatLocation,
      ReadCaveatIdentifier, AddCaveat, ReadEos, ReadSignature, Build, Read, Parsing
<1>4. Expected \subseteq FieldTags \cup {"EOS", "END"}
  BY DEF Expected, FieldTags, FormatInv, Within, Places
<1>5. item.tag \in Expected
  BY <1>3, AcceptedItem
<1>6. item \in GoodItems
  BY <1>3, <1>4, <1>5, AcceptedItem DEF GoodItems, Fields
<1> QED
  BY <1>1, <1>3, <1>6

\* The field that is not being read.
LEMMA NoFieldOK ==
  /\ NoField = [tag |-> NoField.tag, size |-> NoField.size, shift |-> NoField.shift]
  /\ NoField.size = 0 /\ NoField.shift = 0
BY DEF NoField

\* The invariant holds before the first call.
LEMMA ByteInitInv == ByteInit => ByteInv
<1> SUFFICES ASSUME ByteInit PROVE ByteInv
  OBVIOUS
<1>1. /\ Init /\ bytes = << >> /\ part = "Version" /\ field = NoField
      /\ read = << >> /\ outcome = "Idle"
  BY DEF ByteInit, Init, ParserInit
<1>2. FormatInv
  BY <1>1, FormatInit
<1>3. SizeOK /\ BytesSoFar
  BY <1>1, NoFieldOK DEF SizeOK, BytesSoFar
<1> QED
  BY <1>1, <1>2, <1>3 DEF ByteInv, OneEncodingInBytes

\* The last byte of an item.
LEMMA EndsInv ==
  ASSUME ByteInv, Parsing, FormatInv', NEW item \in Items, NEW bs, Ends(item, bs),
         item \in GoodItems /\ Errors(item) = {} =>
           bytes \o bs = BytesOf(read) \o serialize_field(item)
  PROVE  ByteInv'
<1>1. /\ Step(item) /\ bytes' = bytes \o bs /\ part' = "Tag" /\ field' = NoField
      /\ FormatInv
  BY DEF Ends, ByteInv
<1>2. SizeOK'
  BY <1>1, NoFieldOK DEF SizeOK
<1>3. CASE outcome' \in {"Idle", "Parsing", "Ok"}
  <2>1. /\ item \in GoodItems /\ Errors(item) = {}
        /\ read' = Append(read, item) /\ outcome' # "Idle"
    BY <1>1, <1>3, StepAnswers
  <2>2. read \in Seq(GoodItems) /\ read' \in Seq(GoodItems)
    BY <2>1 DEF ByteInv, Parsing
  <2>3. bytes' = BytesOf(read')
    BY <1>1, <2>1, <2>2, BytesAppend
  <2>4. BytesSoFar'
    BY <1>1, <2>3 DEF BytesSoFar
  <2>5. OneEncodingInBytes'
    <3> SUFFICES ASSUME outcome' = "Ok"
                 PROVE  builder' \in Macaroons /\ bytes' = serialize_binary(builder')
      BY DEF OneEncodingInBytes
    <3>1. builder' \in Macaroons /\ read' = Encode(builder')
      BY DEF FormatInv, OneEncoding
    <3>2. serialize_binary(builder') = BytesOf(Encode(builder'))
      BY Zenon DEF serialize_binary, BytesOf
    <3> QED
      BY <2>3, <3>1, <3>2
  <2> QED
    BY <1>2, <2>2, <2>4, <2>5 DEF ByteInv
<1>4. CASE outcome' \notin {"Idle", "Parsing", "Ok"}
  BY <1>2, <1>4 DEF ByteInv, OneEncodingInBytes
<1> QED
  BY <1>3, <1>4

\* A byte inside an item.
LEMMA WithinItemInv ==
  ASSUME ByteInv, Parsing, UNCHANGED vars, SizeOK', BytesSoFar'
  PROVE  ByteInv'
<1>1. UNCHANGED <<read, builder, caveat_builder, outcome, at>>
  BY DEF vars, parserVars
<1>2. FormatInv'
  <2>1. [Next]_vars
    OBVIOUS
  <2> QED
    BY <2>1, FormatNext DEF ByteInv
<1> QED
  BY <1>1, <1>2 DEF ByteInv, OneEncodingInBytes, Parsing

\* The items that the steps on bytes make.
LEMMA ItemsMade ==
  /\ END \in Items /\ END.tag = "END"
  /\ \A tag \in FieldTags :
       /\ Field(tag, Unreadable) \in Items
       /\ \A v \in Value : Field(tag, v) \in Items
  /\ \A b : LET item == Field(TagOf(b), IF TagOf(b) \in FieldTags THEN Unreadable ELSE None)
            IN  item \in Items /\ item.tag = TagOf(b) /\ TagOf(b) # "END"
<1>1. END \in Items /\ END.tag = "END"
  BY DEF Items, END, Field
<1>2. ASSUME NEW tag \in FieldTags
      PROVE  /\ Field(tag, Unreadable) \in Items
             /\ \A v \in Value : Field(tag, v) \in Items
  BY DEF Items
<1>3. ASSUME NEW b
      PROVE  LET item == Field(TagOf(b), IF TagOf(b) \in FieldTags THEN Unreadable ELSE None)
             IN  item \in Items /\ item.tag = TagOf(b) /\ TagOf(b) # "END"
  <2>1. DOMAIN TagByte = FieldTags \cup {"EOS"}
    BY DEF TagByte, FieldTags
  <2>2. TagOf(b) \in FieldTags \cup {"EOS", "UNKNOWN"}
    BY <2>1 DEF TagOf
  <2>3. "EOS" \notin FieldTags /\ "UNKNOWN" \notin FieldTags /\ "END" \notin FieldTags
    BY DEF FieldTags
  <2> DEFINE item == Field(TagOf(b), IF TagOf(b) \in FieldTags THEN Unreadable ELSE None)
  <2>4. item \in Items
    <3>1. CASE TagOf(b) \in FieldTags
      BY <1>2, <3>1
    <3>2. CASE TagOf(b) = "EOS"
      <4>1. item = EOS
        BY <2>3, <3>2 DEF EOS
      <4> QED
        BY <4>1 DEF Items
    <3>3. CASE TagOf(b) = "UNKNOWN"
      <4>1. item = UNKNOWN
        BY <2>3, <3>3 DEF UNKNOWN
      <4> QED
        BY <4>1 DEF Items
    <3> QED
      BY <2>2, <3>1, <3>2, <3>3
  <2>5. item.tag = TagOf(b)
    BY DEF Field
  <2>6. TagOf(b) # "END"
    BY <2>2, <2>3
  <2> QED
    BY <2>4, <2>5, <2>6
<1> QED
  BY <1>1, <1>2, <1>3

\* A byte's tag, if it has one, is the tag of that byte.
LEMMA TagOfByte ==
  ASSUME NEW b, TagOf(b) \in FieldTags \cup {"EOS"}
  PROVE  TagByte[TagOf(b)] = b
<1>1. "UNKNOWN" \notin FieldTags \cup {"EOS"}
  BY DEF FieldTags
<1>2. \E tag \in DOMAIN TagByte : TagByte[tag] = b
  BY <1>1 DEF TagOf
<1>3. TagOf(b) = CHOOSE tag \in DOMAIN TagByte : TagByte[tag] = b
  BY <1>2 DEF TagOf
<1> QED
  BY <1>2, <1>3, Zenon

\* A step on bytes is a step on items, or none of it is seen there.
LEMMA ByteStepIsStep ==
  ASSUME ByteInv, [ByteNext]_allVars
  PROVE  [Next]_vars
<1>1. SizeOK
  BY DEF ByteInv
<1>2. ASSUME NEW item \in Items, NEW bs, Ends(item, bs), Parsing PROVE Next
  BY <1>2 DEF Ends, Next
<1>3. CASE deserialize /\ UNCHANGED <<at, byteVars>>
  BY <1>3 DEF Next
<1>4. CASE Parsing /\ \E b \in Byte : ReadByte(b)
  <2>1. PICK b \in Byte : ReadByte(b)
    BY <1>4
  <2>2. CASE ReadVersion(b)
    <3>1. UNCHANGED vars \/ WrongVersion
      BY <2>2 DEF ReadVersion
    <3> QED
      BY <1>4, <3>1 DEF Next
  <2>3. CASE BeginField(b)
    BY <2>3 DEF BeginField
  <2>4. CASE ReadTag(b)
    <3> DEFINE item == Field(TagOf(b), IF TagOf(b) \in FieldTags THEN Unreadable ELSE None)
    <3>1. Ends(item, <<b>>) /\ item \in Items
      BY <2>4, ItemsMade DEF ReadTag
    <3> HIDE DEF item
    <3> QED
      BY <1>2, <1>4, <3>1
  <2>5. CASE NextDigit(b)
    BY <2>5 DEF NextDigit
  <2>6. CASE RefuseSize(b)
    <3>1. Ends(Field(field.tag, Unreadable), <<b>>) /\ Field(field.tag, Unreadable) \in Items
      BY <1>1, <2>6, ItemsMade DEF RefuseSize, SizeOK
    <3> QED
      BY <1>2, <1>4, <3>1
  <2>7. CASE CompleteSize(b)
    <3>1. field.tag \in FieldTags
      BY <1>1, <2>7 DEF CompleteSize, SizeOK
    <3>2. UNCHANGED vars \/ \E v \in Value : Ends(Field(field.tag, v), <<b>>)
      BY <2>7 DEF CompleteSize
    <3> QED
      BY <1>2, <1>4, <3>1, <3>2, ItemsMade
  <2> QED
    BY <2>1, <2>2, <2>3, <2>4, <2>5, <2>6, <2>7 DEF ReadByte
<1>5. CASE Parsing /\ ReadData
  <2>1. PICK v \in Value : Ends(Field(field.tag, v), v)
    BY <1>5 DEF ReadData
  <2>2. Field(field.tag, v) \in Items
    BY <1>1, <1>5, ItemsMade DEF ReadData, SizeOK
  <2> QED
    BY <1>2, <1>5, <2>1, <2>2
<1>6. CASE Parsing /\ DataCutOff
  <2>1. PICK v \in Value : Ends(Field(field.tag, Unreadable), Append(v, EOF))
    BY <1>6 DEF DataCutOff
  <2>2. Field(field.tag, Unreadable) \in Items
    BY <1>1, <1>6, ItemsMade DEF DataCutOff, SizeOK
  <2> QED
    BY <1>2, <1>6, <2>1, <2>2
<1>7. CASE Parsing /\ Exhausted
  <2>1. CASE WrongVersion
    BY <1>7, <2>1 DEF Next
  <2>2. CASE Ends(END, <<EOF>>)
    BY <1>2, <1>7, <2>2, ItemsMade
  <2>3. CASE part = "Size" /\ Ends(Field(field.tag, Unreadable), <<EOF>>)
    <3>1. Field(field.tag, Unreadable) \in Items
      BY <1>1, <2>3, ItemsMade DEF SizeOK
    <3> QED
      BY <1>2, <1>7, <2>3, <3>1
  <2> QED
    BY <1>7, <2>1, <2>2, <2>3 DEF Exhausted
<1>8. CASE Return /\ at' = "Start"
  BY <1>8 DEF Next
<1>9. CASE UNCHANGED allVars
  BY <1>9 DEF allVars
<1> QED
  BY <1>3, <1>4, <1>5, <1>6, <1>7, <1>8, <1>9 DEF ByteNext

\* Refused before any item.
LEMMA WrongVersionInv ==
  ASSUME ByteInv, FormatInv', WrongVersion, UNCHANGED <<part, field>>
  PROVE  ByteInv'
<1>1. outcome' = "DeserializationError" /\ UNCHANGED <<part, field>>
  BY DEF WrongVersion, Fail
<1> QED
  BY <1>1 DEF ByteInv, SizeOK, OneEncodingInBytes

\* ReadVersion, of the right version and of another.
LEMMA ReadVersionInv ==
  ASSUME ByteInv, Parsing, FormatInv', NEW b \in Byte, ReadVersion(b)
  PROVE  ByteInv'
<1>1. CASE b # VERSION
  BY <1>1, WrongVersionInv DEF ReadVersion
<1>2. CASE b = VERSION
  <2>1. /\ part = "Version" /\ part' = "Tag" /\ bytes' = Append(bytes, b)
        /\ UNCHANGED vars /\ UNCHANGED field /\ bytes = << >> /\ read = << >>
        /\ read' = read
    BY <1>2 DEF ReadVersion, Reading, ByteInv, BytesSoFar, Parsing, vars, parserVars
  <2>2. bytes' = BytesOf(read')
    <3>1. Append(<< >>, b) = <<b>>
      OBVIOUS
    <3> QED
      BY <1>2, <2>1, <3>1, BytesOfNone
  <2>3. SizeOK' /\ BytesSoFar'
    BY <2>1, <2>2 DEF SizeOK, BytesSoFar, ByteInv
  <2> QED
    BY <2>1, <2>3, WithinItemInv
<1> QED
  BY <1>1, <1>2

\* BeginField: a size of no digits so far.
LEMMA BeginFieldInv ==
  ASSUME ByteInv, Parsing, NEW b \in Byte, BeginField(b)
  PROVE  ByteInv'
<1>1. /\ part = "Tag" /\ part' = "Size" /\ bytes' = Append(bytes, b)
      /\ TagOf(b) \in FieldTags
      /\ field' = [NoField EXCEPT !.tag = TagOf(b)]
      /\ UNCHANGED vars /\ read' = read
      /\ bytes = BytesOf(read) /\ read \in Seq(GoodItems)
  BY DEF BeginField, Reading, ByteInv, BytesSoFar, Parsing, vars, parserVars
<1>2. field' = [tag |-> TagOf(b), size |-> 0, shift |-> 0]
  BY <1>1 DEF NoField
<1>3. SizeFits(0, 0)
  <2>1. 2^0 = 1
    OBVIOUS
  <2> QED
    BY <2>1 DEF SizeFits
<1>4. SizeOK' /\ field'.tag = TagOf(b) /\ field'.size = 0 /\ field'.shift = 0
  <2>1. field'.tag = TagOf(b) /\ field'.size = 0 /\ field'.shift = 0
    BY <1>2
  <2>2. field' = [tag |-> field'.tag, size |-> field'.size, shift |-> field'.shift]
    BY <1>2, <2>1
  <2>3. part' = "Size"
    BY <1>1
  <2>4. SizeOK'
    BY <1>1, <1>3, <2>1, <2>2, <2>3 DEF SizeOK
  <2> QED
    BY <2>1, <2>4
<1>5. DigitsSoFar(<< >>, 0, 0)
  <2>1. ASSUME NEW r \in Nat \ {0}
        PROVE  varint_size[0 + r * 2^0] = << >> \o varint_size[r]
    <3>1. 2^0 = 1
      OBVIOUS
    <3>2. 0 + r * 2^0 = r
      BY <3>1
    <3>3. varint_size[r] \in Seq(Byte)
      BY VarintBytes
    <3>4. << >> \o varint_size[r] = varint_size[r]
      BY <3>3
    <3> QED
      BY <3>2, <3>4
  <2> QED
    BY <2>1 DEF DigitsSoFar
<1>6. bytes' = BytesOf(read') \o <<TagByte[TagOf(b)]>> \o << >>
  <2>1. BytesOf(read) \in Seq(AllBytes)
    <3>1. EOS \in GoodItems
      BY DEF GoodItems
    <3> QED
      BY <1>1, <3>1, BytesAppend
  <2>2. b \in AllBytes
    BY DEF AllBytes
  <2>3. TagByte[TagOf(b)] = b
    BY <1>1, TagOfByte
  <2> DEFINE s == BytesOf(read)
  <2>4. Append(s, b) = s \o <<b>> \o << >>
    <3>1. s \in Seq(AllBytes)
      BY <2>1
    <3> HIDE DEF s, AllBytes
    <3> QED
      BY <2>2, <3>1
  <2> QED
    BY <1>1, <2>3, <2>4
<1>7. BytesSoFar'
  <2>1. /\ DigitsSoFar(<< >>, field'.size, field'.shift)
        /\ bytes' = BytesOf(read') \o <<TagByte[field'.tag]>> \o << >>
    BY <1>4, <1>5, <1>6
  <2>2. part' = "Size"
    BY <1>1
  <2> QED
    BY <2>1, <2>2 DEF BytesSoFar
<1> QED
  BY <1>1, <1>4, <1>7, WithinItemInv

\* One more byte after those of a tag and of some digits.
LEMMA HeadBytes ==
  ASSUME NEW items \in Seq(GoodItems), NEW tag \in FieldTags,
         NEW digits \in Seq(Byte), NEW b \in Byte
  PROVE  Append(BytesOf(items) \o <<TagByte[tag]>> \o digits, b)
           = BytesOf(items) \o <<TagByte[tag]>> \o Append(digits, b)
<1>1. EOS \in GoodItems
  BY DEF GoodItems
<1>2. BytesOf(items) \in Seq(AllBytes)
  BY <1>1, BytesAppend
<1>3. TagByte[tag] \in AllBytes /\ b \in AllBytes /\ Byte \subseteq AllBytes
  BY TagBytes DEF AllBytes
<1>4. digits \in Seq(AllBytes)
  BY <1>3
<1> DEFINE head == BytesOf(items)
           t    == <<TagByte[tag]>>
<1>5. head \in Seq(AllBytes) /\ t \in Seq(AllBytes)
  BY <1>2, <1>3
<1> HIDE DEF head, t, AllBytes
<1>6. Append(head \o t \o digits, b) = head \o t \o Append(digits, b)
  <2> DEFINE front == head \o t
  <2>1. front \in Seq(AllBytes)
    BY <1>5
  <2> HIDE DEF front
  <2>2. Append(front \o digits, b) = front \o Append(digits, b)
    <3> DEFINE one == <<b>>
    <3>1. /\ one \in Seq(AllBytes) /\ Append(digits, b) = digits \o one
          /\ Append(front \o digits, b) = (front \o digits) \o one
      BY <1>3, <1>4, <2>1
    <3> HIDE DEF one
    <3>2. (front \o digits) \o one = front \o (digits \o one)
      BY <1>4, <2>1, <3>1, ConcatAssociates
    <3> QED
      BY <3>1, <3>2
  <2> QED
    BY <2>2 DEF front
<1> QED
  BY <1>6 DEF head, t

\* What is cut off, or refused by get_field_size, is no item to accept; nor is
\* a field that is too large.
LEMMA RefusedField ==
  ASSUME NEW tag \in FieldTags, NEW v, Errors(Field(tag, v)) = {}
  PROVE  v # Unreadable /\ ~TooLarge(v)
<1>1. FieldErrors(Field(tag, v)) = {}
  BY DEF Errors
<1> QED
  BY <1>1 DEF FieldErrors, Field

\* ReadTag: the only one to be accepted is EOS.
LEMMA ReadTagInv ==
  ASSUME ByteInv, Parsing, FormatInv', NEW b \in Byte, ReadTag(b)
  PROVE  ByteInv'
<1> DEFINE item == Field(TagOf(b), IF TagOf(b) \in FieldTags THEN Unreadable ELSE None)
<1>1. /\ part = "Tag" /\ TagOf(b) \notin Expected \cap FieldTags
      /\ Ends(item, <<b>>) /\ item \in Items /\ item.tag = TagOf(b)
      /\ TagOf(b) # "END" /\ bytes = BytesOf(read)
  BY ItemsMade DEF ReadTag, ByteInv, BytesSoFar, Parsing
<1>2. ASSUME item \in GoodItems, Errors(item) = {}
      PROVE  bytes \o <<b>> = BytesOf(read) \o serialize_field(item)
  <2>1. item.tag \in Expected
    BY <1>1, <1>2, AcceptedItem
  <2>2. item.tag \in FieldTags \cup {"EOS"}
    <3>1. item = EOS \/ item = END \/ item.tag \in FieldTags
      <4>1. \A tag \in FieldTags, v \in Value : Field(tag, v).tag \in FieldTags
        BY DEF Field
      <4> HIDE DEF item
      <4> QED
        BY <1>2, <4>1 DEF GoodItems
    <3>2. EOS.tag = "EOS" /\ END.tag = "END"
      BY DEF EOS, END, Field
    <3> QED
      BY <1>1, <3>1, <3>2
  <2>3. TagOf(b) = "EOS" /\ "EOS" \notin FieldTags
    <3>1. "EOS" \notin FieldTags
      BY DEF FieldTags
    <3> HIDE DEF item
    <3> QED
      BY <1>1, <2>1, <2>2, <3>1
  <2>4. item = EOS
    BY <2>3 DEF EOS
  <2>5. TagByte["EOS"] = b
    BY <2>3, TagOfByte
  <2>6. serialize_field(item) = <<b>>
    BY <2>4, <2>5, SerializedField
  <2> QED
    BY <1>1, <2>6
<1> HIDE DEF item
<1> QED
  BY <1>1, <1>2, EndsInv

\* NextDigit: the digit goes above those before it, and is kept whole.
LEMMA NextDigitInv ==
  ASSUME ByteInv, Parsing, NEW b \in Byte, NextDigit(b)
  PROVE  ByteInv'
<1> DEFINE size  == field.size
           shift == field.shift
           d     == Digit(b)
<1>1. /\ part = "Size" /\ part' = "Size" /\ bytes' = Append(bytes, b)
      /\ More(b) /\ Fits(shift + DIGIT)
      /\ field' = [field EXCEPT !.size = SizeWith(b), !.shift = shift + DIGIT]
      /\ UNCHANGED vars /\ read' = read /\ read \in Seq(GoodItems)
  BY Zenon DEF NextDigit, Reading, vars, parserVars, ByteInv, Parsing
<1>2. /\ SizeFits(size, shift) /\ field.tag \in FieldTags
      /\ field = [tag |-> field.tag, size |-> size, shift |-> shift]
  BY <1>1 DEF ByteInv, SizeOK
<1>3. d \in 0..(D - 1) /\ b = d + D
  <2>1. /\ D \in Nat /\ D > 1 /\ b \in 0..(2 * D - 1) /\ b >= D
        /\ d = b % D
    BY <1>1, ByteRange, PackSize DEF More, Digit
  <2> HIDE DEF D, d
  <2> QED
    BY <2>1
<1>4. /\ SizeWith(b) = size + d * 2^shift
      /\ size + d * 2^shift \in Nat
      /\ size + d * 2^shift < 2^(shift + DIGIT)
  BY <1>2, <1>3, NoneLost DEF SizeWith
<1>5. /\ field'.tag = field.tag /\ field'.size = size + d * 2^shift
      /\ field'.shift = shift + DIGIT
      /\ field' = [tag |-> field'.tag, size |-> field'.size, shift |-> field'.shift]
  <2> DEFINE n == SizeWith(b)
             s == shift + DIGIT
             t == field.tag
  <2>1. field' = [tag |-> t, size |-> n, shift |-> s]
    <3>1. field' = [field EXCEPT !.size = n, !.shift = s]
      BY <1>1
    <3>2. field = [tag |-> t, size |-> size, shift |-> shift]
      BY <1>2
    <3> HIDE DEF n, s, t, size, shift
    <3> QED
      BY <3>1, <3>2
  <2>2. field'.tag = t /\ field'.size = n /\ field'.shift = s
    <3> HIDE DEF n, s, t
    <3> QED
      BY <2>1
  <2> QED
    BY <1>4, <2>1, <2>2
<1>6. SizeFits(field'.size, field'.shift)
  <2>1. (shift + DIGIT) + DIGIT <= BITS
    <3>1. shift + DIGIT <= BITS - (DIGIT + 1)
      BY <1>1 DEF Fits
    <3>2. shift \in Nat /\ DIGIT \in Nat /\ BITS \in Nat
      BY <1>2 DEF SizeFits
    <3> HIDE DEF shift
    <3> QED
      BY <3>1, <3>2
  <2>2. shift + DIGIT \in Nat
    BY <1>2 DEF SizeFits
  <2> QED
    BY <1>4, <1>5, <2>1, <2>2 DEF SizeFits
<1>7. SizeOK'
  BY <1>1, <1>2, <1>5, <1>6 DEF SizeOK
<1>8. PICK digits : /\ DigitsSoFar(digits, size, shift)
                    /\ bytes = BytesOf(read) \o <<TagByte[field.tag]>> \o digits
  BY <1>1 DEF ByteInv, BytesSoFar, Parsing
<1>9. DigitsSoFar(Append(digits, b), field'.size, field'.shift)
  BY <1>2, <1>3, <1>5, <1>8, OneMoreDigit
<1>10. bytes' = BytesOf(read') \o <<TagByte[field'.tag]>> \o Append(digits, b)
  <2>1. digits \in Seq(Byte)
    BY <1>8 DEF DigitsSoFar
  <2>2. Append(BytesOf(read) \o <<TagByte[field.tag]>> \o digits, b)
          = BytesOf(read) \o <<TagByte[field.tag]>> \o Append(digits, b)
    BY <1>1, <1>2, <2>1, HeadBytes
  <2>3. bytes' = BytesOf(read) \o <<TagByte[field.tag]>> \o Append(digits, b)
    BY <1>1, <1>8, <2>2, Zenon
  <2>4. BytesOf(read') = BytesOf(read) /\ field'.tag = field.tag
    BY <1>1, <1>5, Zenon DEF BytesOf
  <2> QED
    BY <2>3, <2>4, Zenon
<1>11. BytesSoFar'
  BY <1>1, <1>9, <1>10 DEF BytesSoFar
<1> QED
  BY <1>1, <1>7, <1>11, WithinItemInv

\* RefuseSize: the item is refused.
LEMMA RefuseSizeInv ==
  ASSUME ByteInv, Parsing, FormatInv', NEW b \in Byte, RefuseSize(b)
  PROVE  ByteInv'
<1>1. /\ Ends(Field(field.tag, Unreadable), <<b>>) /\ field.tag \in FieldTags
  BY DEF RefuseSize, ByteInv, SizeOK
<1>2. Field(field.tag, Unreadable) \in Items
  BY <1>1, ItemsMade
<1>3. Errors(Field(field.tag, Unreadable)) # {}
  BY <1>1, RefusedField
<1> QED
  BY <1>1, <1>2, <1>3, EndsInv

\* CompleteSize: a size too large is refused, another is spelled as varint_size
\* spells it.
LEMMA CompleteSizeInv ==
  ASSUME ByteInv, Parsing, FormatInv', NEW b \in Byte, CompleteSize(b)
  PROVE  ByteInv'
<1> DEFINE size  == field.size
           shift == field.shift
<1>1. /\ part = "Size" /\ LastDigit(b)
      /\ SizeFits(size, shift) /\ field.tag \in FieldTags
      /\ field = [tag |-> field.tag, size |-> size, shift |-> shift]
      /\ read \in Seq(GoodItems)
  BY DEF CompleteSize, ByteInv, SizeOK, Parsing
<1>2. b \in 0..(D - 1) /\ Digit(b) = b /\ ~(b = 0 /\ shift > 0)
  <2>1. /\ D \in Nat /\ D > 1 /\ b \in 0..(2 * D - 1) /\ ~(b >= D)
        /\ Digit(b) = b % D
    BY <1>1, ByteRange, PackSize DEF LastDigit, More, Digit
  <2>2. ~(b = 0 /\ shift > 0)
    BY <1>1 DEF LastDigit
  <2> HIDE DEF D
  <2>3. b \in 0..(D - 1) /\ b % D = b
    BY <2>1
  <2> QED
    BY <2>1, <2>2, <2>3
<1>3. CASE \E v \in Value : TooLarge(v) /\ Ends(Field(field.tag, v), <<b>>)
  <2>1. PICK v \in Value : TooLarge(v) /\ Ends(Field(field.tag, v), <<b>>)
    BY <1>3
  <2>2. Field(field.tag, v) \in Items
    BY <1>1, ItemsMade
  <2>3. Errors(Field(field.tag, v)) # {}
    BY <1>1, <2>1, RefusedField
  <2> QED
    BY <2>1, <2>2, <2>3, EndsInv
<1>4. CASE /\ Reading("Size", b) /\ part' = "Data"
           /\ field' = [field EXCEPT !.size = SizeWith(b)]
           /\ UNCHANGED vars
  <2>1. /\ bytes' = Append(bytes, b) /\ part' = "Data" /\ UNCHANGED vars
        /\ field' = [field EXCEPT !.size = SizeWith(b)] /\ read' = read
    BY <1>4 DEF Reading, vars, parserVars
  <2>2. SizeWith(b) = size + b * 2^shift /\ size + b * 2^shift \in Nat
    BY <1>1, <1>2, NoneLost DEF SizeWith
  <2>3. /\ field'.tag = field.tag /\ field'.size = size + b * 2^shift
        /\ field' = [tag |-> field'.tag, size |-> field'.size, shift |-> field'.shift]
    <3> DEFINE n == SizeWith(b)
               t == field.tag
    <3>1. field' = [tag |-> t, size |-> n, shift |-> shift]
      <4>1. field' = [field EXCEPT !.size = n]
        BY <2>1
      <4>2. field = [tag |-> t, size |-> size, shift |-> shift]
        BY <1>1
      <4> HIDE DEF n, t, size, shift
      <4> QED
        BY <4>1, <4>2
    <3>2. field'.tag = t /\ field'.size = n /\ field'.shift = shift
      <4> HIDE DEF n, t, shift
      <4> QED
        BY <3>1
    <3> QED
      BY <2>2, <3>1, <3>2
  <2>4. SizeOK'
    BY <1>1, <2>1, <2>2, <2>3 DEF SizeOK
  <2>5. PICK digits : /\ DigitsSoFar(digits, size, shift)
                      /\ bytes = BytesOf(read) \o <<TagByte[field.tag]>> \o digits
    BY <1>1 DEF ByteInv, BytesSoFar, Parsing
  <2>6. varint_size[field'.size] = Append(digits, b)
    BY <1>1, <1>2, <2>3, <2>5, LastDigitEnds
  <2>7. bytes' = BytesOf(read') \o <<TagByte[field'.tag]>> \o varint_size[field'.size]
    <3>1. digits \in Seq(Byte)
      BY <2>5 DEF DigitsSoFar
    <3>2. Append(BytesOf(read) \o <<TagByte[field.tag]>> \o digits, b)
            = BytesOf(read) \o <<TagByte[field.tag]>> \o Append(digits, b)
      BY <1>1, <3>1, HeadBytes
    <3>3. bytes' = BytesOf(read) \o <<TagByte[field.tag]>> \o Append(digits, b)
      BY <2>1, <2>5, <3>2, Zenon
    <3>4. BytesOf(read') = BytesOf(read) /\ field'.tag = field.tag
      BY <2>1, <2>3, Zenon DEF BytesOf
    <3> QED
      BY <2>6, <3>3, <3>4, Zenon
  <2>8. BytesSoFar'
    BY <2>1, <2>7 DEF BytesSoFar
  <2> QED
    BY <2>1, <2>4, <2>8, WithinItemInv
<1> QED
  BY <1>3, <1>4 DEF CompleteSize

\* ReadData: the bytes of the whole field are those of serialize_field.
LEMMA ReadDataInv ==
  ASSUME ByteInv, Parsing, FormatInv', ReadData
  PROVE  ByteInv'
<1>1. PICK v \in Value : Size(v) = field.size /\ Ends(Field(field.tag, v), v)
  BY DEF ReadData
<1>2. /\ part = "Data" /\ field.tag \in FieldTags /\ read \in Seq(GoodItems)
      /\ bytes = BytesOf(read) \o <<TagByte[field.tag]>> \o varint_size[field.size]
  BY DEF ReadData, ByteInv, SizeOK, BytesSoFar, Parsing
<1>3. Field(field.tag, v) \in Items
  BY <1>2, ItemsMade
<1>4. bytes \o v = BytesOf(read) \o serialize_field(Field(field.tag, v))
  <2> DEFINE head   == BytesOf(read)
             t      == <<TagByte[field.tag]>>
             digits == varint_size[Size(v)]
  <2>1. head \in Seq(AllBytes)
    <3>1. EOS \in GoodItems
      BY DEF GoodItems
    <3> QED
      BY <1>2, <3>1, BytesAppend
  <2>2. t \in Seq(AllBytes)
    BY <1>2, TagBytes DEF AllBytes
  <2>3. digits \in Seq(AllBytes) /\ v \in Seq(AllBytes)
    <3>1. digits \in Seq(Byte) /\ v \in Seq(Byte)
      BY VarintBytes, ValueAssumption
    <3> HIDE DEF digits
    <3> QED
      BY <3>1 DEF AllBytes
  <2>4. serialize_field(Field(field.tag, v)) = t \o digits \o v
    BY <1>2, SerializedField
  <2>5. bytes = head \o t \o digits
    BY <1>1, <1>2
  <2> HIDE DEF head, t, digits, AllBytes
  <2>6. (head \o t \o digits) \o v = head \o (t \o digits \o v)
    <3> DEFINE front == head \o t
               rest  == digits \o v
    <3>1. front \in Seq(AllBytes) /\ rest \in Seq(AllBytes)
      BY <2>1, <2>2, <2>3, ConcatAssociates
    <3>2. t \o digits \o v = t \o rest
      BY <2>2, <2>3, ConcatAssociates
    <3>3. (head \o t) \o rest = head \o (t \o rest)
      <4> HIDE DEF rest
      <4> QED
        BY <2>1, <2>2, <3>1, ConcatAssociates
    <3>4. (front \o digits) \o v = front \o rest
      <4> HIDE DEF front
      <4> QED
        BY <2>3, <3>1, ConcatAssociates
    <3> QED
      BY <3>2, <3>3, <3>4
  <2> QED
    BY <2>4, <2>5, <2>6 DEF head
<1> QED
  BY <1>1, <1>3, <1>4, EndsInv

\* DataCutOff: the item is refused.
LEMMA DataCutOffInv ==
  ASSUME ByteInv, Parsing, FormatInv', DataCutOff
  PROVE  ByteInv'
<1>1. /\ \E v \in Value : Ends(Field(field.tag, Unreadable), Append(v, EOF))
      /\ field.tag \in FieldTags
  BY DEF DataCutOff, ByteInv, SizeOK
<1>2. Field(field.tag, Unreadable) \in Items
  BY <1>1, ItemsMade
<1>3. Errors(Field(field.tag, Unreadable)) # {}
  BY <1>1, RefusedField
<1> QED
  BY <1>1, <1>2, <1>3, EndsInv

\* Exhausted: accepted only in place of a tag, as the end of the token.
LEMMA ExhaustedInv ==
  ASSUME ByteInv, Parsing, FormatInv', Exhausted
  PROVE  ByteInv'
<1>1. CASE WrongVersion /\ UNCHANGED <<part, field>>
  BY <1>1, WrongVersionInv
<1>2. CASE part = "Tag" /\ Ends(END, <<EOF>>)
  <2>1. bytes = BytesOf(read)
    BY <1>2 DEF ByteInv, BytesSoFar, Parsing
  <2>2. bytes \o <<EOF>> = BytesOf(read) \o serialize_field(END)
    BY <2>1, SerializedField
  <2> QED
    BY <1>2, <2>2, ItemsMade, EndsInv
<1>3. CASE part = "Size" /\ Ends(Field(field.tag, Unreadable), <<EOF>>)
  <2>1. field.tag \in FieldTags
    BY <1>3 DEF ByteInv, SizeOK
  <2>2. Field(field.tag, Unreadable) \in Items
    BY <2>1, ItemsMade
  <2>3. Errors(Field(field.tag, Unreadable)) # {}
    BY <2>1, RefusedField
  <2> QED
    BY <1>3, <2>2, <2>3, EndsInv
<1> QED
  BY <1>1, <1>2, <1>3 DEF Exhausted

\* Every step preserves the invariant.
LEMMA ByteNextInv ==
  ASSUME ByteInv, [ByteNext]_allVars
  PROVE  ByteInv'
<1>1. FormatInv'
  BY ByteStepIsStep, FormatNext DEF ByteInv
<1>2. CASE deserialize /\ UNCHANGED <<at, byteVars>>
  <2>1. /\ outcome = "Idle" /\ outcome' = "Parsing" /\ read' = read
        /\ UNCHANGED <<bytes, part, field>>
    BY <1>2 DEF deserialize, byteVars
  <2>2. SizeOK' /\ BytesSoFar' /\ read' \in Seq(GoodItems)
    BY <2>1 DEF ByteInv, SizeOK, BytesSoFar
  <2> QED
    BY <1>1, <2>1, <2>2 DEF ByteInv, OneEncodingInBytes
<1>3. CASE Parsing /\ \E b \in Byte : ReadByte(b)
  <2>1. PICK b \in Byte : ReadByte(b)
    BY <1>3
  <2> QED
    BY <1>1, <1>3, <2>1, ReadVersionInv, BeginFieldInv, ReadTagInv, NextDigitInv,
       RefuseSizeInv, CompleteSizeInv DEF ReadByte
<1>4. CASE Parsing /\ (ReadData \/ DataCutOff \/ Exhausted)
  BY <1>1, <1>4, ReadDataInv, DataCutOffInv, ExhaustedInv
<1>5. CASE /\ Return
           /\ at' = "Start" /\ bytes' = << >> /\ part' = "Version" /\ field' = NoField
  <2>1. read' = << >> /\ outcome' = "Idle"
    BY <1>5 DEF Return
  <2>2. SizeOK' /\ BytesSoFar'
    BY <1>5, <2>1, NoFieldOK DEF SizeOK, BytesSoFar
  <2> QED
    BY <1>1, <2>1, <2>2 DEF ByteInv, OneEncodingInBytes
<1>6. CASE UNCHANGED allVars
  BY <1>1, <1>6
  DEF allVars, byteVars, vars, parserVars, ByteInv, SizeOK, BytesSoFar, OneEncodingInBytes
<1> QED
  BY <1>2, <1>3, <1>4, <1>5, <1>6 DEF ByteNext

-----------------------------------------------------------------------------
\* Reading bytes implements reading items: every step on bytes is a step of
\* FormatV2's deserialize or leaves its variables alone.
THEOREM BytesImplementItems == ByteSpec => Spec
<1>1. ByteInit => Init
  BY DEF ByteInit
<1> QED
  BY <1>1, ByteInitInv, ByteNextInv, ByteStepIsStep, PTL DEF ByteSpec, Spec

\* The invariant that the next two theorems rest on.
THEOREM ByteInvariantHolds == ByteSpec => []ByteInv
BY ByteInitInv, ByteNextInv, PTL DEF ByteSpec

\* OneEncodingInBytes: an accepted token is, byte for byte, what serialize makes
\* of the macaroon that was read, whatever the widths of digits and sizes.
THEOREM BytesAreCanonical == ByteSpec => []OneEncodingInBytes
<1>1. ByteInv => OneEncodingInBytes
  BY DEF ByteInv
<1> QED
  BY <1>1, ByteInvariantHolds, PTL

\* NoDigitLost: the digits of a size never overlap, and none is shifted beyond
\* the width of a usize.
THEOREM NoDigitIsLost == ByteSpec => []NoDigitLost
<1>1. ByteInv => NoDigitLost
  BY DEF ByteInv, SizeOK, SizeFits, NoDigitLost
<1> QED
  BY <1>1, ByteInvariantHolds, PTL

-----------------------------------------------------------------------------
(* The bytes of an encoding. *)
USE ValueAssumption

\* Those of more items begin with those of the first of them.
LEMMA BytesConcat ==
  ASSUME NEW items \in Seq(GoodItems), NEW more \in Seq(GoodItems)
  PROVE  \E rest \in Seq(AllBytes) : BytesOf(items \o more) = BytesOf(items) \o rest
<1> DEFINE Claim(t) == \E rest \in Seq(AllBytes) : BytesOf(items \o t) = BytesOf(items) \o rest
           X == { k \in Nat : \A t \in Seq(GoodItems) : Len(t) = k => Claim(t) }
<1> HIDE DEF Claim
<1>0. EOS \in GoodItems
  BY DEF GoodItems
<1>1. 0 \in X
  <2> SUFFICES ASSUME NEW t \in Seq(GoodItems), Len(t) = 0 PROVE Claim(t)
    OBVIOUS
  <2>1. items \o t = items
    OBVIOUS
  <2> DEFINE b == BytesOf(items)
  <2>2. b \in Seq(AllBytes)
    BY <1>0, BytesAppend
  <2> HIDE DEF b
  <2>3. b = b \o << >> /\ << >> \in Seq(AllBytes)
    BY <2>2
  <2> QED
    BY <2>1, <2>3, Zenon DEF Claim, b
<1>2. ASSUME NEW k \in Nat, k \in X PROVE k + 1 \in X
  <2> SUFFICES ASSUME NEW t \in Seq(GoodItems), Len(t) = k + 1 PROVE Claim(t)
    OBVIOUS
  <2> DEFINE front == SubSeq(t, 1, k)
             x     == t[k + 1]
  <2>1. /\ front \in Seq(GoodItems) /\ Len(front) = k /\ x \in GoodItems
        /\ \A i \in 1..k : front[i] = t[i]
    OBVIOUS
  <2>2. Claim(front)
    BY <1>2, <2>1
  <2> HIDE DEF front
  <2>3. t = Append(front, x)
    <3> DEFINE a == Append(front, x)
    <3>1. a \in Seq(GoodItems) /\ Len(a) = k + 1
      BY <2>1
    <3>2. \A i \in 1..(k + 1) : a[i] = t[i]
      BY <2>1
    <3> HIDE DEF a
    <3>3. a = t
      BY <3>1, <3>2
    <3> QED
      BY <3>3 DEF a
  <2> HIDE DEF x
  <2>4. items \o t = Append(items \o front, x) /\ items \o front \in Seq(GoodItems)
    <3>1. items \o front \in Seq(GoodItems)
      BY <2>1
    <3>2. items \o Append(front, x) = Append(items \o front, x)
      <4>1. items \in Seq(GoodItems) /\ front \in Seq(GoodItems) /\ x \in GoodItems
        BY <2>1
      <4> QED
        BY <4>1, AppendOfConcat, Zenon
    <3> QED
      BY <2>3, <3>1, <3>2
  <2>5. PICK rest \in Seq(AllBytes) : BytesOf(items \o front) = BytesOf(items) \o rest
    BY <2>2 DEF Claim
  <2> DEFINE b == BytesOf(items)
             f == serialize_field(x)
  <2>6. BytesOf(items \o t) = BytesOf(items \o front) \o f
    BY <2>1, <2>4, BytesAppend
  <2>7. b \in Seq(AllBytes) /\ f \in Seq(AllBytes)
    BY <1>0, <2>1, BytesAppend, GoodBytes
  <2> HIDE DEF b, f
  <2>8. (b \o rest) \o f = b \o (rest \o f) /\ rest \o f \in Seq(AllBytes)
    <3>1. (b \o rest) \o f = b \o (rest \o f)
      BY <2>5, <2>7, ByteAssociate, Zenon
    <3>2. rest \o f \in Seq(AllBytes)
      BY <2>5, <2>7, ByteConcat, Zenon
    <3> QED
      BY <3>1, <3>2
  <2> QED
    BY <2>5, <2>6, <2>8, Zenon DEF b, Claim
<1> HIDE DEF X
<1>3. Nat \subseteq X
  BY <1>1, <1>2, Induction
<1>4. Len(more) \in Nat
  OBVIOUS
<1>5. Len(more) \in X
  BY <1>3, <1>4
<1> QED
  BY <1>5 DEF X, Claim

\* While m's encoding is walked along: its bytes after those of the items read.
LEMMA NextBytes ==
  ASSUME Within, Progress, NEW m \in Macaroons, Holds(m), read \in Seq(GoodItems)
  PROVE  /\ BytesOf(read) \in Seq(AllBytes)
         /\ serialize_field(NextItem(m)) \in Seq(AllBytes)
         /\ serialize_binary(m) \in Seq(AllBytes)
         /\ \E rest \in Seq(AllBytes) :
              serialize_binary(m) = BytesOf(read) \o (serialize_field(NextItem(m)) \o rest)
<1> DEFINE x == NextItem(m)
<1>1. x \in GoodItems /\ NextIs(GoodItems, read, x, Encode(m))
  BY ItemFollows DEF Follows
<1> HIDE DEF x
<1>2. PICK more \in Seq(GoodItems) : Encode(m) = Append(read, x) \o more
  BY <1>1 DEF NextIs
<1> DEFINE a == Append(read, x)
<1>3. a \in Seq(GoodItems)
  BY <1>1
<1>4. serialize_binary(m) = BytesOf(Encode(m))
  BY Zenon DEF serialize_binary, BytesOf
<1>5. BytesOf(a) = BytesOf(read) \o serialize_field(x)
  BY <1>1, BytesAppend
<1> HIDE DEF a
<1>6. PICK rest \in Seq(AllBytes) : BytesOf(a \o more) = BytesOf(a) \o rest
  BY <1>3, BytesConcat
<1> DEFINE b == BytesOf(read)
           f == serialize_field(x)
<1>7. b \in Seq(AllBytes) /\ f \in Seq(AllBytes)
  BY <1>1, BytesAppend, GoodBytes
<1> HIDE DEF b, f
<1>8. (b \o f) \o rest = b \o (f \o rest) /\ b \o (f \o rest) \in Seq(AllBytes)
  <2>1. (b \o f) \o rest = b \o (f \o rest)
    BY <1>6, <1>7, ByteAssociate, Zenon
  <2>2. f \o rest \in Seq(AllBytes)
    BY <1>6, <1>7, ByteConcat, Zenon
  <2>3. b \o (f \o rest) \in Seq(AllBytes)
    BY <1>7, <2>2, ByteConcat, Zenon
  <2> QED
    BY <2>1, <2>3
<1>9. serialize_binary(m) = b \o (f \o rest)
  BY <1>2, <1>4, <1>5, <1>6, <1>8, Zenon DEF a, b, f
<1> QED
  BY <1>7, <1>8, <1>9, Zenon DEF b, f, x

-----------------------------------------------------------------------------
(* The walk along the bytes. *)
Begins(m) == IsStart(bytes, serialize_binary(m))

\* v has the size that was read, and, while h is, h above the digits so far.
ByteHolds(m) ==
  /\ Holds(m)
  /\ part \in {"Size", "Data"} =>
       \E v \in Fields :
         /\ NextItem(m) = Field(field.tag, v)
         /\ part = "Data" => Size(v) = field.size
         /\ part = "Size" => \E h \in Nat :
              /\ h # 0 \/ field.shift = 0
              /\ Size(v) = field.size + h * 2^field.shift

ByteWalk ==
  /\ outcome \in {"Idle", "Parsing"} => \A m \in Macaroons : Begins(m) => ByteHolds(m)
  /\ outcome \in ParseErrors => \A m \in Macaroons : ~Begins(m)

ByteWalksOn(m) == outcome' = "Ok" \/ (outcome' = "Parsing" /\ ByteHolds(m)')

\* What is left of the bytes, at each part.
LEMMA BytesAtTag ==
  ASSUME ByteInv, Parsing, NEW m \in Macaroons, Holds(m), part = "Tag"
  PROVE  /\ bytes \in Seq(AllBytes) /\ serialize_field(NextItem(m)) \in Seq(AllBytes)
         /\ serialize_binary(m) \in Seq(AllBytes)
         /\ \E rest \in Seq(AllBytes) :
              serialize_binary(m) = bytes \o (serialize_field(NextItem(m)) \o rest)
<1>1. Within /\ Progress /\ read \in Seq(GoodItems) /\ bytes = BytesOf(read)
  BY DEF ByteInv, FormatInv, Parsing, BytesSoFar
<1> QED
  BY <1>1, NextBytes

LeftOver(m, v, left) ==
  /\ bytes \in Seq(AllBytes) /\ left \in Seq(AllBytes) /\ v \in Seq(AllBytes)
  /\ serialize_binary(m) \in Seq(AllBytes)
  /\ \E rest \in Seq(AllBytes) :
       /\ v \o rest \in Seq(AllBytes)
       /\ serialize_binary(m) = bytes \o (left \o (v \o rest))

\* What is left while a field is read: digits of its size, then its value.
LEMMA BytesAtField ==
  ASSUME ByteInv, Parsing, NEW m \in Macaroons, Holds(m), part \in {"Size", "Data"},
         NEW v \in Fields, NextItem(m) = Field(field.tag, v),
         NEW digits \in Seq(Byte), NEW left \in Seq(Byte),
         bytes = BytesOf(read) \o <<TagByte[field.tag]>> \o digits,
         varint_size[Size(v)] = digits \o left
  PROVE  LeftOver(m, v, left)
<1>1. Within /\ Progress /\ read \in Seq(GoodItems)
  BY DEF ByteInv, FormatInv, Parsing
<1>2. /\ field.tag \in FieldTags /\ v \in Value /\ v \in Seq(Byte)
      /\ TagByte[field.tag] \in Byte
  BY TagBytes DEF ByteInv, SizeOK, Fields
<1> DEFINE b == BytesOf(read)
           t == <<TagByte[field.tag]>>
           f == serialize_field(NextItem(m))
           s == serialize_binary(m)
<1>3. f = t \o (digits \o left) \o v
  BY <1>2, SerializedField
<1>4. PICK rest \in Seq(AllBytes) : s = b \o (f \o rest)
  BY <1>1, NextBytes
<1>5. b \in Seq(AllBytes) /\ s \in Seq(AllBytes)
  BY <1>1, NextBytes
<1>6. \A u \in Seq(Byte) : u \in Seq(AllBytes)
  BY DEF AllBytes
<1>7. t \in Seq(AllBytes)
  <2>1. t \in Seq(Byte)
    <3> DEFINE first == TagByte[field.tag]
    <3>1. first \in Byte
      BY <1>2
    <3> HIDE DEF first
    <3>2. <<first>> \in Seq(Byte)
      BY <3>1
    <3> QED
      BY <3>2 DEF first
  <2> QED
    BY <1>6, <2>1
<1>8. digits \in Seq(AllBytes) /\ left \in Seq(AllBytes) /\ v \in Seq(AllBytes)
  BY <1>2, <1>6
<1> HIDE DEF b, t, f, s, AllBytes
<1> DEFINE bt == b \o t
           vr == v \o rest
           lvr == left \o vr
<1>9. /\ bytes = bt \o digits /\ bt \in Seq(AllBytes) /\ vr \in Seq(AllBytes)
      /\ bytes \in Seq(AllBytes)
  <2>1. bt \in Seq(AllBytes) /\ vr \in Seq(AllBytes)
    BY <1>5, <1>7, <1>8, ByteConcat, Zenon
  <2>2. bytes = bt \o digits
    BY Zenon DEF b, t
  <2> HIDE DEF bt
  <2>3. bt \o digits \in Seq(AllBytes)
    BY <1>8, <2>1, ByteConcat, Zenon
  <2> QED
    BY <2>1, <2>2, <2>3, Zenon
<1> HIDE DEF bt, vr
<1>10. lvr \in Seq(AllBytes)
  BY <1>8, <1>9, ByteConcat, Zenon
<1> HIDE DEF lvr
<1>11. f \o rest = t \o (digits \o lvr)
  <2> DEFINE dl == digits \o left
  <2>1. dl \in Seq(AllBytes)
    BY <1>8, ByteConcat, Zenon
  <2>2. dl \o vr = digits \o lvr
    <3>1. digits \in Seq(AllBytes) /\ left \in Seq(AllBytes) /\ vr \in Seq(AllBytes)
      BY <1>8, <1>9
    <3> QED
      BY <3>1, ByteAssociate, Zenon DEF lvr
  <2> HIDE DEF dl
  <2> DEFINE dv == dl \o v
  <2>3. dv \in Seq(AllBytes)
    BY <1>8, <2>1, ByteConcat, Zenon
  <2>4. (t \o dl) \o v = t \o dv
    <3>1. t \in Seq(AllBytes) /\ dl \in Seq(AllBytes) /\ v \in Seq(AllBytes)
      BY <1>7, <1>8, <2>1
    <3> QED
      BY <3>1, ByteAssociate, Zenon
  <2>5. dv \o rest = dl \o vr
    <3>1. dl \in Seq(AllBytes) /\ v \in Seq(AllBytes)
      BY <1>8, <2>1
    <3> QED
      BY <1>4, <3>1, ByteAssociate, Zenon DEF vr
  <2>6. f = t \o dv
    BY <1>3, <2>4, Zenon DEF dl
  <2> HIDE DEF dv
  <2>7. (t \o dv) \o rest = t \o (dv \o rest)
    BY <1>4, <1>7, <2>3, ByteAssociate, Zenon
  <2> QED
    BY <2>2, <2>5, <2>6, <2>7, Zenon
<1>12. s = bytes \o lvr
  <2> DEFINE dlvr == digits \o lvr
  <2>1. dlvr \in Seq(AllBytes)
    BY <1>8, <1>10, ByteConcat, Zenon
  <2>2. bt \o dlvr = (bt \o digits) \o lvr
    <3>1. bt \in Seq(AllBytes) /\ digits \in Seq(AllBytes) /\ lvr \in Seq(AllBytes)
      BY <1>8, <1>9, <1>10
    <3> QED
      BY <3>1, ByteAssociate, Zenon
  <2> HIDE DEF dlvr
  <2>3. b \o (t \o dlvr) = bt \o dlvr
    <3>1. b \in Seq(AllBytes) /\ t \in Seq(AllBytes)
      BY <1>5, <1>7
    <3> QED
      BY <2>1, <3>1, ByteAssociate, Zenon DEF bt
  <2> QED
    BY <1>4, <1>9, <1>11, <2>2, <2>3, Zenon DEF dlvr
<1> QED
  BY <1>4, <1>5, <1>8, <1>9, <1>12, Zenon DEF LeftOver, s, lvr, vr

\* A tag byte is read as the tag it was written for.
LEMMA TagOfTag == \A tag \in FieldTags \cup {"EOS"} : TagOf(TagByte[tag]) = tag
<1> DEFINE T == DOMAIN TagByte
<1>1. /\ T = FieldTags \cup {"EOS"}
      /\ \A t, u \in FieldTags \cup {"EOS"} : TagByte[t] = TagByte[u] => t = u
  BY DEF TagByte, FieldTags
<1> HIDE DEF T
<1> SUFFICES ASSUME NEW tag \in FieldTags \cup {"EOS"} PROVE TagOf(TagByte[tag]) = tag
  OBVIOUS
<1>2. tag \in T
  BY <1>1
<1>3. TagOf(TagByte[tag]) = CHOOSE t \in T : TagByte[t] = TagByte[tag]
  BY <1>2, Zenon DEF TagOf, T
<1>4. (CHOOSE t \in T : TagByte[t] = TagByte[tag]) \in T
      /\ TagByte[CHOOSE t \in T : TagByte[t] = TagByte[tag]] = TagByte[tag]
  BY <1>2, Zenon
<1> QED
  BY <1>1, <1>3, <1>4

\* The byte after those of the items read is the first of the next item's.
LEMMA FirstByte ==
  ASSUME ByteInv, Parsing, NEW m \in Macaroons, Holds(m), part = "Tag",
         NEW x \in AllBytes, IsStart(bytes \o <<x>>, serialize_binary(m))
  PROVE  /\ IsStart(bytes, serialize_binary(m))
         /\ \/ NextItem(m) = END /\ x = EOF
            \/ NextItem(m) = EOS /\ x = TagByte["EOS"]
            \/ \E tag \in FieldTags, v \in Fields :
                 NextItem(m) = Field(tag, v) /\ x = TagByte[tag]
<1> DEFINE f == serialize_field(NextItem(m))
           s == serialize_binary(m)
           one == <<x>>
<1>1. /\ bytes \in Seq(AllBytes) /\ f \in Seq(AllBytes) /\ s \in Seq(AllBytes)
      /\ \E rest \in Seq(AllBytes) : s = bytes \o (f \o rest)
  BY BytesAtTag
<1>2. one \in Seq(AllBytes)
  OBVIOUS
<1> HIDE DEF f, s, one
<1>3. PICK rest \in Seq(AllBytes) : s = bytes \o (f \o rest)
  BY <1>1
<1>4. f \o rest \in Seq(AllBytes)
  BY <1>1, <1>3, ByteConcat, Zenon
<1>5. IsStart(bytes \o one, s)
  BY DEF s, one
<1>6. IsStart(bytes, s) /\ \A t \in Seq(AllBytes) : s = bytes \o t => IsStart(one, t)
  BY <1>1, <1>2, <1>5, StartOfConcat
<1>7. IsStart(one, f \o rest)
  BY <1>3, <1>4, <1>6, Zenon
<1>8. WellFormed(NextItem(m))
  BY NextItemIs DEF ByteInv, FormatInv
<1>9. CASE NextItem(m) \in {END, EOS}
  <2> DEFINE first == IF NextItem(m) = END THEN EOF ELSE TagByte["EOS"]
  <2>1. f = <<first>>
    BY <1>9, SerializedField DEF f
  <2>2. first \in AllBytes
    <3>1. TagByte["EOS"] \in Byte
      BY TagBytes, ByteRange
    <3> QED
      BY <3>1 DEF AllBytes
  <2>3. EOS # END
    BY DEF EOS, END, Field
  <2> HIDE DEF first
  <2>4. x = first
    BY <1>3, <1>7, <2>1, <2>2, StartOfOne DEF one
  <2> QED
    BY <1>6, <1>9, <2>3, <2>4 DEF first, s
<1>10. CASE \E tag \in FieldTags, v \in Fields : NextItem(m) = Field(tag, v)
  <2>1. PICK tag \in FieldTags, v \in Fields : NextItem(m) = Field(tag, v)
    BY <1>10
  <2> DEFINE first  == TagByte[tag]
             digits == varint_size[Size(v)]
  <2>2. v \in Value /\ v \in Seq(Byte) /\ digits \in Seq(Byte) /\ first \in Byte
    BY VarintBytes, TagBytes DEF Fields
  <2>3. f = <<first>> \o digits \o v
    BY <2>1, <2>2, SerializedField DEF f
  <2> HIDE DEF first, digits
  <2>4. /\ first \in AllBytes /\ <<first>> \in Seq(AllBytes)
        /\ digits \in Seq(AllBytes) /\ v \in Seq(AllBytes)
    BY <2>2 DEF AllBytes
  <2> DEFINE o == <<first>>
  <2> DEFINE dv == digits \o v
  <2>5. dv \in Seq(AllBytes)
    BY <2>4, ByteConcat, Zenon
  <2>6. f = <<first>> \o dv
    <3> HIDE DEF o
    <3>1. o \in Seq(AllBytes) /\ digits \in Seq(AllBytes) /\ v \in Seq(AllBytes)
      BY <2>4 DEF o
    <3>2. (o \o digits) \o v = o \o dv
      BY <3>1, ByteAssociate, Zenon
    <3> QED
      BY <2>3, <3>2 DEF o
  <2> HIDE DEF dv
  <2>7. x = first
    BY <1>3, <1>7, <2>4, <2>5, <2>6, StartOfTwo DEF one
  <2> QED
    BY <1>6, <2>1, <2>7, Zenon DEF first, s
<1> QED
  BY <1>8, <1>9, <1>10, Zenon DEF WellFormed

\* The byte after those of a size is its next digit.
LEMMA SizeDigit ==
  ASSUME ByteInv, Parsing, NEW m \in Macaroons, ByteHolds(m), part = "Size",
         NEW x \in AllBytes, IsStart(bytes \o <<x>>, serialize_binary(m))
  PROVE  \E v \in Fields, h \in Nat :
           /\ NextItem(m) = Field(field.tag, v)
           /\ h # 0 \/ field.shift = 0
           /\ Size(v) = field.size + h * 2^field.shift
           /\ IF h >= D THEN x = (h % D) + D ELSE x = h
<1> DEFINE size  == field.size
           shift == field.shift
<1>1. PICK v \in Fields, h \in Nat :
        /\ NextItem(m) = Field(field.tag, v)
        /\ h # 0 \/ shift = 0
        /\ Size(v) = size + h * 2^shift
  BY DEF ByteHolds
<1>2. SizeFits(size, shift) /\ Holds(m)
  BY DEF ByteInv, SizeOK, ByteHolds
<1>3. PICK digits : /\ DigitsSoFar(digits, size, shift)
                    /\ bytes = BytesOf(read) \o <<TagByte[field.tag]>> \o digits
  BY DEF ByteInv, BytesSoFar, Parsing
<1> DEFINE left == varint_size[h]
<1>4. digits \in Seq(Byte) /\ left \in Seq(Byte)
  BY <1>3, VarintBytes DEF DigitsSoFar
<1>5. varint_size[Size(v)] = digits \o left
  <2>1. CASE h # 0
    BY <1>1, <1>3, <2>1 DEF DigitsSoFar
  <2>2. CASE h = 0
    <3>1. 2^0 = 1 /\ shift = 0
      BY <1>1, <2>2
    <3>2. size = 0 /\ digits = << >>
      BY <1>2, <1>3, <3>1 DEF SizeFits, DigitsSoFar
    <3>3. Size(v) = h
      BY <1>1, <2>2, <3>2, <3>1
    <3> HIDE DEF left
    <3>4. << >> \o left = left
      BY <1>4
    <3> QED
      BY <3>2, <3>3, <3>4 DEF left
  <2> QED
    BY <2>1, <2>2
<1> DEFINE s   == serialize_binary(m)
           one == <<x>>
<1>6. /\ bytes \in Seq(AllBytes) /\ left \in Seq(AllBytes) /\ s \in Seq(AllBytes)
      /\ \E rest \in Seq(AllBytes) :
           v \o rest \in Seq(AllBytes) /\ s = bytes \o (left \o (v \o rest))
  <2> HIDE DEF left
  <2> QED
    <3>1. part \in {"Size", "Data"} /\ Holds(m) /\ NextItem(m) = Field(field.tag, v)
      BY <1>1, <1>2
    <3>2. LeftOver(m, v, left)
      BY <1>3, <1>4, <1>5, <3>1, BytesAtField
    <3> QED
      BY <3>2, Zenon DEF LeftOver
<1>7. one \in Seq(AllBytes)
  OBVIOUS
<1> HIDE DEF s, one, left
<1>8. PICK rest \in Seq(AllBytes) :
        v \o rest \in Seq(AllBytes) /\ s = bytes \o (left \o (v \o rest))
  BY <1>6
<1> DEFINE vr == v \o rest
<1>9. vr \in Seq(AllBytes) /\ s = bytes \o (left \o vr)
  BY <1>8
<1> HIDE DEF vr
<1>10. left \o vr \in Seq(AllBytes)
  BY <1>6, <1>9, ByteConcat, Zenon
<1>11. IsStart(bytes \o one, s)
  BY DEF s, one
<1>12. \A t \in Seq(AllBytes) : s = bytes \o t => IsStart(one, t)
  BY <1>6, <1>7, <1>11, StartOfConcat
<1>13. IsStart(one, left \o vr)
  BY <1>9, <1>10, <1>12, Zenon
<1>14. CASE h >= D
  <2> DEFINE b    == (h % D) + D
             more == varint_size[h \div D]
  <2>1. left = <<b>> \o more
    BY <1>14, VarintIs DEF left
  <2>2. more \in Seq(Byte) /\ b \in Byte
    <3>1. h \div D \in Nat /\ h % D \in 0..(D - 1)
      BY PackSize
    <3>2. more \in Seq(Byte)
      BY <3>1, VarintBytes
    <3>3. b \in Byte
      <4> HIDE DEF D
      <4> QED
        BY <3>1, ByteRange
    <3> QED
      BY <3>2, <3>3
  <2> HIDE DEF b, more
  <2>3. more \in Seq(AllBytes) /\ b \in AllBytes
    BY <2>2 DEF AllBytes
  <2>4. x = b
    BY <1>9, <1>13, <2>1, <2>3, StartOfTwo DEF one
  <2> QED
    BY <1>1, <1>14, <2>4, Zenon DEF b
<1>15. CASE ~(h >= D)
  <2>1. left = <<h>>
    BY <1>15, VarintIs DEF left
  <2>2. h \in AllBytes
    <3>1. h \in Byte
      BY <1>15, ByteRange
    <3> QED
      BY <3>1 DEF AllBytes
  <2>3. x = h
    BY <1>9, <1>13, <2>1, <2>2, StartOfOne DEF one
  <2> QED
    BY <1>1, <1>15, <2>3, Zenon
<1> QED
  BY <1>14, <1>15

\* What the end of an item leaves behind.
LEMMA EndsWalk ==
  ASSUME ByteInv, Parsing, NEW m \in Macaroons, Holds(m), NEW bs, Ends(NextItem(m), bs)
  PROVE  ByteWalksOn(m)
<1>1. Step(NextItem(m)) /\ part' = "Tag"
  BY DEF Ends
<1>2. FormatInv
  BY DEF ByteInv
<1>3. outcome' = "Ok" \/ (outcome' = "Parsing" /\ Holds(m)')
  BY <1>1, <1>2, WalkStep DEF WalksOn
<1> QED
  BY <1>1, <1>3 DEF ByteWalksOn, ByteHolds

\* Steps within an item: nothing but the parts changes.
LEMMA HoldsUnchanged ==
  ASSUME UNCHANGED vars, NEW m, Holds(m)
  PROVE  Holds(m)' /\ NextItem(m)' = NextItem(m)
<1>1. builder' = builder /\ at' = at /\ caveat_builder' = caveat_builder
  BY DEF vars, parserVars
<1>2. Current(m)' = Current(m)
  BY <1>1 DEF Current
<1>3. HalfBuilt(Current(m))' = HalfBuilt(Current(m))
  BY <1>2 DEF HalfBuilt
<1>4. Holds(m)'
  BY <1>1, <1>2, <1>3 DEF Holds
<1>5. NextItem(m)' = NextItem(m)
  BY <1>1, <1>2, Zenon DEF NextItem
<1> QED
  BY <1>4, <1>5

\* An encoding begins with the version.
LEMMA VersionWalk ==
  ASSUME ByteInv, Parsing, NEW b \in AllBytes, NEW m \in Macaroons, ByteHolds(m),
         part = "Version", bytes' = Append(bytes, b), Begins(m)'
  PROVE  b = VERSION
<1>1. bytes = << >>
  BY DEF ByteInv, BytesSoFar, Parsing
<1>2. bytes' = <<b>>
  <2>1. Append(<< >>, b) = <<b>>
    OBVIOUS
  <2> QED
    BY <1>1, <2>1
<1> DEFINE items == Encode(m)
           t == FlattenSeq([i \in 1..Len(items) |-> serialize_field(items[i])])
<1>3. serialize_binary(m) = <<VERSION>> \o t
  BY Zenon DEF serialize_binary
<1>4. t \in Seq(AllBytes)
  <2>1. items \in Seq(GoodItems)
    BY EncodingParts
  <2> HIDE DEF items
  <2> DEFINE f == [i \in 1..Len(items) |-> serialize_field(items[i])]
  <2>2. f \in Seq(Seq(AllBytes))
    <3>1. \A i \in 1..Len(items) : serialize_field(items[i]) \in Seq(AllBytes)
      BY <2>1, GoodBytes
    <3> QED
      BY <2>1, <3>1
  <2> HIDE DEF f
  <2>3. << >> \in Seq(AllBytes)
    OBVIOUS
  <2>4. FlattenSeq(f) \in Seq(AllBytes)
    BY <2>2, <2>3, FlattenAppend
  <2> QED
    BY <2>4 DEF f
<1>5. VERSION \in AllBytes
  BY TagBytes DEF AllBytes
<1>6. IsStart(<<b>>, <<VERSION>> \o t)
  <2>1. IsStart(bytes', serialize_binary(m))
    BY DEF Begins
  <2> HIDE DEF t
  <2> QED
    BY <1>2, <1>3, <2>1
<1> HIDE DEF t
<1> QED
  BY <1>4, <1>5, <1>6, StartOfOne

\* ReadVersion along an encoding.
LEMMA ReadVersionWalk ==
  ASSUME ByteInv, Parsing, NEW b \in Byte, ReadVersion(b),
         NEW m \in Macaroons, ByteHolds(m), Begins(m)'
  PROVE  ByteWalksOn(m)
<1>1. part = "Version" /\ bytes' = Append(bytes, b)
  BY DEF ReadVersion, Reading
<1>2. b = VERSION
  BY <1>1, VersionWalk DEF AllBytes
<1>3. part' = "Tag" /\ UNCHANGED vars
  BY <1>2 DEF ReadVersion
<1>4. outcome' = "Parsing"
  BY <1>3 DEF vars, parserVars, Parsing
<1>5. Holds(m)'
  BY <1>3, HoldsUnchanged DEF ByteHolds
<1> QED
  BY <1>3, <1>4, <1>5 DEF ByteWalksOn, ByteHolds

\* The byte that a step reads after those that begin m's encoding.
LEMMA OneByte ==
  ASSUME ByteInv, NEW b, bytes' = Append(bytes, b) \/ bytes' = bytes \o <<b>>,
         bytes \in Seq(AllBytes), b \in AllBytes, NEW m, Begins(m)'
  PROVE  IsStart(bytes \o <<b>>, serialize_binary(m))
<1>1. Append(bytes, b) = bytes \o <<b>>
  OBVIOUS
<1> QED
  BY <1>1 DEF Begins

\* BeginField along an encoding: the tag is that of its next item.
LEMMA BeginFieldWalk ==
  ASSUME ByteInv, Parsing, NEW b \in Byte, BeginField(b),
         NEW m \in Macaroons, ByteHolds(m), Begins(m)'
  PROVE  ByteWalksOn(m)
<1>1. /\ part = "Tag" /\ bytes' = Append(bytes, b) /\ part' = "Size"
      /\ TagOf(b) \in FieldTags /\ UNCHANGED vars
      /\ field' = [NoField EXCEPT !.tag = TagOf(b)]
  BY DEF BeginField, Reading
<1>2. Holds(m) /\ b \in AllBytes
  BY DEF ByteHolds, AllBytes
<1>3. bytes \in Seq(AllBytes)
  BY <1>1, <1>2, BytesAtTag
<1>4. IsStart(bytes \o <<b>>, serialize_binary(m))
  BY <1>1, <1>2, <1>3, OneByte
<1>5. TagByte[TagOf(b)] = b
  BY <1>1, TagOfByte
<1>6. b # EOF /\ b # TagByte["EOS"]
  <2>1. b # EOF
    BY ByteRange
  <2>2. TagOf(TagByte["EOS"]) = "EOS" /\ "EOS" \notin FieldTags
    BY TagOfTag DEF FieldTags
  <2> QED
    BY <1>1, <2>1, <2>2
<1>7. PICK tag \in FieldTags, v \in Fields : NextItem(m) = Field(tag, v) /\ b = TagByte[tag]
  BY <1>1, <1>2, <1>4, <1>6, FirstByte
<1>8. tag = TagOf(b)
  BY <1>7, TagOfTag
<1>9. field'.tag = TagOf(b) /\ field'.size = 0 /\ field'.shift = 0
  <2> DEFINE t == TagOf(b)
  <2> HIDE DEF t
  <2>1. field' = [NoField EXCEPT !.tag = t]
    BY <1>1 DEF t
  <2>2. field'.tag = t /\ field'.size = 0 /\ field'.shift = 0
    BY <2>1 DEF NoField
  <2> QED
    BY <2>2 DEF t
<1>10. Holds(m)' /\ NextItem(m)' = Field(field'.tag, v)
  BY <1>1, <1>2, <1>7, <1>8, <1>9, HoldsUnchanged
<1>11. Size(v) \in Nat /\ Size(v) = 0 + Size(v) * 2^0
  <2>1. Size(v) \in Nat /\ 2^0 = 1
    BY DEF Fields
  <2> QED
    BY <2>1
<1>12. \E h \in Nat : (h # 0 \/ field'.shift = 0) /\ Size(v) = field'.size + h * 2^field'.shift
  BY <1>9, <1>11
<1>13. ByteHolds(m)'
  BY <1>1, <1>10, <1>12, Zenon DEF ByteHolds
<1>14. outcome' = "Parsing"
  BY <1>1 DEF vars, parserVars, Parsing
<1> QED
  BY <1>13, <1>14 DEF ByteWalksOn

\* ReadTag along an encoding: a tag that no field follows is an EOS.
LEMMA ReadTagWalk ==
  ASSUME ByteInv, Parsing, NEW b \in Byte, ReadTag(b),
         NEW m \in Macaroons, ByteHolds(m), Begins(m)'
  PROVE  ByteWalksOn(m)
<1> DEFINE item == Field(TagOf(b), IF TagOf(b) \in FieldTags THEN Unreadable ELSE None)
<1>1. /\ part = "Tag" /\ TagOf(b) \notin Expected \cap FieldTags
      /\ Ends(item, <<b>>) /\ bytes' = bytes \o <<b>>
  BY DEF ReadTag, Ends
<1>2. Holds(m) /\ b \in AllBytes
  BY DEF ByteHolds, AllBytes
<1>3. bytes \in Seq(AllBytes)
  BY <1>1, <1>2, BytesAtTag
<1>4. IsStart(bytes \o <<b>>, serialize_binary(m))
  BY <1>1, <1>2, <1>3, OneByte
<1>5. b # EOF
  BY ByteRange
<1>6. CASE NextItem(m) = EOS /\ b = TagByte["EOS"]
  <2>1. TagOf(b) = "EOS" /\ "EOS" \notin FieldTags
    BY <1>6, TagOfTag DEF FieldTags
  <2>2. item = EOS
    BY <2>1 DEF EOS
  <2> HIDE DEF item
  <2> QED
    BY <1>1, <1>2, <1>6, <2>2, EndsWalk
<1>7. CASE \E tag \in FieldTags, v \in Fields : NextItem(m) = Field(tag, v) /\ b = TagByte[tag]
  <2>1. PICK tag \in FieldTags, v \in Fields : NextItem(m) = Field(tag, v) /\ b = TagByte[tag]
    BY <1>7
  <2>2. TagOf(b) = tag
    BY <2>1, TagOfTag
  <2>3. NextItem(m).tag \in Expected /\ NextItem(m).tag = tag
    BY <1>2, <2>1, NextItemIs DEF ByteInv, FormatInv, Field
  <2> QED
    BY <1>1, <2>2, <2>3
<1> QED
  BY <1>1, <1>2, <1>4, <1>5, <1>6, <1>7, FirstByte

\* What is known of the arithmetic of one digit more.
LEMMA DigitSplits ==
  ASSUME NEW size, NEW shift, SizeFits(size, shift), NEW h \in Nat
  PROVE  /\ h >= D => /\ h % D \in 0..(D - 1) /\ h \div D \in Nat /\ h \div D # 0
                      /\ size + h * 2^shift
                           = (size + (h % D) * 2^shift) + (h \div D) * 2^(shift + DIGIT)
                      /\ size + h * 2^shift >= 2^(shift + DIGIT)
         /\ size + h * 2^shift \in Nat
<1> DEFINE P == 2^shift
<1>1. shift \in Nat /\ size \in Nat /\ D \in Nat /\ D > 1
  BY PackSize DEF SizeFits
<1>2. P \in Nat /\ P > 0 /\ 2^(shift + DIGIT) = P * D
  <2>1. DIGIT \in Nat
    OBVIOUS
  <2> QED
    BY <1>1, <2>1, Powers DEF D, VARINT_PACK_SIZE
<1>3. size + h * P \in Nat
  <2> HIDE DEF P
  <2> QED
    BY <1>1, <1>2
<1>4. ASSUME h >= D
      PROVE  /\ h % D \in 0..(D - 1) /\ h \div D \in Nat /\ h \div D # 0
             /\ size + h * P = (size + (h % D) * P) + (h \div D) * (P * D)
             /\ size + h * P >= P * D
  <2> DEFINE q == h \div D
             d == h % D
  <2>1. q \in Nat /\ d \in 0..(D - 1) /\ h = q * D + d /\ q > 0
    BY <1>4, PackSize
  <2> HIDE DEF q, d, P, D
  <2>2. d \in Nat
    BY <1>1, <2>1
  <2>3. size + h * P = (size + d * P) + q * (P * D)
    BY <1>1, <1>2, <2>1, <2>2
  <2>4. q * (P * D) >= P * D /\ d * P \in Nat /\ P * D \in Nat /\ q * (P * D) \in Nat
    <3>1. P * D \in Nat /\ q >= 1
      BY <1>1, <1>2, <2>1
    <3>2. d * P \in Nat
      BY <1>2, <2>2
    <3> DEFINE PD == P * D
    <3>3. PD \in Nat
      BY <3>1
    <3> HIDE DEF PD
    <3>4. q * PD >= PD /\ q * PD \in Nat
      BY <2>1, <3>1, <3>3
    <3> QED
      BY <3>1, <3>2, <3>4 DEF PD
  <2>5. size + h * P >= P * D
    <3> DEFINE PD == P * D
               qPD == q * (P * D)
               dP == d * P
    <3>1. size + h * P = (size + dP) + qPD /\ qPD >= PD /\ dP \in Nat /\ PD \in Nat /\ qPD \in Nat
      BY <2>3, <2>4
    <3> HIDE DEF PD, qPD, dP
    <3>2. (size + dP) + qPD >= PD
      BY <1>1, <3>1
    <3> QED
      BY <3>1, <3>2 DEF PD
  <2> QED
    BY <2>1, <2>3, <2>5 DEF q, d
<1> QED
  BY <1>2, <1>3, <1>4 DEF P

\* A digit that more follow, of a size that has one.
LEMMA MoreDigits ==
  ASSUME NEW b \in Byte, NEW h \in Nat, IF h >= D THEN b = (h % D) + D ELSE b = h
  PROVE  /\ More(b) <=> h >= D
         /\ Digit(b) = h % D
         /\ ~More(b) => b = h /\ h < D /\ Digit(b) = h
<1>1. D \in Nat /\ D > 1 /\ h % D \in 0..(D - 1) /\ VARINT_PACK_SIZE = D
  BY PackSize
<1>2. More(b) = (b >= D) /\ Digit(b) = b % D
  BY <1>1 DEF More, Digit
<1> HIDE DEF D
<1>3. CASE h >= D
  <2> DEFINE d == h % D
  <2>1. d \in 0..(D - 1) /\ b = d + D
    BY <1>1, <1>3
  <2> HIDE DEF d
  <2>2. b >= D /\ b % D = d
    BY <1>1, <2>1, OneAbove
  <2> QED
    BY <1>2, <1>3, <2>2 DEF d
<1>4. CASE ~(h >= D)
  <2>1. b = h /\ ~(b >= D) /\ h < D
    BY <1>1, <1>4
  <2>2. h % D = h
    BY <1>1, <2>1
  <2> QED
    BY <1>2, <1>4, <2>1, <2>2
<1> QED
  BY <1>3, <1>4

\* The digit that is read is that of the size of m's next item.
LEMMA SizeAt ==
  ASSUME ByteInv, Parsing, NEW m \in Macaroons, ByteHolds(m), part = "Size",
         NEW b \in AllBytes, bytes' = Append(bytes, b) \/ bytes' = bytes \o <<b>>, Begins(m)'
  PROVE  \E v \in Fields, h \in Nat :
           /\ NextItem(m) = Field(field.tag, v)
           /\ h # 0 \/ field.shift = 0
           /\ Size(v) = field.size + h * 2^field.shift
           /\ IF h >= D THEN b = (h % D) + D ELSE b = h
<1>1. bytes \in Seq(AllBytes)
  <2>1. PICK digits : /\ digits \in Seq(Byte)
                      /\ bytes = BytesOf(read) \o <<TagByte[field.tag]>> \o digits
    BY DEF ByteInv, BytesSoFar, Parsing, DigitsSoFar
  <2>2. read \in Seq(GoodItems) /\ TagByte[field.tag] \in Byte
    BY TagBytes DEF ByteInv, SizeOK, Parsing
  <2> DEFINE a == BytesOf(read)
             first == TagByte[field.tag]
  <2>3. a \in Seq(AllBytes)
    <3>1. EOS \in GoodItems
      BY DEF GoodItems
    <3> QED
      BY <2>2, <3>1, BytesAppend
  <2>4. <<first>> \in Seq(AllBytes) /\ digits \in Seq(AllBytes)
    <3>1. first \in AllBytes
      BY <2>2 DEF AllBytes
    <3> HIDE DEF first
    <3>2. <<first>> \in Seq(AllBytes)
      BY <3>1
    <3>3. digits \in Seq(AllBytes)
      BY <2>1 DEF AllBytes
    <3> QED
      BY <3>2, <3>3
  <2> DEFINE one == <<first>>
  <2>5. one \in Seq(AllBytes)
    BY <2>4
  <2> HIDE DEF a, one
  <2>6. a \o one \in Seq(AllBytes)
    BY <2>3, <2>5, ByteConcat, Zenon
  <2>7. (a \o one) \o digits \in Seq(AllBytes)
    BY <2>4, <2>6, ByteConcat, Zenon
  <2> QED
    BY <2>1, <2>7 DEF a, one
<1>2. IsStart(bytes \o <<b>>, serialize_binary(m))
  BY <1>1, OneByte
<1> QED
  BY <1>2, SizeDigit

\* NextDigit along an encoding: the rest of the size is what the digit leaves.
LEMMA NextDigitWalk ==
  ASSUME ByteInv, Parsing, NEW b \in Byte, NextDigit(b),
         NEW m \in Macaroons, ByteHolds(m), Begins(m)'
  PROVE  ByteWalksOn(m)
<1> DEFINE size  == field.size
           shift == field.shift
<1>1. /\ part = "Size" /\ part' = "Size" /\ bytes' = Append(bytes, b)
      /\ More(b) /\ UNCHANGED vars
      /\ field' = [field EXCEPT !.size = SizeWith(b), !.shift = shift + DIGIT]
  BY Zenon DEF NextDigit, Reading
<1>2. b \in AllBytes /\ Holds(m)
  BY DEF AllBytes, ByteHolds
<1>3. PICK v \in Fields, h \in Nat :
        /\ NextItem(m) = Field(field.tag, v)
        /\ Size(v) = size + h * 2^shift
        /\ IF h >= D THEN b = (h % D) + D ELSE b = h
  BY <1>1, <1>2, SizeAt
<1>4. h >= D /\ Digit(b) = h % D
  BY <1>1, <1>3, MoreDigits
<1>5. /\ SizeFits(size, shift)
      /\ field = [tag |-> field.tag, size |-> size, shift |-> shift]
  BY <1>1 DEF ByteInv, SizeOK
<1> DEFINE n    == size + (h % D) * 2^shift
           left == h \div D
<1>6. /\ left \in Nat /\ left # 0 /\ h % D \in 0..(D - 1)
      /\ Size(v) = n + left * 2^(shift + DIGIT)
  BY <1>3, <1>4, <1>5, DigitSplits
<1>7. SizeWith(b) = n
  BY <1>4, <1>5, <1>6, NoneLost DEF SizeWith
<1>8. field'.tag = field.tag /\ field'.size = n /\ field'.shift = shift + DIGIT
  <2> DEFINE s == shift + DIGIT
             t == field.tag
  <2>1. field' = [field EXCEPT !.size = n, !.shift = s]
    BY <1>1, <1>7
  <2>2. field = [tag |-> t, size |-> size, shift |-> shift]
    BY <1>5
  <2> HIDE DEF n, s, t, size, shift
  <2>3. field'.tag = t /\ field'.size = n /\ field'.shift = s
    BY <2>1, <2>2
  <2> QED
    BY <2>3 DEF s, t
<1>9. Holds(m)' /\ NextItem(m)' = Field(field'.tag, v)
  BY <1>1, <1>2, <1>3, <1>8, HoldsUnchanged
<1> HIDE DEF n, left
<1>10. \E k \in Nat : (k # 0 \/ field'.shift = 0) /\ Size(v) = field'.size + k * 2^field'.shift
  BY <1>6, <1>8
<1>11. ByteHolds(m)'
  BY <1>1, <1>9, <1>10, Zenon DEF ByteHolds
<1>12. outcome' = "Parsing"
  BY <1>1 DEF vars, parserVars, Parsing
<1> QED
  BY <1>11, <1>12 DEF ByteWalksOn

\* No size within the limit has a digit that get_field_size refuses.
LEMMA DigitFits ==
  ASSUME NEW size, NEW shift, SizeFits(size, shift), NEW h \in Nat, h >= D,
         size + h * 2^shift <= MAX_FIELD_SIZE_BYTES
  PROVE  Fits(shift + DIGIT)
<1> DEFINE s    == shift + DIGIT
           w    == BITS - DIGIT
<1>1. s \in Nat /\ w \in Nat /\ BITS \in Nat /\ DIGIT \in Nat
  <2>1. DIGIT \in Nat /\ BITS \in Nat /\ BITS >= DIGIT + 1
    OBVIOUS
  <2>2. shift \in Nat
    BY DEF SizeFits
  <2>3. s \in Nat
    BY <2>1, <2>2
  <2>4. w \in Nat
    BY <2>1
  <2> QED
    BY <2>1, <2>3, <2>4
<1>2. 2^s <= MAX_FIELD_SIZE_BYTES /\ MAX_FIELD_SIZE_BYTES \in Nat
  <2> DEFINE z == size + h * 2^shift
             p == 2^s
  <2>1. z >= p /\ z \in Nat /\ p \in Nat
    BY <1>1, DigitSplits, Powers
  <2>2. z <= MAX_FIELD_SIZE_BYTES /\ MAX_FIELD_SIZE_BYTES \in Nat
    OBVIOUS
  <2> HIDE DEF z, p
  <2> QED
    BY <2>1, <2>2 DEF p
<1>3. MAX_FIELD_SIZE_BYTES < 2^w
  BY SizeAssumption
<1> SUFFICES ASSUME ~Fits(s) PROVE FALSE
  OBVIOUS
<1> HIDE DEF s, w
<1>4. s >= w
  BY <1>1 DEF Fits, w
<1>5. s - w \in Nat /\ w + (s - w) = s
  BY <1>1, <1>4
<1>6. 2^w <= 2^s
  <2> DEFINE k == s - w
  <2>1. k \in Nat /\ w + k = s
    BY <1>5
  <2> HIDE DEF k
  <2> QED
    BY <1>1, <2>1, Powers
<1>7. 2^w \in Nat /\ 2^s \in Nat
  BY <1>1, Powers
<1> QED
  BY <1>2, <1>3, <1>6, <1>7

\* RefuseSize never happens along an encoding.
LEMMA RefuseSizeWalk ==
  ASSUME ByteInv, Parsing, NEW b \in Byte, RefuseSize(b),
         NEW m \in Macaroons, ByteHolds(m), Begins(m)'
  PROVE  FALSE
<1>1. /\ part = "Size" /\ bytes' = bytes \o <<b>>
      /\ More(b) => ~Fits(field.shift + DIGIT)
      /\ ~LastDigit(b)
  BY DEF RefuseSize, Ends
<1>2. b \in AllBytes
  BY DEF AllBytes
<1>3. PICK v \in Fields, h \in Nat :
        /\ h # 0 \/ field.shift = 0
        /\ Size(v) = field.size + h * 2^field.shift
        /\ IF h >= D THEN b = (h % D) + D ELSE b = h
  BY <1>1, <1>2, SizeAt
<1>4. Size(v) \in Nat /\ Size(v) <= MAX_FIELD_SIZE_BYTES
  BY DEF Fields, TooLarge
<1>5. SizeFits(field.size, field.shift)
  BY <1>1 DEF ByteInv, SizeOK
<1>6. CASE More(b)
  <2>1. h >= D
    BY <1>3, <1>6, MoreDigits
  <2> QED
    BY <1>1, <1>3, <1>4, <1>5, <1>6, <2>1, DigitFits
<1>7. CASE ~More(b)
  <2>1. b = h
    BY <1>3, <1>7, MoreDigits
  <2>2. b = 0 /\ field.shift > 0
    BY <1>1, <1>7 DEF LastDigit
  <2> QED
    BY <1>3, <1>5, <2>1, <2>2 DEF SizeFits
<1> QED
  BY <1>6, <1>7

\* CompleteSize along an encoding: the size is that of its next value.
LEMMA CompleteSizeWalk ==
  ASSUME ByteInv, Parsing, NEW b \in Byte, CompleteSize(b),
         NEW m \in Macaroons, ByteHolds(m), Begins(m)'
  PROVE  ByteWalksOn(m)
<1> DEFINE size  == field.size
           shift == field.shift
<1>1. /\ part = "Size" /\ LastDigit(b) /\ ~More(b)
      /\ bytes' = Append(bytes, b) \/ bytes' = bytes \o <<b>>
      /\ SizeFits(size, shift)
      /\ field = [tag |-> field.tag, size |-> size, shift |-> shift]
  BY DEF CompleteSize, LastDigit, Ends, Reading, ByteInv, SizeOK
<1>2. b \in AllBytes /\ Holds(m)
  BY DEF AllBytes, ByteHolds
<1>3. PICK v \in Fields, h \in Nat :
        /\ NextItem(m) = Field(field.tag, v)
        /\ Size(v) = size + h * 2^shift
        /\ IF h >= D THEN b = (h % D) + D ELSE b = h
  BY <1>1, <1>2, SizeAt
<1>4. b = h /\ h < D /\ Digit(b) = h
  BY <1>1, <1>3, MoreDigits
<1>5. SizeWith(b) = Size(v)
  <2>1. h \in 0..(D - 1)
    <3>1. D \in Nat
      BY PackSize
    <3> HIDE DEF D
    <3> QED
      BY <1>4, <3>1
  <2> QED
    BY <1>1, <1>3, <1>4, <2>1, NoneLost DEF SizeWith
<1>6. Size(v) \in Nat /\ Size(v) <= MAX_FIELD_SIZE_BYTES
  BY DEF Fields, TooLarge
<1>7. /\ part' = "Data" /\ UNCHANGED vars
      /\ field' = [field EXCEPT !.size = SizeWith(b)]
  <2>1. ~(SizeWith(b) > MAX_FIELD_SIZE_BYTES)
    BY <1>5, <1>6
  <2> QED
    BY <2>1 DEF CompleteSize
<1>8. field'.tag = field.tag /\ field'.size = Size(v)
  <2> DEFINE n == Size(v)
             t == field.tag
  <2>1. field' = [field EXCEPT !.size = n]
    BY <1>5, <1>7
  <2>2. field = [tag |-> t, size |-> size, shift |-> shift]
    BY <1>1
  <2> HIDE DEF n, t, size, shift
  <2>3. field'.tag = t /\ field'.size = n
    BY <2>1, <2>2
  <2> QED
    BY <2>3 DEF n, t
<1>9. Holds(m)' /\ NextItem(m)' = Field(field'.tag, v)
  BY <1>2, <1>3, <1>7, <1>8, HoldsUnchanged
<1>10. ByteHolds(m)'
  BY <1>7, <1>8, <1>9, Zenon DEF ByteHolds
<1>11. outcome' = "Parsing"
  BY <1>7 DEF vars, parserVars, Parsing
<1> QED
  BY <1>10, <1>11 DEF ByteWalksOn

-----------------------------------------------------------------------------
\* In the data, what is left of the bytes begins with them.
LEMMA DataLeft ==
  ASSUME ByteInv, Parsing, NEW m \in Macaroons, ByteHolds(m), part = "Data",
         NEW bs \in Seq(AllBytes), bytes' = bytes \o bs, Begins(m)'
  PROVE  \E v \in Fields, rest \in Seq(AllBytes) :
           /\ NextItem(m) = Field(field.tag, v) /\ Size(v) = field.size
           /\ v \in Seq(Byte) /\ Size(v) = Len(v)
           /\ IsStart(bs, v \o rest)
<1>1. PICK v \in Fields : NextItem(m) = Field(field.tag, v) /\ Size(v) = field.size
  BY DEF ByteHolds
<1>2. v \in Seq(Byte) /\ Size(v) = Len(v) /\ Size(v) \in Nat
  BY DEF Fields
<1> DEFINE digits == varint_size[Size(v)]
           none   == << >>
<1>3. digits \in Seq(Byte) /\ none \in Seq(Byte)
  BY <1>2, VarintBytes
<1>4. bytes = BytesOf(read) \o <<TagByte[field.tag]>> \o digits
  BY <1>1 DEF ByteInv, BytesSoFar, Parsing
<1>5. digits = digits \o none
  <2> DEFINE d == digits
  <2>1. d \in Seq(Byte)
    BY <1>3
  <2> HIDE DEF digits
  <2> QED
    BY <1>3
<1>6. Holds(m) /\ part \in {"Size", "Data"}
  BY DEF ByteHolds
<1>7. LeftOver(m, v, none)
  <2>1. none \in Seq(Byte) /\ varint_size[Size(v)] = digits \o none
    BY <1>3, <1>5
  <2> HIDE DEF none
  <2> QED
    BY <1>1, <1>3, <1>4, <1>6, <2>1, BytesAtField
<1> DEFINE s == serialize_binary(m)
<1>8. PICK rest \in Seq(AllBytes) :
        v \o rest \in Seq(AllBytes) /\ s = bytes \o (none \o (v \o rest))
  BY <1>7 DEF LeftOver
<1>9. bytes \in Seq(AllBytes) /\ s \in Seq(AllBytes)
  BY <1>7 DEF LeftOver
<1> HIDE DEF s
<1> DEFINE vr == v \o rest
<1>10. vr \in Seq(AllBytes)
  BY <1>8
<1>11. s = bytes \o vr
  <2>1. s = bytes \o (none \o vr)
    BY <1>8
  <2> HIDE DEF vr
  <2>2. none \o vr = vr
    BY <1>10
  <2> QED
    BY <2>1, <2>2
<1>12. IsStart(bytes \o bs, s)
  BY DEF Begins, s
<1> HIDE DEF vr
<1>13. \A t \in Seq(AllBytes) : s = bytes \o t => IsStart(bs, t)
  BY <1>9, <1>12, StartOfConcat
<1>14. IsStart(bs, vr)
  BY <1>10, <1>11, <1>13
<1> QED
  BY <1>1, <1>2, <1>14, Zenon DEF vr

\* ReadData along an encoding: the data are its next value.
LEMMA ReadDataWalk ==
  ASSUME ByteInv, Parsing, ReadData, NEW m \in Macaroons, ByteHolds(m), Begins(m)'
  PROVE  ByteWalksOn(m)
<1>1. PICK w \in Value : Size(w) = field.size /\ Ends(Field(field.tag, w), w)
  BY DEF ReadData
<1>2. part = "Data" /\ bytes' = bytes \o w
  BY <1>1 DEF ReadData, Ends
<1>3. \A u \in Seq(Byte) : u \in Seq(AllBytes)
  BY DEF AllBytes
<1>4. w \in Seq(AllBytes) /\ Len(w) = Size(w)
  <2>1. w \in Seq(Byte) /\ Len(w) = Size(w)
    OBVIOUS
  <2> QED
    BY <1>3, <2>1
<1>5. PICK v \in Fields, rest \in Seq(AllBytes) :
        /\ NextItem(m) = Field(field.tag, v) /\ Size(v) = field.size
        /\ v \in Seq(Byte) /\ Size(v) = Len(v)
        /\ IsStart(w, v \o rest)
  BY <1>2, <1>4, DataLeft
<1>6. v \in Seq(AllBytes) /\ Len(w) = Len(v)
  BY <1>1, <1>3, <1>4, <1>5
<1>7. w = v
  BY <1>4, <1>5, <1>6, StartOfSameLength
<1>8. Ends(NextItem(m), w)
  BY <1>1, <1>5, <1>7
<1> QED
  BY <1>8, EndsWalk DEF ByteHolds

\* DataCutOff never happens along an encoding.
LEMMA DataCutOffWalk ==
  ASSUME ByteInv, Parsing, DataCutOff, NEW m \in Macaroons, ByteHolds(m), Begins(m)'
  PROVE  FALSE
<1>1. PICK w \in Value :
        Size(w) < field.size /\ Ends(Field(field.tag, Unreadable), Append(w, EOF))
  BY DEF DataCutOff
<1> DEFINE bs == Append(w, EOF)
<1>2. part = "Data" /\ bytes' = bytes \o bs
  BY <1>1 DEF DataCutOff, Ends
<1>3. w \in Seq(Byte) /\ Len(w) = Size(w)
  OBVIOUS
<1>4. w \in Seq(AllBytes) /\ EOF \in AllBytes
  BY <1>3 DEF AllBytes
<1>5. bs \in Seq(AllBytes)
  BY <1>4
<1> HIDE DEF bs
<1>6. PICK v \in Fields, rest \in Seq(AllBytes) :
        /\ Size(v) = field.size /\ v \in Seq(Byte) /\ Size(v) = Len(v)
        /\ IsStart(bs, v \o rest)
  BY <1>2, <1>5, DataLeft
<1>7. Len(w) < Len(v)
  BY <1>1, <1>3, <1>6
<1>8. EOF \in Byte
  <2> DEFINE n == Len(w) + 1
             b == v \o rest
  <2>1. n \in 1..Len(v)
    BY <1>3, <1>6, <1>7
  <2>2. b[n] = v[n] /\ v[n] \in Byte
    <3>1. v \in Seq(AllBytes)
      BY <1>6 DEF AllBytes
    <3> HIDE DEF n, AllBytes
    <3>2. b[n] = v[n]
      BY <1>6, <2>1, <3>1
    <3>3. v[n] \in Byte
      BY <1>6, <2>1
    <3> QED
      BY <3>2, <3>3
  <2>3. Len(bs) = n /\ bs[n] = EOF
    BY <1>4, AppendFacts DEF IsSequence, bs
  <2> HIDE DEF b, n
  <2>4. n \in 1..Len(bs)
    BY <2>1, <2>3
  <2>5. bs[n] = b[n]
    BY <1>6, <2>4 DEF IsStart, b
  <2> QED
    BY <2>2, <2>3, <2>5
<1> QED
  BY <1>8, ByteRange

\* Exhausted along an encoding: the bytes end where it does.
LEMMA ExhaustedWalk ==
  ASSUME ByteInv, Parsing, Exhausted, NEW m \in Macaroons, ByteHolds(m), Begins(m)'
  PROVE  ByteWalksOn(m)
<1>1. EOF \in AllBytes /\ EOF \notin Byte
  BY ByteRange DEF AllBytes
<1>2. CASE Reading("Version", EOF)
  <2>1. part = "Version" /\ bytes' = Append(bytes, EOF)
    BY <1>2 DEF Reading
  <2>2. EOF = VERSION
    BY <1>1, <2>1, VersionWalk
  <2> QED
    BY <1>1, <2>2, TagBytes
<1>3. CASE part = "Tag" /\ Ends(END, <<EOF>>)
  <2>1. Holds(m) /\ bytes' = bytes \o <<EOF>>
    BY <1>3 DEF ByteHolds, Ends
  <2>2. bytes \in Seq(AllBytes)
    BY <1>3, <2>1, BytesAtTag
  <2>3. IsStart(bytes \o <<EOF>>, serialize_binary(m))
    BY <1>1, <2>1, <2>2, OneByte
  <2>4. TagByte["EOS"] \in Byte /\ \A tag \in FieldTags : TagByte[tag] \in Byte
    BY TagBytes, ByteRange
  <2>5. NextItem(m) = END
    BY <1>1, <1>3, <2>1, <2>3, <2>4, FirstByte
  <2> QED
    BY <1>3, <2>1, <2>5, EndsWalk
<1>4. CASE part = "Size" /\ Ends(Field(field.tag, Unreadable), <<EOF>>)
  <2>1. bytes' = bytes \o <<EOF>>
    BY <1>4 DEF Ends
  <2>2. PICK h \in Nat : IF h >= D THEN EOF = (h % D) + D ELSE EOF = h
    BY <1>1, <1>4, <2>1, SizeAt
  <2>3. D \in Nat /\ D > 1 /\ EOF = 2 * D /\ h % D \in 0..(D - 1)
    BY PackSize, ByteRange
  <2> DEFINE d == h % D
  <2>4. d \in 0..(D - 1) /\ IF h >= D THEN EOF = d + D ELSE EOF = h
    BY <2>2, <2>3
  <2> HIDE DEF d, D
  <2> QED
    BY <2>3, <2>4
<1> QED
  BY <1>2, <1>3, <1>4 DEF Exhausted

-----------------------------------------------------------------------------
\* Everything read and everything written are bytes.
LEMMA FieldDigits ==
  ASSUME ByteInv, Parsing, part \in {"Size", "Data"}
  PROVE  \E digits \in Seq(Byte) : bytes = BytesOf(read) \o <<TagByte[field.tag]>> \o digits
<1>1. CASE part = "Size"
  BY <1>1 DEF ByteInv, BytesSoFar, Parsing, DigitsSoFar
<1>2. CASE part = "Data"
  <2>1. field.size \in Nat
    BY <1>2 DEF ByteInv, SizeOK
  <2>2. varint_size[field.size] \in Seq(Byte)
    BY <2>1, VarintBytes
  <2> QED
    BY <1>2, <2>2, Zenon DEF ByteInv, BytesSoFar, Parsing
<1> QED
  BY <1>1, <1>2

\* The bytes read are bytes.
LEMMA ReadBytes ==
  ASSUME ByteInv, Parsing
  PROVE  bytes \in Seq(AllBytes)
<1>1. EOS \in GoodItems
  BY DEF GoodItems
<1>2. BytesOf(read) \in Seq(AllBytes)
  BY <1>1, BytesAppend DEF ByteInv, Parsing
<1> DEFINE a == BytesOf(read)
           one == <<TagByte[field.tag]>>
<1>3. CASE part = "Version"
  <2>1. bytes = << >>
    BY <1>3 DEF ByteInv, BytesSoFar, Parsing
  <2> QED
    BY <2>1
<1>4. CASE part = "Tag"
  <2>1. bytes = BytesOf(read)
    BY <1>4 DEF ByteInv, BytesSoFar, Parsing
  <2> QED
    BY <1>2, <2>1
<1>5. CASE part \in {"Size", "Data"}
  <2>1. PICK digits \in Seq(Byte) : bytes = a \o one \o digits
    BY <1>5, FieldDigits
  <2>2. one \in Seq(AllBytes)
    <3>1. TagByte[field.tag] \in AllBytes
      BY <1>5, TagBytes DEF ByteInv, SizeOK, AllBytes
    <3> QED
      BY <3>1
  <2>3. digits \in Seq(AllBytes)
    BY DEF AllBytes
  <2> HIDE DEF a, one, AllBytes
  <2>4. a \in Seq(AllBytes)
    BY <1>2 DEF a
  <2>5. a \o one \in Seq(AllBytes)
    BY <2>2, <2>4, ByteConcat, Zenon
  <2>6. (a \o one) \o digits \in Seq(AllBytes)
    BY <2>3, <2>5, ByteConcat, Zenon
  <2> QED
    BY <2>1, <2>6
<1>6. part \in {"Version", "Tag", "Size", "Data"}
  BY DEF ByteInv, BytesSoFar, Parsing
<1> QED
  BY <1>3, <1>4, <1>5, <1>6

\* And so are those that serialize_binary writes.
LEMMA WrittenBytes ==
  ASSUME NEW m \in Macaroons
  PROVE  serialize_binary(m) \in Seq(AllBytes)
<1> DEFINE items == Encode(m)
<1>1. items \in Seq(GoodItems)
  BY EncodingParts
<1>2. serialize_binary(m) = BytesOf(items)
  BY Zenon DEF serialize_binary, BytesOf
<1>3. EOS \in GoodItems
  BY DEF GoodItems
<1> HIDE DEF items
<1> QED
  BY <1>1, <1>2, <1>3, BytesAppend

\* Bytes that begin an encoding begin it still without the last of them.
LEMMA BeganBefore ==
  ASSUME ByteInv, Parsing, NEW bs \in Seq(AllBytes), bytes' = bytes \o bs,
         NEW m \in Macaroons, Begins(m)'
  PROVE  Begins(m)
<1> DEFINE s == serialize_binary(m)
<1>1. s \in Seq(AllBytes) /\ bytes \in Seq(AllBytes)
  BY ReadBytes, WrittenBytes
<1>2. IsStart(bytes \o bs, s)
  BY DEF Begins
<1> HIDE DEF s, AllBytes
<1>3. IsStart(bytes, s)
  BY <1>1, <1>2, StartOfConcat
<1> QED
  BY <1>3 DEF Begins, s

\* The bytes that a step reads.
LEMMA StepBytes ==
  ASSUME ByteInv, Parsing,
         (\E b \in Byte : ReadByte(b)) \/ ReadData \/ DataCutOff \/ Exhausted
  PROVE  \E bs \in Seq(AllBytes) : bytes' = bytes \o bs
<1>0. bytes \in Seq(AllBytes)
  BY ReadBytes
<1>1. \A u \in Seq(Byte) : u \in Seq(AllBytes)
  BY DEF AllBytes
<1>2. \A b \in AllBytes : <<b>> \in Seq(AllBytes) /\ Append(bytes, b) = bytes \o <<b>>
  <2> HIDE DEF AllBytes
  <2> QED
    BY <1>0
<1>3. EOF \in AllBytes
  BY DEF AllBytes
<1>4. ASSUME NEW b \in AllBytes, bytes' = Append(bytes, b) \/ bytes' = bytes \o <<b>>
      PROVE  \E bs \in Seq(AllBytes) : bytes' = bytes \o bs
  BY <1>2, <1>4, Zenon
<1>5. CASE \E b \in Byte : ReadByte(b)
  <2>1. PICK b \in Byte : ReadByte(b)
    BY <1>5
  <2>2. bytes' = Append(bytes, b) \/ bytes' = bytes \o <<b>>
    BY <2>1, Zenon DEF ReadByte, ReadVersion, BeginField, ReadTag, NextDigit, RefuseSize,
       CompleteSize, Reading, Ends
  <2>3. b \in AllBytes
    BY DEF AllBytes
  <2> QED
    BY <1>4, <2>2, <2>3
<1>6. CASE ReadData
  <2>1. PICK v \in Value : bytes' = bytes \o v
    BY <1>6, Zenon DEF ReadData, Ends
  <2> QED
    BY <1>1, <2>1
<1>7. CASE DataCutOff
  <2>1. PICK v \in Value : bytes' = bytes \o Append(v, EOF)
    BY <1>7, Zenon DEF DataCutOff, Ends
  <2>2. v \in Seq(AllBytes)
    BY <1>1
  <2>3. Append(v, EOF) \in Seq(AllBytes)
    BY <1>3, <2>2
  <2> QED
    BY <2>1, <2>3, Zenon
<1>8. CASE Exhausted
  <2>1. bytes' = Append(bytes, EOF) \/ bytes' = bytes \o <<EOF>>
    BY <1>8, Zenon DEF Exhausted, Reading, Ends
  <2> QED
    BY <1>3, <1>4, <2>1
<1> QED
  BY <1>5, <1>6, <1>7, <1>8

\* A step on bytes that begin an encoding goes on along it.
LEMMA ByteStepWalks ==
  ASSUME ByteInv, ByteWalk, Parsing,
         (\E b \in Byte : ReadByte(b)) \/ ReadData \/ DataCutOff \/ Exhausted,
         NEW m \in Macaroons, Begins(m)'
  PROVE  ByteWalksOn(m)
<1>1. ByteHolds(m)
  <2>1. PICK bs \in Seq(AllBytes) : bytes' = bytes \o bs
    BY StepBytes
  <2>2. Begins(m)
    BY <2>1, BeganBefore
  <2> QED
    BY <2>2 DEF ByteWalk, Parsing
<1>2. CASE \E b \in Byte : ReadByte(b)
  <2>1. PICK b \in Byte : ReadByte(b)
    BY <1>2
  <2> QED
    BY <1>1, <2>1, ReadVersionWalk, BeginFieldWalk, ReadTagWalk, NextDigitWalk,
       RefuseSizeWalk, CompleteSizeWalk DEF ReadByte
<1> QED
  BY <1>1, <1>2, ReadDataWalk, DataCutOffWalk, ExhaustedWalk

\* Every step preserves the walk along the bytes.
LEMMA ByteWalkNext ==
  ASSUME ByteInv, ByteWalk, [ByteNext]_allVars
  PROVE  ByteWalk'
<1>1. CASE deserialize /\ UNCHANGED <<at, byteVars>>
  <2>1. /\ outcome = "Idle" /\ outcome' = "Parsing"
        /\ builder' = builder /\ caveat_builder' = caveat_builder
        /\ at' = at /\ bytes' = bytes /\ part' = part /\ field' = field
    BY <1>1 DEF deserialize, byteVars
  <2>2. \A m \in Macaroons : Begins(m)' => Begins(m)
    BY <2>1 DEF Begins
  <2>3. \A m \in Macaroons : ByteHolds(m) => ByteHolds(m)'
    <3> SUFFICES ASSUME NEW m \in Macaroons, ByteHolds(m) PROVE ByteHolds(m)'
      OBVIOUS
    <3>1. Current(m)' = Current(m)
      BY <2>1 DEF Current
    <3>2. Holds(m)' = Holds(m)
      BY <2>1, <3>1 DEF Holds, HalfBuilt
    <3>3. NextItem(m)' = NextItem(m)
      BY <2>1, <3>1, Zenon DEF NextItem
    <3> QED
      BY <2>1, <3>2, <3>3 DEF ByteHolds
  <2>4. outcome' \notin ParseErrors
    BY <2>1 DEF ParseErrors
  <2> QED
    BY <2>1, <2>2, <2>3, <2>4 DEF ByteWalk
<1>2. CASE /\ Parsing
           /\ (\E b \in Byte : ReadByte(b)) \/ ReadData \/ DataCutOff \/ Exhausted
  <2>1. \A m \in Macaroons : Begins(m)' => ByteWalksOn(m)
    BY <1>2, ByteStepWalks
  <2>2. \A m \in Macaroons : Begins(m)' => /\ outcome' \notin ParseErrors
                                           /\ outcome' = "Ok" \/ ByteHolds(m)'
    BY <2>1 DEF ByteWalksOn, ParseErrors
  <2>3. "Ok" \notin {"Idle", "Parsing"}
    OBVIOUS
  <2> QED
    BY <2>2, <2>3, Zenon DEF ByteWalk
<1>3. CASE /\ Return
           /\ at' = "Start" /\ bytes' = << >> /\ part' = "Version" /\ field' = NoField
  <2>1. outcome' = "Idle" /\ builder'.caveats = << >> /\ part' = "Version"
    BY <1>3 DEF Return, NewMacaroonBuilder
  <2>2. at' = "Start"
    BY <1>3
  <2>3. \A m \in Macaroons : Holds(m)'
    <3> SUFFICES ASSUME NEW m \in Macaroons PROVE Holds(m)'
      OBVIOUS
    <3>1. m.caveats \in Seq(Caveats)
      BY MacaroonFacts
    <3>2. IsStart(builder.caveats, m.caveats)'
      BY <2>1, <3>1 DEF IsStart
    <3> QED
      BY <2>1, <2>2, <3>2 DEF Holds
  <2>4. \A m \in Macaroons : ByteHolds(m)'
    BY <2>1, <2>3 DEF ByteHolds
  <2>5. outcome' \notin ParseErrors
    BY <2>1 DEF ParseErrors
  <2> QED
    BY <2>4, <2>5 DEF ByteWalk
<1>4. CASE UNCHANGED allVars
  <2>1. UNCHANGED vars /\ UNCHANGED <<bytes, part, field>> /\ outcome' = outcome
    BY <1>4 DEF allVars, byteVars, vars, parserVars
  <2>2. \A m \in Macaroons : Begins(m)' = Begins(m)
    BY <2>1 DEF Begins
  <2>3. \A m \in Macaroons : ByteHolds(m) => ByteHolds(m)'
    <3> SUFFICES ASSUME NEW m \in Macaroons, ByteHolds(m) PROVE ByteHolds(m)'
      OBVIOUS
    <3>1. Holds(m)' /\ NextItem(m)' = NextItem(m)
      BY <2>1, HoldsUnchanged DEF ByteHolds
    <3> QED
      BY <2>1, <3>1 DEF ByteHolds
  <2> QED
    BY <2>1, <2>2, <2>3 DEF ByteWalk
<1> QED
  BY <1>1, <1>2, <1>3, <1>4 DEF ByteNext

\* It begins with the token.
LEMMA ByteWalkInit == ByteInit => ByteWalk
<1> SUFFICES ASSUME ByteInit PROVE ByteWalk
  OBVIOUS
<1>1. /\ at = "Start" /\ builder.caveats = << >> /\ part = "Version"
      /\ outcome = "Idle"
  BY DEF ByteInit, Init, ParserInit, NewMacaroonBuilder
<1>2. \A m \in Macaroons : ByteHolds(m)
  BY <1>1, HoldsAtStart DEF ByteHolds
<1>3. outcome \notin ParseErrors
  BY <1>1 DEF ParseErrors
<1> QED
  BY <1>2, <1>3 DEF ByteWalk

\* RefusesNoEncodedBytes: what serialize writes for any macaroon is read to its
\* end without an error, at whichever of its bytes, for digits and sizes of any
\* width in which the largest field's size can be written.
THEOREM EncodedBytesAreRead == ByteSpec => []RefusesNoEncodedBytes
<1>1. ByteWalk => RefusesNoEncodedBytes
  <2> SUFFICES ASSUME ByteWalk, outcome \in ParseErrors, bytes \in EncodedBytes
               PROVE  FALSE
    BY DEF RefusesNoEncodedBytes
  <2>1. PICK m \in Macaroons :
          \E n \in 0..Len(serialize_binary(m)) : bytes = SubSeq(serialize_binary(m), 1, n)
    BY Zenon DEF EncodedBytes, Beginnings
  <2> DEFINE s == serialize_binary(m)
  <2>2. s \in Seq(AllBytes)
    BY WrittenBytes
  <2>3. PICK n \in 0..Len(s) : bytes = SubSeq(s, 1, n)
    BY <2>1
  <2> HIDE DEF s, AllBytes
  <2>4. IsStart(bytes, s)
    BY <2>2, <2>3 DEF IsStart
  <2>5. Begins(m)
    BY <2>4 DEF Begins, s
  <2> QED
    BY <2>5 DEF ByteWalk
<1>2. ByteSpec => []ByteWalk
  BY ByteInitInv, ByteNextInv, ByteWalkInit, ByteWalkNext, PTL DEF ByteSpec
<1> QED
  BY <1>1, <1>2, PTL
=============================================================================
