--------------------------- MODULE FormatV1Proofs ---------------------------
(***************************************************************************)
(* Proofs about the format V1.  What is accepted has the caveats of its     *)
(* packets, in whatever order they come; for that, the packets read are     *)
(* compared with what the two builders hold.  And what the serializer       *)
(* writes is read back: while the packets read are the first of an          *)
(* encoding, the builders hold as much of its macaroon (Walk).              *)
(***************************************************************************)
EXTENDS FormatV1, MacaroonLemmas

USE ValueAssumption

-----------------------------------------------------------------------------
(***************************************************************************)
(* Packets.                                                                 *)
(***************************************************************************)

\* A packet that can be announced holds no field that is too large.
LEMMA PacketFacts ==
  ASSUME NEW p \in Items, p # MALFORMED, p # END
  PROVE  /\ p = Packet(p.key, p.value) /\ p.key \in Keys
         /\ p.value \in Fields /\ p.value # None
<1>1. PICK key \in Keys, value \in Value :
        p = Packet(key, value) /\ PacketSize(key, value) <= MAX_PACKET_SIZE
  BY DEF Items, Packet
<1>2. p.key = key /\ p.value = value
  BY <1>1 DEF Packet
<1>3. Size(value) <= MAX_FIELD_SIZE_BYTES
  BY <1>1, PacketAssumption DEF PacketSize, HEADER_SIZE
<1> QED
  BY <1>1, <1>2, <1>3 DEF Fields, TooLarge

\* The keys of items: END and MALFORMED have keys of their own.
LEMMA OtherKeys ==
  /\ END \in Items /\ END.key = "END" /\ "END" \notin Keys
  /\ MALFORMED \in Items /\ MALFORMED.key = "MALFORMED" /\ "MALFORMED" \notin Keys
BY DEF END, MALFORMED, Packet, Keys, Items

\* What is known of a packet that is not refused.
LEMMA AcceptedPacket ==
  ASSUME NEW p \in Items, NEW key \in Keys, Accepts(p, key)
  PROVE  /\ p = Packet(key, p.value) /\ p.key = key
         /\ p.value \in Fields /\ p.value # None
         /\ ~Illegal(p)
         /\ key \in {"LOCATION", "CL"} => p.value \in Locations
         /\ key = "SIGNATURE" => Size(p.value) = SIGNATURE_SIZE
         /\ key \in {"CID", "SIGNATURE"} /\ HasId =>
              Complete(caveat_builder) /\ HasRoom(builder)
<1>1. p.key = key /\ PacketErrors(p) = {}
  BY DEF Accepts
<1>2. p = Packet(p.key, p.value) /\ p.value \in Fields /\ p.value # None
  BY <1>1, OtherKeys, PacketFacts
<1>3. /\ ~Illegal(p)
      /\ key \in {"CID", "SIGNATURE"} /\ HasId => CaveatErrors(builder, caveat_builder) = {}
      /\ key = "SIGNATURE" => Size(p.value) = SIGNATURE_SIZE
  BY <1>1 DEF PacketErrors
<1>4. CaveatErrors(builder, caveat_builder) = {} =>
        Complete(caveat_builder) /\ HasRoom(builder)
  BY DEF CaveatErrors
<1>5. key \in {"LOCATION", "CL"} => p.value \in Locations
  BY <1>1, <1>2, <1>3 DEF Illegal, Locations
<1> QED
  BY <1>1, <1>2, <1>3, <1>4, <1>5

\* The errors of a packet are errors of the parser.
LEMMA RefusedErrors ==
  ASSUME NEW p
  PROVE  PacketErrors(p) \in SUBSET ParseErrors /\ BuildErrors(builder) \in SUBSET ParseErrors
<1>1. CaveatErrors(builder, caveat_builder) \in SUBSET ParseErrors
  BY DEF CaveatErrors, ParseErrors
<1> QED
  BY <1>1 DEF PacketErrors, BuildErrors, ParseErrors

-----------------------------------------------------------------------------
(***************************************************************************)
(* The caveat that is waiting.                                              *)
(***************************************************************************)
CaveatBuilders ==
  [id          : Fields \cup {None},
   verifier_id : Fields \cup {None},
   location    : Locations \cup {None}]

\* The values of a field that is there or not.
Given(value) == IF value = None THEN << >> ELSE <<value>>

VerifierIdOf(c) == IF IsFirstParty(c) THEN << >> ELSE <<c.verifier_id>>
LocationOf(c) == IF IsFirstParty(c) THEN << >> ELSE <<c.location>>

\* The caveat that a complete builder makes has the fields of the builder.
LEMMA CaveatFacts ==
  ASSUME NEW cb \in CaveatBuilders, Complete(cb)
  PROVE  /\ CaveatOf(cb) \in Caveats
         /\ IdOf(CaveatOf(cb)) = cb.id
         /\ VerifierIdOf(CaveatOf(cb)) = Given(cb.verifier_id)
         /\ LocationOf(CaveatOf(cb)) = Given(cb.location)
<1>1. /\ cb.id \in Fields /\ cb.id # None
      /\ cb.verifier_id = None <=> cb.location = None
      /\ cb.verifier_id # None => cb.verifier_id \in Fields /\ cb.location \in Locations
  BY DEF Complete, CaveatBuilders
<1>2. CASE cb.verifier_id = None
  <2>1. CaveatOf(cb) = FirstParty(cb.id)
    BY <1>2 DEF CaveatOf
  <2>2. IsFirstParty(FirstParty(cb.id)) /\ FirstParty(cb.id).predicate = cb.id
    BY DEF FirstParty, IsFirstParty
  <2>3. FirstParty(cb.id) \in Caveats
    BY <1>1 DEF Caveats
  <2> QED
    BY <1>1, <1>2, <2>1, <2>2, <2>3 DEF IdOf, VerifierIdOf, LocationOf, Given
<1>3. CASE cb.verifier_id # None
  <2> DEFINE c == ThirdParty(cb.id, cb.verifier_id, cb.location)
  <2>1. CaveatOf(cb) = c
    BY <1>3 DEF CaveatOf
  <2>2. /\ ~IsFirstParty(c) /\ c.id = cb.id
        /\ c.verifier_id = cb.verifier_id /\ c.location = cb.location
    BY DEF ThirdParty, IsFirstParty
  <2>3. c \in Caveats
    BY <1>1, <1>3 DEF Caveats
  <2> QED
    BY <1>1, <1>3, <2>1, <2>2, <2>3 DEF IdOf, VerifierIdOf, LocationOf, Given
<1> QED
  BY <1>2, <1>3

-----------------------------------------------------------------------------
(***************************************************************************)
(* Lists of values.                                                         *)
(***************************************************************************)
ValueOf(key, p) == IF p.key = key THEN <<p.value>> ELSE << >>

\* One packet more adds its value, if it has that key.
LEMMA ValuesAppend ==
  ASSUME NEW key, NEW packets \in Seq(Items), NEW p \in Items
  PROVE  /\ ValuesOf(key, packets) \in Seq(Value \cup {None})
         /\ ValuesOf(key, Append(packets, p)) = ValuesOf(key, packets) \o ValueOf(key, p)
<1> DEFINE S == Value \cup {None}
           all(s) == [i \in 1..Len(s) |-> ValueOf(key, s[i])]
<1>1. \A q \in Items : ValueOf(key, q) \in Seq(S)
  <2> TAKE q \in Items
  <2>1. q.value \in S
    BY PacketFacts DEF MALFORMED, END, Packet, Fields
  <2> HIDE DEF S
  <2>2. <<q.value>> \in Seq(S) /\ << >> \in Seq(S)
    BY <2>1
  <2> QED
    BY <2>2 DEF ValueOf
<1> DEFINE t == ValueOf(key, p)
<1>2. all(packets) \in Seq(Seq(S)) /\ t \in Seq(S)
  <2>1. \A i \in 1..Len(packets) : ValueOf(key, packets[i]) \in Seq(S)
    BY <1>1
  <2> HIDE DEF S
  <2> QED
    BY <1>1, <2>1
<1>3. all(Append(packets, p)) = Append(all(packets), t)
  <2>1. /\ Len(Append(packets, p)) = Len(packets) + 1
        /\ Len(packets) \in Nat
        /\ \A i \in 1..Len(packets) : Append(packets, p)[i] = packets[i]
        /\ Append(packets, p)[Len(packets) + 1] = p
    OBVIOUS
  <2> HIDE DEF S
  <2> QED
    BY <1>2, <2>1
<1> HIDE DEF all, t, S
<1>4. /\ FlattenSeq(all(packets)) \in Seq(S)
      /\ FlattenSeq(Append(all(packets), t)) = FlattenSeq(all(packets)) \o t
  BY <1>2, FlattenAppend
<1>5. \A s : ValuesOf(key, s) = FlattenSeq(all(s))
  BY Zenon DEF ValuesOf, ValueOf, all
<1> QED
  BY <1>3, <1>4, <1>5 DEF t, S

\* One caveat more adds its id, and its verifier id and location if it has them.
LEMMA CaveatListsAppend ==
  ASSUME NEW caveats \in Seq(Caveats), NEW c \in Caveats
  PROVE  /\ Ids(Append(caveats, c)) = Append(Ids(caveats), IdOf(c))
         /\ VerifierIds(Append(caveats, c)) = VerifierIds(caveats) \o VerifierIdOf(c)
         /\ LocationsOf(Append(caveats, c)) = LocationsOf(caveats) \o LocationOf(c)
         /\ Ids(caveats) \in Seq(Value)
         /\ VerifierIds(caveats) \in Seq(Value)
         /\ LocationsOf(caveats) \in Seq(Value)
<1> DEFINE ids(s)  == [i \in 1..Len(s) |-> IdOf(s[i])]
           vids(s) == [i \in 1..Len(s) |-> VerifierIdOf(s[i])]
           locs(s) == [i \in 1..Len(s) |-> LocationOf(s[i])]
<1>1. \A x \in Caveats :
        /\ IdOf(x) \in Value
        /\ VerifierIdOf(x) \in Seq(Value) /\ LocationOf(x) \in Seq(Value)
  <2> TAKE x \in Caveats
  <2>1. CASE \E p \in Fields : x = FirstParty(p)
    BY <2>1 DEF FirstParty, IsFirstParty, IdOf, VerifierIdOf, LocationOf, Fields
  <2>2. CASE \E i \in Fields, v \in Fields, l \in Locations : x = ThirdParty(i, v, l)
    <3>1. PICK i \in Fields, v \in Fields, l \in Locations : x = ThirdParty(i, v, l)
      BY <2>2
    <3>2. ~IsFirstParty(x) /\ x.id = i /\ x.verifier_id = v /\ x.location = l
      BY <3>1 DEF ThirdParty, IsFirstParty
    <3> QED
      BY <3>2 DEF IdOf, VerifierIdOf, LocationOf, Fields, Locations
  <2> QED
    BY <2>1, <2>2 DEF Caveats
<1>2. /\ Len(Append(caveats, c)) = Len(caveats) + 1
      /\ Len(caveats) \in Nat
      /\ \A i \in 1..Len(caveats) : Append(caveats, c)[i] = caveats[i]
      /\ \A i \in 1..Len(caveats) : caveats[i] \in Caveats
      /\ Append(caveats, c)[Len(caveats) + 1] = c
  OBVIOUS
<1>3. ids(caveats) \in Seq(Value) /\ ids(Append(caveats, c)) = Append(ids(caveats), IdOf(c))
  <2>0. \A i \in 1..Len(caveats) : IdOf(caveats[i]) \in Value
    BY <1>1, <1>2
  <2>1. ids(caveats) \in Seq(Value)
    BY <1>2, <2>0
  <2> QED
    BY <1>1, <1>2, <2>1
<1>4. /\ vids(caveats) \in Seq(Seq(Value))
      /\ vids(Append(caveats, c)) = Append(vids(caveats), VerifierIdOf(c))
  <2>0. \A i \in 1..Len(caveats) : VerifierIdOf(caveats[i]) \in Seq(Value)
    BY <1>1, <1>2
  <2>1. vids(caveats) \in Seq(Seq(Value))
    BY <1>2, <2>0
  <2> QED
    BY <1>1, <1>2, <2>1
<1>5. /\ locs(caveats) \in Seq(Seq(Value))
      /\ locs(Append(caveats, c)) = Append(locs(caveats), LocationOf(c))
  <2>0. \A i \in 1..Len(caveats) : LocationOf(caveats[i]) \in Seq(Value)
    BY <1>1, <1>2
  <2>1. locs(caveats) \in Seq(Seq(Value))
    BY <1>2, <2>0
  <2> QED
    BY <1>1, <1>2, <2>1
<1> HIDE DEF ids, vids, locs
<1>6. /\ FlattenSeq(vids(caveats)) \in Seq(Value)
      /\ FlattenSeq(Append(vids(caveats), VerifierIdOf(c)))
           = FlattenSeq(vids(caveats)) \o VerifierIdOf(c)
  BY <1>1, <1>4, FlattenAppend
<1>7. /\ FlattenSeq(locs(caveats)) \in Seq(Value)
      /\ FlattenSeq(Append(locs(caveats), LocationOf(c)))
           = FlattenSeq(locs(caveats)) \o LocationOf(c)
  BY <1>1, <1>5, FlattenAppend
<1>8. /\ \A s : Ids(s) = ids(s)
      /\ \A s : VerifierIds(s) = FlattenSeq(vids(s))
      /\ \A s : LocationsOf(s) = FlattenSeq(locs(s))
  BY Zenon DEF Ids, VerifierIds, LocationsOf, VerifierIdOf, LocationOf, ids, vids, locs
<1> QED
  BY <1>3, <1>4, <1>5, <1>6, <1>7, <1>8

-----------------------------------------------------------------------------
(***************************************************************************)
(* The invariant, of any token.                                             *)
(***************************************************************************)
BuilderRecords ==
  [identifier : Fields,
   location   : Locations \cup {None},
   signature  : { v \in Value : Size(v) = SIGNATURE_SIZE } \cup {None},
   caveats    : Seq(Caveats)]

Within ==
  /\ read \in Seq(Items)
  /\ builder \in BuilderRecords /\ Len(builder.caveats) <= MAX_CAVEATS
  /\ caveat_builder \in CaveatBuilders
  /\ seen \subseteq {"LOCATION", "IDENTIFIER", "SIGNATURE"}
  /\ outcome \in ParseErrors \cup {"Idle", "Parsing", "Ok"}

\* The values of packets are those of the caveats in b and the one in cb.
Lists(packets, b, cb) ==
  /\ ValuesOf("CID", packets) = Ids(b.caveats) \o Given(cb.id)
  /\ ValuesOf("VID", packets) = VerifierIds(b.caveats) \o Given(cb.verifier_id)
  /\ ValuesOf("CL", packets) = LocationsOf(b.caveats) \o Given(cb.location)

\* Where there is no id, there is no caveat that a field could be of.
Waiting(b, cb, keys) ==
  /\ "SIGNATURE" \notin keys /\ cb.id = None => b.caveats = << >>
  /\ "SIGNATURE" \in keys =>
       cb.id = None /\ (b.caveats # << >> => cb = NewCaveatBuilder)
  /\ b.signature # None => "SIGNATURE" \in keys

Collected ==
  Lists(read, builder, caveat_builder) /\ Waiting(builder, caveat_builder, seen)

\* The new builders are within the limits and hold nothing.
LEMMA NewBuilders ==
  /\ NewMacaroonBuilder \in BuilderRecords /\ NewMacaroonBuilder.caveats = << >>
  /\ NewCaveatBuilder \in CaveatBuilders
  /\ Given(NewCaveatBuilder.id) = << >>
  /\ Given(NewCaveatBuilder.verifier_id) = << >>
  /\ Given(NewCaveatBuilder.location) = << >>
BY DEF NewMacaroonBuilder, NewCaveatBuilder, BuilderRecords, CaveatBuilders,
       Given, Fields, TooLarge

\* No caveats and no packets have no values.
LEMMA NoValues ==
  /\ Ids(<< >>) = << >> /\ VerifierIds(<< >>) = << >> /\ LocationsOf(<< >>) = << >>
  /\ \A key : ValuesOf(key, << >>) = << >>
<1>1. FlattenSeq(<< >>) = << >>
  BY DEF FlattenSeq
<1>2. \A f : [i \in 1..Len(<< >>) |-> f[i]] = << >>
  OBVIOUS
<1>3. Ids(<< >>) = << >>
  BY DEF Ids
<1>4. VerifierIds(<< >>) = << >>
  <2> DEFINE list == [i \in 1..Len(<< >>) |->
          IF IsFirstParty(<< >>[i]) THEN << >> ELSE << << >>[i].verifier_id >>]
  <2>1. list = << >>
    OBVIOUS
  <2> HIDE DEF list
  <2>2. FlattenSeq(list) = << >>
    BY <1>1, <2>1
  <2> QED
    BY <2>2, Zenon DEF VerifierIds, list
<1>5. LocationsOf(<< >>) = << >>
  <2> DEFINE list == [i \in 1..Len(<< >>) |->
          IF IsFirstParty(<< >>[i]) THEN << >> ELSE << << >>[i].location >>]
  <2>1. list = << >>
    OBVIOUS
  <2> HIDE DEF list
  <2>2. FlattenSeq(list) = << >>
    BY <1>1, <2>1
  <2> QED
    BY <2>2, Zenon DEF LocationsOf, list
<1>6. ASSUME NEW key PROVE ValuesOf(key, << >>) = << >>
  <2> DEFINE list == [i \in 1..Len(<< >>) |->
          IF << >>[i].key = key THEN << << >>[i].value >> ELSE << >>]
  <2>1. list = << >>
    OBVIOUS
  <2> HIDE DEF list
  <2>2. FlattenSeq(list) = << >>
    BY <1>1, <2>1
  <2> QED
    BY <2>2, Zenon DEF ValuesOf, list
<1> QED
  BY <1>3, <1>4, <1>5, <1>6

\* The lists of a macaroon's caveats.
LEMMA ListTypes ==
  ASSUME NEW caveats \in Seq(Caveats)
  PROVE  /\ Ids(caveats) \in Seq(Value) /\ VerifierIds(caveats) \in Seq(Value)
         /\ LocationsOf(caveats) \in Seq(Value)
<1>1. CASE Caveats # {}
  BY <1>1, CaveatListsAppend
<1>2. CASE Caveats = {}
  <2>1. caveats = << >>
    BY <1>2
  <2>2. << >> \in Seq(Value)
    OBVIOUS
  <2> QED
    BY <2>1, <2>2, NoValues
<1> QED
  BY <1>1, <1>2

\* A packet of no caveat adds nothing to the lists.
LEMMA OtherPacket ==
  ASSUME NEW packets \in Seq(Items), NEW p \in Items, p.key \notin {"CID", "VID", "CL"},
         NEW b, NEW cb, Lists(packets, b, cb)
  PROVE  Lists(Append(packets, p), b, cb)
<1>1. ASSUME NEW key \in {"CID", "VID", "CL"}
      PROVE  ValuesOf(key, Append(packets, p)) = ValuesOf(key, packets)
  <2>1. ValueOf(key, p) = << >>
    BY DEF ValueOf
  <2>2. /\ ValuesOf(key, packets) \in Seq(Value \cup {None})
        /\ ValuesOf(key, Append(packets, p)) = ValuesOf(key, packets) \o << >>
    BY <2>1, ValuesAppend
  <2>3. ValuesOf(key, packets) \o << >> = ValuesOf(key, packets)
    BY <2>2
  <2> QED
    BY <2>2, <2>3
<1> QED
  BY <1>1 DEF Lists

\* The lists stay the same when the caveat that waits is added.
LEMMA ListsFlushed ==
  ASSUME NEW packets, NEW b \in BuilderRecords, NEW cb \in CaveatBuilders, Complete(cb),
         Lists(packets, b, cb)
  PROVE  Lists(packets, WithBuilt(b, cb), NewCaveatBuilder)
<1> DEFINE c == CaveatOf(cb)
           more == Append(b.caveats, c)
<1>1. /\ c \in Caveats /\ IdOf(c) = cb.id
      /\ VerifierIdOf(c) = Given(cb.verifier_id) /\ LocationOf(c) = Given(cb.location)
  BY CaveatFacts
<1>2. b.caveats \in Seq(Caveats)
  BY DEF BuilderRecords
<1>3. Given(cb.id) = <<cb.id>> /\ cb.id \in Value
  BY DEF Given, Complete, CaveatBuilders, Fields
<1>4. WithBuilt(b, cb).caveats = more
  <2>1. WithBuilt(b, cb) = [b EXCEPT !.caveats = more]
    BY DEF WithBuilt
  <2> HIDE DEF more
  <2> QED
    BY <2>1 DEF BuilderRecords
<1> HIDE DEF c
<1>5. /\ Ids(more) = Append(Ids(b.caveats), cb.id)
      /\ VerifierIds(more) = VerifierIds(b.caveats) \o Given(cb.verifier_id)
      /\ LocationsOf(more) = LocationsOf(b.caveats) \o Given(cb.location)
      /\ Ids(b.caveats) \in Seq(Value)
  BY <1>1, <1>2, CaveatListsAppend
<1>6. more \in Seq(Caveats)
  BY <1>1, <1>2
<1> HIDE DEF more
<1>7. /\ Ids(more) \o << >> = Ids(more)
      /\ VerifierIds(more) \o << >> = VerifierIds(more)
      /\ LocationsOf(more) \o << >> = LocationsOf(more)
  BY <1>6, ListTypes
<1>8. Ids(more) = Ids(b.caveats) \o Given(cb.id)
  <2>0. ASSUME NEW list \in Seq(Value), NEW v \in Value
        PROVE  Append(list, v) = list \o <<v>>
    OBVIOUS
  <2>1. Append(Ids(b.caveats), cb.id) = Ids(b.caveats) \o <<cb.id>>
    BY <1>3, <1>5, <2>0
  <2> QED
    BY <1>3, <1>5, <2>1
<1> QED
  BY <1>4, <1>5, <1>7, <1>8, NewBuilders DEF Lists

\* A cid, vid or cl packet adds its value to the caveat builder.
LEMMA ListsGiven ==
  ASSUME NEW packets \in Seq(Items), NEW p \in Items, p.value \in Value, p.value # None,
         NEW b \in BuilderRecords, NEW cb \in CaveatBuilders, Lists(packets, b, cb)
  PROVE  /\ p.key = "CID" /\ cb.id = None =>
              Lists(Append(packets, p), b, [cb EXCEPT !.id = p.value])
         /\ p.key = "VID" /\ cb.verifier_id = None =>
              Lists(Append(packets, p), b, [cb EXCEPT !.verifier_id = p.value])
         /\ p.key = "CL" /\ cb.location = None =>
              Lists(Append(packets, p), b, [cb EXCEPT !.location = p.value])
<1> DEFINE v == p.value
           s == Append(packets, p)
<1>1. Given(None) = << >> /\ Given(v) = <<v>>
  BY DEF Given
<1>2. ASSUME NEW key
      PROVE  /\ p.key = key => ValuesOf(key, s) = ValuesOf(key, packets) \o <<v>>
             /\ p.key # key => ValuesOf(key, s) = ValuesOf(key, packets)
  <2>1. p.key = key => ValueOf(key, p) = <<v>>
    BY DEF ValueOf
  <2>2. p.key # key => ValueOf(key, p) = << >>
    BY DEF ValueOf
  <2>3. /\ ValuesOf(key, packets) \in Seq(Value \cup {None})
        /\ ValuesOf(key, s) = ValuesOf(key, packets) \o ValueOf(key, p)
    BY ValuesAppend
  <2>4. ValuesOf(key, packets) \o << >> = ValuesOf(key, packets)
    BY <2>3
  <2> QED
    BY <2>1, <2>2, <2>3, <2>4
<1>3. ASSUME NEW list \in Seq(Value)
      PROVE  (list \o << >>) \o <<v>> = list \o <<v>>
  BY <1>3
<1>4. /\ Ids(b.caveats) \in Seq(Value) /\ VerifierIds(b.caveats) \in Seq(Value)
      /\ LocationsOf(b.caveats) \in Seq(Value)
  BY ListTypes DEF BuilderRecords
<1> HIDE DEF s, v
<1>5. ASSUME p.key = "CID", cb.id = None PROVE Lists(s, b, [cb EXCEPT !.id = v])
  <2> DEFINE new == [cb EXCEPT !.id = v]
  <2>1. new.id = v /\ new.verifier_id = cb.verifier_id /\ new.location = cb.location
    BY DEF CaveatBuilders
  <2> HIDE DEF new
  <2>2. ValuesOf("CID", s) = Ids(b.caveats) \o Given(new.id)
    <3>1. ValuesOf("CID", packets) = Ids(b.caveats) \o << >>
      BY <1>1, <1>5 DEF Lists
    <3>2. ValuesOf("CID", s) = (Ids(b.caveats) \o << >>) \o <<v>>
      BY <1>2, <1>5, <3>1
    <3> QED
      BY <1>1, <1>3, <1>4, <2>1, <3>2
  <2> QED
    BY <1>2, <1>5, <2>1, <2>2 DEF Lists, new
<1>6. ASSUME p.key = "VID", cb.verifier_id = None
      PROVE  Lists(s, b, [cb EXCEPT !.verifier_id = v])
  <2> DEFINE new == [cb EXCEPT !.verifier_id = v]
  <2>1. new.id = cb.id /\ new.verifier_id = v /\ new.location = cb.location
    BY DEF CaveatBuilders
  <2> HIDE DEF new
  <2>2. ValuesOf("VID", s) = VerifierIds(b.caveats) \o Given(new.verifier_id)
    <3>1. ValuesOf("VID", packets) = VerifierIds(b.caveats) \o << >>
      BY <1>1, <1>6 DEF Lists
    <3>2. ValuesOf("VID", s) = (VerifierIds(b.caveats) \o << >>) \o <<v>>
      BY <1>2, <1>6, <3>1
    <3> QED
      BY <1>1, <1>3, <1>4, <2>1, <3>2
  <2> QED
    BY <1>2, <1>6, <2>1, <2>2 DEF Lists, new
<1>7. ASSUME p.key = "CL", cb.location = None
      PROVE  Lists(s, b, [cb EXCEPT !.location = v])
  <2> DEFINE new == [cb EXCEPT !.location = v]
  <2>1. new.id = cb.id /\ new.verifier_id = cb.verifier_id /\ new.location = v
    BY DEF CaveatBuilders
  <2> HIDE DEF new
  <2>2. ValuesOf("CL", s) = LocationsOf(b.caveats) \o Given(new.location)
    <3>1. ValuesOf("CL", packets) = LocationsOf(b.caveats) \o << >>
      BY <1>1, <1>7 DEF Lists
    <3>2. ValuesOf("CL", s) = (LocationsOf(b.caveats) \o << >>) \o <<v>>
      BY <1>2, <1>7, <3>1
    <3> QED
      BY <1>1, <1>3, <1>4, <2>1, <3>2
  <2> QED
    BY <1>2, <1>7, <2>1, <2>2 DEF Lists, new
<1> QED
  BY <1>5, <1>6, <1>7 DEF s, v

-----------------------------------------------------------------------------
(***************************************************************************)
(* The steps, of any token.                                                 *)
(***************************************************************************)
PacketInv ==
  /\ Within
  /\ outcome \in {"Idle", "Parsing"} => Collected
  /\ CaveatsAsWritten

\* The invariant holds before the first call.
LEMMA PacketInit == Init => PacketInv
<1> SUFFICES ASSUME Init PROVE PacketInv
  OBVIOUS
<1>1. /\ read = << >> /\ builder = NewMacaroonBuilder
      /\ caveat_builder = NewCaveatBuilder /\ outcome = "Idle" /\ seen = {}
  BY DEF Init, ParserInit
<1>2. Within
  BY <1>1, NewBuilders DEF Within
<1>3. Collected
  <2>1. Lists(read, builder, caveat_builder)
    <3>1. << >> \o << >> = << >>
      OBVIOUS
    <3> QED
      BY <1>1, <3>1, NewBuilders, NoValues DEF Lists
  <2>2. builder.signature = None
    BY <1>1 DEF NewMacaroonBuilder
  <2> QED
    BY <1>1, <2>1, <2>2, NewBuilders DEF Collected, Waiting
<1> QED
  BY <1>1, <1>2, <1>3 DEF PacketInv, CaveatsAsWritten

\* What is read of a token grows by one packet.
LEMMA OneMore ==
  ASSUME Within, NEW p \in Items, Reads(p, END)
  PROVE  read \in Seq(Items) /\ read' = Append(read, p) /\ read' \in Seq(Items)
BY DEF Within, Reads

\* While the token is read, only the limits and the lists matter.
LEMMA PacketFromCollected ==
  ASSUME Within', Collected', outcome' # "Ok"
  PROVE  PacketInv'
BY DEF PacketInv, CaveatsAsWritten

\* A location packet.
LEMMA LocationCollected ==
  ASSUME PacketInv, Parsing, NEW p \in Items, Reads(p, END), Location(p)
  PROVE  PacketInv'
<1>1. Within /\ Collected /\ outcome' = "Parsing"
  BY DEF PacketInv, Parsing, Location, Accepts
<1>2. p.key = "LOCATION" /\ p.value \in Locations
  BY AcceptedPacket DEF Location, Keys
<1>3. builder \in BuilderRecords
  BY <1>1 DEF Within
<1>4. builder' = [builder EXCEPT !.location = p.value] /\ caveat_builder' = caveat_builder
      /\ seen' = seen \cup {"LOCATION"}
  BY DEF Location
<1>5. /\ builder' \in BuilderRecords /\ builder'.caveats = builder.caveats
      /\ builder'.signature = builder.signature
  BY <1>2, <1>3, <1>4 DEF BuilderRecords
<1>6. Within'
  BY <1>1, <1>4, <1>5, OneMore DEF Within
<1>7. Lists(read', builder', caveat_builder')
  <2>1. Lists(Append(read, p), builder, caveat_builder)
    BY <1>1, <1>2, OneMore, OtherPacket DEF Collected
  <2> QED
    BY <1>1, <1>4, <1>5, <2>1, OneMore DEF Lists
<1>8. Waiting(builder', caveat_builder', seen')
  BY <1>1, <1>4, <1>5 DEF Collected, Waiting
<1> QED
  BY <1>1, <1>6, <1>7, <1>8, PacketFromCollected DEF Collected

\* An identifier packet.
LEMMA IdentifierCollected ==
  ASSUME PacketInv, Parsing, NEW p \in Items, Reads(p, END), Identifier(p)
  PROVE  PacketInv'
<1>1. Within /\ Collected /\ outcome' = "Parsing"
  BY DEF PacketInv, Parsing, Identifier, Accepts
<1>2. p.key = "IDENTIFIER" /\ p.value \in Fields
  BY AcceptedPacket DEF Identifier, Keys
<1>3. builder \in BuilderRecords
  BY <1>1 DEF Within
<1>4. builder' = [builder EXCEPT !.identifier = p.value] /\ caveat_builder' = caveat_builder
      /\ seen' = seen \cup {"IDENTIFIER"}
  BY DEF Identifier
<1>5. /\ builder' \in BuilderRecords /\ builder'.caveats = builder.caveats
      /\ builder'.signature = builder.signature
  BY <1>2, <1>3, <1>4 DEF BuilderRecords
<1>6. Within'
  BY <1>1, <1>4, <1>5, OneMore DEF Within
<1>7. Lists(read', builder', caveat_builder')
  <2>1. Lists(Append(read, p), builder, caveat_builder)
    BY <1>1, <1>2, OneMore, OtherPacket DEF Collected
  <2> QED
    BY <1>1, <1>4, <1>5, <2>1, OneMore DEF Lists
<1>8. Waiting(builder', caveat_builder', seen')
  BY <1>1, <1>4, <1>5 DEF Collected, Waiting
<1> QED
  BY <1>1, <1>6, <1>7, <1>8, PacketFromCollected DEF Collected

\* Before a cid or the signature, the caveat that waits is added.
LEMMA Flushed ==
  ASSUME Within, Lists(read, builder, caveat_builder),
         HasId => Complete(caveat_builder) /\ HasRoom(builder)
  PROVE  LET b  == WithPending(builder)
             cb == IF HasId THEN NewCaveatBuilder ELSE caveat_builder
         IN  /\ b \in BuilderRecords /\ Len(b.caveats) <= MAX_CAVEATS
             /\ b.identifier = builder.identifier /\ b.location = builder.location
             /\ b.signature = builder.signature
             /\ cb \in CaveatBuilders /\ cb.id = None
             /\ HasId => cb = NewCaveatBuilder
             /\ ~HasId => b = builder /\ cb = caveat_builder
             /\ Lists(read, b, cb)
<1>1. builder \in BuilderRecords /\ caveat_builder \in CaveatBuilders
  BY DEF Within
<1>2. CASE HasId
  <2> DEFINE more == Append(builder.caveats, CaveatOf(caveat_builder))
  <2>1. CaveatOf(caveat_builder) \in Caveats
    BY <1>1, <1>2, CaveatFacts
  <2>2. more \in Seq(Caveats) /\ Len(more) <= MAX_CAVEATS
    BY <1>1, <1>2, <2>1 DEF BuilderRecords, HasRoom
  <2>3. WithBuilt(builder, caveat_builder) = [builder EXCEPT !.caveats = more]
    BY DEF WithBuilt
  <2> HIDE DEF more
  <2>4. /\ [builder EXCEPT !.caveats = more] \in BuilderRecords
        /\ [builder EXCEPT !.caveats = more].caveats = more
        /\ [builder EXCEPT !.caveats = more].identifier = builder.identifier
        /\ [builder EXCEPT !.caveats = more].location = builder.location
        /\ [builder EXCEPT !.caveats = more].signature = builder.signature
    BY <1>1, <2>2 DEF BuilderRecords
  <2>5. Lists(read, WithBuilt(builder, caveat_builder), NewCaveatBuilder)
    BY <1>1, <1>2, ListsFlushed
  <2>6. NewCaveatBuilder.id = None
    BY DEF NewCaveatBuilder
  <2>7. WithPending(builder) = WithBuilt(builder, caveat_builder)
    BY <1>2 DEF WithPending
  <2> QED
    BY <1>2, <2>2, <2>3, <2>4, <2>5, <2>6, <2>7, NewBuilders
<1>3. CASE ~HasId
  BY <1>1, <1>3 DEF WithPending, HasId, Within
<1> QED
  BY <1>2, <1>3

\* The signature.
LEMMA SignatureCollected ==
  ASSUME PacketInv, Parsing, NEW p \in Items, Reads(p, END), Signature(p)
  PROVE  PacketInv'
<1> DEFINE b == WithPending(builder)
           cb == IF HasId THEN NewCaveatBuilder ELSE caveat_builder
<1>1. Within /\ Collected /\ outcome' = "Parsing"
  BY DEF PacketInv, Parsing, Signature, Accepts
<1>2. /\ p.key = "SIGNATURE" /\ p.value \in Fields /\ Size(p.value) = SIGNATURE_SIZE
      /\ HasId => Complete(caveat_builder) /\ HasRoom(builder)
      /\ "SIGNATURE" \notin seen
  BY AcceptedPacket DEF Signature, Keys, Illegal
<1>3. /\ b \in BuilderRecords /\ Len(b.caveats) <= MAX_CAVEATS
      /\ cb \in CaveatBuilders /\ cb.id = None
      /\ HasId => cb = NewCaveatBuilder
      /\ ~HasId => b = builder /\ cb = caveat_builder
      /\ Lists(read, b, cb)
  BY <1>1, <1>2, Flushed DEF Collected
<1>4. /\ builder' = [b EXCEPT !.signature = p.value] /\ caveat_builder' = cb
      /\ seen' = seen \cup {"SIGNATURE"}
  BY DEF Signature
<1>5. ~HasId => builder.caveats = << >>
  BY <1>1, <1>2 DEF Collected, Waiting, HasId
<1> HIDE DEF b, cb
<1>6. builder' \in BuilderRecords /\ builder'.caveats = b.caveats
  BY <1>2, <1>3, <1>4 DEF BuilderRecords, Fields
<1>7. Within'
  BY <1>1, <1>3, <1>4, <1>6, OneMore DEF Within
<1>8. Lists(read', builder', caveat_builder')
  <2>1. Lists(Append(read, p), b, cb)
    BY <1>1, <1>2, <1>3, OneMore, OtherPacket
  <2> QED
    BY <1>1, <1>4, <1>6, <2>1, OneMore DEF Lists
<1>9. Waiting(builder', caveat_builder', seen')
  BY <1>3, <1>4, <1>5, <1>6 DEF Waiting
<1> QED
  BY <1>1, <1>7, <1>8, <1>9, PacketFromCollected DEF Collected

\* A cid begins a caveat.
LEMMA CidCollected ==
  ASSUME PacketInv, Parsing, NEW p \in Items, Reads(p, END), Cid(p)
  PROVE  PacketInv'
<1> DEFINE b == WithPending(builder)
           cb == IF HasId THEN NewCaveatBuilder ELSE caveat_builder
<1>1. Within /\ Collected /\ outcome' = "Parsing"
  BY DEF PacketInv, Parsing, Cid, Accepts
<1>2. /\ p.key = "CID" /\ p.value \in Fields /\ p.value # None
      /\ HasId => Complete(caveat_builder) /\ HasRoom(builder)
      /\ "SIGNATURE" \notin seen
  BY AcceptedPacket DEF Cid, Keys, Illegal
<1>3. /\ b \in BuilderRecords /\ Len(b.caveats) <= MAX_CAVEATS
      /\ b.signature = builder.signature
      /\ cb \in CaveatBuilders /\ cb.id = None
      /\ Lists(read, b, cb)
  BY <1>1, <1>2, Flushed DEF Collected
<1>4. /\ builder' = b /\ caveat_builder' = [cb EXCEPT !.id = p.value]
      /\ seen' = seen
  BY DEF Cid, WithPending
<1> HIDE DEF b, cb
<1>5. caveat_builder' \in CaveatBuilders /\ caveat_builder'.id = p.value
  BY <1>2, <1>3, <1>4 DEF CaveatBuilders
<1>6. Within'
  BY <1>1, <1>3, <1>4, <1>5, OneMore DEF Within
<1>7. Lists(read', builder', caveat_builder')
  <2>1. p.value \in Value
    BY <1>2 DEF Fields
  <2>2. Lists(Append(read, p), b, [cb EXCEPT !.id = p.value])
    BY <1>1, <1>2, <1>3, <2>1, OneMore, ListsGiven
  <2> QED
    BY <1>1, <1>4, <2>2, OneMore
<1>8. Waiting(builder', caveat_builder', seen')
  BY <1>1, <1>2, <1>3, <1>4, <1>5 DEF Collected, Waiting
<1> QED
  BY <1>1, <1>6, <1>7, <1>8, PacketFromCollected DEF Collected

\* A vid or a cl, which the caveat builder has not been given yet.
LEMMA FieldCollected ==
  ASSUME PacketInv, Parsing, NEW p \in Items, Reads(p, END), Vid(p) \/ Cl(p)
  PROVE  PacketInv'
<1>1. Within /\ Collected /\ outcome' = "Parsing"
  BY DEF PacketInv, Parsing, Vid, Cl, Accepts
<1>2. caveat_builder \in CaveatBuilders /\ builder \in BuilderRecords
  BY <1>1 DEF Within
<1>3. builder' = builder /\ seen' = seen
  BY DEF Vid, Cl
<1>4. /\ caveat_builder' \in CaveatBuilders /\ caveat_builder'.id = caveat_builder.id
      /\ Lists(Append(read, p), builder, caveat_builder')
      /\ "SIGNATURE" \notin seen
  <2>1. CASE Vid(p)
    <3>1. /\ p.key = "VID" /\ p.value \in Fields /\ p.value # None
          /\ caveat_builder.verifier_id = None /\ "SIGNATURE" \notin seen
      BY <2>1, AcceptedPacket DEF Vid, Keys, Illegal
    <3>2. caveat_builder' = [caveat_builder EXCEPT !.verifier_id = p.value]
      BY <2>1 DEF Vid
    <3>3. p.value \in Value
      BY <3>1 DEF Fields
    <3>4. Lists(Append(read, p), builder, [caveat_builder EXCEPT !.verifier_id = p.value])
      BY <1>1, <1>2, <3>1, <3>3, OneMore, ListsGiven DEF Collected
    <3>5. caveat_builder' \in CaveatBuilders /\ caveat_builder'.id = caveat_builder.id
      BY <1>2, <3>1, <3>2 DEF CaveatBuilders
    <3> QED
      BY <3>1, <3>2, <3>4, <3>5
  <2>2. CASE Cl(p)
    <3>1. /\ p.key = "CL" /\ p.value \in Locations /\ p.value # None
          /\ caveat_builder.location = None /\ "SIGNATURE" \notin seen
      BY <2>2, AcceptedPacket DEF Cl, Keys, Illegal
    <3>2. caveat_builder' = [caveat_builder EXCEPT !.location = p.value]
      BY <2>2 DEF Cl
    <3>3. p.value \in Value
      BY <3>1 DEF Fields, Locations
    <3>4. Lists(Append(read, p), builder, [caveat_builder EXCEPT !.location = p.value])
      BY <1>1, <1>2, <3>1, <3>3, OneMore, ListsGiven DEF Collected
    <3>5. caveat_builder' \in CaveatBuilders /\ caveat_builder'.id = caveat_builder.id
      BY <1>2, <3>1, <3>2 DEF CaveatBuilders
    <3> QED
      BY <3>1, <3>2, <3>4, <3>5
  <2> QED
    BY <2>1, <2>2
<1>5. Within'
  BY <1>1, <1>3, <1>4, OneMore DEF Within
<1>6. Lists(read', builder', caveat_builder')
  BY <1>1, <1>3, <1>4, OneMore
<1>7. Waiting(builder', caveat_builder', seen')
  BY <1>1, <1>3, <1>4 DEF Collected, Waiting
<1> QED
  BY <1>1, <1>5, <1>6, <1>7, PacketFromCollected DEF Collected

\* The token ends.
LEMMA BuildCollected ==
  ASSUME PacketInv, Parsing, NEW p \in Items, Reads(p, END), Build(p)
  PROVE  PacketInv'
<1>1. Within /\ Collected
  BY DEF PacketInv, Parsing
<1>2. /\ p = END /\ UNCHANGED <<builder, caveat_builder, seen>> /\ outcome' = "Ok"
      /\ builder.identifier # Empty /\ builder.signature # None
  BY DEF Build, BuildErrors
<1>3. Within'
  BY <1>1, <1>2, OneMore DEF Within
<1>4. builder \in Macaroons
  <2> DEFINE n == Len(builder.caveats)
  <2>1. builder.caveats \in Seq(Caveats) /\ n <= MAX_CAVEATS
    BY <1>1 DEF Within, BuilderRecords
  <2>2. n \in 0..MAX_CAVEATS /\ builder.caveats \in [1..n -> Caveats]
    BY <2>1
  <2> HIDE DEF n
  <2>3. builder.caveats \in UNION { [1..k -> Caveats] : k \in 0..MAX_CAVEATS }
    BY <2>2
  <2> QED
    BY <1>1, <1>2, <2>3 DEF Within, BuilderRecords, Macaroons
<1>5. /\ caveat_builder.id = None
      /\ builder.caveats # << >> => caveat_builder = NewCaveatBuilder
  BY <1>1, <1>2 DEF Collected, Waiting
<1>6. Lists(read', builder, caveat_builder)
  BY <1>1, <1>2, OneMore, OtherPacket, OtherKeys DEF Collected
<1>7. /\ Ids(builder.caveats) \o << >> = Ids(builder.caveats)
      /\ VerifierIds(builder.caveats) \o << >> = VerifierIds(builder.caveats)
      /\ LocationsOf(builder.caveats) \o << >> = LocationsOf(builder.caveats)
  BY <1>1, ListTypes DEF Within, BuilderRecords
<1>8. ValuesOf("CID", read') = Ids(builder.caveats)
  BY <1>5, <1>6, <1>7 DEF Lists, Given
<1>9. builder.caveats # << >> =>
        /\ ValuesOf("VID", read') = VerifierIds(builder.caveats)
        /\ ValuesOf("CL", read') = LocationsOf(builder.caveats)
  BY <1>5, <1>6, <1>7, NewBuilders DEF Lists
<1>10. CaveatsAsWritten'
  BY <1>2, <1>4, <1>8, <1>9 DEF CaveatsAsWritten
<1> QED
  BY <1>2, <1>3, <1>10 DEF PacketInv

\* A packet is refused.
LEMMA RefuseCollected ==
  ASSUME PacketInv, Parsing, NEW p \in Items, Reads(p, END), Refuse(p)
  PROVE  PacketInv'
<1>1. Within
  BY DEF PacketInv
<1>2. outcome' \in ParseErrors /\ UNCHANGED <<builder, caveat_builder, seen>>
  <2>1. "DeserializationError" \in ParseErrors
    BY DEF ParseErrors
  <2> QED
    BY <2>1, RefusedErrors DEF Refuse, Fail
<1>3. outcome' \notin {"Idle", "Parsing", "Ok"}
  BY <1>2 DEF ParseErrors
<1>4. Within'
  BY <1>1, <1>2, OneMore DEF Within
<1> QED
  BY <1>3, <1>4 DEF PacketInv, CaveatsAsWritten

\* A call begins, and the caller takes its result.
LEMMA CallCollected ==
  ASSUME PacketInv, (deserialize /\ UNCHANGED seen) \/ (Return /\ seen' = {})
  PROVE  PacketInv'
<1>1. CASE deserialize /\ UNCHANGED seen
  BY <1>1 DEF PacketInv, Within, Collected, CaveatsAsWritten, deserialize
<1>2. CASE Return /\ seen' = {}
  <2>1. Init'
    BY <1>2 DEF Return, Init, ParserInit
  <2>2. Init' => PacketInv'
    BY PacketInit, PTL
  <2> QED
    BY <2>1, <2>2
<1> QED
  BY <1>1, <1>2

\* Each step keeps the invariant.
LEMMA PacketNext == PacketInv /\ [Next]_vars => PacketInv'
<1> SUFFICES ASSUME PacketInv, [Next]_vars PROVE PacketInv'
  OBVIOUS
<1>1. CASE (deserialize /\ UNCHANGED seen) \/ (Return /\ seen' = {})
  BY <1>1, CallCollected
<1>2. ASSUME Parsing, NEW p \in Items, Step(p) PROVE PacketInv'
  <2>1. Reads(p, END)
    BY <1>2 DEF Step
  <2> QED
    BY <1>2, <2>1, LocationCollected, IdentifierCollected, SignatureCollected,
       CidCollected, FieldCollected, BuildCollected, RefuseCollected DEF Step
<1>3. CASE UNCHANGED vars
  BY <1>3
  DEF vars, parserVars, PacketInv, Within, Collected, CaveatsAsWritten
<1> QED
  BY <1>1, <1>2, <1>3 DEF Next

-----------------------------------------------------------------------------
(***************************************************************************)
(* What the serializer writes.                                              *)
(***************************************************************************)
LocationPacket(m) == Packet("LOCATION", m.location)
IdentifierPacket(m) == Packet("IDENTIFIER", m.identifier)
SignaturePacket(m) == Packet("SIGNATURE", m.signature)

Preamble(m) ==
  (IF m.location = None THEN << >> ELSE <<LocationPacket(m)>>) \o <<IdentifierPacket(m)>>

CaveatPackets(caveats) ==
  FlattenSeq([i \in 1..Len(caveats) |-> PacketsOfCaveat(caveats[i])])

AnyPacket == [key : Keys, value : Value]

\* The first n caveats.
First(m, n) == SubSeq(m.caveats, 1, n)

\* The number of packets before those of the caveat after the n-th.
Before(m, n) == Len(Preamble(m)) + Len(CaveatPackets(First(m, n)))

\* The caveats within the limits are of two kinds.
LEMMA CaveatKinds ==
  ASSUME NEW c \in Caveats
  PROVE  \/ /\ IsFirstParty(c) /\ c = FirstParty(c.predicate) /\ c.predicate \in Fields
         \/ /\ ~IsFirstParty(c) /\ c = ThirdParty(c.id, c.verifier_id, c.location)
            /\ c.id \in Fields /\ c.verifier_id \in Fields /\ c.location \in Locations
<1>1. CASE \E p \in Fields : c = FirstParty(p)
  BY <1>1 DEF FirstParty, IsFirstParty
<1>2. CASE \E i \in Fields, v \in Fields, l \in Locations : c = ThirdParty(i, v, l)
  <2>1. PICK i \in Fields, v \in Fields, l \in Locations : c = ThirdParty(i, v, l)
    BY <1>2
  <2>2. ~IsFirstParty(c) /\ c.id = i /\ c.verifier_id = v /\ c.location = l
    BY <2>1 DEF ThirdParty, IsFirstParty
  <2> QED
    BY <2>1, <2>2
<1> QED
  BY <1>1, <1>2 DEF Caveats

\* The packets of a caveat.
LEMMA PacketsOfCaveatFacts ==
  ASSUME NEW c \in Caveats
  PROVE  /\ PacketsOfCaveat(c) \in Seq(AnyPacket)
         /\ PacketsOfCaveat(c)[1] = Packet("CID", IdOf(c))
         /\ IsFirstParty(c) => Len(PacketsOfCaveat(c)) = 1
         /\ ~IsFirstParty(c) =>
              /\ Len(PacketsOfCaveat(c)) = 3
              /\ PacketsOfCaveat(c)[2] = Packet("VID", c.verifier_id)
              /\ PacketsOfCaveat(c)[3] = Packet("CL", c.location)
<1>1. \A key \in {"CID", "VID", "CL"}, v \in Value : Packet(key, v) \in AnyPacket
  BY DEF Packet, AnyPacket, Keys
<1>2. CASE IsFirstParty(c) /\ c.predicate \in Fields
  <2>1. PacketsOfCaveat(c) = <<Packet("CID", c.predicate)>> /\ IdOf(c) = c.predicate
    BY <1>2 DEF PacketsOfCaveat, IdOf
  <2>2. Packet("CID", c.predicate) \in AnyPacket
    BY <1>1, <1>2 DEF Fields
  <2> QED
    BY <1>2, <2>1, <2>2
<1>3. CASE ~IsFirstParty(c) /\ c.id \in Fields /\ c.verifier_id \in Fields
           /\ c.location \in Locations
  <2>1. /\ PacketsOfCaveat(c) = <<Packet("CID", c.id), Packet("VID", c.verifier_id),
                                   Packet("CL", c.location)>>
        /\ IdOf(c) = c.id
    BY <1>3 DEF PacketsOfCaveat, IdOf
  <2>2. /\ Packet("CID", c.id) \in AnyPacket /\ Packet("VID", c.verifier_id) \in AnyPacket
        /\ Packet("CL", c.location) \in AnyPacket
    BY <1>1, <1>3 DEF Fields, Locations
  <2> QED
    BY <1>3, <2>1, <2>2
<1> QED
  BY <1>2, <1>3, CaveatKinds

\* One caveat more.
LEMMA CaveatPacketsAppend ==
  ASSUME NEW caveats \in Seq(Caveats), NEW c \in Caveats
  PROVE  /\ CaveatPackets(caveats) \in Seq(AnyPacket)
         /\ CaveatPackets(Append(caveats, c)) = CaveatPackets(caveats) \o PacketsOfCaveat(c)
<1> DEFINE all(s) == [i \in 1..Len(s) |-> PacketsOfCaveat(s[i])]
           t == PacketsOfCaveat(c)
<1>1. \A x \in Caveats : PacketsOfCaveat(x) \in Seq(AnyPacket)
  BY PacketsOfCaveatFacts
<1>2. /\ Len(Append(caveats, c)) = Len(caveats) + 1
      /\ Len(caveats) \in Nat
      /\ \A i \in 1..Len(caveats) : Append(caveats, c)[i] = caveats[i]
      /\ \A i \in 1..Len(caveats) : caveats[i] \in Caveats
      /\ Append(caveats, c)[Len(caveats) + 1] = c
  OBVIOUS
<1>3. all(caveats) \in Seq(Seq(AnyPacket)) /\ t \in Seq(AnyPacket)
  <2>1. \A i \in 1..Len(caveats) : PacketsOfCaveat(caveats[i]) \in Seq(AnyPacket)
    BY <1>1, <1>2
  <2> QED
    BY <1>1, <1>2, <2>1
<1>4. all(Append(caveats, c)) = Append(all(caveats), t)
  BY <1>2, <1>3
<1> HIDE DEF all, t
<1>5. /\ FlattenSeq(all(caveats)) \in Seq(AnyPacket)
      /\ FlattenSeq(Append(all(caveats), t)) = FlattenSeq(all(caveats)) \o t
  BY <1>3, FlattenAppend
<1>6. \A s : CaveatPackets(s) = FlattenSeq(all(s))
  BY Zenon DEF CaveatPackets, all
<1> QED
  BY <1>4, <1>5, <1>6 DEF t

\* The caveats of a macaroon, and the first of them.
LEMMA FirstFacts ==
  ASSUME NEW m \in Macaroons
  PROVE  /\ m.caveats \in Seq(Caveats) /\ Len(m.caveats) \in 0..MAX_CAVEATS
         /\ \A j \in 1..Len(m.caveats) : m.caveats[j] \in Caveats
         /\ \A j \in 0..Len(m.caveats) :
              First(m, j) \in Seq(Caveats) /\ Len(First(m, j)) = j
         /\ First(m, 0) = << >> /\ First(m, Len(m.caveats)) = m.caveats
         /\ \A j \in 0..(Len(m.caveats) - 1) :
              First(m, j + 1) = Append(First(m, j), m.caveats[j + 1])
<1>1. PICK n \in 0..MAX_CAVEATS : m.caveats \in [1..n -> Caveats]
  BY DEF Macaroons
<1> DEFINE cs == m.caveats
<1>2. cs \in Seq(Caveats) /\ Len(cs) \in 0..MAX_CAVEATS /\ Len(cs) \in Nat
  BY <1>1
<1> HIDE DEF cs
<1>3. \A j \in 0..Len(cs) : SubSeq(cs, 1, j) \in Seq(Caveats) /\ Len(SubSeq(cs, 1, j)) = j
  BY <1>2
<1>4. SubSeq(cs, 1, 0) = << >> /\ SubSeq(cs, 1, Len(cs)) = cs
  BY <1>2
<1>5. ASSUME NEW j \in 0..(Len(cs) - 1)
      PROVE  SubSeq(cs, 1, j + 1) = Append(SubSeq(cs, 1, j), cs[j + 1])
  BY <1>2
<1>6. \A j \in 1..Len(cs) : cs[j] \in Caveats
  BY <1>2
<1> QED
  BY <1>2, <1>3, <1>4, <1>5, <1>6 DEF cs, First

\* The packets of the first caveats come first.
LEMMA FirstPackets ==
  ASSUME NEW m \in Macaroons, NEW j \in 0..Len(m.caveats)
  PROVE  /\ CaveatPackets(First(m, j)) \in Seq(AnyPacket)
         /\ IsStart(CaveatPackets(First(m, j)), CaveatPackets(m.caveats))
<1> DEFINE n == Len(m.caveats)
           P(k) == CaveatPackets(First(m, k))
           X == { k \in Nat : j + k <= n => IsStart(P(j), P(j + k)) }
<1>1. n \in Nat
  BY FirstFacts
<1>2. \A k \in 0..n : P(k) \in Seq(AnyPacket)
  <2>1. CASE Caveats # {}
    BY <2>1, FirstFacts, CaveatPacketsAppend
  <2>2. CASE Caveats = {}
    <3>1. n = 0 /\ First(m, 0) = << >>
      BY <2>2, FirstFacts
    <3>2. CaveatPackets(<< >>) = << >>
      <4> DEFINE list == [i \in 1..Len(<< >>) |-> PacketsOfCaveat(<< >>[i])]
      <4>1. list = << >>
        OBVIOUS
      <4> HIDE DEF list
      <4>2. FlattenSeq(list) = << >>
        BY <4>1 DEF FlattenSeq
      <4> QED
        BY <4>2, Zenon DEF CaveatPackets, list
    <3>3. << >> \in Seq(AnyPacket)
      OBVIOUS
    <3>4. P(0) \in Seq(AnyPacket)
      BY <3>1, <3>2, <3>3
    <3> HIDE DEF P
    <3> QED
      BY <3>1, <3>4
  <2> QED
    BY <2>1, <2>2
<1>3. 0 \in X
  <2>1. j + 0 = j
    BY <1>1
  <2>2. P(j) \in Seq(AnyPacket)
    BY <1>2
  <2>3. IsStart(P(j), P(j))
    BY <2>2 DEF IsStart
  <2> QED
    BY <2>1, <2>3
<1>4. ASSUME NEW k \in Nat, k \in X PROVE k + 1 \in X
  <2> SUFFICES ASSUME j + (k + 1) <= n PROVE IsStart(P(j), P(j + (k + 1)))
    OBVIOUS
  <2> DEFINE i == j + k
             c == m.caveats[i + 1]
  <2>1. /\ i \in 0..(n - 1) /\ i \in 0..n /\ i + 1 \in 1..n /\ j + (k + 1) = i + 1
        /\ j + k <= n
    BY <1>1
  <2>2. IsStart(P(j), P(i))
    BY <1>4, <2>1
  <2> HIDE DEF i
  <2>3. c \in Caveats /\ First(m, i) \in Seq(Caveats) /\ First(m, i + 1) = Append(First(m, i), c)
    BY <2>1, FirstFacts
  <2> HIDE DEF c, P
  <2>4. P(i + 1) = P(i) \o PacketsOfCaveat(c)
    BY <2>3, CaveatPacketsAppend DEF P
  <2>5. PacketsOfCaveat(c) \in Seq(AnyPacket)
    BY <2>3, PacketsOfCaveatFacts
  <2>6. P(i) \in Seq(AnyPacket) /\ P(j) \in Seq(AnyPacket)
    BY <1>2, <2>1
  <2>7. IsStart(P(i), P(i + 1))
    BY <2>4, <2>5, <2>6 DEF IsStart
  <2>8. IsStart(P(j), P(i + 1))
    BY <2>2, <2>6, <2>7 DEF IsStart
  <2> QED
    BY <2>1, <2>8
<1> HIDE DEF X
<1>5. Nat \subseteq X
  BY <1>3, <1>4, Induction
<1>6. n - j \in Nat /\ j + (n - j) = n
  BY <1>1
<1>7. IsStart(P(j), P(n))
  <2> DEFINE k == n - j
  <2>1. k \in Nat /\ k \in X /\ j + k = n
    BY <1>5, <1>6
  <2> HIDE DEF k
  <2>2. IsStart(P(j), P(j + k))
    BY <1>1, <2>1 DEF X
  <2> QED
    BY <2>1, <2>2
<1>8. First(m, n) = m.caveats
  BY FirstFacts
<1> QED
  BY <1>2, <1>7, <1>8

\* A packet that is not too long is written as it is.
LEMMA WrittenFacts ==
  ASSUME NEW p \in AnyPacket, ~TooLong(p)
  PROVE  Written(p) = p /\ p \in Items
<1> DEFINE size == PacketSize(p.key, p.value)
           W == MAX_PACKET_SIZE + 1
           q == size \div W
           r == size % W
<1>1. p.key \in Keys /\ p.value \in Value /\ p = Packet(p.key, p.value)
  BY DEF AnyPacket, Packet
<1>2. size \in Nat /\ W \in Nat \ {0} /\ size < W
  BY <1>1, PacketAssumption DEF TooLong, PacketSize, HEADER_SIZE
<1>3. p \in Items
  BY <1>1, <1>2, PacketAssumption DEF Items, TooLong
<1> HIDE DEF size, W
<1>4. q \in Nat /\ r \in 0..(W - 1) /\ size = q * W + r
  BY <1>2
<1>5. r = size
  <2> HIDE DEF q, r
  <2>1. ASSUME q # 0 PROVE FALSE
    <3>1. q * W >= W
      BY <1>2, <1>4, <2>1
    <3> QED
      BY <1>2, <1>4, <3>1
  <2>2. q = 0 => q * W = 0
    BY <1>2
  <2> QED
    BY <1>2, <1>4, <2>1, <2>2
<1>6. Written(p) = p
  BY <1>5 DEF Written, size, W
<1> QED
  BY <1>3, <1>6

\* How an encoding is laid out.
LEMMA Layout ==
  ASSUME NEW m \in SerializableMacaroons
  PROVE  LET n == Len(m.caveats)
             e == Encode(m)
         IN  /\ e \in Seq(Items)
             /\ \A j \in 0..n : Before(m, j) \in Nat
             /\ \A j \in 0..(n - 1) :
                  LET c == PacketsOfCaveat(m.caveats[j + 1])
                  IN  /\ Before(m, j + 1) = Before(m, j) + Len(c)
                      /\ \A i \in 1..Len(c) : e[Before(m, j) + i] = c[i]
             /\ m.location = None => e[1] = IdentifierPacket(m) /\ Before(m, 0) = 1
             /\ m.location # None => /\ e[1] = LocationPacket(m)
                                     /\ e[2] = IdentifierPacket(m) /\ Before(m, 0) = 2
             /\ Len(e) = Before(m, n) + 2
             /\ e[Before(m, n) + 1] = SignaturePacket(m)
             /\ e[Before(m, n) + 2] = END
<1> DEFINE n == Len(m.caveats)
           e == Encode(m)
           A == Preamble(m)
           F == CaveatPackets(m.caveats)
           P == PacketsOf(m)
           Pre(j) == CaveatPackets(First(m, j))
<1>1. m \in Macaroons /\ Serializes(m)
  BY DEF SerializableMacaroons
<1>2. /\ m.caveats \in Seq(Caveats) /\ n \in Nat /\ First(m, n) = m.caveats
      /\ First(m, 0) = << >>
  BY <1>1, FirstFacts
<1>3. /\ m.identifier \in Value /\ m.signature \in Value
      /\ m.location # None => m.location \in Value
  BY <1>1 DEF Macaroons, Fields, Locations
<1>4. /\ IdentifierPacket(m) \in AnyPacket /\ SignaturePacket(m) \in AnyPacket
      /\ m.location # None => LocationPacket(m) \in AnyPacket
  BY <1>3 DEF IdentifierPacket, SignaturePacket, LocationPacket, Packet, AnyPacket, Keys
<1>5. /\ A \in Seq(AnyPacket)
      /\ m.location = None => Len(A) = 1 /\ A[1] = IdentifierPacket(m)
      /\ m.location # None =>
           Len(A) = 2 /\ A[1] = LocationPacket(m) /\ A[2] = IdentifierPacket(m)
  <2>1. CASE m.location = None
    <3>1. A = << >> \o <<IdentifierPacket(m)>>
      BY <2>1 DEF Preamble
    <3>2. << >> \o <<IdentifierPacket(m)>> = <<IdentifierPacket(m)>>
      BY <1>4
    <3> HIDE DEF A
    <3> QED
      BY <1>4, <2>1, <3>1, <3>2
  <2>2. CASE m.location # None
    <3> DEFINE x == LocationPacket(m)
               y == IdentifierPacket(m)
    <3>1. A = <<x>> \o <<y>>
      BY <2>2 DEF Preamble
    <3>2. x \in AnyPacket /\ y \in AnyPacket
      BY <1>4, <2>2
    <3> HIDE DEF A, x, y
    <3>3. Len(A) = 2 /\ A[1] = x /\ A[2] = y /\ A \in Seq(AnyPacket)
      BY <3>1, <3>2
    <3> QED
      BY <2>2, <3>3 DEF x, y
  <2> QED
    BY <2>1, <2>2
<1>6. /\ F \in Seq(AnyPacket)
      /\ \A j \in 0..n : Pre(j) \in Seq(AnyPacket) /\ IsStart(Pre(j), F)
      /\ Pre(n) = F
  <2>1. \A j \in 0..n : Pre(j) \in Seq(AnyPacket) /\ IsStart(Pre(j), F)
    BY <1>1, FirstPackets
  <2>2. n \in 0..n
    BY <1>2
  <2> QED
    BY <1>2, <2>1, <2>2
<1>7. P = (A \o F) \o <<SignaturePacket(m)>>
  BY Zenon DEF PacketsOf, Preamble, CaveatPackets, SignaturePacket, IdentifierPacket,
     LocationPacket
<1>8. Pre(0) = << >>
  <2> DEFINE list == [i \in 1..Len(<< >>) |-> PacketsOfCaveat(<< >>[i])]
  <2>1. list = << >>
    OBVIOUS
  <2> HIDE DEF list
  <2>2. FlattenSeq(list) = << >>
    BY <2>1 DEF FlattenSeq
  <2>3. CaveatPackets(<< >>) = << >>
    BY <2>2, Zenon DEF CaveatPackets, list
  <2> QED
    BY <1>2, <2>3
<1> HIDE DEF A, F, P
<1> DEFINE front == A \o F
<1>9. /\ front \in Seq(AnyPacket) /\ Len(front) = Len(A) + Len(F)
      /\ \A i \in 1..Len(A) : front[i] = A[i]
      /\ \A i \in 1..Len(F) : front[Len(A) + i] = F[i]
  BY <1>5, <1>6
<1> HIDE DEF front
<1> DEFINE sig == SignaturePacket(m)
<1> HIDE DEF sig
<1>10. P = Append(front, sig)
  <2>1. sig \in AnyPacket
    BY <1>4 DEF sig
  <2>2. front \o <<sig>> = Append(front, sig)
    BY <1>9, <2>1
  <2> QED
    BY <1>7, <2>2, Zenon DEF front, sig
<1>11. /\ P \in Seq(AnyPacket) /\ Len(P) = Len(front) + 1 /\ P[Len(front) + 1] = sig
       /\ \A i \in 1..Len(front) : P[i] = front[i]
  <2>1. sig \in AnyPacket
    BY <1>4 DEF sig
  <2> QED
    BY <1>9, <1>10, <2>1
<1>12. \A i \in 1..Len(P) : Written(P[i]) = P[i] /\ P[i] \in Items
  <2>1. \A i \in 1..Len(P) : ~TooLong(P[i])
    BY <1>1 DEF Serializes, P
  <2>2. \A i \in 1..Len(P) : P[i] \in AnyPacket
    BY <1>11
  <2> QED
    BY <2>1, <2>2, WrittenFacts
<1> DEFINE w == [i \in 1..Len(P) |-> Written(P[i])]
<1>13. w = P
  BY <1>11, <1>12
<1>14. e = w \o <<END>>
  BY Zenon DEF Encode, P
<1> HIDE DEF w, e
<1>15. P \in Seq(Items) /\ END \in Items
  <2>1. P \in [1..Len(P) -> Items] /\ Len(P) \in Nat
    BY <1>11, <1>12
  <2> QED
    BY <2>1, OtherKeys
<1>16. /\ e \in Seq(Items) /\ Len(e) = Len(P) + 1 /\ e[Len(P) + 1] = END
       /\ \A i \in 1..Len(P) : e[i] = P[i]
  <2>1. e = P \o <<END>>
    BY <1>13, <1>14
  <2> QED
    BY <1>15, <2>1
<1>17. /\ Len(A) \in Nat /\ Len(F) \in Nat /\ Len(front) = Len(A) + Len(F)
       /\ Len(P) = Len(A) + Len(F) + 1
       /\ Len(e) = Len(A) + Len(F) + 2
  BY <1>5, <1>6, <1>9, <1>11, <1>16
<1>171. ASSUME NEW i \in 1..Len(A) PROVE e[i] = A[i]
  <2>1. i \in 1..Len(front) /\ i \in 1..Len(P)
    BY <1>17
  <2> QED
    BY <1>9, <1>11, <1>16, <2>1
<1>172. ASSUME NEW i \in 1..Len(F) PROVE e[Len(A) + i] = F[i]
  <2> DEFINE x == Len(A) + i
  <2>1. x \in 1..Len(front) /\ x \in 1..Len(P)
    BY <1>17
  <2>2. front[x] = F[i]
    BY <1>9
  <2> HIDE DEF x
  <2>3. e[x] = F[i]
    BY <1>11, <1>16, <2>1, <2>2
  <2> QED
    BY <2>3 DEF x
<1>173. e[Len(A) + Len(F) + 1] = sig
  <2>1. Len(front) + 1 \in 1..Len(P) /\ Len(front) + 1 = Len(A) + Len(F) + 1
    BY <1>17
  <2>2. P[Len(front) + 1] = sig /\ e[Len(front) + 1] = P[Len(front) + 1]
    BY <1>11, <1>16, <2>1
  <2> QED
    BY <2>1, <2>2
<1>174. e[Len(A) + Len(F) + 2] = END
  <2>1. Len(P) + 1 = Len(A) + Len(F) + 2
    BY <1>17
  <2> QED
    BY <1>16, <2>1
<1> HIDE DEF Pre
<1>18. ASSUME NEW j \in 0..n
       PROVE  Before(m, j) = Len(A) + Len(Pre(j)) /\ Len(Pre(j)) \in Nat
  <2>1. Len(Pre(j)) \in Nat
    BY <1>6
  <2>2. Before(m, j) = Len(A) + Len(Pre(j))
    BY Zenon DEF Before, A, Pre
  <2> QED
    BY <2>1, <2>2
<1>19. ASSUME NEW j \in 0..(n - 1)
       PROVE  LET c == PacketsOfCaveat(m.caveats[j + 1])
              IN  /\ Before(m, j + 1) = Before(m, j) + Len(c)
                  /\ \A i \in 1..Len(c) : e[Before(m, j) + i] = c[i]
  <2> DEFINE c == m.caveats[j + 1]
             t == PacketsOfCaveat(c)
             k == j + 1
  <2>1. /\ j \in 0..n /\ k \in 0..n /\ k \in 1..n
    BY <1>2
  <2>2. /\ First(m, j) \in Seq(Caveats) /\ c \in Caveats
        /\ First(m, k) = Append(First(m, j), c)
    BY <1>1, <2>1, FirstFacts
  <2> HIDE DEF k, c
  <2>3. Pre(k) = Pre(j) \o t
    BY <2>2, CaveatPacketsAppend DEF Pre
  <2>4. t \in Seq(AnyPacket)
    BY <2>2, PacketsOfCaveatFacts
  <2> HIDE DEF t
  <2>5. Pre(j) \in Seq(AnyPacket) /\ Pre(k) \in Seq(AnyPacket) /\ IsStart(Pre(k), F)
    BY <1>6, <2>1
  <2>6. /\ Len(Pre(k)) = Len(Pre(j)) + Len(t) /\ Len(t) \in Nat
        /\ \A i \in 1..Len(t) : Pre(k)[Len(Pre(j)) + i] = t[i]
    BY <2>3, <2>4, <2>5
  <2> DEFINE f == Len(Pre(j))
             g == Len(Pre(k))
             a == Len(A)
             l == Len(t)
  <2>9. /\ Before(m, j) = a + f /\ Before(m, k) = a + g
        /\ f \in Nat /\ g \in Nat /\ a \in Nat /\ l \in Nat /\ g = f + l
    BY <1>17, <1>18, <2>1, <2>6
  <2> HIDE DEF f, g, a, l
  <2>7. Before(m, k) = Before(m, j) + l
    BY <2>9
  <2>8. ASSUME NEW i \in 1..l PROVE e[Before(m, j) + i] = t[i]
    <3> DEFINE x == f + i
    <3>0. i \in Nat /\ i >= 1 /\ i <= l
      BY <2>9
    <3>1. x \in 1..g /\ Before(m, j) + i = a + x
      <4>1. x \in 1..g
        BY <2>9, <3>0
      <4>2. (a + f) + i = a + (f + i)
        BY <2>9, <3>0
      <4> QED
        BY <2>9, <4>1, <4>2
    <3>3. Pre(k)[x] = t[i]
      BY <2>6 DEF f, l
    <3> HIDE DEF x
    <3>4. F[x] = Pre(k)[x] /\ x \in 1..Len(F)
      <4> DEFINE p == Pre(k)
                 all == Len(F)
      <4>1. x \in 1..Len(p) /\ IsStart(p, F) /\ Len(p) \in Nat /\ all \in Nat
        BY <1>17, <2>5, <2>9, <3>1 DEF g
      <4> HIDE DEF p
      <4>2. p[x] = F[x]
        BY <4>1, Zenon DEF IsStart
      <4>3. Len(p) <= all
        BY <4>1, Zenon DEF IsStart
      <4> HIDE DEF all
      <4>4. x \in 1..all
        BY <4>1, <4>3
      <4> QED
        BY <4>2, <4>4 DEF p, all
    <3> QED
      BY <1>172, <3>1, <3>3, <3>4 DEF a
  <2> QED
    BY <2>7, <2>8 DEF k, c, t, l
<1>20. Before(m, 0) = Len(A) /\ Before(m, n) = Len(A) + Len(F)
  <2>1. 0 \in 0..n /\ n \in 0..n
    BY <1>2
  <2>2. Len(Pre(0)) = 0
    BY <1>8
  <2>3. Pre(n) = F
    BY <1>6
  <2>4. Before(m, 0) = Len(A) + 0
    BY <1>18, <2>1, <2>2
  <2>5. Before(m, n) = Len(A) + Len(F)
    BY <1>18, <2>1, <2>3
  <2> QED
    BY <1>17, <2>4, <2>5
<1>21. \A j \in 0..n : Before(m, j) \in Nat
  BY <1>17, <1>18
<1>22. /\ m.location = None => e[1] = IdentifierPacket(m) /\ Before(m, 0) = 1
       /\ m.location # None => /\ e[1] = LocationPacket(m)
                               /\ e[2] = IdentifierPacket(m) /\ Before(m, 0) = 2
  BY <1>5, <1>171, <1>20
<1>23. /\ Len(e) = Before(m, n) + 2 /\ e[Before(m, n) + 1] = SignaturePacket(m)
       /\ e[Before(m, n) + 2] = END
  BY <1>17, <1>173, <1>174, <1>20 DEF sig
<1> QED
  BY <1>16, <1>19, <1>21, <1>22, <1>23 DEF e

-----------------------------------------------------------------------------
(***************************************************************************)
(* How the packets of an encoding are read.                                 *)
(***************************************************************************)
KeysOf(m) ==
  IF m.location = None THEN {"IDENTIFIER"} ELSE {"LOCATION", "IDENTIFIER"}

\* The caveat builder with the first i packets of a caveat, and with all.
Partly(c, i) ==
  [id          |-> IdOf(c),
   verifier_id |-> IF IsFirstParty(c) \/ i < 2 THEN None ELSE c.verifier_id,
   location    |-> IF IsFirstParty(c) \/ i < 3 THEN None ELSE c.location]

Held(c) == Partly(c, 3)

\* The macaroon builder with the first j caveats.
Begun(m, j) ==
  [identifier |-> m.identifier, location |-> m.location, signature |-> None,
   caveats |-> First(m, j)]

\* The last of the first j caveats is still in the caveat builder.
Between(m, j, b, cb) ==
  \/ j = 0 /\ b = Begun(m, 0) /\ cb = NewCaveatBuilder
  \/ j > 0 /\ b = Begun(m, j - 1) /\ cb = Held(m.caveats[j])

Inside(m, j, i, b, cb) ==
  ~IsFirstParty(m.caveats[j + 1]) /\ b = Begun(m, j) /\ cb = Partly(m.caveats[j + 1], i)

\* The builders after the first k packets of what m is written as.
At(m, k, b, cb, keys) ==
  \/ k = 0 /\ b = NewMacaroonBuilder /\ cb = NewCaveatBuilder /\ keys = {}
  \/ /\ m.location # None
     /\ k = 1 /\ b = [NewMacaroonBuilder EXCEPT !.location = m.location]
     /\ cb = NewCaveatBuilder /\ keys = {"LOCATION"}
  \/ \E j \in 0..Len(m.caveats) :
       k = Before(m, j) /\ Between(m, j, b, cb) /\ keys = KeysOf(m)
  \/ \E j \in 0..(Len(m.caveats) - 1) : \E i \in {1, 2} :
       k = Before(m, j) + i /\ Inside(m, j, i, b, cb) /\ keys = KeysOf(m)
  \/ /\ k = Before(m, Len(m.caveats)) + 1
     /\ b = m /\ cb = NewCaveatBuilder /\ keys = KeysOf(m) \cup {"SIGNATURE"}

Begins(s, m) == IsStart(s, Encode(m))

\* While an encoding is read, the builders hold what was written; it is
\* accepted as the macaroon that was written, and never refused.
Walk ==
  /\ outcome \in {"Idle", "Parsing"} =>
       \A m \in SerializableMacaroons :
         Begins(read, m) => At(m, Len(read), builder, caveat_builder, seen)
  /\ outcome = "Ok" =>
       \A m \in SerializableMacaroons : read = Encode(m) => builder = m
  /\ outcome \in ParseErrors => \A m \in SerializableMacaroons : ~Begins(read, m)

\* A packet that is not refused is read by the step of its key.
LEMMA Dispatch ==
  ASSUME NEW p \in Items, Step(p), p.key \in Keys, PacketErrors(p) = {}
  PROVE  /\ outcome' = outcome
         /\ p.key = "LOCATION" => Location(p)
         /\ p.key = "IDENTIFIER" => Identifier(p)
         /\ p.key = "SIGNATURE" => Signature(p)
         /\ p.key = "CID" => Cid(p)
         /\ p.key = "VID" => Vid(p)
         /\ p.key = "CL" => Cl(p)
<1>1. p # END
  BY OtherKeys
<1>2. ~Build(p) /\ ~Refuse(p)
  BY <1>1 DEF Build, Refuse
<1>3. \/ Location(p) \/ Identifier(p) \/ Signature(p) \/ Cid(p) \/ Vid(p) \/ Cl(p)
  BY <1>2 DEF Step
<1>4. /\ Location(p) => p.key = "LOCATION" /\ outcome' = outcome
      /\ Identifier(p) => p.key = "IDENTIFIER" /\ outcome' = outcome
      /\ Signature(p) => p.key = "SIGNATURE" /\ outcome' = outcome
      /\ Cid(p) => p.key = "CID" /\ outcome' = outcome
      /\ Vid(p) => p.key = "VID" /\ outcome' = outcome
      /\ Cl(p) => p.key = "CL" /\ outcome' = outcome
  BY DEF Location, Identifier, Signature, Cid, Vid, Cl, Accepts
<1> QED
  BY <1>3, <1>4

\* The builder of a whole caveat is complete and makes that caveat.
LEMMA HeldFacts ==
  ASSUME NEW c \in Caveats
  PROVE  Held(c).id # None /\ Complete(Held(c)) /\ CaveatOf(Held(c)) = c
<1>1. CASE /\ IsFirstParty(c) /\ c = FirstParty(c.predicate) /\ c.predicate \in Fields
  <2>1. /\ Held(c).id = c.predicate /\ Held(c).verifier_id = None
        /\ Held(c).location = None
    BY <1>1 DEF Held, Partly, IdOf
  <2>2. c.predicate # None
    BY <1>1 DEF Fields
  <2> QED
    BY <1>1, <2>1, <2>2 DEF Complete, CaveatOf
<1>2. CASE /\ ~IsFirstParty(c) /\ c = ThirdParty(c.id, c.verifier_id, c.location)
           /\ c.id \in Fields /\ c.verifier_id \in Fields /\ c.location \in Locations
  <2>1. /\ Held(c).id = c.id /\ Held(c).verifier_id = c.verifier_id
        /\ Held(c).location = c.location
    BY <1>2 DEF Held, Partly, IdOf
  <2>2. c.id # None /\ c.verifier_id # None /\ c.location # None
    BY <1>2 DEF Fields, Locations
  <2> QED
    BY <1>2, <2>1, <2>2 DEF Complete, CaveatOf
<1> QED
  BY <1>1, <1>2, CaveatKinds

\* Between two caveats, the caveat that is waiting is not refused, and adding
\* it leaves the macaroon begun with all caveats so far.
LEMMA PendingAdded ==
  ASSUME NEW m \in Macaroons, NEW j \in 0..Len(m.caveats),
         Between(m, j, builder, caveat_builder)
  PROVE  /\ HasId => CaveatErrors(builder, caveat_builder) = {}
         /\ WithPending(builder) = Begun(m, j)
         /\ ~HasId => caveat_builder = NewCaveatBuilder
<1>1. CASE j = 0 /\ builder = Begun(m, 0) /\ caveat_builder = NewCaveatBuilder
  <2>1. ~HasId
    BY <1>1 DEF HasId, NewCaveatBuilder
  <2> QED
    BY <1>1, <2>1 DEF WithPending
<1>2. CASE j > 0 /\ builder = Begun(m, j - 1) /\ caveat_builder = Held(m.caveats[j])
  <2> DEFINE i == j - 1
             c == m.caveats[j]
  <2>1. /\ i \in 0..(Len(m.caveats) - 1) /\ i \in 0..Len(m.caveats) /\ j = i + 1
        /\ j \in 1..Len(m.caveats) /\ i < MAX_CAVEATS
    BY <1>2, FirstFacts
  <2>2. /\ c \in Caveats /\ First(m, j) = Append(First(m, i), c)
        /\ Len(First(m, i)) = i
    BY <2>1, FirstFacts
  <2>3. HasId /\ Complete(caveat_builder) /\ CaveatOf(caveat_builder) = c
    BY <1>2, <2>2, HeldFacts DEF HasId
  <2> HIDE DEF i, c
  <2>4. builder = Begun(m, i)
    BY <1>2 DEF i
  <2>5. builder.caveats = First(m, i)
    BY <2>4 DEF Begun
  <2>6. HasRoom(builder)
    BY <2>1, <2>2, <2>5 DEF HasRoom
  <2>7. CaveatErrors(builder, caveat_builder) = {}
    BY <2>3, <2>6 DEF CaveatErrors
  <2>8. WithBuilt(builder, caveat_builder) = Begun(m, j)
    <3>1. WithBuilt(builder, caveat_builder) = [builder EXCEPT !.caveats = First(m, j)]
      BY <2>2, <2>3, <2>5 DEF WithBuilt
    <3>2. [Begun(m, i) EXCEPT !.caveats = First(m, j)] = Begun(m, j)
      BY DEF Begun
    <3> QED
      BY <2>4, <3>1, <3>2
  <2> QED
    BY <2>3, <2>7, <2>8 DEF WithPending
<1> QED
  BY <1>1, <1>2, Zenon DEF Between

\* What a packet must be not to be refused.
LEMMA LegalPacket ==
  ASSUME NEW p, p.key \in Keys, p.key # "UNKNOWN",
         "SIGNATURE" \notin seen, p.key \notin seen,
         p.key = "VID" => caveat_builder.verifier_id = None,
         p.key = "CL" => caveat_builder.location = None,
         p.key \in {"LOCATION", "CL"} => Utf8(p.value),
         p.key \in {"CID", "SIGNATURE"} /\ HasId =>
           CaveatErrors(builder, caveat_builder) = {},
         p.key = "SIGNATURE" => Size(p.value) = SIGNATURE_SIZE
  PROVE  PacketErrors(p) = {}
<1>1. ~Illegal(p)
  BY DEF Illegal, Keys
<1>2. ~(p.key = "SIGNATURE" /\ Size(p.value) # SIGNATURE_SIZE)
  OBVIOUS
<1> QED
  BY <1>1, <1>2 DEF PacketErrors

\* The packets before the caveats.
LEMMA PreambleRead ==
  ASSUME NEW m \in SerializableMacaroons, NEW p \in Items, Step(p),
         p = Encode(m)[Len(read) + 1],
         \/ /\ Len(read) = 0 /\ builder = NewMacaroonBuilder
            /\ caveat_builder = NewCaveatBuilder /\ seen = {}
         \/ /\ m.location # None
            /\ Len(read) = 1
            /\ builder = [NewMacaroonBuilder EXCEPT !.location = m.location]
            /\ caveat_builder = NewCaveatBuilder /\ seen = {"LOCATION"}
  PROVE  /\ outcome' = outcome
         /\ At(m, Len(read) + 1, builder', caveat_builder', seen')
<1>1. /\ m \in Macaroons /\ m.location \in Locations \cup {None}
  BY DEF SerializableMacaroons, Macaroons
<1>2. /\ m.location = None => Encode(m)[1] = IdentifierPacket(m) /\ Before(m, 0) = 1
      /\ m.location # None => /\ Encode(m)[1] = LocationPacket(m)
                              /\ Encode(m)[2] = IdentifierPacket(m) /\ Before(m, 0) = 2
  BY Layout, Zenon
<1>3. 0 \in 0..Len(m.caveats) /\ First(m, 0) = << >>
  BY <1>1, FirstFacts
<1>4. ASSUME p = IdentifierPacket(m), Len(read) + 1 = Before(m, 0),
             caveat_builder = NewCaveatBuilder,
             m.location = None => seen = {} /\ builder = NewMacaroonBuilder,
             m.location # None =>
               /\ seen = {"LOCATION"}
               /\ builder = [NewMacaroonBuilder EXCEPT !.location = m.location]
      PROVE  /\ outcome' = outcome
             /\ At(m, Len(read) + 1, builder', caveat_builder', seen')
  <2>1. p.key = "IDENTIFIER" /\ p.value = m.identifier
    BY <1>4 DEF IdentifierPacket, Packet
  <2>2. PacketErrors(p) = {}
    BY <1>4, <2>1, LegalPacket DEF Keys
  <2>3. outcome' = outcome /\ Identifier(p)
    BY <2>1, <2>2, Dispatch DEF Keys
  <2>4. /\ seen' = seen \cup {"IDENTIFIER"} /\ caveat_builder' = NewCaveatBuilder
        /\ builder' = [builder EXCEPT !.identifier = m.identifier]
    BY <1>4, <2>1, <2>3 DEF Identifier
  <2>5. seen' = KeysOf(m)
    BY <1>4, <2>4 DEF KeysOf
  <2>6. builder' = Begun(m, 0)
    <3>1. CASE m.location = None
      BY <1>3, <1>4, <2>4, <3>1 DEF NewMacaroonBuilder, Begun
    <3>2. CASE m.location # None
      BY <1>3, <1>4, <2>4, <3>2 DEF NewMacaroonBuilder, Begun
    <3> QED
      BY <3>1, <3>2
  <2>7. Between(m, 0, builder', caveat_builder')
    BY <2>4, <2>6 DEF Between
  <2> QED
    BY <1>3, <1>4, <2>3, <2>5, <2>7 DEF At
<1>5. CASE /\ Len(read) = 0 /\ builder = NewMacaroonBuilder
           /\ caveat_builder = NewCaveatBuilder /\ seen = {}
  <2>1. CASE m.location = None
    BY <1>2, <1>4, <1>5, <2>1
  <2>2. CASE m.location # None
    <3>1. p = LocationPacket(m)
      BY <1>2, <1>5, <2>2
    <3>2. p.key = "LOCATION" /\ p.value = m.location /\ Utf8(p.value)
      BY <1>1, <2>2, <3>1 DEF LocationPacket, Packet, Locations
    <3>3. PacketErrors(p) = {}
      BY <1>5, <3>2, LegalPacket DEF Keys
    <3>4. outcome' = outcome /\ Location(p)
      BY <3>2, <3>3, Dispatch DEF Keys
    <3>5. /\ seen' = {"LOCATION"} /\ caveat_builder' = NewCaveatBuilder
          /\ builder' = [NewMacaroonBuilder EXCEPT !.location = m.location]
      BY <1>5, <3>2, <3>4 DEF Location
    <3>6. Len(read) + 1 = 1
      BY <1>5
    <3> QED
      BY <2>2, <3>4, <3>5, <3>6 DEF At
  <2> QED
    BY <2>1, <2>2
<1>6. CASE /\ m.location # None /\ Len(read) = 1
           /\ builder = [NewMacaroonBuilder EXCEPT !.location = m.location]
           /\ caveat_builder = NewCaveatBuilder /\ seen = {"LOCATION"}
  <2>1. Len(read) + 1 = 2
    BY <1>6
  <2> QED
    BY <1>2, <1>4, <1>6, <2>1
<1> QED
  BY <1>5, <1>6

\* The first packet of the next caveat.
LEMMA CidRead ==
  ASSUME NEW m \in SerializableMacaroons, NEW p \in Items, Step(p),
         p = Encode(m)[Len(read) + 1],
         NEW j \in 0..(Len(m.caveats) - 1), Len(read) = Before(m, j),
         Between(m, j, builder, caveat_builder), seen = KeysOf(m)
  PROVE  /\ outcome' = outcome
         /\ At(m, Len(read) + 1, builder', caveat_builder', seen')
<1> DEFINE k == j + 1
           c == m.caveats[k]
<1>1. /\ m \in Macaroons
      /\ j \in 0..Len(m.caveats) /\ k \in 0..Len(m.caveats) /\ c \in Caveats
      /\ k > 0 /\ k - 1 = j
  <2>1. m \in Macaroons
    BY DEF SerializableMacaroons
  <2>2. /\ k \in 1..Len(m.caveats) /\ k \in 0..Len(m.caveats) /\ j \in 0..Len(m.caveats)
        /\ k > 0 /\ k - 1 = j
    BY <2>1, FirstFacts
  <2>3. c \in Caveats
    BY <2>1, <2>2, FirstFacts
  <2> QED
    BY <2>1, <2>2, <2>3
<1>2. /\ Before(m, j) \in Nat
      /\ Before(m, k) = Before(m, j) + Len(PacketsOfCaveat(c))
      /\ \A i \in 1..Len(PacketsOfCaveat(c)) :
           Encode(m)[Before(m, j) + i] = PacketsOfCaveat(c)[i]
  <2>1. Before(m, j) \in Nat
    BY <1>1, Layout
  <2> QED
    BY <2>1, Layout
<1> HIDE DEF k, c
<1>3. /\ PacketsOfCaveat(c)[1] = Packet("CID", IdOf(c))
      /\ 1 \in 1..Len(PacketsOfCaveat(c))
      /\ IsFirstParty(c) => Len(PacketsOfCaveat(c)) = 1
  BY <1>1, PacketsOfCaveatFacts
<1>4. p = Packet("CID", IdOf(c))
  BY <1>2, <1>3
<1>5. p.key = "CID" /\ p.value = IdOf(c)
  BY <1>4 DEF Packet
<1>6. /\ HasId => CaveatErrors(builder, caveat_builder) = {}
      /\ WithPending(builder) = Begun(m, j)
      /\ ~HasId => caveat_builder = NewCaveatBuilder
  BY <1>1, PendingAdded
<1>7. "SIGNATURE" \notin seen /\ "CID" \notin seen
  BY DEF KeysOf
<1>8. PacketErrors(p) = {}
  BY <1>5, <1>6, <1>7, LegalPacket DEF Keys
<1>9. outcome' = outcome /\ Cid(p)
  BY <1>5, <1>8, Dispatch DEF Keys
<1>10. seen' = seen /\ builder' = Begun(m, j)
  BY <1>6, <1>9 DEF Cid, WithPending
<1>11. caveat_builder' = [NewCaveatBuilder EXCEPT !.id = IdOf(c)]
  BY <1>5, <1>6, <1>9 DEF Cid
<1>12. caveat_builder' = Partly(c, 1)
  BY <1>11 DEF NewCaveatBuilder, Partly
<1>13. CASE IsFirstParty(c)
  <2>1. Partly(c, 1) = Held(c)
    BY <1>13 DEF Partly, Held
  <2>2. Between(m, k, builder', caveat_builder')
    BY <1>1, <1>10, <1>12, <2>1 DEF Between, c
  <2>3. Len(read) + 1 = Before(m, k)
    BY <1>2, <1>3, <1>13
  <2> QED
    BY <1>1, <1>9, <1>10, <2>2, <2>3 DEF At
<1>14. CASE ~IsFirstParty(c)
  <2>1. Inside(m, j, 1, builder', caveat_builder')
    BY <1>10, <1>12, <1>14 DEF Inside, c, k
  <2> QED
    BY <1>9, <1>10, <2>1 DEF At
<1> QED
  BY <1>13, <1>14

\* The second and the third packet of a third-party caveat.
LEMMA VidAndClRead ==
  ASSUME NEW m \in SerializableMacaroons, NEW p \in Items, Step(p),
         p = Encode(m)[Len(read) + 1],
         NEW j \in 0..(Len(m.caveats) - 1), NEW i \in {1, 2},
         Len(read) = Before(m, j) + i,
         Inside(m, j, i, builder, caveat_builder), seen = KeysOf(m)
  PROVE  /\ outcome' = outcome
         /\ At(m, Len(read) + 1, builder', caveat_builder', seen')
<1> DEFINE k == j + 1
           c == m.caveats[k]
<1>1. /\ m \in Macaroons
      /\ j \in 0..Len(m.caveats) /\ k \in 0..Len(m.caveats) /\ c \in Caveats
      /\ k > 0 /\ k - 1 = j
  <2>1. m \in Macaroons
    BY DEF SerializableMacaroons
  <2>2. /\ k \in 1..Len(m.caveats) /\ k \in 0..Len(m.caveats) /\ j \in 0..Len(m.caveats)
        /\ k > 0 /\ k - 1 = j
    BY <2>1, FirstFacts
  <2>3. c \in Caveats
    BY <2>1, <2>2, FirstFacts
  <2> QED
    BY <2>1, <2>2, <2>3
<1>2. /\ Before(m, j) \in Nat
      /\ Before(m, k) = Before(m, j) + Len(PacketsOfCaveat(c))
      /\ \A x \in 1..Len(PacketsOfCaveat(c)) :
           Encode(m)[Before(m, j) + x] = PacketsOfCaveat(c)[x]
  <2>1. Before(m, j) \in Nat
    BY <1>1, Layout
  <2> QED
    BY <2>1, Layout
<1>3. ~IsFirstParty(c) /\ builder = Begun(m, j) /\ caveat_builder = Partly(c, i)
  BY DEF Inside
<1> HIDE DEF k, c
<1>4. /\ Len(PacketsOfCaveat(c)) = 3
      /\ PacketsOfCaveat(c)[2] = Packet("VID", c.verifier_id)
      /\ PacketsOfCaveat(c)[3] = Packet("CL", c.location)
  BY <1>1, <1>3, PacketsOfCaveatFacts
<1>5. c.verifier_id \in Fields /\ c.location \in Locations
  BY <1>1, <1>3, CaveatKinds
<1>6. "SIGNATURE" \notin seen /\ "VID" \notin seen /\ "CL" \notin seen
  BY DEF KeysOf
<1>7. CASE i = 1
  <2>1. p = Packet("VID", c.verifier_id)
    <3>1. 2 \in 1..Len(PacketsOfCaveat(c)) /\ Len(read) + 1 = Before(m, j) + 2
      BY <1>2, <1>4, <1>7
    <3> QED
      BY <1>2, <1>4, <3>1
  <2>2. p.key = "VID" /\ p.value = c.verifier_id
    BY <2>1 DEF Packet
  <2>3. caveat_builder.verifier_id = None
    BY <1>3, <1>7 DEF Partly
  <2>4. PacketErrors(p) = {}
    BY <1>6, <2>2, <2>3, LegalPacket DEF Keys
  <2>5. outcome' = outcome /\ Vid(p)
    BY <2>2, <2>4, Dispatch DEF Keys
  <2>6. /\ seen' = seen /\ builder' = Begun(m, j)
        /\ caveat_builder' = [Partly(c, 1) EXCEPT !.verifier_id = c.verifier_id]
    BY <1>3, <1>7, <2>2, <2>5 DEF Vid
  <2>7. caveat_builder' = Partly(c, 2)
    BY <1>3, <2>6 DEF Partly
  <2>8. Inside(m, j, 2, builder', caveat_builder')
    BY <1>3, <2>6, <2>7 DEF Inside, c, k
  <2>9. Len(read) + 1 = Before(m, j) + 2
    BY <1>2, <1>7
  <2> QED
    BY <2>5, <2>6, <2>8, <2>9 DEF At
<1>8. CASE i = 2
  <2>1. p = Packet("CL", c.location)
    <3>1. 3 \in 1..Len(PacketsOfCaveat(c)) /\ Len(read) + 1 = Before(m, j) + 3
      BY <1>2, <1>4, <1>8
    <3> QED
      BY <1>2, <1>4, <3>1
  <2>2. p.key = "CL" /\ p.value = c.location /\ Utf8(p.value)
    BY <1>5, <2>1 DEF Packet, Locations
  <2>3. caveat_builder.location = None
    BY <1>3, <1>8 DEF Partly
  <2>4. PacketErrors(p) = {}
    BY <1>6, <2>2, <2>3, LegalPacket DEF Keys
  <2>5. outcome' = outcome /\ Cl(p)
    BY <2>2, <2>4, Dispatch DEF Keys
  <2>6. /\ seen' = seen /\ builder' = Begun(m, j)
        /\ caveat_builder' = [Partly(c, 2) EXCEPT !.location = c.location]
    BY <1>3, <1>8, <2>2, <2>5 DEF Cl
  <2>7. caveat_builder' = Held(c)
    BY <1>3, <2>6 DEF Partly, Held
  <2>8. Between(m, k, builder', caveat_builder')
    BY <1>1, <2>6, <2>7 DEF Between, c
  <2>9. Len(read) + 1 = Before(m, k)
    BY <1>2, <1>4, <1>8
  <2> QED
    BY <1>1, <2>5, <2>6, <2>8, <2>9 DEF At
<1> QED
  BY <1>7, <1>8

\* The signature, after all caveats, and the end.
LEMMA SignatureRead ==
  ASSUME NEW m \in SerializableMacaroons, NEW p \in Items, Step(p),
         p = Encode(m)[Len(read) + 1], Len(read) = Before(m, Len(m.caveats)),
         Between(m, Len(m.caveats), builder, caveat_builder), seen = KeysOf(m)
  PROVE  /\ outcome' = outcome
         /\ At(m, Len(read) + 1, builder', caveat_builder', seen')
<1> DEFINE n == Len(m.caveats)
<1>1. /\ m \in Macaroons /\ n \in 0..n /\ First(m, n) = m.caveats
      /\ Size(m.signature) = SIGNATURE_SIZE
  <2>1. m \in Macaroons
    BY DEF SerializableMacaroons
  <2>2. Size(m.signature) = SIGNATURE_SIZE
    BY <2>1 DEF Macaroons
  <2> QED
    BY <2>1, <2>2, FirstFacts
<1> HIDE DEF n
<1>2. p = SignaturePacket(m)
  BY Layout DEF n
<1>3. p.key = "SIGNATURE" /\ p.value = m.signature
  BY <1>2 DEF SignaturePacket, Packet
<1>4. /\ HasId => CaveatErrors(builder, caveat_builder) = {}
      /\ WithPending(builder) = Begun(m, n)
      /\ ~HasId => caveat_builder = NewCaveatBuilder
  BY <1>1, PendingAdded DEF n
<1>5. "SIGNATURE" \notin seen
  BY DEF KeysOf
<1>6. PacketErrors(p) = {}
  BY <1>1, <1>3, <1>4, <1>5, LegalPacket DEF Keys
<1>7. outcome' = outcome /\ Signature(p)
  BY <1>3, <1>6, Dispatch DEF Keys
<1>8. /\ seen' = KeysOf(m) \cup {"SIGNATURE"} /\ caveat_builder' = NewCaveatBuilder
      /\ builder' = [Begun(m, n) EXCEPT !.signature = m.signature]
  BY <1>3, <1>4, <1>7 DEF Signature
<1>9. builder' = m
  <2>1. m = [identifier |-> m.identifier, location |-> m.location,
             signature |-> m.signature, caveats |-> m.caveats]
    BY <1>1 DEF Macaroons
  <2> QED
    BY <1>1, <1>8, <2>1 DEF Begun
<1> QED
  BY <1>7, <1>8, <1>9 DEF At, n

\* The end of the token is read where the encoding ends.
LEMMA EndRead ==
  ASSUME NEW m \in SerializableMacaroons, NEW p \in Items, Step(p),
         p = Encode(m)[Len(read) + 1], Len(read) = Before(m, Len(m.caveats)) + 1,
         builder = m
  PROVE  outcome' = "Ok" /\ builder' = m
<1>1. m \in Macaroons /\ Len(m.caveats) \in 0..Len(m.caveats)
  <2>1. m \in Macaroons
    BY DEF SerializableMacaroons
  <2> QED
    BY <2>1, FirstFacts
<1>2. Before(m, Len(m.caveats)) \in Nat
  BY <1>1, Layout
<1>3. Len(read) + 1 = Before(m, Len(m.caveats)) + 2
  BY <1>2
<1>4. p = END
  BY <1>3, Layout
<1>5. m.identifier # Empty /\ m.signature # None
  BY <1>1 DEF Macaroons
<1>6. BuildErrors(builder) = {}
  BY <1>5 DEF BuildErrors
<1>7. ~Refuse(p)
  BY <1>4, <1>6 DEF Refuse
<1>8. \A key \in Keys : ~Accepts(p, key)
  BY <1>4, OtherKeys DEF Accepts
<1>9. Build(p)
  BY <1>7, <1>8 DEF Step, Location, Identifier, Signature, Cid, Vid, Cl, Keys
<1> QED
  BY <1>9 DEF Build

\* A step that reads the next packet of what m is written as.
LEMMA NextPacketRead ==
  ASSUME NEW m \in SerializableMacaroons, NEW p \in Items, Step(p),
         At(m, Len(read), builder, caveat_builder, seen),
         Len(read) + 1 <= Len(Encode(m)), p = Encode(m)[Len(read) + 1]
  PROVE  \/ outcome' = outcome /\ At(m, Len(read) + 1, builder', caveat_builder', seen')
         \/ outcome' = "Ok" /\ builder' = m
<1>1. CASE \/ /\ Len(read) = 0 /\ builder = NewMacaroonBuilder
              /\ caveat_builder = NewCaveatBuilder /\ seen = {}
           \/ /\ m.location # None
              /\ Len(read) = 1
              /\ builder = [NewMacaroonBuilder EXCEPT !.location = m.location]
              /\ caveat_builder = NewCaveatBuilder /\ seen = {"LOCATION"}
  BY <1>1, PreambleRead
<1>2. ASSUME NEW j \in 0..Len(m.caveats), Len(read) = Before(m, j),
             Between(m, j, builder, caveat_builder), seen = KeysOf(m)
      PROVE  /\ outcome' = outcome
             /\ At(m, Len(read) + 1, builder', caveat_builder', seen')
  <2>1. m \in Macaroons /\ Len(m.caveats) \in Nat
    <3>1. m \in Macaroons
      BY DEF SerializableMacaroons
    <3> QED
      BY <3>1, FirstFacts
  <2>2. CASE j = Len(m.caveats)
    BY <1>2, <2>2, SignatureRead
  <2>3. CASE j # Len(m.caveats)
    <3>1. j \in 0..(Len(m.caveats) - 1)
      BY <2>1, <2>3
    <3> QED
      BY <1>2, <3>1, CidRead
  <2> QED
    BY <2>2, <2>3
<1>3. ASSUME NEW j \in 0..(Len(m.caveats) - 1), NEW i \in {1, 2},
             Len(read) = Before(m, j) + i,
             Inside(m, j, i, builder, caveat_builder), seen = KeysOf(m)
      PROVE  /\ outcome' = outcome
             /\ At(m, Len(read) + 1, builder', caveat_builder', seen')
  BY <1>3, VidAndClRead
<1>4. CASE Len(read) = Before(m, Len(m.caveats)) + 1 /\ builder = m
  BY <1>4, EndRead
<1> QED
  BY <1>1, <1>2, <1>3, <1>4, Zenon DEF At

\* What begins with a packet more begins without it.
LEMMA BeginsAppend ==
  ASSUME NEW m \in SerializableMacaroons, NEW s \in Seq(Items), NEW p \in Items,
         Begins(Append(s, p), m)
  PROVE  /\ Begins(s, m)
         /\ Len(Append(s, p)) = Len(s) + 1 /\ Len(s) + 1 <= Len(Encode(m))
         /\ p = Encode(m)[Len(s) + 1]
<1> DEFINE e == Encode(m)
           t == Append(s, p)
<1>1. e \in Seq(Items)
  BY Layout
<1> HIDE DEF e
<1>2. Len(t) <= Len(e) /\ \A i \in 1..Len(t) : e[i] = t[i]
  BY DEF Begins, IsStart, e
<1>3. /\ Len(t) = Len(s) + 1 /\ Len(s) \in Nat /\ t[Len(s) + 1] = p
      /\ \A i \in 1..Len(s) : t[i] = s[i]
  OBVIOUS
<1> HIDE DEF t
<1>4. Len(s) + 1 \in 1..Len(t) /\ \A i \in 1..Len(s) : i \in 1..Len(t)
  BY <1>3
<1>5. Len(s) <= Len(e) /\ \A i \in 1..Len(s) : e[i] = s[i]
  BY <1>1, <1>2, <1>3, <1>4
<1> QED
  BY <1>2, <1>3, <1>4, <1>5 DEF Begins, IsStart, e, t

\* The walk begins with the token.
LEMMA WalkInit == Init => Walk
<1> SUFFICES ASSUME Init PROVE Walk
  OBVIOUS
<1>1. /\ read = << >> /\ builder = NewMacaroonBuilder
      /\ caveat_builder = NewCaveatBuilder /\ seen = {} /\ outcome = "Idle"
  BY DEF Init, ParserInit
<1>2. Len(read) = 0
  BY <1>1
<1>3. \A m : At(m, Len(read), builder, caveat_builder, seen)
  BY <1>1, <1>2 DEF At
<1>4. outcome # "Ok" /\ outcome \notin ParseErrors
  BY <1>1 DEF ParseErrors
<1> QED
  BY <1>3, <1>4 DEF Walk

\* Every step preserves it.
LEMMA WalkNext == Within /\ Walk /\ [Next]_vars => Walk'
<1> SUFFICES ASSUME Within, Walk, [Next]_vars PROVE Walk'
  OBVIOUS
<1>1. CASE deserialize /\ UNCHANGED seen
  <2>1. /\ outcome = "Idle" /\ outcome' = "Parsing"
        /\ UNCHANGED <<read, builder, caveat_builder, seen>>
    BY <1>1 DEF deserialize
  <2>2. "Parsing" # "Ok" /\ "Parsing" \notin ParseErrors
    BY DEF ParseErrors
  <2> QED
    BY <2>1, <2>2 DEF Walk
<1>2. CASE Return /\ seen' = {}
  <2>1. Init'
    BY <1>2 DEF Return, Init, ParserInit
  <2>2. Init' => Walk'
    BY WalkInit, PTL
  <2> QED
    BY <2>1, <2>2
<1>3. ASSUME Parsing, NEW p \in Items, Step(p) PROVE Walk'
  <2>1. outcome = "Parsing" /\ read' = Append(read, p) /\ read \in Seq(Items)
    BY <1>3 DEF Parsing, Step, Reads, Within
  <2>2. ASSUME NEW m \in SerializableMacaroons, Begins(read', m)
        PROVE  \/ /\ outcome' = "Parsing"
                  /\ At(m, Len(read'), builder', caveat_builder', seen')
               \/ outcome' = "Ok" /\ builder' = m
    <3>1. /\ Begins(read, m) /\ Len(read') = Len(read) + 1
          /\ Len(read) + 1 <= Len(Encode(m)) /\ p = Encode(m)[Len(read) + 1]
      BY <2>1, <2>2, BeginsAppend
    <3>2. At(m, Len(read), builder, caveat_builder, seen)
      BY <2>1, <3>1 DEF Walk
    <3>3. \/ /\ outcome' = outcome
             /\ At(m, Len(read) + 1, builder', caveat_builder', seen')
          \/ outcome' = "Ok" /\ builder' = m
      BY <1>3, <3>1, <3>2, NextPacketRead
    <3> QED
      BY <2>1, <3>1, <3>3
  <2>3. "Parsing" \notin ParseErrors /\ "Ok" \notin ParseErrors /\ "Parsing" # "Ok"
    BY DEF ParseErrors
  <2>4. outcome' \in {"Idle", "Parsing"} =>
          \A m \in SerializableMacaroons :
            Begins(read', m) => At(m, Len(read'), builder', caveat_builder', seen')
    BY <2>2
  <2>5. ASSUME outcome' = "Ok", NEW m \in SerializableMacaroons, read' = Encode(m)
        PROVE  builder' = m
    <3>1. Encode(m) \in Seq(Items)
      BY Layout
    <3>2. Begins(read', m)
      BY <2>5, <3>1 DEF Begins, IsStart
    <3> QED
      BY <2>2, <2>3, <2>5, <3>2
  <2>6. outcome' \in ParseErrors => \A m \in SerializableMacaroons : ~Begins(read', m)
    BY <2>2, <2>3
  <2> QED
    BY <2>4, <2>5, <2>6 DEF Walk, Begins
<1>4. CASE UNCHANGED vars
  BY <1>4 DEF vars, parserVars, Walk
<1> QED
  BY <1>1, <1>2, <1>3, <1>4 DEF Next

\* A beginning of an encoding begins it.
LEMMA BeginningBegins ==
  ASSUME NEW s \in EncodedBeginnings
  PROVE  \E m \in SerializableMacaroons : Begins(s, m)
<1>1. PICK token \in Encodings : s \in { SubSeq(token, 1, n) : n \in 0..Len(token) }
  BY DEF EncodedBeginnings, Beginnings
<1>2. PICK m \in SerializableMacaroons : token = Encode(m)
  BY <1>1 DEF Encodings
<1>3. token \in Seq(Items)
  BY <1>2, Layout
<1>4. PICK n \in 0..Len(token) : s = SubSeq(token, 1, n)
  BY <1>1
<1>5. Len(s) = n /\ \A i \in 1..n : s[i] = token[i]
  BY <1>3, <1>4
<1>6. IsStart(s, token)
  BY <1>3, <1>5 DEF IsStart
<1> QED
  BY <1>2, <1>6 DEF Begins

-----------------------------------------------------------------------------
\* The two invariants hold in every state.
THEOREM V1InvariantHolds == Spec => [](PacketInv /\ Walk)
<1>1. Init => PacketInv /\ Walk
  BY PacketInit, WalkInit
<1>2. PacketInv => Within
  BY DEF PacketInv
<1>3. PacketInv /\ Walk /\ [Next]_vars => (PacketInv /\ Walk)'
  BY <1>2, PacketNext, WalkNext
<1> QED
  BY <1>1, <1>3, PTL DEF Spec

\* The types: the parser stays within the limits whatever packets it reads.
THEOREM V1WithinLimits == Spec => []TypeOK
<1>1. PacketInv => TypeOK
  <2> SUFFICES ASSUME PacketInv PROVE TypeOK
    OBVIOUS
  <2>1. Within
    BY DEF PacketInv
  <2>2. BuilderOK
    BY <2>1 DEF Within, BuilderRecords, BuilderOK
  <2>3. CaveatBuilderOK
    BY <2>1 DEF Within, CaveatBuilders, CaveatBuilderOK
  <2> QED
    BY <2>1, <2>2, <2>3 DEF Within, TypeOK
<1> QED
  BY <1>1, V1InvariantHolds, PTL

\* An accepted token is a macaroon within the limits, and its caveats have the
\* fields of the token's packets, in whatever order these came.
THEOREM V1CaveatsAsWritten == Spec => []CaveatsAsWritten
<1>1. PacketInv => CaveatsAsWritten
  BY DEF PacketInv
<1> QED
  BY <1>1, V1InvariantHolds, PTL

\* What the serializer makes of a macaroon, if no packet is too long, is read
\* back as that macaroon, and refused at no packet.
THEOREM V1ReadsBack == Spec => []ReadsBack
<1>1. Walk => ReadsBack
  <2> SUFFICES ASSUME Walk PROVE ReadsBack
    OBVIOUS
  <2>1. outcome \in ParseErrors => read \notin EncodedBeginnings
    BY BeginningBegins DEF Walk
  <2>2. ASSUME outcome = "Ok", read \in Encodings PROVE read = Encode(builder)
    <3>1. PICK m \in SerializableMacaroons : read = Encode(m)
      BY <2>2 DEF Encodings
    <3>2. builder = m
      BY <2>2, <3>1 DEF Walk
    <3> QED
      BY <3>1, <3>2
  <2> QED
    BY <2>1, <2>2 DEF ReadsBack
<1> QED
  BY <1>1, V1InvariantHolds, PTL
=============================================================================
