---------------------------- MODULE FormatV2Json ----------------------------
(***************************************************************************)
(* The JSON format V2JSON (src/src/serialization/v2json.rs).  A token is    *)
(* read as one item with the fields of the macaroon and one for each        *)
(* element of "c"; INVALID is what serde refuses for its syntax, its keys   *)
(* or its types, or another version.                                        *)
(*                                                                          *)
(* The code lets serde parse the whole token before from_json looks at it.  *)
(* Here both are done item by item, so the answer to a refused item may be  *)
(* that serde refuses a later one.                                          *)
(***************************************************************************)
EXTENDS Builders

\* A signature is not the empty field that from_json refuses.
ASSUME SignatureAssumption == SIGNATURE_SIZE > 0

\* How one of a pair of keys such as i and i64 gives a field: not at all, twice,
\* as it is, or as base64.
Given(as, value) == [as |-> as, value |-> value]
ABSENT == Given("Absent", None)
BOTH == Given("Both", None)
Plain(value) == Given("Plain", value)
Base64(value) == Given("Base64", value)

Pairs(plain) ==
  {ABSENT, BOTH} \cup { Plain(v) : v \in plain }
    \cup { Base64(v) : v \in Value }

Texts == { v \in Value : Utf8(v) }  \* what a JSON string can hold

Objects == [i : Pairs(Texts), l : Pairs(Texts), s : Pairs(Value)]
CaveatObjects == [i : Pairs(Texts), l : Pairs(Texts), v : Pairs(Texts)]

\* Two items that are no objects.
INVALID == [i |-> BOTH, l |-> BOTH]
END == [i |-> ABSENT, l |-> BOTH]

\* base64_decode_flexible, which refuses the text of no bytes.  Base64(Empty)
\* stands for the texts that are not base64 too.
Decodes(pair) == pair # Base64(Empty)

\* Mutant: the location is written as base64.
FromThirdPartyL64(c) ==
  [i |-> Base64(c.id), l |-> Base64(c.location), v |-> Base64(c.verifier_id)]

\* from_macaroon.
FromThirdParty(c) ==
  [i |-> Base64(c.id), l |-> Plain(c.location), v |-> Base64(c.verifier_id)]

FromFirstParty(c) == [i |-> Base64(c.predicate), l |-> ABSENT, v |-> ABSENT]

Encode(m) ==
  <<[i |-> Base64(m.identifier),
     l |-> IF m.location = None THEN ABSENT ELSE Plain(m.location),
     s |-> Base64(m.signature)]>>
    \o [j \in 1..Len(m.caveats) |->
          IF IsFirstParty(m.caveats[j]) THEN FromFirstParty(m.caveats[j])
                                        ELSE FromThirdParty(m.caveats[j])]
    \o <<END>>

-----------------------------------------------------------------------------
vars == parserVars

Init == ParserInit

Failure(condition) == { e \in {"DeserializationError"} : condition }

\* Mutant: fields of tokens in JSON are not limited in size.
NoSizeErrors(pair) == {}

SizeErrors(pair) ==
  { e \in {"FieldTooLarge"} : pair.value # None /\ TooLarge(pair.value) }

LocationErrors(pair) ==
  IF pair.as = "Base64" /\ (~Decodes(pair) \/ ~Utf8(pair.value))
    THEN {"DeserializationError"} ELSE SizeErrors(pair)

SignatureErrors(pair) ==
  Failure(pair = ABSENT \/ ~Decodes(pair) \/ Size(pair.value) # SIGNATURE_SIZE)

\* What the first of several checks says that is not passed.
FirstOf(checks) ==
  LET failed == { n \in DOMAIN checks : checks[n] # {} }
  IN  UNION { checks[n] : n \in { n \in failed : \A k \in failed : n <= k } }

ObjectErrors(o) ==
  IF BOTH \in {o.i, o.l, o.s} \/ o.i = ABSENT \/ ~Decodes(o.i)
    THEN {"DeserializationError"}
    ELSE FirstOf(<<SizeErrors(o.i), LocationErrors(o.l), SignatureErrors(o.s)>>)

\* from_json's caveat builder with the fields that c has.
WithFields(cb, c) ==
  [id          |-> c.i.value,
   verifier_id |-> IF c.v = ABSENT THEN cb.verifier_id ELSE c.v.value,
   location    |-> IF c.l = ABSENT THEN cb.location ELSE c.l.value]

CaveatObjectErrors(c) ==
  IF BOTH \in {c.i, c.l, c.v} \/ c.i = ABSENT \/ ~Decodes(c.i) \/ ~Decodes(c.v)
    THEN {"DeserializationError"}
    ELSE FirstOf(<<SizeErrors(c.i), LocationErrors(c.l), SizeErrors(c.v),
                   CaveatErrors(builder, WithFields(caveat_builder, c))>>)

ReadObject(o) ==
  /\ ObjectErrors(o) = {}
  /\ builder' = [builder EXCEPT !.identifier = o.i.value,
                                !.location = o.l.value,
                                !.signature = o.s.value]
  /\ UNCHANGED <<caveat_builder, outcome>>

\* Mutant: the caveat builder is not replaced by a new one.
ReadCaveatKeepingFields(c) ==
  /\ CaveatObjectErrors(c) = {}
  /\ builder' = WithBuilt(builder, WithFields(caveat_builder, c))
  /\ caveat_builder' = WithFields(caveat_builder, c)
  /\ UNCHANGED outcome

ReadCaveat(c) ==
  /\ CaveatObjectErrors(c) = {}
  /\ builder' = WithBuilt(builder, WithFields(caveat_builder, c))
  /\ caveat_builder' = NewCaveatBuilder
  /\ UNCHANGED outcome

Build ==
  /\ BuildErrors(builder) = {}
  /\ outcome' = "Ok"
  /\ UNCHANGED <<builder, caveat_builder>>

Refuse(errors) ==
  /\ errors # {}
  /\ Fail(errors \cup {"DeserializationError"})

\* bound: an element of "c" beyond the limit is one that from_macaroon writes.
Elements ==
  IF Len(builder.caveats) < MAX_CAVEATS
    THEN CaveatObjects
    ELSE { IF IsFirstParty(c) THEN FromFirstParty(c) ELSE FromThirdParty(c) : c \in Caveats }

Step ==
  \/ /\ read = << >>
     /\ \E o \in Objects :
          Reads(o, END) /\ (ReadObject(o) \/ Refuse(ObjectErrors(o)))
  \/ /\ read # << >>
     /\ \E c \in Elements :
          Reads(c, END) /\ (ReadCaveat(c) \/ Refuse(CaveatObjectErrors(c)))
  \/ /\ read # << >>
     /\ Reads(END, END)
     /\ Build \/ (BuildErrors(builder) # {} /\ Fail(BuildErrors(builder)))
  \/ Reads(INVALID, INVALID) /\ Fail({"DeserializationError"})

Next == deserialize \/ (Parsing /\ Step) \/ Return

Spec == Init /\ [][Next]_vars

-----------------------------------------------------------------------------
\* The type invariant: the builders stay within the limits, and no field waits in
\* the caveat builder.
TypeOK ==
  /\ read \in Seq(Objects \cup CaveatObjects \cup {INVALID, END})
  /\ BuilderOK /\ caveat_builder = NewCaveatBuilder
  /\ outcome \in ParseErrors \cup {"Idle", "Parsing", "Ok"}

\* The caveat that one element of "c" describes.
Described(c) ==
  IF c.v = ABSENT /\ c.l = ABSENT
    THEN FirstParty(c.i.value) ELSE ThirdParty(c.i.value, c.v.value, c.l.value)

\* An accepted token is a macaroon within the limits, whose caveats are those
\* that the elements of "c" describe each by itself.
CaveatsAsWritten ==
  outcome = "Ok" =>
    /\ builder \in Macaroons
    /\ builder.caveats = [j \in 1..(Len(read) - 2) |-> Described(read[j + 1])]

HasEmptyField(c) ==
  IF IsFirstParty(c) THEN c.predicate = Empty ELSE Empty \in {c.id, c.verifier_id}

OrdinaryMacaroons ==
  { m \in Macaroons :
      \A j \in 1..Len(m.caveats) : ~HasEmptyField(m.caveats[j]) }

OrdinaryBeginnings == Beginnings({ Encode(m) : m \in OrdinaryMacaroons })
EncodedBeginnings == Beginnings({ Encode(m) : m \in Macaroons })

\* What serialize makes of a macaroon is not refused, if no predicate and no id
\* of it is empty.
RefusesNoOrdinaryEncoding ==
  outcome \in ParseErrors => read \notin OrdinaryBeginnings

\* src/src/error.rs:40-41, "a macaroon that this crate serializes can always be
\* parsed back".
RefusesNoEncoding == outcome \in ParseErrors => read \notin EncodedBeginnings
=============================================================================
