------------------------------ MODULE FormatV1 ------------------------------
(***************************************************************************)
(* The packet format V1 (src/src/serialization/v1.rs).  An item is a packet, *)
(* its key and its value, of those that a size header can announce; or it   *)
(* is MALFORMED, bytes that deserialize_as_packets refuses.                 *)
(*                                                                          *)
(* The code splits the whole token before it looks at a packet.  Here both  *)
(* are done packet by packet, so the answer to a refused packet may be that *)
(* a later one is malformed.                                                *)
(***************************************************************************)
EXTENDS Builders

CONSTANTS
  KeyLength(_),    \* the bytes of a key
  MAX_PACKET_SIZE  \* 65535, the largest size that the header can announce

HEADER_SIZE == 4

Keys == {"LOCATION", "IDENTIFIER", "SIGNATURE", "CID", "VID", "CL", "UNKNOWN"}

\* No packet holds a field that is too large, so check_field_size never fails.
ASSUME PacketAssumption ==
  /\ \A key \in Keys : KeyLength(key) \in Nat
  /\ MAX_PACKET_SIZE \in Nat
  /\ MAX_PACKET_SIZE - HEADER_SIZE - 2 \in 0..MAX_FIELD_SIZE_BYTES

PacketSize(key, value) == HEADER_SIZE + 2 + KeyLength(key) + Size(value)

Packet(key, value) == [key |-> key, value |-> value]
MALFORMED == Packet("MALFORMED", None)
END == Packet("END", None)

Items ==
  { p \in { Packet(key, value) : key \in Keys, value \in Value } :
      PacketSize(p.key, p.value) <= MAX_PACKET_SIZE }
    \cup {MALFORMED, END}

-----------------------------------------------------------------------------
(***************************************************************************)
(* serialize_binary.                                                        *)
(***************************************************************************)
\* Mutant: the size of a packet is not checked.
NeverTooLong(p) == FALSE

TooLong(p) == PacketSize(p.key, p.value) > MAX_PACKET_SIZE

\* A packet as its reader gets it: if the header has lost the upper bits of
\* the size, the reader loses its way in the token.
Written(p) ==
  IF PacketSize(p.key, p.value) % (MAX_PACKET_SIZE + 1) = PacketSize(p.key, p.value)
    THEN p ELSE MALFORMED

PacketsOfCaveat(c) ==
  IF IsFirstParty(c) THEN <<Packet("CID", c.predicate)>>
  ELSE <<Packet("CID", c.id), Packet("VID", c.verifier_id), Packet("CL", c.location)>>

PacketsOf(m) ==
  (IF m.location = None THEN << >> ELSE <<Packet("LOCATION", m.location)>>)
    \o <<Packet("IDENTIFIER", m.identifier)>>
    \o FlattenSeq([i \in 1..Len(m.caveats) |-> PacketsOfCaveat(m.caveats[i])])
    \o <<Packet("SIGNATURE", m.signature)>>

Serializes(m) == \A i \in 1..Len(PacketsOf(m)) : ~TooLong(PacketsOf(m)[i])

Encode(m) == [i \in 1..Len(PacketsOf(m)) |-> Written(PacketsOf(m)[i])] \o <<END>>

-----------------------------------------------------------------------------
VARIABLE seen  \* the keys of which there may be one packet and there was one

vars == <<parserVars, seen>>

Init == ParserInit /\ seen = {}

HasId == caveat_builder.id # None

\* What the test of the packets before it, from_utf8 and the test of the
\* signature's length refuse in a packet.
Illegal(p) ==
  \/ "SIGNATURE" \in seen
  \/ p.key \in seen
  \/ p.key \in {"UNKNOWN", "MALFORMED"}
  \/ p.key = "VID" /\ caveat_builder.verifier_id # None
  \/ p.key = "CL" /\ caveat_builder.location # None
  \/ p.key \in {"LOCATION", "CL"} /\ ~Utf8(p.value)

\* The errors that a packet ends with: one or none.
PacketErrors(p) ==
  IF Illegal(p) THEN {"DeserializationError"}
  ELSE IF p.key \in {"CID", "SIGNATURE"} /\ HasId
            /\ CaveatErrors(builder, caveat_builder) # {}
    THEN CaveatErrors(builder, caveat_builder)
  ELSE { e \in {"DeserializationError"} :
           p.key = "SIGNATURE" /\ Size(p.value) # SIGNATURE_SIZE }

Accepts(p, key) == p.key = key /\ PacketErrors(p) = {} /\ UNCHANGED outcome

Location(p) ==
  /\ Accepts(p, "LOCATION")
  /\ seen' = seen \cup {"LOCATION"}
  /\ builder' = [builder EXCEPT !.location = p.value]
  /\ UNCHANGED caveat_builder

Identifier(p) ==
  /\ Accepts(p, "IDENTIFIER")
  /\ seen' = seen \cup {"IDENTIFIER"}
  /\ builder' = [builder EXCEPT !.identifier = p.value]
  /\ UNCHANGED caveat_builder

\* The builder with the caveat that is waiting, if one is.
WithPending(b) == IF HasId THEN WithBuilt(b, caveat_builder) ELSE b

Signature(p) ==
  /\ Accepts(p, "SIGNATURE")
  /\ seen' = seen \cup {"SIGNATURE"}
  /\ builder' = [WithPending(builder) EXCEPT !.signature = p.value]
  /\ caveat_builder' = IF HasId THEN NewCaveatBuilder ELSE caveat_builder

\* Mutant: the caveat before a cid is added, but its fields stay behind.
CidKeepsFields(p) ==
  /\ Accepts(p, "CID")
  /\ builder' = IF HasId THEN WithBuilt(builder, caveat_builder) ELSE builder
  /\ caveat_builder' = [caveat_builder EXCEPT !.id = p.value]
  /\ UNCHANGED seen

Cid(p) ==
  /\ Accepts(p, "CID")
  /\ builder' = IF HasId THEN WithBuilt(builder, caveat_builder) ELSE builder
  /\ caveat_builder' =
       [IF HasId THEN NewCaveatBuilder ELSE caveat_builder EXCEPT !.id = p.value]
  /\ UNCHANGED seen

Vid(p) ==
  /\ Accepts(p, "VID")
  /\ caveat_builder' = [caveat_builder EXCEPT !.verifier_id = p.value]
  /\ UNCHANGED <<builder, seen>>

Cl(p) ==
  /\ Accepts(p, "CL")
  /\ caveat_builder' = [caveat_builder EXCEPT !.location = p.value]
  /\ UNCHANGED <<builder, seen>>

Build(p) ==
  /\ p = END
  /\ BuildErrors(builder) = {}
  /\ outcome' = "Ok"
  /\ UNCHANGED <<builder, caveat_builder, seen>>

\* A packet is refused, or build refuses what the packets made.
Refuse(p) ==
  LET errors == IF p = END THEN BuildErrors(builder) ELSE PacketErrors(p)
  IN  /\ errors # {}
      /\ Fail(IF p = END THEN errors
              ELSE errors \cup {"DeserializationError"})
      /\ UNCHANGED seen

Step(p) ==
  /\ Reads(p, END)
  /\ \/ Location(p) \/ Identifier(p) \/ Signature(p)
     \/ Cid(p) \/ Vid(p) \/ Cl(p) \/ Build(p)
     \/ Refuse(p)

Next ==
  \/ deserialize /\ UNCHANGED seen
  \/ Parsing /\ \E p \in Items : Step(p)
  \/ Return /\ seen' = {}

Spec == Init /\ [][Next]_vars

-----------------------------------------------------------------------------
\* The type invariant: the builders stay within the limits.
TypeOK ==
  /\ read \in Seq(Items)
  /\ BuilderOK /\ CaveatBuilderOK
  /\ seen \subseteq {"LOCATION", "IDENTIFIER", "SIGNATURE"}
  /\ outcome \in ParseErrors \cup {"Idle", "Parsing", "Ok"}

ValuesOf(key, packets) ==
  FlattenSeq([i \in 1..Len(packets) |->
                IF packets[i].key = key THEN <<packets[i].value>> ELSE << >>])

IdOf(c) == IF IsFirstParty(c) THEN c.predicate ELSE c.id

Ids(caveats) == [i \in 1..Len(caveats) |-> IdOf(caveats[i])]

VerifierIds(caveats) ==
  FlattenSeq([i \in 1..Len(caveats) |->
    IF IsFirstParty(caveats[i]) THEN << >> ELSE <<caveats[i].verifier_id>>])

LocationsOf(caveats) ==
  FlattenSeq([i \in 1..Len(caveats) |->
    IF IsFirstParty(caveats[i]) THEN << >> ELSE <<caveats[i].location>>])

\* An accepted token is one macaroon's: the caveats have, in order, the ids of
\* its cid packets and, if it has one, the verifier ids and locations of its
\* vid and cl packets; no caveat is lost at the end or at the next cid, and none
\* takes a field of the one before.
CaveatsAsWritten ==
  outcome = "Ok" =>
    /\ builder \in Macaroons
    /\ ValuesOf("CID", read) = Ids(builder.caveats)
    /\ builder.caveats # << >> =>
         /\ ValuesOf("VID", read) = VerifierIds(builder.caveats)
         /\ ValuesOf("CL", read) = LocationsOf(builder.caveats)

SerializableMacaroons == { m \in Macaroons : Serializes(m) }
Encodings == { Encode(m) : m \in SerializableMacaroons }
EncodedBeginnings == Beginnings(Encodings)

\* What serialize makes of a macaroon is read back as that macaroon.
ReadsBack ==
  /\ outcome \in ParseErrors => read \notin EncodedBeginnings
  /\ outcome = "Ok" /\ read \in Encodings => read = Encode(builder)

\* ChangeLog.md:33-34, "Parsers reject non-canonical encodings so a given
\* macaroon has one byte representation and cannot carry hidden trailing
\* payload": an accepted token is what serialize makes of its macaroon.
OneRepresentation == outcome = "Ok" => read = Encode(builder)
=============================================================================
