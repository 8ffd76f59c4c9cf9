------------------------------ MODULE FormatV2 ------------------------------
(***************************************************************************)
(* The binary format V2 (src/src/serialization/v2.rs): the serializer, and  *)
(* deserialize one tag at a time.  An item is a tag, a field's tag with its  *)
(* value.  The version byte before them is not an item.  BytesV2 reads the   *)
(* items from their bytes.                                                   *)
(***************************************************************************)
EXTENDS Builders

CONSTANT Unreadable  \* a field cut off, or whose size get_field_size refuses

ASSUME FieldAssumption ==
  /\ Unreadable \notin Value \cup {None}
  /\ SIGNATURE_SIZE <= MAX_FIELD_SIZE_BYTES

FieldTags == {"LOCATION", "IDENTIFIER", "VID", "SIGNATURE"}

Field(tag, value) == [tag |-> tag, value |-> value]
EOS == Field("EOS", None)
END == Field("END", None)
UNKNOWN == Field("UNKNOWN", None)

Items ==
  { Field(tag, value) : tag \in FieldTags, value \in Value \cup {Unreadable} }
    \cup {EOS, END, UNKNOWN}

\* serialize_binary.
EncodeCaveat(c) ==
  IF IsFirstParty(c)
    THEN <<Field("IDENTIFIER", c.predicate), EOS>>
    ELSE <<Field("LOCATION", c.location), Field("IDENTIFIER", c.id),
           Field("VID", c.verifier_id), EOS>>

Encode(m) ==
  (IF m.location = None THEN << >> ELSE <<Field("LOCATION", m.location)>>)
    \o <<Field("IDENTIFIER", m.identifier), EOS>>
    \o FlattenSeq([i \in 1..Len(m.caveats) |-> EncodeCaveat(m.caveats[i])])
    \o <<EOS, Field("SIGNATURE", m.signature), END>>

-----------------------------------------------------------------------------
VARIABLE at  \* where deserialize is

vars == <<parserVars, at>>

Init == ParserInit /\ at = "Start"

\* The tags that deserialize accepts at each point.
Expected ==
  CASE at = "Start"      -> {"LOCATION", "IDENTIFIER"}
    [] at = "Identifier" -> {"IDENTIFIER"}
    [] at = "Eos"        -> {"EOS"}
    [] at = "Caveat"     -> {"LOCATION", "IDENTIFIER", "EOS"}
    [] at = "CaveatId"   -> {"IDENTIFIER"}
    [] at = "CaveatEnd"  -> {"VID", "EOS"}
    [] at = "CaveatEos"  -> {"EOS"}
    [] at = "Signature"  -> {"SIGNATURE"}
    [] at = "End"        -> {"END"}

\* What get_field, from_utf8 and the test of the signature's length refuse.
FieldErrors(item) ==
  { e \in {"DeserializationError", "FieldTooLarge"} :
      IF item.tag \in FieldTags /\ item.value # Unreadable /\ TooLarge(item.value)
        THEN e = "FieldTooLarge"
        ELSE /\ e = "DeserializationError"
             /\ \/ item.value = Unreadable
                \/ item.tag = "LOCATION" /\ ~Utf8(item.value)
                \/ item.tag = "SIGNATURE" /\ Size(item.value) # SIGNATURE_SIZE }

\* The caveat that an EOS or a VID after the identifier completes.
Completed(item) ==
  [caveat_builder EXCEPT
     !.verifier_id = IF item.tag = "VID" THEN item.value ELSE @]

\* The errors that reading item ends with: one or none.
Errors(item) ==
  IF item.tag \notin Expected THEN {"DeserializationError"}
  ELSE IF FieldErrors(item) # {} THEN FieldErrors(item)
  ELSE CASE at = "CaveatEnd" -> CaveatErrors(builder, Completed(item))
         [] at = "End"       -> BuildErrors(builder)
         [] OTHER            -> {}

Refuse(item) == Fail(Errors(item)) /\ UNCHANGED at

Read(item, tag, next) ==
  /\ item.tag = tag
  /\ Errors(item) = {}
  /\ at' = next
  /\ UNCHANGED outcome

ReadLocation(item) ==
  /\ at = "Start"
  /\ Read(item, "LOCATION", "Identifier")
  /\ builder' = [builder EXCEPT !.location = item.value]
  /\ UNCHANGED caveat_builder

ReadIdentifier(item) ==
  /\ at \in {"Start", "Identifier"}
  /\ Read(item, "IDENTIFIER", "Eos")
  /\ builder' = [builder EXCEPT !.identifier = item.value]
  /\ UNCHANGED caveat_builder

ReadCaveatLocation(item) ==
  /\ at = "Caveat"
  /\ Read(item, "LOCATION", "CaveatId")
  /\ caveat_builder' = [caveat_builder EXCEPT !.location = item.value]
  /\ UNCHANGED builder

ReadCaveatIdentifier(item) ==
  /\ at \in {"Caveat", "CaveatId"}
  /\ Read(item, "IDENTIFIER", "CaveatEnd")
  /\ caveat_builder' = [caveat_builder EXCEPT !.id = item.value]
  /\ UNCHANGED builder

AddCaveat(item) ==
  /\ at = "CaveatEnd"
  /\ \/ Read(item, "VID", "CaveatEos")
     \/ Read(item, "EOS", "Caveat")
  /\ builder' = WithBuilt(builder, Completed(item))
  /\ caveat_builder' = NewCaveatBuilder

\* After the identifier, after a VID, and in place of another caveat.
ReadEos(item) ==
  /\ \/ at \in {"Eos", "CaveatEos"} /\ Read(item, "EOS", "Caveat")
     \/ at = "Caveat" /\ Read(item, "EOS", "Signature")
  /\ UNCHANGED <<builder, caveat_builder>>

ReadSignature(item) ==
  /\ at = "Signature"
  /\ Read(item, "SIGNATURE", "End")
  /\ builder' = [builder EXCEPT !.signature = item.value]
  /\ UNCHANGED caveat_builder

\* Mutant: bytes after the signature are ignored.
BuildIgnoringRest(item) ==
  /\ at = "End"
  /\ BuildErrors(builder) = {}
  /\ outcome' = "Ok"
  /\ UNCHANGED <<at, builder, caveat_builder>>

Build(item) ==
  /\ at = "End"
  /\ Errors(item) = {}
  /\ outcome' = "Ok"
  /\ UNCHANGED <<at, builder, caveat_builder>>

Step(item) ==
  /\ Reads(item, END)
  /\ \/ ReadLocation(item) \/ ReadIdentifier(item)
     \/ ReadCaveatLocation(item) \/ ReadCaveatIdentifier(item)
     \/ AddCaveat(item) \/ ReadEos(item)
     \/ ReadSignature(item) \/ Build(item)
     \/ Refuse(item)

WrongVersion ==
  /\ read = << >>
  /\ Fail({"DeserializationError"})
  /\ UNCHANGED <<read, at>>

Next ==
  \/ deserialize /\ UNCHANGED at
  \/ Parsing /\ WrongVersion
  \/ Parsing /\ \E item \in Items : Step(item)
  \/ Return /\ at' = "Start"

Spec == Init /\ [][Next]_vars

-----------------------------------------------------------------------------
\* The type invariant: the builders stay within the limits, and no verifier
\* id waits in the caveat builder.
TypeOK ==
  /\ read \in Seq(Items)
  /\ BuilderOK /\ CaveatBuilderOK /\ caveat_builder.verifier_id = None
  /\ outcome \in ParseErrors \cup {"Idle", "Parsing", "Ok"}

\* A token is accepted only if it is, item for item, what serialize makes of
\* the macaroon that was read: a macaroon has one encoding, and no token says
\* anything that its macaroon does not.
OneEncoding ==
  outcome = "Ok" => builder \in Macaroons /\ read = Encode(builder)
=============================================================================
