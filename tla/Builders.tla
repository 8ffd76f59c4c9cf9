------------------------------ MODULE Builders ------------------------------
(***************************************************************************)
(* What the three parsers share: the byte strings of a token, the limits,   *)
(* the two builders (CaveatBuilder of src/src/caveat.rs and                 *)
(* src/src/serialization/macaroon_builder.rs) and the call of deserialize.  *)
(* A field that a builder has not been given is None.                       *)
(*                                                                          *)
(* A token is a sequence of items (fields, packets, objects) closed by END, *)
(* where the bytes end.  It is not known beforehand: each step of a parser  *)
(* reads whatever item comes next.                                          *)
(***************************************************************************)
EXTENDS Macaroon, SequencesExt

CONSTANTS
  Value,    \* the byte strings that fields of tokens hold
  Empty,    \* the one of no bytes
  None,
  Size(_),  \* the length of a value in bytes
  Utf8(_),  \* is it UTF-8?
  MAX_CAVEATS,
  MAX_FIELD_SIZE_BYTES,
  SIGNATURE_SIZE, \* 32
  MaxItems        \* bound: items of a token before its END

ASSUME ValueAssumption ==
  /\ Empty \in Value
  /\ None \notin Value
  /\ \A v \in Value : Size(v) \in Nat /\ (Size(v) = 0 <=> v = Empty)
  /\ Utf8(Empty)
  /\ {MAX_CAVEATS, MAX_FIELD_SIZE_BYTES, SIGNATURE_SIZE, MaxItems}
       \subseteq Nat

TooLarge(v) == Size(v) > MAX_FIELD_SIZE_BYTES

NewCaveatBuilder == [id |-> None, verifier_id |-> None, location |-> None]

\* CaveatBuilder::build, for the builders that it does not refuse.
Complete(cb) ==
  cb.id # None /\ (cb.verifier_id = None <=> cb.location = None)

CaveatOf(cb) ==
  IF cb.verifier_id = None THEN FirstParty(cb.id)
                           ELSE ThirdParty(cb.id, cb.verifier_id, cb.location)

\* MacaroonBuilder: a macaroon of which fields may be missing.
NewMacaroonBuilder ==
  [identifier |-> Empty, location |-> None, signature |-> None,
   caveats |-> << >>]

\* Mutant: no limit on the caveats of a token.
HasRoomAlways(b) == TRUE

HasRoom(b) == Len(b.caveats) < MAX_CAVEATS

\* What makes builder.add_caveat(caveat_builder.build()?)? fail.
CaveatErrors(b, cb) ==
  { e \in {"IncompleteCaveat", "TooManyCaveats"} :
      IF Complete(cb) THEN e = "TooManyCaveats" /\ ~HasRoom(b)
                      ELSE e = "IncompleteCaveat" }

WithBuilt(b, cb) == [b EXCEPT !.caveats = Append(@, CaveatOf(cb))]

\* What makes build (and, after it, validate) fail.
BuildErrors(b) ==
  { e \in {"IncompleteMacaroon"} : b.identifier = Empty \/ b.signature = None }

ParseErrors ==
  { "DeserializationError", "FieldTooLarge", "IncompleteCaveat",
    "TooManyCaveats", "IncompleteMacaroon" }

-----------------------------------------------------------------------------
(***************************************************************************)
(* The macaroons within the limits, all of which the calls of MacaroonApi   *)
(* can make or the parsers accept.                                          *)
(***************************************************************************)
Fields == { v \in Value : ~TooLarge(v) }
Locations == { v \in Fields : Utf8(v) }

Caveats ==
  { FirstParty(p) : p \in Fields }
    \cup { ThirdParty(i, v, l) : i \in Fields, v \in Fields, l \in Locations }

Macaroons ==
  [identifier : Fields \ {Empty},
   location   : Locations \cup {None},
   signature  : { v \in Value : Size(v) = SIGNATURE_SIZE },
   caveats    : UNION { [1..n -> Caveats] : n \in 0..MAX_CAVEATS }]

-----------------------------------------------------------------------------
VARIABLES
  read,            \* the items read so far (history)
  builder,
  caveat_builder,
  outcome          \* "Idle", "Parsing", "Ok" or the error returned

parserVars == <<read, builder, caveat_builder, outcome>>

ParserInit ==
  /\ read = << >>
  /\ builder = NewMacaroonBuilder
  /\ caveat_builder = NewCaveatBuilder
  /\ outcome = "Idle"

deserialize ==
  /\ outcome = "Idle"
  /\ outcome' = "Parsing"
  /\ UNCHANGED <<read, builder, caveat_builder>>

\* The caller has the result; the builders were locals.
Return ==
  /\ outcome \in ParseErrors \cup {"Ok"}
  /\ read' = << >>
  /\ builder' = NewMacaroonBuilder
  /\ caveat_builder' = NewCaveatBuilder
  /\ outcome' = "Idle"

Parsing == outcome = "Parsing"

\* The next item of the token is item, of which end is the last.
Reads(item, end) ==
  /\ Len(read) >= MaxItems => item = end
  /\ read' = Append(read, item)

Fail(errors) ==
  /\ outcome' \in errors
  /\ UNCHANGED <<builder, caveat_builder>>

BuilderOK ==
  /\ builder.identifier \in Fields
  /\ builder.location \in Locations \cup {None}
  /\ builder.signature = None \/ Size(builder.signature) = SIGNATURE_SIZE
  /\ builder.caveats \in Seq(Caveats) /\ Len(builder.caveats) <= MAX_CAVEATS

CaveatBuilderOK ==
  /\ {caveat_builder.id, caveat_builder.verifier_id} \subseteq Fields \cup {None}
  /\ caveat_builder.location \in Locations \cup {None}

\* The beginnings of tokens.
Beginnings(tokens) ==
  UNION { { SubSeq(token, 1, n) : n \in 0..Len(token) } : token \in tokens }
=============================================================================
