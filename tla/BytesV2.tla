------------------------------ MODULE BytesV2 ------------------------------
(***************************************************************************)
(* The binary format V2 byte by byte: varint_size and the Deserializer of   *)
(* src/src/serialization/v2.rs, with the step of FormatV2 that each item    *)
(* leads to taken with its last byte.                                       *)
(*                                                                          *)
(* The widths are parameters: a byte carries DIGIT bits of a size and the   *)
(* flag that more follow (7 and 1 in the code), a usize has BITS.  A value  *)
(* is the sequence of its bytes.  The data are read in one step, being no   *)
(* more than a slice; how much of them there is, the next bytes tell.       *)
(***************************************************************************)
EXTENDS FormatV2

CONSTANTS
  DIGIT,  \* 7
  BITS    \* 64

VARINT_PACK_SIZE == 2^DIGIT
VERSION == 2
Byte == 0..(2 * VARINT_PACK_SIZE - 1)
EOF == 2 * VARINT_PACK_SIZE  \* where the bytes end

ASSUME WidthAssumption ==
  /\ DIGIT \in 2..7 /\ BITS \in Nat /\ BITS >= DIGIT + 1
  /\ Empty = << >>
  /\ \A v \in Value : v \in Seq(Byte) /\ Size(v) = Len(v)
  /\ \E v \in Value : TooLarge(v)

\* A size within the limit never needs the last digit of a usize.
ASSUME SizeAssumption == MAX_FIELD_SIZE_BYTES < 2^(BITS - DIGIT)

TagByte == [EOS |-> 0, LOCATION |-> 1, IDENTIFIER |-> 2, VID |-> 4, SIGNATURE |-> 6]

TagOf(b) ==
  IF \E tag \in DOMAIN TagByte : TagByte[tag] = b
    THEN CHOOSE tag \in DOMAIN TagByte : TagByte[tag] = b
    ELSE "UNKNOWN"

Digit(b) == b % VARINT_PACK_SIZE
More(b) == b >= VARINT_PACK_SIZE

-----------------------------------------------------------------------------
\* Mutant: a size of exactly one digit more is cut off.
FillsDigitStrictly(size) == size > VARINT_PACK_SIZE

FillsDigit(size) == size >= VARINT_PACK_SIZE

varint_size[size \in Nat] ==
  IF FillsDigit(size)
    THEN <<Digit(size) + VARINT_PACK_SIZE>> \o varint_size[size \div VARINT_PACK_SIZE]
    ELSE <<size>>

serialize_field(item) ==
  CASE item = END -> <<EOF>>
    [] item = EOS -> <<TagByte["EOS"]>>
    [] OTHER -> <<TagByte[item.tag]>> \o varint_size[Size(item.value)] \o item.value

serialize_binary(m) ==
  LET items == Encode(m)
  IN  <<VERSION>> \o FlattenSeq([i \in 1..Len(items) |-> serialize_field(items[i])])

-----------------------------------------------------------------------------
VARIABLES
  bytes,  \* the bytes read so far (history)
  part,   \* what the next of them is: "Version", "Tag", "Size" or "Data"
  field   \* tag, size and shift of the field being read

byteVars == <<bytes, part, field>>
allVars == <<vars, byteVars>>

NoField == [tag |-> None, size |-> 0, shift |-> 0]

ByteInit == Init /\ bytes = << >> /\ part = "Version" /\ field = NoField

\* The item ends with bytes bs; the next one begins with a tag.
Ends(item, bs) ==
  /\ Step(item)
  /\ bytes' = bytes \o bs
  /\ part' = "Tag"
  /\ field' = NoField

Reading(what, b) == part = what /\ bytes' = Append(bytes, b)

ReadVersion(b) ==
  /\ Reading("Version", b)
  /\ IF b = VERSION
       THEN part' = "Tag" /\ UNCHANGED <<vars, field>>
       ELSE WrongVersion /\ UNCHANGED <<part, field>>

\* A tag that is expected, of a field: its size follows.
BeginField(b) ==
  /\ Reading("Tag", b)
  /\ TagOf(b) \in Expected \cap FieldTags
  /\ Len(read) < MaxItems
  /\ part' = "Size"
  /\ field' = [NoField EXCEPT !.tag = TagOf(b)]
  /\ UNCHANGED vars

\* Any other tag is an item of its own.
ReadTag(b) ==
  /\ part = "Tag"
  /\ TagOf(b) \notin Expected \cap FieldTags
  /\ Ends(Field(TagOf(b), IF TagOf(b) \in FieldTags THEN Unreadable ELSE None), <<b>>)

\* |= and << in a usize; for | to be + see NoDigitLost.
SizeWith(b) == (field.size + Digit(b) * 2^field.shift) % 2^BITS

\* Mutant: the last digit may reach beyond the width of a usize.
FitsAnyBit(shift) == shift < BITS

\* The condition of the loop in get_field_size.
Fits(shift) == shift <= BITS - (DIGIT + 1)

NextDigit(b) ==
  /\ Reading("Size", b)
  /\ More(b)
  /\ Fits(field.shift + DIGIT)
  /\ field' = [field EXCEPT !.size = SizeWith(b), !.shift = @ + DIGIT]
  /\ UNCHANGED <<vars, part>>

\* Mutant: any last digit is taken.
AnyLastDigit(b) == ~More(b)

\* A digit that ends the size, and is not a zero too many.
LastDigit(b) == ~More(b) /\ ~(b = 0 /\ field.shift > 0)

RefuseSize(b) ==
  /\ part = "Size"
  /\ More(b) => ~Fits(field.shift + DIGIT)
  /\ ~LastDigit(b)
  /\ Ends(Field(field.tag, Unreadable), <<b>>)

CompleteSize(b) ==
  /\ part = "Size"
  /\ LastDigit(b)
  /\ \/ /\ SizeWith(b) > MAX_FIELD_SIZE_BYTES
        /\ \E v \in Value : TooLarge(v) /\ Ends(Field(field.tag, v), <<b>>)
     \/ /\ SizeWith(b) <= MAX_FIELD_SIZE_BYTES
        /\ Reading("Size", b)
        /\ part' = "Data"
        /\ field' = [field EXCEPT !.size = SizeWith(b)]
        /\ UNCHANGED vars

ReadData ==
  /\ part = "Data"
  /\ \E v \in Value : Size(v) = field.size /\ Ends(Field(field.tag, v), v)

\* The bytes end inside a field's data.
DataCutOff ==
  /\ part = "Data"
  /\ \E v \in Value :
       /\ Size(v) < field.size
       /\ Ends(Field(field.tag, Unreadable), Append(v, EOF))

\* The bytes end where get_byte or is_exhausted looks for another.
Exhausted ==
  \/ Reading("Version", EOF) /\ WrongVersion /\ UNCHANGED <<part, field>>
  \/ part = "Tag" /\ Ends(END, <<EOF>>)
  \/ part = "Size" /\ Ends(Field(field.tag, Unreadable), <<EOF>>)

ReadByte(b) ==
  \/ ReadVersion(b) \/ BeginField(b) \/ ReadTag(b)
  \/ NextDigit(b) \/ RefuseSize(b) \/ CompleteSize(b)

ByteNext ==
  \/ deserialize /\ UNCHANGED <<at, byteVars>>
  \/ Parsing /\ \E b \in Byte : ReadByte(b)
  \/ Parsing /\ (ReadData \/ DataCutOff \/ Exhausted)
  \/ /\ Return
     /\ at' = "Start" /\ bytes' = << >> /\ part' = "Version" /\ field' = NoField

ByteSpec == ByteInit /\ [][ByteNext]_allVars

-----------------------------------------------------------------------------
\* A token is accepted only if it is, byte for byte, what serialize makes of
\* the macaroon that was read: no size is spelled with other digits, none
\* loses a digit beyond the width of a usize, and nothing follows the end.
OneEncodingInBytes ==
  outcome = "Ok" => builder \in Macaroons /\ bytes = serialize_binary(builder)

EncodedBytes == Beginnings({ serialize_binary(m) : m \in Macaroons })

\* What serialize makes of any macaroon within the limits is not refused, at
\* any of its bytes.
RefusesNoEncodedBytes == outcome \in ParseErrors => bytes \notin EncodedBytes

\* While the digits of a size are read, those before the next one fill the bits
\* below it, and all of its bits lie in a usize: |= adds it, and << loses none.
NoDigitLost ==
  part = "Size" =>
    field.size < 2^field.shift /\ field.shift + DIGIT <= BITS
=============================================================================
