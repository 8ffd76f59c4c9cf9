------------------------------ MODULE BytesV1 ------------------------------
(***************************************************************************)
(* The bytes of the packet format V1 (src/src/serialization/v1.rs):         *)
(* serialize_as_packet, and deserialize_as_packets one packet at a time.    *)
(* FormatV1 is about the packets that they write and read.                  *)
(*                                                                          *)
(* The width of the header and its radix are parameters, 4 and 16 in the    *)
(* code.  The token is not known beforehand: each step reads whatever bytes *)
(* come next.                                                               *)
(***************************************************************************)
EXTENDS Naturals, SequencesExt, Digits

CONSTANTS
  HeaderByte,   \* the bytes that headers are enumerated from
  DataByte,     \* the bytes that keys and values are enumerated from
  HEX,          \* the digits in order, as packet_header writes them
  UpperHex,     \* the digits in order, as from_str_radix takes them too
  PLUS, SPACE, NEWLINE,
  EOF,          \* where the bytes end before a packet does
  Utf8(_),      \* is a sequence of bytes UTF-8?
  HEADER_SIZE,  \* 4
  Tag,          \* the names of the fields
  MaxBytes      \* bound: bytes of a token

RADIX == Len(HEX)
MAX_PACKET_SIZE == NumberOf([i \in 1..HEADER_SIZE |-> RADIX - 1], RADIX)  \* 0xFFFF

ASSUME BytesAssumption ==
  /\ HEADER_SIZE \in Nat \ {0} /\ MaxBytes \in Nat
  /\ HEX \in Seq(HeaderByte \ {PLUS}) /\ Len(UpperHex) = RADIX /\ RADIX > 1
  /\ \A d, e \in 1..RADIX :
       {HEX[d], UpperHex[d]} \cap {HEX[e], UpperHex[e]} # {} => d = e
  /\ EOF \notin HeaderByte \cup DataByte \cup {NEWLINE}
  /\ \A tag \in Tag : tag \in Seq(DataByte \ {SPACE}) /\ Utf8(tag)

Packet(key, value) == [key |-> key, value |-> value]

Header == [1..HEADER_SIZE -> HeaderByte]

-----------------------------------------------------------------------------
(***************************************************************************)
(* serialize_as_packet.                                                     *)
(***************************************************************************)
PacketSize(key, value) == HEADER_SIZE + 2 + Len(key) + Len(value)

\* The header has the lower digits of the size.
packet_header(size) ==
  LET digits == DigitsOf(size, RADIX, HEADER_SIZE)
  IN  [i \in 1..HEADER_SIZE |-> HEX[digits[i] + 1]]

\* For the sizes that it does not refuse (FormatV1!TooLong).
serialize_as_packet(key, value) ==
  packet_header(PacketSize(key, value)) \o key \o <<SPACE>> \o value \o <<NEWLINE>>

-----------------------------------------------------------------------------
(***************************************************************************)
(* usize::from_str_radix: digits of either case after at most one sign.     *)
(***************************************************************************)
DigitValues(b) == { d \in 0..(RADIX - 1) : b \in {HEX[d + 1], UpperHex[d + 1]} }

Unsigned(header) ==
  IF Head(header) = PLUS /\ Len(header) > 1 THEN Tail(header) ELSE header

IsNumber(header) ==
  \A i \in 1..Len(Unsigned(header)) : DigitValues(Unsigned(header)[i]) # {}

SizeOf(header) ==
  LET digits   == Unsigned(header)
      value(b) == CHOOSE d \in DigitValues(b) : TRUE
  IN  NumberOf([i \in 1..Len(digits) |-> value(digits[i])], RADIX)

-----------------------------------------------------------------------------
VARIABLES
  chunks,   \* the bytes of the token so far, packet by packet (history)
  packets,
  outcome   \* "Idle", "Parsing", "Ok", the error, or "Panic"

vars == <<chunks, packets, outcome>>

Init == chunks = << >> /\ packets = << >> /\ outcome = "Idle"

deserialize_as_packets ==
  /\ outcome = "Idle"
  /\ outcome' = "Parsing"
  /\ UNCHANGED <<chunks, packets>>

Return ==
  /\ outcome \in {"Ok", "DeserializationError", "Panic"}
  /\ outcome' = "Idle"
  /\ chunks' = << >>
  /\ packets' = << >>

\* bound: how many bytes may follow.
Room == MaxBytes - Len(FlattenSeq(chunks))

Refuse(bytes) ==
  /\ outcome' = "DeserializationError"
  /\ chunks' = Append(chunks, bytes)
  /\ UNCHANGED packets

\* A slice out of range panics.
Sliced(inRange, bytes) ==
  /\ outcome' = IF inRange THEN outcome ELSE "Panic"
  /\ chunks' = Append(chunks, bytes)

NoBytesLeft ==
  /\ outcome' = "Ok"
  /\ UNCHANGED <<chunks, packets>>

NoRoomForHeader ==
  \E n \in 1..(HEADER_SIZE - 1), b \in HeaderByte :
    n <= Room /\ Refuse([i \in 1..n |-> b] \o <<EOF>>)

NotANumber(header) == ~IsNumber(header) /\ Refuse(header)

\* Mutant: the smallest sizes, which end a packet in its own header, are taken.
NeverTooSmall(size) == FALSE

TooSmall(size) == size <= HEADER_SIZE

SizeTooSmall(header) ==
  IsNumber(header) /\ TooSmall(SizeOf(header)) /\ Refuse(header)

\* The token ends before the packet does.
SizeTooLarge(header) ==
  /\ IsNumber(header)
  /\ \E n \in 0..(Room - HEADER_SIZE), b \in DataByte :
       /\ HEADER_SIZE + n < SizeOf(header)
       /\ Refuse(header \o [i \in 1..n |-> b] \o <<EOF>>)

\* split_index: the first space; 0 when there is none.
Split(data) == SelectInSeq(data, LAMBDA b : b = SPACE)

\* The length of the value slice, from the space to the end of the packet.
SliceLength(data) == Len(data) - Split(data) + 1

\* Mutant: a packet with an empty value is refused.
HasSomeValue(data) == SliceLength(data) >= 3

HasValue(data) == SliceLength(data) >= 2

KeyOf(data) == SubSeq(data, 1, Split(data) - 1)

\* Mutant: the byte that ends the packet is left in the value.
ValueWithEnd(data) == SubSeq(data, Split(data) + 1, Len(data))

ValueOf(data) == SubSeq(data, Split(data) + 1, Len(data) - 1)

\* check_field_size refuses nothing here: no header says more than the limit.
Malformed(data) == Split(data) = 0 \/ ~HasValue(data) \/ ~Utf8(KeyOf(data))

ReadPacket(header, data) ==
  IF Malformed(data)
    THEN Refuse(header \o data)
    ELSE /\ Sliced(SliceLength(data) >= 2, header \o data)
         /\ packets' = Append(packets, Packet(KeyOf(data), ValueOf(data)))

\* The packet data is the slice from the end of the header to the size.
SplitPacket(header) ==
  LET size == SizeOf(header)
  IN  /\ IsNumber(header)
      /\ ~TooSmall(size)
      /\ IF size < HEADER_SIZE
           THEN Sliced(FALSE, header) /\ UNCHANGED packets
           ELSE /\ size <= Room
                /\ \E data \in [1..(size - HEADER_SIZE) -> DataByte] :
                     ReadPacket(header, data)

Step(header) ==
  \/ NotANumber(header) \/ SizeTooSmall(header) \/ SizeTooLarge(header)
  \/ SplitPacket(header)

Parsing == outcome = "Parsing"

Next ==
  \/ deserialize_as_packets
  \/ Parsing /\ (NoBytesLeft \/ NoRoomForHeader)
  \/ Parsing /\ Room >= HEADER_SIZE /\ \E header \in Header : Step(header)
  \/ Return

Spec == Init /\ [][Next]_vars

-----------------------------------------------------------------------------
\* src/fuzz/README.md, "must never panic": no bytes at all make a slice of the
\* token go out of range.
NeverPanics == outcome # "Panic"

HeaderSize(chunk) == SizeOf(SubSeq(chunk, 1, HEADER_SIZE))

\* A packet that was read is the one that serialize_as_packet writes for its
\* key and value, but for the spelling of the header (sign, capital digits)
\* and the byte in place of the newline.
Spells(chunk, packet) ==
  LET written == serialize_as_packet(packet.key, packet.value)
  IN  /\ {Len(chunk), HeaderSize(chunk), HeaderSize(written)} = {Len(written)}
      /\ \A i \in (HEADER_SIZE + 1)..(Len(chunk) - 1) : chunk[i] = written[i]

\* The packets of an accepted token are those of its bytes, in order and with
\* no byte left over, whatever bytes, spaces and newlines among them, are in
\* their values.
ReadsWhatIsThere ==
  outcome \in {"Parsing", "Ok"} =>
    /\ Len(packets) = Len(chunks)
    /\ \A i \in 1..Len(packets) :
         Spells(chunks[i], packets[i]) /\ SPACE \notin Range(packets[i].key)

\* What serialize_as_packet can write within the bounds.
WrittenPackets ==
  { serialize_as_packet(key, value) :
      key \in Tag, value \in BoundedSeq(DataByte, MaxBytes - HEADER_SIZE - 2) }
WrittenHeaders == { packet_header(size) : size \in (HEADER_SIZE + 3)..MAX_PACKET_SIZE }

\* A packet is refused at no point that serialize_as_packet may have written.
RefusesNothingWritten ==
  outcome = "DeserializationError" =>
    Last(chunks) \notin WrittenPackets \cup WrittenHeaders
=============================================================================
