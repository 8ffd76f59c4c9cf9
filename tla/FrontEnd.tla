------------------------------ MODULE FrontEnd ------------------------------
(***************************************************************************)
(* From a token to a parser (src/src/lib.rs): serialize, deserialize and     *)
(* deserialize_binary of Macaroon, base64_decode_flexible with the base64    *)
(* engines it uses, and the base64 fields of V2JSON.  The parsers and the    *)
(* bytes they read are in FormatV1, FormatV2 and FormatV2Json.               *)
(*                                                                           *)
(* Three bytes are four characters, as in base64, but bytes have four bits   *)
(* and characters three, so that all short texts can be enumerated.          *)
(***************************************************************************)
EXTENDS Integers, SequencesExt, Digits

CONSTANTS
  STANDARD,    \* the two alphabets, the digits 0 to 7 in order:
  URL_SAFE,    \*   they differ in the last two
  PAD,         \* =
  BRACE,       \* {
  Char,        \* the characters that texts are enumerated from
  VERSION,     \* the first byte of V2
  HexDigits,   \* the bytes that are hex digits, of either case
  V1First,     \* those that packet_header writes
  None,
  MaxText,     \* bound: characters of any text
  MaxBinary    \* bound: bytes of a token that some implementation writes

Byte == 0..15

ASSUME FrontEndAssumption ==
  /\ STANDARD \in Injection(1..8, Range(STANDARD))
  /\ URL_SAFE \in Injection(1..8, Range(URL_SAFE))
  /\ VERSION \in Byte /\ V1First \subseteq HexDigits /\ HexDigits \subseteq Byte
  /\ VERSION \notin HexDigits
  /\ {PAD, BRACE} \cap (Range(STANDARD) \cup Range(URL_SAFE)) = {}
  /\ \A n \in 1..6 : STANDARD[n] = URL_SAFE[n]
  /\ {URL_SAFE[7], URL_SAFE[8]} \cap Range(STANDARD) = {}
  /\ MaxText \in Nat /\ MaxBinary \in Nat

Texts == BoundedSeq(Char, MaxText)
Binaries == BoundedSeq(Byte, MaxBinary)

-----------------------------------------------------------------------------
(***************************************************************************)
(* The base64 crate.  A text or a binary is read as one number, of digits    *)
(* in the base that it has.                                                  *)
(***************************************************************************)
\* The bits of the last character that no byte fills.
SpareBits(chars) == (3 * chars) % 4

\* Ceiling of 4n/3.
CharsFor(n) == (4 * n + 2) \div 3

Encode(binary, alphabet, pads) ==
  LET chars  == CharsFor(Len(binary))
      digits == DigitsOf(NumberOf(binary, 16) * 2^SpareBits(chars), 8, chars)
  IN  [i \in 1..chars |-> alphabet[digits[i] + 1]] \o [i \in 1..pads |-> PAD]

\* The = that fill up the last four characters.
FullPadding(chars) == (4 - (chars % 4)) % 4

\* The characters before the first =.
Body(text) ==
  LET pad == SelectInSeq(text, LAMBDA c : c = PAD)
  IN  IF pad = 0 THEN text ELSE SubSeq(text, 1, pad - 1)
Pads(text) == Len(text) - Len(Body(text))

\* Mutant: the spare bits may have any value (decode_allow_trailing_bits).
AnySpareBits(number, chars) == TRUE

\* GeneralPurposeConfig::new, which allows no trailing bits.
SpareBitsAreZero(number, chars) == number % 2^SpareBits(chars) = 0

\* DecodePaddingMode::Indifferent: as many = as there should be, or fewer.
PaddingIndifferent(text) ==
  /\ text = Body(text) \o [i \in 1..Pads(text) |-> PAD]
  /\ Pads(text) <= FullPadding(Len(Body(text)))

\* decode: the binary, or none.
Decode(text, alphabet) ==
  LET body     == Body(text)
      chars    == Len(body)
      digit(c) == SelectInSeq(alphabet, LAMBDA a : a = c) - 1
      number   == NumberOf([i \in 1..chars |-> digit(body[i])], 8)
  IN  IF /\ Range(body) \subseteq Range(alphabet)
         /\ PaddingIndifferent(text)
         /\ chars % 4 # 1
         /\ SpareBitsAreZero(number, chars)
        THEN { DigitsOf(number \div 2^SpareBits(chars), 16, (3 * chars) \div 4) }
        ELSE {}

-----------------------------------------------------------------------------
\* Mutant: only one of the two characters tells the URL-safe alphabet.
OnlyUnderscore(text) == URL_SAFE[8] \in Range(text)

LooksUrlSafe(text) == {URL_SAFE[7], URL_SAFE[8]} \cap Range(text) # {}

\* Mutant: empty input is not looked for.
NeverEmpty(s) == FALSE

IsEmpty(s) == s = << >>

base64_decode_flexible(text) ==
  IF IsEmpty(text) THEN {}
  ELSE Decode(text, IF LooksUrlSafe(text) THEN URL_SAFE ELSE STANDARD)

\* match token[0], which panics if there is none.
FormatOfText(text) ==
  IF text = << >> THEN "Panic" ELSE IF text[1] = BRACE THEN "V2JSON" ELSE "Base64"

FormatOfBinary(binary) ==
  IF binary = << >> THEN "Panic"
  ELSE IF binary[1] = VERSION THEN "V2"
  ELSE IF binary[1] \in HexDigits THEN "V1"
  ELSE "Refused"

-----------------------------------------------------------------------------
VARIABLES
  token,   \* the text that was given, None if a binary was
  binary,  \* the bytes that were given, or decoded from it
  origin,  \* who wrote it: a format and its bytes; None if nobody (history)
  at       \* "Idle", where the call is, or what came of it

vars == <<token, binary, origin, at>>

Init == token = None /\ binary = None /\ origin = None /\ at = "Idle"

Enter(text, bytes, from, where) ==
  /\ token' = text
  /\ binary' = bytes
  /\ origin' = from
  /\ at' = where

\* The bytes that each format starts with; a field of V2JSON has at least one,
\* the empty ones being refused (FormatV2Json).
Starts(format, bytes) ==
  CASE format = "V1"    -> bytes[1] \in V1First
    [] format = "V2"    -> bytes[1] = VERSION
    [] format = "Field" -> TRUE

Written(format, bytes, alphabet, pads) ==
  /\ Starts(format, bytes)
  /\ Enter(Encode(bytes, alphabet, pads), None, [format |-> format, binary |-> bytes],
           IF format = "Field" THEN "Field" ELSE "Text")

\* Macaroon::serialize, and Display of a field: URL_SAFE, URL_SAFE_NO_PAD.
serialize(format, bytes) ==
  Written(format, bytes, URL_SAFE,
          IF format = "Field" THEN 0 ELSE FullPadding(CharsFor(Len(bytes))))

\* Another implementation: either alphabet, with padding or without.
OtherWriter(format, bytes) ==
  \E alphabet \in {STANDARD, URL_SAFE}, pads \in {0, FullPadding(CharsFor(Len(bytes)))} :
    Written(format, bytes, alphabet, pads)

serialize_json(text) ==
  /\ text # << >> /\ text[1] = BRACE
  /\ Enter(text, None, [format |-> "V2JSON", binary |-> None], "Text")

\* Any text, given as a token or met in a field, and any bytes.
AnyText(text) == \E where \in {"Text", "Field"} : Enter(text, None, None, where)
AnyBinary(bytes) == Enter(None, bytes, None, "Binary")

deserialize ==
  /\ at = "Text"
  /\ at' = IF IsEmpty(token) THEN "Refused" ELSE FormatOfText(token)
  /\ UNCHANGED <<token, binary, origin>>

\* In deserialize, and in visit_str.
DecodeText ==
  /\ at \in {"Base64", "Field"}
  /\ LET decoded == base64_decode_flexible(token)
     IN  \/ decoded = {} /\ at' = "Refused" /\ UNCHANGED binary
         \/ /\ binary' \in decoded
            /\ at' = IF at = "Field" THEN "Decoded" ELSE "Binary"
  /\ UNCHANGED <<token, origin>>

deserialize_binary ==
  /\ at = "Binary"
  /\ at' = IF IsEmpty(binary) THEN "Refused" ELSE FormatOfBinary(binary)
  /\ UNCHANGED <<token, binary, origin>>

Parsers == {"V1", "V2", "V2JSON"}

\* The parser answers, validate agrees with its build, and the call returns.
Return ==
  /\ at \in Parsers \cup {"Decoded", "Refused", "Panic"}
  /\ token' = None /\ binary' = None /\ origin' = None /\ at' = "Idle"

Next ==
  \/ /\ at = "Idle"
     /\ \/ \E format \in {"V1", "V2", "Field"}, bytes \in Binaries \ {<< >>} :
             serialize(format, bytes) \/ OtherWriter(format, bytes)
        \/ \E text \in Texts : serialize_json(text) \/ AnyText(text)
        \/ \E bytes \in Binaries : AnyBinary(bytes)
  \/ deserialize \/ DecodeText \/ deserialize_binary
  \/ Return

Spec == Init /\ [][Next]_vars

-----------------------------------------------------------------------------
\* tests/proptest_roundtrip.rs:167, "must never panic": no text and no bytes,
\* none at all included, are indexed where they have nothing.
NeverPanics == at # "Panic"

\* A token of any format, from this crate or another implementation, in either
\* alphabet and with its padding or without, reaches the parser of its format
\* with the bytes that were written; so do the fields of V2JSON.
ReachesItsParser ==
  origin # None =>
    /\ at # "Refused"
    /\ at \in Parsers => at = origin.format
    /\ at \in {"V1", "V2", "Decoded"} => binary = origin.binary

\* A parser, or a field, gets no bytes of which the text is not an encoding:
\* two texts that mean the same bytes differ in alphabet and padding alone.
DecodesOnlyEncodings ==
  token # None /\ at \in {"Binary", "V1", "V2", "Decoded"} =>
    \E alphabet \in {STANDARD, URL_SAFE}, pads \in 0..2 :
      token = Encode(binary, alphabet, pads)
=============================================================================
