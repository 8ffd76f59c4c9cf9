--------------------------- MODULE FrontEndProofs ---------------------------
(***************************************************************************)
(* Proofs about FrontEnd, for texts and tokens of every length: no token    *)
(* makes it panic, a decoded binary has no texts but its encodings, and     *)
(* what some implementation wrote reaches its parser.                       *)
(*                                                                          *)
(* Characters and bytes are digits of one number.  A number fits so many    *)
(* digits in base 8 or 16 exactly if it fits three or four times as many    *)
(* bits, which are counted on both sides.                                   *)
(***************************************************************************)
EXTENDS FrontEnd, MacaroonLemmas

-----------------------------------------------------------------------------
(***************************************************************************)
(* Sequences.                                                               *)
(***************************************************************************)
\* The first part of a sequence.
LEMMA FirstPart ==
  ASSUME NEW S, NEW s \in Seq(S), NEW n \in 0..Len(s)
  PROVE  SubSeq(s, 1, n) \in Seq(S) /\ Len(SubSeq(s, 1, n)) = n
OBVIOUS

\* The elements of a sequence.
LEMMA RangeIs ==
  ASSUME NEW S, NEW s \in Seq(S)
  PROVE  /\ \A i \in 1..Len(s) : s[i] \in Range(s)
         /\ \A x \in Range(s) : \E i \in 1..Len(s) : x = s[i]
<1>1. DOMAIN s = 1..Len(s)
  OBVIOUS
<1> QED
  BY <1>1 DEF Range

-----------------------------------------------------------------------------
(***************************************************************************)
(* Bits.                                                                    *)
(***************************************************************************)
\* What divides by two several times.
LEMMA Halves ==
  \A n \in Nat : /\ n \div 2 \in Nat
                 /\ n \div 4 \in Nat /\ (n \div 2) \div 2 = n \div 4
                 /\ n \div 8 \in Nat /\ ((n \div 2) \div 2) \div 2 = n \div 8
                 /\ (((n \div 2) \div 2) \div 2) \div 2 = n \div 16
OBVIOUS

\* A number of l + 1, ... bits.
LEMMA MoreBits ==
  ASSUME NEW n \in Nat, NEW l \in Nat
  PROVE  /\ FitsIn(n, 2, l + 1) <=> FitsIn(n \div 2, 2, l)
         /\ FitsIn(n, 2, l + 2) <=> FitsIn(n \div 4, 2, l)
         /\ FitsIn(n, 2, l + 3) <=> FitsIn(n \div 8, 2, l)
         /\ FitsIn(n, 2, l + 4) <=> FitsIn(n \div 16, 2, l)
<1>1. \A m, k \in Nat : FitsIn(m, 2, k + 1) <=> FitsIn(m \div 2, 2, k)
  <2>1. 2 \in Nat /\ 2 > 0
    OBVIOUS
  <2> QED
    BY <2>1, FitsOneMore, Zenon
<1> DEFINE a == n \div 2
           b == a \div 2
           c == b \div 2
           d == c \div 2
<1>2. a \in Nat /\ b \in Nat /\ c \in Nat /\ b = n \div 4 /\ c = n \div 8 /\ d = n \div 16
  <2>1. /\ n \div 2 \in Nat
        /\ n \div 4 \in Nat /\ (n \div 2) \div 2 = n \div 4
        /\ n \div 8 \in Nat /\ ((n \div 2) \div 2) \div 2 = n \div 8
        /\ (((n \div 2) \div 2) \div 2) \div 2 = n \div 16
    BY Halves
  <2> QED
    BY <2>1, Zenon
<1>3. /\ l + 1 \in Nat /\ l + 2 \in Nat /\ l + 3 \in Nat
      /\ l + 2 = (l + 1) + 1 /\ l + 3 = (l + 2) + 1 /\ l + 4 = (l + 3) + 1
  OBVIOUS
<1>4. FitsIn(n, 2, l + 1) <=> FitsIn(a, 2, l)
  BY <1>1
<1>5. (FitsIn(n, 2, l + 2) <=> FitsIn(a, 2, l + 1)) /\ (FitsIn(a, 2, l + 1) <=> FitsIn(b, 2, l))
  <2> HIDE DEF a, b
  <2>1. b = a \div 2 /\ a = n \div 2
    BY DEF a, b
  <2> QED
    BY <1>1, <1>2, <1>3, <2>1
<1>6. /\ FitsIn(n, 2, l + 3) <=> FitsIn(a, 2, l + 2)
      /\ FitsIn(a, 2, l + 2) <=> FitsIn(b, 2, l + 1)
      /\ FitsIn(b, 2, l + 1) <=> FitsIn(c, 2, l)
  <2> HIDE DEF a, b, c
  <2>1. c = b \div 2 /\ b = a \div 2 /\ a = n \div 2
    BY DEF a, b, c
  <2> QED
    BY <1>1, <1>2, <1>3, <2>1, Zenon
<1>7. /\ FitsIn(n, 2, l + 4) <=> FitsIn(a, 2, l + 3)
      /\ FitsIn(a, 2, l + 3) <=> FitsIn(b, 2, l + 2)
      /\ FitsIn(b, 2, l + 2) <=> FitsIn(c, 2, l + 1)
      /\ FitsIn(c, 2, l + 1) <=> FitsIn(d, 2, l)
  <2> HIDE DEF a, b, c, d
  <2>1. d = c \div 2 /\ c = b \div 2 /\ b = a \div 2 /\ a = n \div 2
    BY DEF a, b, c, d
  <2> QED
    BY <1>1, <1>2, <1>3, <2>1, Zenon
<1> HIDE DEF b, c, d
<1> QED
  BY <1>2, <1>4, <1>5, <1>6, <1>7

\* Characters have three bits, and bytes four.
LEMMA BitsOfDigits ==
  \A l \in Nat : \A n \in Nat : /\ FitsIn(n, 8, l) <=> FitsIn(n, 2, 3 * l)
                                /\ FitsIn(n, 16, l) <=> FitsIn(n, 2, 4 * l)
<1> DEFINE Y == { l \in Nat : \A n \in Nat : /\ FitsIn(n, 8, l) <=> FitsIn(n, 2, 3 * l)
                                             /\ FitsIn(n, 16, l) <=> FitsIn(n, 2, 4 * l) }
<1>1. 0 \in Y
  <2>1. \A n \in Nat : /\ FitsIn(n, 8, 0) <=> n = 0
                       /\ FitsIn(n, 16, 0) <=> n = 0
                       /\ FitsIn(n, 2, 0) <=> n = 0
    BY FitsNone
  <2>2. 3 * 0 = 0 /\ 4 * 0 = 0
    OBVIOUS
  <2> QED
    BY <2>1, <2>2
<1>2. ASSUME NEW l \in Nat, l \in Y PROVE l + 1 \in Y
  <2> SUFFICES ASSUME NEW n \in Nat
               PROVE  /\ FitsIn(n, 8, l + 1) <=> FitsIn(n, 2, 3 * (l + 1))
                      /\ FitsIn(n, 16, l + 1) <=> FitsIn(n, 2, 4 * (l + 1))
    OBVIOUS
  <2> DEFINE p == n \div 8
             q == n \div 16
             t == 3 * l
             f == 4 * l
  <2>1. (FitsIn(n, 8, l + 1) <=> FitsIn(p, 8, l)) /\ (FitsIn(n, 16, l + 1) <=> FitsIn(q, 16, l))
    <3>1. 8 \in Nat /\ 8 > 0 /\ 16 \in Nat /\ 16 > 0
      OBVIOUS
    <3> QED
      BY <3>1, FitsOneMore, Zenon
  <2>2. p \in Nat /\ q \in Nat
    OBVIOUS
  <2>3. (FitsIn(p, 8, l) <=> FitsIn(p, 2, t)) /\ (FitsIn(q, 16, l) <=> FitsIn(q, 2, f))
    <3> HIDE DEF p, q
    <3> QED
      BY <1>2, <2>2
  <2>4. t \in Nat /\ f \in Nat /\ 3 * (l + 1) = t + 3 /\ 4 * (l + 1) = f + 4
    OBVIOUS
  <2> HIDE DEF t, f
  <2>5. (FitsIn(n, 2, t + 3) <=> FitsIn(p, 2, t)) /\ (FitsIn(n, 2, f + 4) <=> FitsIn(q, 2, f))
    BY <2>4, MoreBits
  <2> HIDE DEF p, q
  <2> QED
    BY <2>1, <2>3, <2>4, <2>5
<1> HIDE DEF Y
<1>3. Nat \subseteq Y
  BY <1>1, <1>2, Induction
<1> QED
  BY <1>3 DEF Y

\* The spare bits, and what has none but them.
LEMMA Spare ==
  ASSUME NEW chars \in Nat
  PROVE  LET unit == 2^SpareBits(chars)
         IN  /\ SpareBits(chars) \in 0..3 /\ unit \in {1, 2, 4, 8}
             /\ \A n, l \in Nat :
                  FitsIn(n, 2, l + SpareBits(chars)) <=> FitsIn(n \div unit, 2, l)
<1> DEFINE s == SpareBits(chars)
           unit == 2^s
<1>1. s \in 0..3
  BY DEF SpareBits
<1> HIDE DEF s
<1>2. /\ s = 0 => unit = 1
      /\ s = 1 => unit = 2
      /\ s = 2 => unit = 4
      /\ s = 3 => unit = 8
  <2>1. 2^0 = 1 /\ 2^1 = 2 /\ 2^2 = 4 /\ 2^3 = 8
    OBVIOUS
  <2> QED
    BY <2>1
<1> HIDE DEF unit
<1>3. ASSUME NEW n \in Nat, NEW l \in Nat
      PROVE  FitsIn(n, 2, l + s) <=> FitsIn(n \div unit, 2, l)
  <2>1. CASE s = 0
    <3>1. l + s = l /\ n \div unit = n
      BY <1>2, <2>1
    <3> QED
      BY <3>1
  <2>2. CASE s = 1
    BY <1>2, <2>2, MoreBits
  <2>3. CASE s = 2
    BY <1>2, <2>3, MoreBits
  <2>4. CASE s = 3
    BY <1>2, <2>4, MoreBits
  <2> QED
    BY <1>1, <2>1, <2>2, <2>3, <2>4
<1>4. unit \in {1, 2, 4, 8}
  BY <1>1, <1>2
<1> QED
  BY <1>1, <1>3, <1>4 DEF s, unit

\* How many characters bytes are, and how many bytes characters are.
LEMMA Lengths ==
  /\ \A n \in Nat : /\ CharsFor(n) \in Nat /\ CharsFor(n) % 4 # 1
                    /\ (3 * CharsFor(n)) \div 4 = n
                    /\ n > 0 => CharsFor(n) > 0
  /\ \A c \in Nat : /\ (3 * c) \div 4 \in Nat
                    /\ 4 * ((3 * c) \div 4) + SpareBits(c) = 3 * c
                    /\ c % 4 # 1 => CharsFor((3 * c) \div 4) = c
                    /\ FullPadding(c) \in 0..3
                    /\ c % 4 # 1 => FullPadding(c) \in 0..2
<1>1. ASSUME NEW n \in Nat
      PROVE  /\ CharsFor(n) \in Nat /\ CharsFor(n) % 4 # 1
             /\ (3 * CharsFor(n)) \div 4 = n
             /\ n > 0 => CharsFor(n) > 0
  BY DEF CharsFor
<1>2. ASSUME NEW c \in Nat
      PROVE  /\ (3 * c) \div 4 \in Nat
             /\ 4 * ((3 * c) \div 4) + SpareBits(c) = 3 * c
             /\ c % 4 # 1 => CharsFor((3 * c) \div 4) = c
  BY DEF CharsFor, SpareBits
<1>3. ASSUME NEW c \in Nat
      PROVE  /\ FullPadding(c) \in 0..3
             /\ c % 4 # 1 => FullPadding(c) \in 0..2
  BY DEF FullPadding
<1> QED
  BY <1>1, <1>2, <1>3

-----------------------------------------------------------------------------
(***************************************************************************)
(* The number of a binary and of its characters.                            *)
(***************************************************************************)
\* The digits of a number below 16 or 8 each, as tlapm counts them.
LEMMA DigitsOfBytes ==
  /\ \A d \in Seq(Byte) : /\ NumberOf(d, 16) \in Nat /\ FitsIn(NumberOf(d, 16), 16, Len(d))
                           /\ DigitsOf(NumberOf(d, 16), 16, Len(d)) = d
  /\ \A d \in Seq(0..7) : /\ NumberOf(d, 8) \in Nat /\ FitsIn(NumberOf(d, 8), 8, Len(d))
                           /\ DigitsOf(NumberOf(d, 8), 8, Len(d)) = d
  /\ \A n, l \in Nat : FitsIn(n, 16, l) =>
       /\ DigitsOf(n, 16, l) \in [1..l -> Byte] /\ NumberOf(DigitsOf(n, 16, l), 16) = n
  /\ \A n, l \in Nat : FitsIn(n, 8, l) =>
       /\ DigitsOf(n, 8, l) \in [1..l -> 0..7] /\ NumberOf(DigitsOf(n, 8, l), 8) = n
<1>1. /\ 16 \in Nat /\ 16 > 0 /\ 0..(16 - 1) = Byte
      /\ 8 \in Nat /\ 8 > 0 /\ 0..(8 - 1) = 0..7
  BY DEF Byte
<1>2. ASSUME NEW d \in Seq(Byte)
      PROVE  /\ NumberOf(d, 16) \in Nat /\ FitsIn(NumberOf(d, 16), 16, Len(d))
             /\ DigitsOf(NumberOf(d, 16), 16, Len(d)) = d
  <2>1. d \in Seq(0..(16 - 1))
    BY <1>1, Zenon
  <2> QED
    BY <1>1, <2>1, DigitsOfNumber, Zenon
<1>3. ASSUME NEW d \in Seq(0..7)
      PROVE  /\ NumberOf(d, 8) \in Nat /\ FitsIn(NumberOf(d, 8), 8, Len(d))
             /\ DigitsOf(NumberOf(d, 8), 8, Len(d)) = d
  <2>1. d \in Seq(0..(8 - 1))
    BY <1>1, Zenon
  <2> QED
    BY <1>1, <2>1, DigitsOfNumber, Zenon
<1>4. ASSUME NEW n \in Nat, NEW l \in Nat, FitsIn(n, 16, l)
      PROVE  DigitsOf(n, 16, l) \in [1..l -> Byte] /\ NumberOf(DigitsOf(n, 16, l), 16) = n
  <2>1. /\ DigitsOf(n, 16, l) \in [1..l -> 0..(16 - 1)]
        /\ NumberOf(DigitsOf(n, 16, l), 16) = n
    BY <1>1, <1>4, NumberOfDigits, Zenon
  <2> QED
    BY <1>1, <2>1, Zenon
<1>5. ASSUME NEW n \in Nat, NEW l \in Nat, FitsIn(n, 8, l)
      PROVE  DigitsOf(n, 8, l) \in [1..l -> 0..7] /\ NumberOf(DigitsOf(n, 8, l), 8) = n
  <2>1. /\ DigitsOf(n, 8, l) \in [1..l -> 0..(8 - 1)]
        /\ NumberOf(DigitsOf(n, 8, l), 8) = n
    BY <1>1, <1>5, NumberOfDigits, Zenon
  <2> QED
    BY <1>1, <2>1, Zenon
<1> QED
  BY <1>2, <1>3, <1>4, <1>5

\* What the digits of a text and the bytes of a binary are to each other.
Means(digits, bytes) ==
  LET chars  == Len(digits)
      number == NumberOf(digits, 8)
      unit   == 2^SpareBits(chars)
  IN  /\ chars = CharsFor(Len(bytes)) /\ Len(bytes) = (3 * chars) \div 4
      /\ number = NumberOf(bytes, 16) * unit
      /\ number % unit = 0
      /\ DigitsOf(number \div unit, 16, Len(bytes)) = bytes
      /\ DigitsOf(number, 8, chars) = digits

\* Multiples of a unit.
LEMMA Multiples ==
  \A u \in {1, 2, 4, 8} : \A n \in Nat :
    /\ n * u \in Nat /\ (n * u) % u = 0 /\ (n * u) \div u = n
    /\ n \div u \in Nat
    /\ n % u = 0 => (n \div u) * u = n
OBVIOUS

\* Encode: the number of the bytes has as many digits in base 8 as characters.
LEMMA EncodedNumber ==
  ASSUME NEW bytes \in Seq(Byte)
  PROVE  LET chars  == CharsFor(Len(bytes))
             digits == DigitsOf(NumberOf(bytes, 16) * 2^SpareBits(chars), 8, chars)
         IN  digits \in [1..chars -> 0..7] /\ Means(digits, bytes)
<1> DEFINE b == Len(bytes)
           chars == CharsFor(b)
           unit == 2^SpareBits(chars)
           n == NumberOf(bytes, 16)
           number == n * unit
           digits == DigitsOf(number, 8, chars)
<1>1. b \in Nat
  OBVIOUS
<1> HIDE DEF b
<1>2. chars \in Nat /\ (3 * chars) \div 4 = b /\ 4 * b + SpareBits(chars) = 3 * chars
  BY <1>1, Lengths
<1> HIDE DEF chars
<1>3. /\ unit \in {1, 2, 4, 8}
      /\ \A m, l \in Nat : FitsIn(m, 2, l + SpareBits(chars)) <=> FitsIn(m \div unit, 2, l)
  BY <1>2, Spare, Zenon
<1> HIDE DEF unit
<1>4. n \in Nat /\ FitsIn(n, 16, b) /\ DigitsOf(n, 16, b) = bytes
  BY DigitsOfBytes DEF b
<1> HIDE DEF n
<1>5. number \in Nat /\ number % unit = 0 /\ number \div unit = n
  BY <1>3, <1>4, Multiples
<1> HIDE DEF number
<1>6. FitsIn(number, 8, chars)
  <2>1. FitsIn(n, 2, 4 * b) /\ 4 * b \in Nat
    BY <1>1, <1>4, BitsOfDigits
  <2>2. FitsIn(number, 2, 3 * chars)
    <3>1. FitsIn(number, 2, 4 * b + SpareBits(chars))
      BY <1>3, <1>5, <2>1
    <3> QED
      BY <1>2, <3>1
  <2> QED
    BY <1>2, <1>5, <2>2, BitsOfDigits
<1>7. digits \in [1..chars -> 0..7] /\ NumberOf(digits, 8) = number
  BY <1>2, <1>5, <1>6, DigitsOfBytes
<1> HIDE DEF digits
<1>8. Len(digits) = chars
  BY <1>2, <1>7
<1>9. Means(digits, bytes)
  <2>1. /\ Len(digits) = CharsFor(Len(bytes)) /\ Len(bytes) = (3 * Len(digits)) \div 4
        /\ NumberOf(digits, 8) = NumberOf(bytes, 16) * 2^SpareBits(Len(digits))
    BY <1>2, <1>7, <1>8 DEF chars, b, number, n, unit
  <2>2. /\ NumberOf(digits, 8) % 2^SpareBits(Len(digits)) = 0
        /\ DigitsOf(NumberOf(digits, 8) \div 2^SpareBits(Len(digits)), 16, Len(bytes)) = bytes
    BY <1>4, <1>5, <1>7, <1>8 DEF unit, b
  <2>3. DigitsOf(NumberOf(digits, 8), 8, Len(digits)) = digits
    BY <1>7, <1>8 DEF digits
  <2> QED
    BY <2>1, <2>2, <2>3 DEF Means
<1> QED
  BY <1>7, <1>9 DEF digits, number, n, unit, chars, b

\* Decode: without spare bits the number has as many digits in base 16 as bytes.
LEMMA DecodedNumber ==
  ASSUME NEW digits \in Seq(0..7), Len(digits) % 4 # 1,
         NumberOf(digits, 8) % 2^SpareBits(Len(digits)) = 0
  PROVE  LET chars == Len(digits)
             bytes == DigitsOf(NumberOf(digits, 8) \div 2^SpareBits(chars), 16,
                               (3 * chars) \div 4)
         IN  bytes \in Seq(Byte) /\ Means(digits, bytes)
<1> DEFINE chars == Len(digits)
           b == (3 * chars) \div 4
           unit == 2^SpareBits(chars)
           number == NumberOf(digits, 8)
           n == number \div unit
           bytes == DigitsOf(n, 16, b)
<1>1. chars \in Nat /\ chars % 4 # 1 /\ number % unit = 0
  OBVIOUS
<1>2. /\ number \in Nat /\ FitsIn(number, 8, chars)
      /\ DigitsOf(number, 8, chars) = digits
  BY DigitsOfBytes
<1> HIDE DEF chars, number
<1>3. b \in Nat /\ 4 * b + SpareBits(chars) = 3 * chars /\ CharsFor(b) = chars
  BY <1>1, Lengths
<1>4. /\ unit \in {1, 2, 4, 8}
      /\ \A m, l \in Nat : FitsIn(m, 2, l + SpareBits(chars)) <=> FitsIn(m \div unit, 2, l)
  BY <1>1, Spare, Zenon
<1> HIDE DEF unit, b
<1>5. n \in Nat /\ n * unit = number
  BY <1>1, <1>2, <1>4, Multiples
<1>6. FitsIn(n, 16, b)
  <2>1. FitsIn(number, 2, 3 * chars)
    BY <1>1, <1>2, BitsOfDigits
  <2>2. 4 * b \in Nat
    BY <1>3
  <2>3. FitsIn(number, 2, 4 * b + SpareBits(chars))
    BY <1>3, <2>1
  <2>4. FitsIn(n, 2, 4 * b)
    BY <1>2, <1>4, <2>2, <2>3
  <2> HIDE DEF n
  <2> QED
    BY <1>3, <1>5, <2>4, BitsOfDigits
<1> HIDE DEF n
<1>7. bytes \in [1..b -> Byte] /\ NumberOf(bytes, 16) = n
  BY <1>3, <1>5, <1>6, DigitsOfBytes
<1> HIDE DEF bytes
<1>8. bytes \in Seq(Byte) /\ Len(bytes) = b
  BY <1>3, <1>7
<1>9. Means(digits, bytes)
  <2>1. /\ Len(digits) = CharsFor(Len(bytes)) /\ Len(bytes) = (3 * Len(digits)) \div 4
        /\ DigitsOf(NumberOf(digits, 8), 8, Len(digits)) = digits
    BY <1>2, <1>3, <1>8 DEF chars, number, b
  <2>2. NumberOf(digits, 8) = NumberOf(bytes, 16) * 2^SpareBits(Len(digits))
    BY <1>5, <1>7 DEF chars, number, unit
  <2>3. /\ NumberOf(digits, 8) % 2^SpareBits(Len(digits)) = 0
        /\ DigitsOf(NumberOf(digits, 8) \div 2^SpareBits(Len(digits)), 16, Len(bytes)) = bytes
    <3>1. bytes = DigitsOf(n, 16, Len(bytes))
      BY <1>8 DEF bytes
    <3> QED
      BY <1>1, <3>1 DEF chars, number, unit, n
  <2> QED
    BY <2>1, <2>2, <2>3 DEF Means
<1> QED
  BY <1>8, <1>9 DEF bytes, n, number, unit, b, chars

-----------------------------------------------------------------------------
(***************************************************************************)
(* Alphabets.                                                               *)
(***************************************************************************)
Alphabets == {STANDARD, URL_SAFE}

\* The characters of an alphabet differ, and none is = or {.
LEMMA AlphabetIs ==
  ASSUME NEW alphabet \in Alphabets
  PROVE  /\ alphabet \in Seq(Range(alphabet)) /\ Len(alphabet) = 8
         /\ \A m, n \in 1..8 : alphabet[m] = alphabet[n] => m = n
         /\ PAD \notin Range(alphabet) /\ BRACE \notin Range(alphabet)
<1>1. alphabet \in Injection(1..8, Range(alphabet))
  BY FrontEndAssumption DEF Alphabets
<1>2. /\ alphabet \in [1..8 -> Range(alphabet)]
      /\ \A m, n \in 1..8 : alphabet[m] = alphabet[n] => m = n
  BY <1>1 DEF Injection, IsInjective
<1>3. PAD \notin Range(alphabet) /\ BRACE \notin Range(alphabet)
  BY FrontEndAssumption DEF Alphabets
<1>4. alphabet \in Seq(Range(alphabet)) /\ Len(alphabet) = 8
  <2> DEFINE R == Range(alphabet)
             n == 8
  <2>1. alphabet \in [1..n -> R] /\ n \in Nat
    BY <1>2
  <2> HIDE DEF R, n
  <2>2. alphabet \in Seq(R) /\ Len(alphabet) = n
    BY <2>1
  <2> QED
    BY <2>2 DEF R, n
<1> QED
  BY <1>2, <1>3, <1>4

\* The digit of a character, as Decode finds it.
Place(c, alphabet) ==
  LET I == { i \in 1..Len(alphabet) : alphabet[i] = c }
  IN  IF I # {} THEN Min(I) ELSE 0

\* A character is found in its alphabet at the place of its digit.
LEMMA PlaceIs ==
  ASSUME NEW alphabet \in Alphabets, NEW n \in 1..8
  PROVE  Place(alphabet[n], alphabet) = n
<1> DEFINE c == alphabet[n]
<1>1. /\ alphabet \in Seq(Range(alphabet)) /\ Len(alphabet) = 8
      /\ \A i \in 1..8 : alphabet[i] = c => i = n
  BY AlphabetIs
<1>2. IsFirst(Place(c, alphabet), alphabet, c)
  BY <1>1, FirstIs DEF Place
<1> HIDE DEF c
<1>3. alphabet[n] = c
  BY DEF c
<1>4. IsFirst(n, alphabet, c)
  BY <1>1, <1>3 DEF IsFirst
<1>5. Place(c, alphabet) = n
  BY <1>1, <1>2, <1>4, FirstIsUnique
<1> QED
  BY <1>5 DEF c

Spell(digits, alphabet) == [i \in 1..Len(digits) |-> alphabet[digits[i] + 1]]
DigitsIn(body, alphabet) == [i \in 1..Len(body) |-> Place(body[i], alphabet) - 1]

\* Digits are read as they are spelled.
LEMMA SpelledIsRead ==
  ASSUME NEW alphabet \in Alphabets, NEW digits \in Seq(0..7)
  PROVE  /\ Spell(digits, alphabet) \in Seq(Range(alphabet))
         /\ Len(Spell(digits, alphabet)) = Len(digits)
         /\ DigitsIn(Spell(digits, alphabet), alphabet) = digits
<1> DEFINE n == Len(digits)
           t == Spell(digits, alphabet)
<1>1. /\ n \in Nat /\ digits = [i \in 1..n |-> digits[i]]
      /\ \A i \in 1..n : digits[i] \in 0..7 /\ digits[i] + 1 \in 1..8
  OBVIOUS
<1>2. t = [i \in 1..n |-> alphabet[digits[i] + 1]]
  BY DEF Spell
<1> HIDE DEF n, t
<1>3. \A i \in 1..n : alphabet[digits[i] + 1] \in Range(alphabet)
  BY <1>1, AlphabetIs, RangeIs
<1>4. t \in Seq(Range(alphabet)) /\ Len(t) = n
  BY <1>1, <1>2, <1>3
<1>5. \A i \in 1..n : Place(t[i], alphabet) - 1 = digits[i]
  <2> SUFFICES ASSUME NEW i \in 1..n PROVE Place(t[i], alphabet) - 1 = digits[i]
    OBVIOUS
  <2>1. t[i] = alphabet[digits[i] + 1]
    BY <1>2
  <2>2. Place(t[i], alphabet) = digits[i] + 1
    BY <1>1, <2>1, PlaceIs
  <2> QED
    BY <1>1, <2>2
<1>6. DigitsIn(t, alphabet) = digits
  <2>1. DigitsIn(t, alphabet) = [i \in 1..n |-> Place(t[i], alphabet) - 1]
    BY <1>4 DEF DigitsIn
  <2>2. [i \in 1..n |-> Place(t[i], alphabet) - 1] = [i \in 1..n |-> digits[i]]
    BY <1>5
  <2> QED
    BY <1>1, <2>1, <2>2
<1> QED
  BY <1>4, <1>6 DEF t, n

\* Characters are spelled as they are read.
LEMMA ReadIsSpelled ==
  ASSUME NEW alphabet \in Alphabets, NEW S, NEW body \in Seq(S),
         Range(body) \subseteq Range(alphabet)
  PROVE  /\ DigitsIn(body, alphabet) \in Seq(0..7)
         /\ Len(DigitsIn(body, alphabet)) = Len(body)
         /\ Spell(DigitsIn(body, alphabet), alphabet) = body
<1> DEFINE n == Len(body)
           d == DigitsIn(body, alphabet)
<1>1. n \in Nat /\ body = [i \in 1..n |-> body[i]]
  OBVIOUS
<1>2. ASSUME NEW i \in 1..n
      PROVE  Place(body[i], alphabet) \in 1..8 /\ alphabet[Place(body[i], alphabet)] = body[i]
  <2>1. body[i] \in Range(alphabet)
    BY RangeIs
  <2>2. PICK k \in 1..8 : body[i] = alphabet[k]
    <3>1. alphabet \in Seq(Range(alphabet)) /\ Len(alphabet) = 8
      BY AlphabetIs
    <3>2. \A x \in Range(alphabet) : \E k \in 1..Len(alphabet) : x = alphabet[k]
      BY <3>1, RangeIs, Zenon
    <3>3. body[i] \in Range(alphabet)
      BY <2>1
    <3> QED
      BY <3>1, <3>2, <3>3
  <2> QED
    BY <2>2, PlaceIs
<1>3. d = [i \in 1..n |-> Place(body[i], alphabet) - 1]
  BY DEF DigitsIn
<1> HIDE DEF n, d
<1>4. \A i \in 1..n : d[i] \in 0..7 /\ alphabet[d[i] + 1] = body[i]
  <2> SUFFICES ASSUME NEW i \in 1..n PROVE d[i] \in 0..7 /\ alphabet[d[i] + 1] = body[i]
    OBVIOUS
  <2>1. d[i] = Place(body[i], alphabet) - 1
    BY <1>3
  <2>2. d[i] + 1 = Place(body[i], alphabet) /\ d[i] \in 0..7
    BY <1>2, <2>1
  <2> QED
    BY <1>2, <2>2
<1>5. d \in Seq(0..7) /\ Len(d) = n
  <2>1. d = [i \in 1..n |-> d[i]]
    BY <1>3
  <2>2. d \in [1..n -> 0..7]
    BY <1>4, <2>1
  <2> QED
    BY <1>1, <2>2
<1>6. Spell(d, alphabet) = body
  <2>1. Spell(d, alphabet) = [i \in 1..n |-> alphabet[d[i] + 1]]
    BY <1>5 DEF Spell
  <2>2. [i \in 1..n |-> alphabet[d[i] + 1]] = [i \in 1..n |-> body[i]]
    BY <1>4
  <2> QED
    BY <1>1, <2>1, <2>2
<1> QED
  BY <1>5, <1>6 DEF n, d

-----------------------------------------------------------------------------
(***************************************************************************)
(* Padding.                                                                 *)
(***************************************************************************)
Padding(n) == [i \in 1..n |-> PAD]

\* The characters before the first = are some of the text.
LEMMA BodyIs ==
  ASSUME NEW S, NEW text \in Seq(S)
  PROVE  Body(text) \in Seq(S) /\ Pads(text) \in Nat
<1> DEFINE k == Place(PAD, text)
<1>1. Body(text) = IF k = 0 THEN text ELSE SubSeq(text, 1, k - 1)
  BY Zenon DEF Body, SelectInSeq, Place
<1>2. IsFirst(k, text, PAD)
  BY FirstIs DEF Place
<1> HIDE DEF k
<1>3. CASE k = 0
  BY <1>1, <1>3 DEF Pads
<1>4. CASE k # 0
  <2>1. k - 1 \in 0..Len(text) /\ Len(text) \in Nat
    BY <1>2, <1>4 DEF IsFirst
  <2>2. Body(text) \in Seq(S) /\ Len(Body(text)) = k - 1
    BY <1>1, <1>4, <2>1, FirstPart
  <2> QED
    BY <2>1, <2>2 DEF Pads
<1> QED
  BY <1>3, <1>4

\* The = that are written after a body are found after it.
LEMMA BodyOfPadded ==
  ASSUME NEW S, NEW body \in Seq(S), PAD \notin S, NEW n \in Nat
  PROVE  Body(body \o Padding(n)) = body /\ Pads(body \o Padding(n)) = n
<1> DEFINE pads == Padding(n)
           text == body \o pads
           k == Place(PAD, text)
           all == S \cup {PAD}
<1>1. Body(text) = IF k = 0 THEN text ELSE SubSeq(text, 1, k - 1)
  BY Zenon DEF Body, SelectInSeq, Place
<1>2. body \in Seq(all) /\ (\A i \in 1..Len(body) : body[i] # PAD)
  OBVIOUS
<1>3. pads \in Seq(all) /\ Len(pads) = n /\ (\A i \in 1..n : pads[i] = PAD)
  BY DEF Padding
<1> HIDE DEF pads, all
<1>4. /\ text \in Seq(all) /\ Len(text) = Len(body) + n
      /\ (\A i \in 1..Len(body) : text[i] = body[i])
      /\ \A i \in 1..n : text[Len(body) + i] = PAD
  <2>1. text \in Seq(all) /\ IsJoined(text, body, pads)
    BY <1>2, <1>3, PartsOfTwo, Zenon
  <2> HIDE DEF text
  <2> QED
    BY <1>3, <2>1 DEF IsJoined
<1>5. n = 0 => text = body
  <2>1. n = 0 => Len(text) = Len(body)
    BY <1>2, <1>4
  <2> HIDE DEF text
  <2> QED
    BY <1>2, <1>4, <2>1
<1> HIDE DEF text
<1>6. IsFirst(k, text, PAD)
  BY <1>4, FirstIs DEF Place
<1> HIDE DEF k
<1>7. CASE n = 0
  <2>1. k = 0
    BY <1>2, <1>5, <1>6, <1>7 DEF IsFirst
  <2>2. Body(text) = body /\ Len(text) = Len(body) /\ Len(body) \in Nat
    BY <1>1, <1>5, <1>7, <2>1
  <2> QED
    BY <1>7, <2>2 DEF Pads, text, pads
<1>8. CASE n # 0
  <2>1. 1 \in 1..n /\ Len(body) + 1 \in 1..Len(text) /\ Len(body) \in Nat
    BY <1>4, <1>8
  <2>2. IsFirst(Len(body) + 1, text, PAD)
    BY <1>2, <1>4, <2>1 DEF IsFirst
  <2>3. k = Len(body) + 1
    BY <1>4, <1>6, <2>2, FirstIsUnique
  <2>4. SubSeq(text, 1, Len(body)) = body
    BY <1>2, <1>4, <2>1, BeginsWith
  <2>5. Body(text) = body
    BY <1>1, <2>1, <2>3, <2>4
  <2> QED
    BY <1>4, <2>1, <2>5 DEF Pads, text, pads
<1> QED
  BY <1>7, <1>8

-----------------------------------------------------------------------------
(***************************************************************************)
(* Texts.                                                                   *)
(***************************************************************************)
\* Decode, by the digits of the characters.
DecodedBytes(digits) ==
  DigitsOf(NumberOf(digits, 8) \div 2^SpareBits(Len(digits)), 16, (3 * Len(digits)) \div 4)

\* Decode, by the digits of the characters.
LEMMA DecodeIs ==
  ASSUME NEW alphabet \in Alphabets, NEW S, NEW text \in Seq(S)
  PROVE  LET digits == DigitsIn(Body(text), alphabet)
         IN  Decode(text, alphabet) =
               IF /\ Range(Body(text)) \subseteq Range(alphabet)
                  /\ PaddingIndifferent(text)
                  /\ Len(digits) % 4 # 1
                  /\ NumberOf(digits, 8) % 2^SpareBits(Len(digits)) = 0
                 THEN { DecodedBytes(digits) }
                 ELSE {}
<1> DEFINE body   == Body(text)
           digits == DigitsIn(body, alphabet)
           chars  == Len(body)
           number == NumberOf(digits, 8)
<1>1. Decode(text, alphabet) =
        IF /\ Range(body) \subseteq Range(alphabet)
           /\ PaddingIndifferent(text)
           /\ chars % 4 # 1
           /\ number % 2^SpareBits(chars) = 0
          THEN { DigitsOf(number \div 2^SpareBits(chars), 16, (3 * chars) \div 4) }
          ELSE {}
  BY Zenon DEF Decode, SpareBitsAreZero, DigitsIn, Place, SelectInSeq
<1>2. Len(digits) = chars
  <2>1. body \in Seq(S)
    BY BodyIs
  <2> HIDE DEF body
  <2> QED
    BY <2>1 DEF DigitsIn
<1> HIDE DEF digits
<1> QED
  BY <1>1, <1>2, Zenon DEF DecodedBytes, digits

Spelled(bytes, digits, alphabet, pads) ==
  Encode(bytes, alphabet, pads) = Spell(digits, alphabet) \o Padding(pads)

\* Encode, by the digits that mean the bytes.
LEMMA EncodeIs ==
  ASSUME NEW bytes, NEW digits, Means(digits, bytes), NEW alphabet, NEW pads
  PROVE  Spelled(bytes, digits, alphabet, pads)
<1> DEFINE chars == Len(digits)
<1>1. /\ chars = CharsFor(Len(bytes))
      /\ DigitsOf(NumberOf(bytes, 16) * 2^SpareBits(chars), 8, chars) = digits
  BY Zenon DEF Means
<1> HIDE DEF chars
<1>2. Encode(bytes, alphabet, pads)
        = [i \in 1..chars |-> alphabet[digits[i] + 1]] \o [i \in 1..pads |-> PAD]
  BY <1>1, Zenon DEF Encode
<1> QED
  BY <1>2, Zenon DEF Spelled, Spell, Padding, chars

\* Bytes that are decoded have the text for an encoding.
LEMMA EncodesWhatDecodes ==
  ASSUME NEW alphabet \in Alphabets, NEW S, NEW text \in Seq(S),
         NEW bytes \in Decode(text, alphabet)
  PROVE  \E pads \in 0..2 : text = Encode(bytes, alphabet, pads)
<1> DEFINE body   == Body(text)
           digits == DigitsIn(body, alphabet)
           pads   == Pads(text)
<1>1. /\ Range(body) \subseteq Range(alphabet)
      /\ PaddingIndifferent(text)
      /\ Len(digits) % 4 # 1
      /\ NumberOf(digits, 8) % 2^SpareBits(Len(digits)) = 0
      /\ bytes = DecodedBytes(digits)
  <2> HIDE DEF body, digits
  <2>1. Decode(text, alphabet) =
          IF /\ Range(body) \subseteq Range(alphabet)
             /\ PaddingIndifferent(text)
             /\ Len(digits) % 4 # 1
             /\ NumberOf(digits, 8) % 2^SpareBits(Len(digits)) = 0
            THEN { DecodedBytes(digits) }
            ELSE {}
    BY DecodeIs, Zenon DEF body, digits
  <2> QED
    BY <2>1
<1>2. body \in Seq(S) /\ pads \in Nat
  BY BodyIs
<1>3. text = body \o Padding(pads) /\ pads <= FullPadding(Len(body))
  BY <1>1, Zenon DEF PaddingIndifferent, Padding
<1> HIDE DEF body, pads
<1>4. /\ digits \in Seq(0..7) /\ Len(digits) = Len(body)
      /\ Spell(digits, alphabet) = body
  BY <1>1, <1>2, ReadIsSpelled
<1> HIDE DEF digits
<1>5. Means(digits, bytes)
  BY <1>1, <1>4, DecodedNumber, Zenon DEF DecodedBytes
<1>6. Encode(bytes, alphabet, pads) = body \o Padding(pads)
  <2>1. Spelled(bytes, digits, alphabet, pads)
    BY <1>5, EncodeIs, Zenon
  <2> QED
    BY <1>4, <2>1, Zenon DEF Spelled
<1>7. pads \in 0..2
  <2>1. Len(body) \in Nat /\ Len(body) % 4 # 1
    BY <1>1, <1>2, <1>4
  <2>2. FullPadding(Len(body)) \in 0..2
    BY <2>1, Lengths
  <2> QED
    BY <1>2, <1>3, <2>2
<1> QED
  BY <1>3, <1>6, <1>7

\* Bytes are decoded from each of their encodings.
LEMMA DecodesWhatEncodes ==
  ASSUME NEW alphabet \in Alphabets, NEW bytes \in Seq(Byte), NEW digits \in Seq(0..7),
         Means(digits, bytes), NEW pads \in 0..FullPadding(CharsFor(Len(bytes)))
  PROVE  Decode(Encode(bytes, alphabet, pads), alphabet) = {bytes}
<1> DEFINE body == Spell(digits, alphabet)
           text == Encode(bytes, alphabet, pads)
           R    == Range(alphabet)
           all  == R \cup {PAD}
<1>1. text = body \o Padding(pads)
  <2>1. Spelled(bytes, digits, alphabet, pads)
    BY EncodeIs, Zenon
  <2> QED
    BY <2>1, Zenon DEF Spelled
<1>2. body \in Seq(R) /\ Len(body) = Len(digits) /\ DigitsIn(body, alphabet) = digits
  BY SpelledIsRead
<1>3. /\ Len(digits) = CharsFor(Len(bytes)) /\ Len(bytes) = (3 * Len(digits)) \div 4
      /\ NumberOf(digits, 8) % 2^SpareBits(Len(digits)) = 0
      /\ DigitsOf(NumberOf(digits, 8) \div 2^SpareBits(Len(digits)), 16, Len(bytes)) = bytes
  BY Zenon DEF Means
<1>4. Len(digits) \in Nat /\ Len(digits) % 4 # 1 /\ FullPadding(Len(digits)) \in 0..3
  <2>1. Len(bytes) \in Nat /\ Len(digits) \in Nat
    OBVIOUS
  <2> QED
    BY <1>3, <2>1, Lengths
<1>5. pads \in Nat /\ pads <= FullPadding(Len(digits))
  BY <1>3, <1>4
<1>6. PAD \notin R
  BY AlphabetIs
<1> HIDE DEF body, R
<1>7. Body(text) = body /\ Pads(text) = pads
  BY <1>1, <1>2, <1>5, <1>6, BodyOfPadded
<1>8. PaddingIndifferent(text)
  <2>1. Pads(text) <= FullPadding(Len(Body(text)))
    BY <1>2, <1>5, <1>7
  <2>2. text = Body(text) \o Padding(Pads(text))
    BY <1>1, <1>7
  <2> QED
    BY <2>1, <2>2, Zenon DEF PaddingIndifferent, Padding
<1>9. text \in Seq(all)
  <2>1. body \in Seq(all) /\ Padding(pads) \in Seq(all)
    BY <1>2, <1>5 DEF Padding
  <2> HIDE DEF all, text
  <2> QED
    BY <1>1, <2>1, PartsOfTwo, Zenon
<1> HIDE DEF text, all
<1>10. Range(Body(text)) \subseteq Range(alphabet)
  <2>1. \A x \in Range(body) : \E i \in 1..Len(body) : x = body[i]
    BY <1>2, RangeIs, Zenon
  <2>2. \A i \in 1..Len(body) : body[i] \in R
    BY <1>2
  <2> QED
    BY <1>7, <2>1, <2>2 DEF R
<1>11. Decode(text, alphabet) = { DecodedBytes(digits) }
  <2>1. DigitsIn(Body(text), alphabet) = digits
    BY <1>2, <1>7
  <2> QED
    BY <1>3, <1>4, <1>8, <1>9, <1>10, <2>1, DecodeIs, Zenon
<1>12. DecodedBytes(digits) = bytes
  BY <1>3, Zenon DEF DecodedBytes
<1> QED
  BY <1>11, <1>12 DEF text

-----------------------------------------------------------------------------
(***************************************************************************)
(* Both alphabets.                                                          *)
(***************************************************************************)
PadsFor(bytes) == {0, FullPadding(CharsFor(Len(bytes)))}

\* The alphabet that the text looks like spells it as its own does.
LEMMA SpellsAsItLooks ==
  ASSUME NEW alphabet \in Alphabets, NEW digits \in Seq(0..7), NEW pads \in Nat,
         NEW text, text = Spell(digits, alphabet) \o Padding(pads)
  PROVE  Spell(digits, alphabet)
           = Spell(digits, IF LooksUrlSafe(text) THEN URL_SAFE ELSE STANDARD)
<1> DEFINE R == Range(alphabet)
           all == R \cup {PAD}
           body == Spell(digits, alphabet)
           n == Len(digits)
<1>1. n \in Nat /\ \A i \in 1..n : digits[i] \in 0..7
  OBVIOUS
<1>2. body \in Seq(R) /\ Len(body) = n /\ \A i \in 1..n : body[i] = alphabet[digits[i] + 1]
  BY SpelledIsRead DEF Spell
<1> HIDE DEF body, R
<1>3. /\ text \in Seq(all) /\ n <= Len(text) /\ (\A i \in 1..n : text[i] = body[i])
      /\ \A i \in 1..n : text[i] \in Range(text)
  <2>1. body \in Seq(all) /\ Padding(pads) \in Seq(all)
    BY <1>2 DEF Padding
  <2>2. text = body \o Padding(pads)
    BY DEF body
  <2> HIDE DEF all, n
  <2>3. text \in Seq(all) /\ IsJoined(text, body, Padding(pads))
    BY <2>1, <2>2, PartsOfTwo, Zenon
  <2>4. n <= Len(text) /\ \A i \in 1..n : text[i] = body[i]
    BY <1>1, <1>2, <2>3 DEF IsJoined
  <2>5. \A i \in 1..Len(text) : text[i] \in Range(text)
    BY <2>3, RangeIs, Zenon
  <2>6. Len(text) \in Nat
    BY <2>3
  <2> QED
    BY <1>1, <2>3, <2>4, <2>5, <2>6
<1>4. {URL_SAFE[7], URL_SAFE[8]} \cap Range(STANDARD) = {} /\ PAD \notin Range(URL_SAFE)
      /\ URL_SAFE[7] \in Range(URL_SAFE) /\ URL_SAFE[8] \in Range(URL_SAFE)
      /\ \A k \in 1..6 : STANDARD[k] = URL_SAFE[k]
  <2>1. URL_SAFE \in Alphabets
    BY DEF Alphabets
  <2>2. URL_SAFE \in Seq(Range(URL_SAFE)) /\ Len(URL_SAFE) = 8
    BY <2>1, AlphabetIs
  <2>3. \A k \in 1..8 : URL_SAFE[k] \in Range(URL_SAFE)
    BY <2>2, RangeIs
  <2> QED
    BY <2>3, FrontEndAssumption
<1>5. CASE alphabet = STANDARD
  <2>1. \A x \in Range(text) : x \in all
    <3>1. \A x \in Range(text) : \E i \in 1..Len(text) : x = text[i]
      BY <1>3, RangeIs, Zenon
    <3> HIDE DEF all
    <3> QED
      BY <1>3, <3>1
  <2>2. ~LooksUrlSafe(text)
    BY <1>4, <1>5, <2>1 DEF LooksUrlSafe, R
  <2> QED
    BY <1>5, <2>2
<1>6. CASE alphabet = URL_SAFE /\ LooksUrlSafe(text)
  BY <1>6
<1>7. CASE alphabet = URL_SAFE /\ ~LooksUrlSafe(text)
  <2>0. URL_SAFE[7] \notin Range(text) /\ URL_SAFE[8] \notin Range(text)
    BY <1>7 DEF LooksUrlSafe
  <2>1. \A i \in 1..n : URL_SAFE[digits[i] + 1] = STANDARD[digits[i] + 1]
    <3> SUFFICES ASSUME NEW i \in 1..n
                 PROVE  URL_SAFE[digits[i] + 1] = STANDARD[digits[i] + 1]
      OBVIOUS
    <3>1. URL_SAFE[digits[i] + 1] \in Range(text)
      <4>1. text[i] = URL_SAFE[digits[i] + 1]
        <5>1. body[i] = URL_SAFE[digits[i] + 1]
          BY <1>2, <1>7
        <5> QED
          BY <1>3, <5>1
      <4>2. text[i] \in Range(text)
        BY <1>3
      <4> QED
        BY <4>1, <4>2
    <3>2. ASSUME NEW k \in {7, 8} PROVE digits[i] + 1 # k
      <4>1. URL_SAFE[k] \notin Range(text)
        BY <2>0
      <4> QED
        BY <3>1, <4>1
    <3>3. digits[i] + 1 # 7 /\ digits[i] + 1 # 8
      <4>1. 7 \in {7, 8} /\ 8 \in {7, 8}
        OBVIOUS
      <4> QED
        BY <3>2, <4>1, Zenon
    <3>4. digits[i] + 1 \in 1..6
      <4>1. digits[i] \in 0..7
        BY <1>1
      <4> QED
        BY <3>3, <4>1
    <3> QED
      BY <1>4, <3>4
  <2>2. Spell(digits, URL_SAFE) = Spell(digits, STANDARD)
    BY <2>1 DEF Spell
  <2> QED
    BY <1>7, <2>2
<1> QED
  BY <1>5, <1>6, <1>7 DEF Alphabets

\* What any writer writes is decoded to the bytes it wrote.
LEMMA FlexibleDecodes ==
  ASSUME NEW alphabet \in Alphabets, NEW bytes \in Seq(Byte), Len(bytes) > 0,
         NEW pads \in PadsFor(bytes)
  PROVE  LET text == Encode(bytes, alphabet, pads)
         IN  /\ IsSequence(text) /\ text # << >> /\ text[1] # BRACE
             /\ base64_decode_flexible(text) = {bytes}
<1> DEFINE text == Encode(bytes, alphabet, pads)
           chars == CharsFor(Len(bytes))
           chosen == IF LooksUrlSafe(text) THEN URL_SAFE ELSE STANDARD
<1>1. Len(bytes) \in Nat
  OBVIOUS
<1>2. chars \in Nat /\ chars > 0 /\ FullPadding(chars) \in 0..3
  BY <1>1, Lengths
<1>3. pads \in 0..FullPadding(chars) /\ pads \in Nat
  BY <1>2 DEF PadsFor
<1>4. PICK digits \in [1..chars -> 0..7] : Means(digits, bytes)
  <2> DEFINE d == DigitsOf(NumberOf(bytes, 16) * 2^SpareBits(chars), 8, chars)
  <2>1. d \in [1..chars -> 0..7] /\ Means(d, bytes)
    BY EncodedNumber, Zenon
  <2> QED
    BY <2>1, Zenon
<1>5. digits \in Seq(0..7) /\ Len(digits) = chars
  <2> HIDE DEF chars
  <2> QED
    BY <1>2
<1> DEFINE body == Spell(digits, alphabet)
<1>6. text = body \o Padding(pads)
  <2>1. Spelled(bytes, digits, alphabet, pads)
    BY <1>4, EncodeIs, Zenon
  <2> QED
    BY <2>1, Zenon DEF Spelled
<1>7. body \in Seq(Range(alphabet)) /\ Len(body) = chars
  BY <1>5, SpelledIsRead
<1> HIDE DEF text, chars
<1>8. body = Spell(digits, chosen) /\ chosen \in Alphabets
  <2>1. chosen \in Alphabets
    BY DEF Alphabets
  <2>2. body = Spell(digits, chosen)
    BY <1>3, <1>5, <1>6, SpellsAsItLooks, Zenon
  <2> QED
    BY <2>1, <2>2
<1>9. Encode(bytes, chosen, pads) = text
  <2> HIDE DEF chosen, body
  <2>1. Spelled(bytes, digits, chosen, pads)
    BY <1>4, EncodeIs, Zenon
  <2> QED
    BY <1>6, <1>8, <2>1 DEF Spelled
<1>10. Decode(text, chosen) = {bytes}
  BY <1>3, <1>4, <1>5, <1>8, <1>9, DecodesWhatEncodes DEF chars
<1> HIDE DEF body
<1>11. IsSequence(text) /\ Len(text) >= chars /\ text[1] = body[1]
  <2> DEFINE all == Range(alphabet) \cup {PAD}
  <2>1. body \in Seq(all) /\ Padding(pads) \in Seq(all)
    BY <1>3, <1>7 DEF Padding
  <2> HIDE DEF all
  <2>2. text \in Seq(all) /\ IsJoined(text, body, Padding(pads))
    BY <1>6, <2>1, PartsOfTwo, Zenon
  <2>3. 1 \in 1..chars
    BY <1>2
  <2> QED
    BY <1>2, <1>7, <2>2, <2>3 DEF IsJoined, IsSequence
<1>12. text # << >>
  BY <1>2, <1>11
<1>13. text[1] # BRACE
  <2>1. body[1] \in Range(alphabet)
    BY <1>2, <1>7
  <2> QED
    BY <1>11, <2>1, AlphabetIs
<1>14. base64_decode_flexible(text) = {bytes}
  BY <1>10, <1>12, Zenon DEF base64_decode_flexible, IsEmpty
<1> QED
  BY <1>11, <1>12, <1>13, <1>14 DEF text

-----------------------------------------------------------------------------
(***************************************************************************)
(* The inductive invariant: the properties, that texts are sequences, and   *)
(* what has become so far of what some implementation wrote.                *)
(***************************************************************************)
BinaryFormats == {"V1", "V2", "Field"}

WrittenBinary(o) ==
  /\ o.format \in BinaryFormats /\ o.binary \in Seq(Byte) /\ Len(o.binary) > 0
  /\ o.format = "V1" => o.binary[1] \in V1First
  /\ o.format = "V2" => o.binary[1] = VERSION

IsEncodingOf(text, bytes) ==
  \E alphabet \in Alphabets, pads \in PadsFor(bytes) : text = Encode(bytes, alphabet, pads)

\* Where a text or a binary of one of these formats can be.
BinaryOnItsWay ==
  /\ WrittenBinary(origin)
  /\ \/ /\ at \in {"Text", "Base64"} /\ origin.format # "Field"
        /\ IsEncodingOf(token, origin.binary)
     \/ /\ at = "Field" /\ origin.format = "Field"
        /\ IsEncodingOf(token, origin.binary)
     \/ /\ at = "Binary" /\ origin.format # "Field" /\ binary = origin.binary
     \/ /\ at \in {"V1", "V2"} /\ at = origin.format /\ binary = origin.binary
     \/ /\ at = "Decoded" /\ origin.format = "Field" /\ binary = origin.binary

\* A text of V2JSON goes to its parser at once.
JsonOnItsWay ==
  /\ origin.format = "V2JSON" /\ at \in {"Text", "V2JSON"}
  /\ at = "Text" => token # << >> /\ token[1] = BRACE

OnItsWay == origin # None => BinaryOnItsWay \/ JsonOnItsWay

\* The inductive invariant.
FrontInv ==
  /\ at \in {"Text", "Base64", "Field"} => IsSequence(token)
  /\ NeverPanics /\ DecodesOnlyEncodings /\ OnItsWay

\* A text that was written is one that is on its way.
LEMMA WrittenKeeps ==
  ASSUME NEW format \in BinaryFormats, NEW bytes \in Binaries \ {<< >>},
         NEW alphabet \in Alphabets, NEW pads \in PadsFor(bytes),
         Written(format, bytes, alphabet, pads)
  PROVE  FrontInv'
<1> DEFINE o == [format |-> format, binary |-> bytes]
           text == Encode(bytes, alphabet, pads)
           where == IF format = "Field" THEN "Field" ELSE "Text"
<1>1. token' = text /\ origin' = o /\ at' = where /\ Starts(format, bytes)
  BY Zenon DEF Written, Enter
<1>2. bytes \in Seq(Byte) /\ Len(bytes) > 0
  <2>1. PICK m \in 0..MaxBinary : bytes \in [1..m -> Byte]
    BY DEF Binaries, BoundedSeq, SeqOf
  <2>2. m \in Nat
    BY FrontEndAssumption
  <2> QED
    BY <2>1, <2>2
<1>3. o.format = format /\ o.binary = bytes
  OBVIOUS
<1> HIDE DEF o
<1>4. WrittenBinary(o)
  <2>1. format = "V1" => bytes[1] \in V1First
    BY <1>1, Zenon DEF Starts
  <2>2. format = "V2" => bytes[1] = VERSION
    <3>1. "V1" # "V2"
      OBVIOUS
    <3> QED
      BY <1>1, <3>1, Zenon DEF Starts
  <2> QED
    BY <1>2, <1>3, <2>1, <2>2 DEF WrittenBinary
<1>5. IsSequence(text) /\ IsEncodingOf(text, bytes)
  BY <1>2, FlexibleDecodes, Zenon DEF IsEncodingOf
<1> HIDE DEF text
<1>6. BinaryOnItsWay'
  <2>1. (WrittenBinary(origin))' /\ (IsEncodingOf(token, origin.binary))'
    BY <1>1, <1>3, <1>4, <1>5, Zenon
  <2>2. CASE format = "Field"
    BY <1>1, <1>3, <2>1, <2>2 DEF BinaryOnItsWay
  <2>3. CASE format # "Field"
    BY <1>1, <1>3, <2>1, <2>3 DEF BinaryOnItsWay
  <2> QED
    BY <2>2, <2>3
<1>7. at' \in {"Field", "Text"}
  BY <1>1
<1> QED
  BY <1>1, <1>5, <1>6, <1>7 DEF FrontInv, NeverPanics, DecodesOnlyEncodings, OnItsWay

\* A text that is enumerated.
LEMMA TextIs ==
  ASSUME NEW text \in Texts
  PROVE  IsSequence(text)
<1>1. PICK m \in 0..MaxText : text \in [1..m -> Char]
  BY DEF Texts, BoundedSeq, SeqOf
<1>2. m \in Nat
  BY FrontEndAssumption
<1>3. text \in Seq(Char)
  BY <1>1, <1>2
<1> QED
  BY <1>3 DEF IsSequence

\* A text that nobody wrote.
LEMMA AnyTextKeeps ==
  ASSUME NEW text \in Texts, AnyText(text)
  PROVE  FrontInv'
<1>1. token' = text /\ origin' = None /\ at' \in {"Text", "Field"}
  BY DEF AnyText, Enter
<1>2. IsSequence(text)
  BY TextIs
<1> QED
  BY <1>1, <1>2 DEF FrontInv, NeverPanics, DecodesOnlyEncodings, OnItsWay

\* A token in V2JSON.
LEMMA JsonKeeps ==
  ASSUME NEW text \in Texts, serialize_json(text)
  PROVE  FrontInv'
<1> DEFINE o == [format |-> "V2JSON", binary |-> None]
<1>1. /\ token' = text /\ origin' = o /\ at' = "Text"
      /\ text # << >> /\ text[1] = BRACE
  BY DEF serialize_json, Enter
<1>2. IsSequence(text)
  BY TextIs
<1>3. o.format = "V2JSON"
  OBVIOUS
<1> HIDE DEF o
<1>4. JsonOnItsWay'
  BY <1>1, <1>3 DEF JsonOnItsWay
<1> QED
  BY <1>1, <1>2, <1>4 DEF FrontInv, NeverPanics, DecodesOnlyEncodings, OnItsWay

\* deserialize looks at the first character.
LEMMA DeserializeKeeps ==
  ASSUME FrontInv, deserialize
  PROVE  FrontInv'
<1>1. /\ at = "Text" /\ token' = token /\ binary' = binary /\ origin' = origin
      /\ at' = IF IsEmpty(token) THEN "Refused" ELSE FormatOfText(token)
  BY DEF deserialize
<1>2. \/ token = << >> /\ at' = "Refused"
      \/ token # << >> /\ token[1] = BRACE /\ at' = "V2JSON"
      \/ token # << >> /\ token[1] # BRACE /\ at' = "Base64"
  BY <1>1, Zenon DEF IsEmpty, FormatOfText
<1>3. IsSequence(token')
  BY <1>1 DEF FrontInv
<1>4. NeverPanics' /\ DecodesOnlyEncodings'
  BY <1>2 DEF NeverPanics, DecodesOnlyEncodings
<1>5. OnItsWay'
  <2> SUFFICES ASSUME origin # None PROVE BinaryOnItsWay' \/ JsonOnItsWay'
    BY <1>1 DEF OnItsWay
  <2>1. CASE BinaryOnItsWay
    <3>1. /\ WrittenBinary(origin) /\ origin.format # "Field"
          /\ IsEncodingOf(token, origin.binary)
      BY <1>1, <2>1 DEF BinaryOnItsWay
    <3>2. token # << >> /\ token[1] # BRACE
      BY <3>1, FlexibleDecodes, Zenon DEF IsEncodingOf, WrittenBinary
    <3>3. at' = "Base64"
      BY <1>2, <3>2
    <3>4. (WrittenBinary(origin))' /\ (IsEncodingOf(token, origin.binary))'
      BY <1>1, <3>1, Zenon
    <3>5. BinaryOnItsWay'
      BY <1>1, <3>1, <3>3, <3>4 DEF BinaryOnItsWay
    <3> QED
      BY <3>5
  <2>2. CASE JsonOnItsWay
    <3>1. at' = "V2JSON" /\ origin'.format = "V2JSON"
      BY <1>1, <1>2, <2>2 DEF JsonOnItsWay
    <3>2. JsonOnItsWay'
      BY <3>1 DEF JsonOnItsWay
    <3> QED
      BY <3>2
  <2> QED
    BY <1>1, <2>1, <2>2 DEF FrontInv, OnItsWay
<1> QED
  BY <1>3, <1>4, <1>5 DEF FrontInv

\* So does base64_decode_flexible, with the alphabet that it chooses.
LEMMA FlexibleDecodesEncodings ==
  ASSUME NEW S, NEW text \in Seq(S), NEW bytes \in base64_decode_flexible(text)
  PROVE  \E alphabet \in Alphabets, pads \in 0..2 : text = Encode(bytes, alphabet, pads)
<1> DEFINE chosen == IF LooksUrlSafe(text) THEN URL_SAFE ELSE STANDARD
<1>1. bytes \in Decode(text, chosen)
  BY Zenon DEF base64_decode_flexible
<1>2. chosen \in Alphabets
  BY DEF Alphabets
<1> HIDE DEF chosen
<1>3. \E pads \in 0..2 : text = Encode(bytes, chosen, pads)
  BY <1>1, <1>2, EncodesWhatDecodes
<1> QED
  BY <1>2, <1>3, Zenon

\* What is decoded, in deserialize or in a field.
LEMMA DecodeKeeps ==
  ASSUME FrontInv, DecodeText
  PROVE  FrontInv'
<1> DEFINE decoded == base64_decode_flexible(token)
<1>1. /\ at \in {"Base64", "Field"} /\ token' = token /\ origin' = origin
      /\ \/ decoded = {} /\ at' = "Refused" /\ binary' = binary
         \/ /\ binary' \in decoded
            /\ at' = IF at = "Field" THEN "Decoded" ELSE "Binary"
  BY DEF DecodeText
<1>2. IsSequence(token)
  BY <1>1 DEF FrontInv
<1>3. ASSUME NEW bytes \in decoded
      PROVE  \E alphabet \in Alphabets, pads \in 0..2 : token = Encode(bytes, alphabet, pads)
  <2>1. PICK S : token \in Seq(S)
    BY <1>2 DEF IsSequence
  <2>2. bytes \in base64_decode_flexible(token)
    BY <1>3
  <2> HIDE DEF decoded
  <2> QED
    BY <2>1, <2>2, FlexibleDecodesEncodings
<1>4. DecodesOnlyEncodings'
  <2>1. CASE at' = "Refused"
    BY <2>1 DEF DecodesOnlyEncodings
  <2>2. CASE binary' \in decoded
    <3>1. \E alphabet \in Alphabets, pads \in 0..2 : token' = Encode(binary', alphabet, pads)
      BY <1>1, <1>3, <2>2, Zenon
    <3>2. \E alphabet \in {STANDARD, URL_SAFE}, pads \in 0..2 :
            token' = Encode(binary', alphabet, pads)
      BY <3>1, Zenon DEF Alphabets
    <3> QED
      BY <3>2, Zenon DEF DecodesOnlyEncodings
  <2> QED
    BY <1>1, <2>1, <2>2
<1> HIDE DEF decoded
<1>5. at' \in {"Refused", "Decoded", "Binary"}
  BY <1>1
<1>6. OnItsWay'
  <2> SUFFICES ASSUME origin # None PROVE BinaryOnItsWay'
    BY <1>1 DEF OnItsWay
  <2>1. BinaryOnItsWay
    BY <1>1 DEF FrontInv, OnItsWay, JsonOnItsWay
  <2>2. /\ WrittenBinary(origin) /\ IsEncodingOf(token, origin.binary)
        /\ (at = "Field") <=> (origin.format = "Field")
    BY <1>1, <2>1 DEF BinaryOnItsWay
  <2>3. decoded = {origin.binary}
    <3>1. origin.binary \in Seq(Byte) /\ Len(origin.binary) > 0
      BY <2>2, Zenon DEF WrittenBinary
    <3>2. PICK alphabet \in Alphabets, pads \in PadsFor(origin.binary) :
            token = Encode(origin.binary, alphabet, pads)
      BY <2>2, Zenon DEF IsEncodingOf
    <3>3. base64_decode_flexible(Encode(origin.binary, alphabet, pads)) = {origin.binary}
      BY <3>1, FlexibleDecodes, Zenon
    <3> QED
      BY <3>2, <3>3, Zenon DEF decoded
  <2>4. /\ binary' = origin.binary
        /\ at' = IF at = "Field" THEN "Decoded" ELSE "Binary"
    BY <1>1, <2>3
  <2>5. (WrittenBinary(origin))'
    BY <1>1, <2>2, Zenon
  <2>6. CASE at = "Field"
    BY <1>1, <2>2, <2>4, <2>5, <2>6 DEF BinaryOnItsWay
  <2>7. CASE at # "Field"
    BY <1>1, <2>2, <2>4, <2>5, <2>7 DEF BinaryOnItsWay
  <2> QED
    BY <2>6, <2>7
<1> QED
  BY <1>4, <1>5, <1>6 DEF FrontInv, NeverPanics

\* deserialize_binary looks at the first byte.
LEMMA BinaryKeeps ==
  ASSUME FrontInv, deserialize_binary
  PROVE  FrontInv'
<1>1. /\ at = "Binary" /\ token' = token /\ binary' = binary /\ origin' = origin
      /\ at' = IF IsEmpty(binary) THEN "Refused" ELSE FormatOfBinary(binary)
  BY DEF deserialize_binary
<1>2. \/ binary = << >> /\ at' = "Refused"
      \/ binary # << >> /\ binary[1] = VERSION /\ at' = "V2"
      \/ binary # << >> /\ binary[1] # VERSION /\ binary[1] \in HexDigits /\ at' = "V1"
      \/ binary # << >> /\ binary[1] \notin HexDigits /\ binary[1] # VERSION /\ at' = "Refused"
  BY <1>1, Zenon DEF IsEmpty, FormatOfBinary
<1>3. at' \in {"Refused", "V1", "V2"}
  BY <1>2
<1>4. DecodesOnlyEncodings'
  <2>1. token # None => \E alphabet \in {STANDARD, URL_SAFE}, pads \in 0..2 :
                          token = Encode(binary, alphabet, pads)
    BY <1>1 DEF FrontInv, DecodesOnlyEncodings
  <2> QED
    BY <1>1, <2>1, Zenon DEF DecodesOnlyEncodings
<1>5. OnItsWay'
  <2> SUFFICES ASSUME origin # None PROVE BinaryOnItsWay'
    BY <1>1 DEF OnItsWay
  <2>1. BinaryOnItsWay
    BY <1>1 DEF FrontInv, OnItsWay, JsonOnItsWay
  <2>2. WrittenBinary(origin) /\ origin.format # "Field" /\ binary = origin.binary
    BY <1>1, <2>1 DEF BinaryOnItsWay
  <2>3. at' = origin.format
    <3>1. binary # << >>
      BY <2>2 DEF WrittenBinary
    <3>2. V1First \subseteq HexDigits /\ VERSION \notin HexDigits
      BY FrontEndAssumption
    <3>3. CASE origin.format = "V1"
      <4>1. binary[1] \in HexDigits /\ binary[1] # VERSION
        BY <2>2, <3>2, <3>3 DEF WrittenBinary
      <4> QED
        BY <1>2, <3>1, <3>3, <4>1
    <3>4. CASE origin.format = "V2"
      <4>1. binary[1] = VERSION
        BY <2>2, <3>4 DEF WrittenBinary
      <4> QED
        BY <1>2, <3>1, <3>4, <4>1
    <3> QED
      BY <2>2, <3>3, <3>4 DEF WrittenBinary, BinaryFormats
  <2>4. (WrittenBinary(origin))'
    BY <1>1, <2>2, Zenon
  <2>5. at' \in {"V1", "V2"}
    BY <2>2, <2>3 DEF WrittenBinary, BinaryFormats
  <2> QED
    BY <1>1, <2>2, <2>3, <2>4, <2>5 DEF BinaryOnItsWay
<1> QED
  BY <1>3, <1>4, <1>5 DEF FrontInv, NeverPanics

\* No text is there at first.
LEMMA FrontInitInv == Init => FrontInv
BY DEF Init, FrontInv, NeverPanics, DecodesOnlyEncodings, OnItsWay

\* A step of any kind.
LEMMA FrontNextInv == FrontInv /\ [Next]_vars => FrontInv'
<1> SUFFICES ASSUME FrontInv, [Next]_vars PROVE FrontInv'
  OBVIOUS
<1>1. ASSUME NEW format \in BinaryFormats, NEW bytes \in Binaries \ {<< >>},
             serialize(format, bytes)
      PROVE  FrontInv'
  <2> DEFINE pads == IF format = "Field" THEN 0 ELSE FullPadding(CharsFor(Len(bytes)))
  <2>1. pads \in PadsFor(bytes) /\ URL_SAFE \in Alphabets
    BY DEF PadsFor, Alphabets
  <2>2. Written(format, bytes, URL_SAFE, pads)
    BY <1>1, Zenon DEF serialize
  <2> HIDE DEF pads
  <2> QED
    BY <2>1, <2>2, WrittenKeeps
<1>2. ASSUME NEW format \in BinaryFormats, NEW bytes \in Binaries \ {<< >>},
             OtherWriter(format, bytes)
      PROVE  FrontInv'
  <2>1. PICK alphabet \in Alphabets, pads \in PadsFor(bytes) :
             Written(format, bytes, alphabet, pads)
    BY <1>2, Zenon DEF OtherWriter, Alphabets, PadsFor
  <2> QED
    BY <2>1, WrittenKeeps
<1>3. ASSUME NEW text \in Texts, serialize_json(text) \/ AnyText(text) PROVE FrontInv'
  BY <1>3, JsonKeeps, AnyTextKeeps
<1>4. ASSUME NEW bytes, AnyBinary(bytes) PROVE FrontInv'
  <2>1. token' = None /\ origin' = None /\ at' = "Binary"
    BY <1>4 DEF AnyBinary, Enter
  <2> QED
    BY <2>1 DEF FrontInv, NeverPanics, DecodesOnlyEncodings, OnItsWay
<1>5. CASE deserialize
  BY <1>5, DeserializeKeeps
<1>6. CASE DecodeText
  BY <1>6, DecodeKeeps
<1>7. CASE deserialize_binary
  BY <1>7, BinaryKeeps
<1>8. CASE Return
  <2>1. token' = None /\ origin' = None /\ at' = "Idle"
    BY <1>8 DEF Return
  <2> QED
    BY <2>1 DEF FrontInv, NeverPanics, DecodesOnlyEncodings, OnItsWay
<1>9. CASE UNCHANGED vars
  <2>1. token' = token /\ binary' = binary /\ origin' = origin /\ at' = at
    BY <1>9 DEF vars
  <2>2. DecodesOnlyEncodings' /\ OnItsWay'
    BY <2>1, Zenon DEF FrontInv, DecodesOnlyEncodings, OnItsWay, BinaryOnItsWay, JsonOnItsWay
  <2> QED
    BY <2>1, <2>2 DEF FrontInv, NeverPanics
<1> QED
  BY <1>1, <1>2, <1>3, <1>4, <1>5, <1>6, <1>7, <1>8, <1>9, Zenon DEF Next, BinaryFormats

\* The invariant holds at every moment.
LEMMA FrontInvHolds == Spec => []FrontInv
BY FrontInitInv, FrontNextInv, PTL DEF Spec

\* No text and no bytes are indexed where they have nothing.
THEOREM TokensNeverPanic == Spec => []NeverPanics
<1>1. FrontInv => NeverPanics
  BY DEF FrontInv
<1> QED
  BY <1>1, FrontInvHolds, PTL

\* base64_decode_flexible decodes nothing but encodings, of any length: two
\* texts that mean the same bytes differ in alphabet and padding alone.
THEOREM OnlyEncodingsDecode == Spec => []DecodesOnlyEncodings
<1>1. FrontInv => DecodesOnlyEncodings
  BY DEF FrontInv
<1> QED
  BY <1>1, FrontInvHolds, PTL

\* What any implementation wrote, in either alphabet and with padding or
\* without, reaches the parser of its format with the bytes that were written.
THEOREM TokensReachTheirParsers == Spec => []ReachesItsParser
<1>1. FrontInv => ReachesItsParser
  <2> SUFFICES ASSUME FrontInv, origin # None
               PROVE  /\ at # "Refused"
                      /\ at \in Parsers => at = origin.format
                      /\ at \in {"V1", "V2", "Decoded"} => binary = origin.binary
    BY DEF ReachesItsParser
  <2>1. CASE BinaryOnItsWay
    BY <2>1 DEF BinaryOnItsWay, Parsers
  <2>2. CASE JsonOnItsWay
    BY <2>2 DEF JsonOnItsWay, Parsers
  <2> QED
    BY <2>1, <2>2 DEF FrontInv, OnItsWay
<1> QED
  BY <1>1, FrontInvHolds, PTL
=============================================================================
