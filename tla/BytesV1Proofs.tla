--------------------------- MODULE BytesV1Proofs ---------------------------
(***************************************************************************)
(* Proofs about BytesV1, for every width and radix of the header: a token   *)
(* never makes the parser panic, what it accepts is what is there, and it   *)
(* refuses nothing that serialize_as_packet writes.                         *)
(***************************************************************************)
EXTENDS BytesV1, MacaroonLemmas

-----------------------------------------------------------------------------
\* A sequence of one element.
LEMMA SequenceOfOne ==
  ASSUME NEW S, NEW x \in S
  PROVE  <<x>> \in Seq(S) /\ Len(<<x>>) = 1 /\ <<x>>[1] = x
OBVIOUS

\* What a packet is joined from, part by part.
IsPacket(w, h, k, s, v, e) ==
  /\ Len(w) = Len(h) + 2 + Len(k) + Len(v)
  /\ \A i \in 1..Len(h) : w[i] = h[i]
  /\ \A j \in 1..Len(k) : w[Len(h) + j] = k[j]
  /\ w[Len(h) + Len(k) + 1] = s
  /\ \A j \in 1..Len(v) : w[Len(h) + Len(k) + 1 + j] = v[j]
  /\ w[Len(w)] = e

\* A packet is as long as its five parts and has them one after the other.
LEMMA PartsOfPacket ==
  ASSUME NEW S, NEW h \in Seq(S), NEW k \in Seq(S), NEW s \in S, NEW v \in Seq(S),
         NEW e \in S
  PROVE  /\ h \o k \o <<s>> \o v \o <<e>> \in Seq(S)
         /\ IsPacket(h \o k \o <<s>> \o v \o <<e>>, h, k, s, v, e)
<1> DEFINE m == <<s>>
           n == <<e>>
           a == h \o k
           b == a \o m
           c == b \o v
           w == c \o n
<1>1. /\ m \in Seq(S) /\ Len(m) = 1 /\ m[1] = s
      /\ n \in Seq(S) /\ Len(n) = 1 /\ n[1] = e
  BY SequenceOfOne
<1> HIDE DEF m, n
<1>2. a \in Seq(S) /\ IsJoined(a, h, k)
  BY PartsOfTwo, Zenon
<1> HIDE DEF a
<1>3. b \in Seq(S) /\ IsJoined(b, a, m)
  BY <1>1, <1>2, PartsOfTwo, Zenon
<1> HIDE DEF b
<1>4. c \in Seq(S) /\ IsJoined(c, b, v)
  BY <1>3, PartsOfTwo, Zenon
<1> HIDE DEF c
<1>5. w \in Seq(S) /\ IsJoined(w, c, n)
  BY <1>1, <1>4, PartsOfTwo, Zenon
<1> HIDE DEF w
<1>6. \A i \in 1..(Len(h) + Len(k)) : w[i] = a[i]
  BY <1>2, <1>3, <1>4, <1>5 DEF IsJoined
<1>7. \A i \in 1..Len(h) : w[i] = h[i]
  BY <1>2, <1>6 DEF IsJoined
<1>8. \A j \in 1..Len(k) : w[Len(h) + j] = k[j]
  BY <1>2, <1>6 DEF IsJoined
<1>9. Len(b) = Len(h) + Len(k) + 1 /\ Len(w) = Len(b) + Len(v) + 1
  BY <1>1, <1>2, <1>3, <1>4, <1>5 DEF IsJoined
<1>10. w[Len(h) + Len(k) + 1] = s
  <2>1. w[Len(b)] = b[Len(b)]
    <3>1. Len(b) \in 1..Len(b) /\ Len(b) \in 1..Len(c)
      BY <1>1, <1>3, <1>4 DEF IsJoined
    <3>2. c[Len(b)] = b[Len(b)] /\ w[Len(b)] = c[Len(b)]
      BY <1>4, <1>5, <3>1 DEF IsJoined
    <3> QED
      BY <3>2
  <2>2. Len(b) = Len(a) + 1 /\ b[Len(a) + 1] = m[1]
    BY <1>1, <1>3 DEF IsJoined
  <2> QED
    BY <1>1, <1>9, <2>1, <2>2
<1>11. \A j \in 1..Len(v) : w[Len(h) + Len(k) + 1 + j] = v[j]
  BY <1>4, <1>5, <1>9 DEF IsJoined
<1>12. w[Len(w)] = e
  BY <1>1, <1>5 DEF IsJoined
<1>13. IsPacket(w, h, k, s, v, e)
  <2>1. Len(w) = Len(h) + 2 + Len(k) + Len(v)
    BY <1>2, <1>4, <1>9 DEF IsJoined
  <2> QED
    BY <1>7, <1>8, <1>10, <1>11, <1>12, <2>1 DEF IsPacket
<1> QED
  BY <1>5, <1>13 DEF w, c, b, a, m, n

\* What ends in an element of its own.
LEMMA EndsIn ==
  ASSUME NEW S, NEW s \in Seq(S), NEW x \in S
  PROVE  s \o <<x>> \in Seq(S) /\ Len(s \o <<x>>) \in Nat
         /\ (s \o <<x>>)[Len(s \o <<x>>)] = x
OBVIOUS

\* Nothing is a sequence too.
LEMMA EmptySequence ==
  /\ \A S : << >> \in Seq(S)
  /\ IsSequence(<< >>) /\ Len(<< >>) = 0
<1>1. \A S : << >> \in Seq(S)
  OBVIOUS
<1> QED
  BY <1>1 DEF IsSequence

\* Part of a sequence, from its m-th element to its n-th.
IsPart(part, s, m, n) ==
  Len(part) = n - m + 1 /\ \A i \in 1..(n - m + 1) : part[i] = s[m + i - 1]

\* SubSeq takes a part.
LEMMA PartFrom ==
  ASSUME NEW S, NEW s \in Seq(S), NEW m \in 1..(Len(s) + 1),
         NEW n \in (m - 1)..Len(s)
  PROVE  SubSeq(s, m, n) \in Seq(S) /\ IsPart(SubSeq(s, m, n), s, m, n)
BY DEF IsPart

\* The same length and the same elements.
LEMMA SameSequence ==
  ASSUME NEW S, NEW s \in Seq(S), NEW t \in Seq(S), Len(s) = Len(t),
         \A i \in 1..Len(s) : s[i] = t[i]
  PROVE  s = t
OBVIOUS

-----------------------------------------------------------------------------
\* Split finds the first space, if there is one.
LEMMA SplitIs ==
  ASSUME NEW S, NEW data \in Seq(S)
  PROVE  IsFirst(Split(data), data, SPACE)
<1> DEFINE I == { i \in 1..Len(data) : data[i] = SPACE }
<1>1. Split(data) = IF I # {} THEN Min(I) ELSE 0
  BY Zenon DEF Split, SelectInSeq
<1>2. IsFirst(IF I # {} THEN Min(I) ELSE 0, data, SPACE)
  BY FirstIs
<1> HIDE DEF I
<1> QED
  BY <1>1, <1>2

-----------------------------------------------------------------------------
\* A digit that packet_header writes is read as that digit and no other.
LEMMA DigitIs ==
  ASSUME NEW d \in 0..(RADIX - 1)
  PROVE  DigitValues(HEX[d + 1]) = {d}
<1>1. RADIX \in Nat
  BY BytesAssumption DEF RADIX
<1>2. ASSUME NEW e \in 0..(RADIX - 1), HEX[d + 1] \in {HEX[e + 1], UpperHex[e + 1]}
      PROVE  e = d
  <2>1. d + 1 \in 1..RADIX /\ e + 1 \in 1..RADIX
    BY <1>1
  <2>2. {HEX[d + 1], UpperHex[d + 1]} \cap {HEX[e + 1], UpperHex[e + 1]} # {}
    BY <1>2
  <2>3. d + 1 = e + 1
    BY <2>1, <2>2, BytesAssumption
  <2> QED
    BY <2>3
<1> QED
  BY <1>2 DEF DigitValues

\* The size of a header that is a number has no more digits than the header.
LEMMA SizeIsNumber ==
  ASSUME NEW h \in Header, IsNumber(h)
  PROVE  SizeOf(h) \in Nat /\ FitsIn(SizeOf(h), RADIX, HEADER_SIZE)
<1> DEFINE u == Unsigned(h)
           value(b) == CHOOSE d \in DigitValues(b) : TRUE
           n == Len(u)
           ds == [i \in 1..n |-> value(u[i])]
<1>1. RADIX \in Nat /\ RADIX > 0 /\ HEADER_SIZE \in Nat \ {0}
  BY BytesAssumption DEF RADIX
<1>2. n \in Nat /\ (n = HEADER_SIZE \/ n + 1 = HEADER_SIZE)
  <2>1. h \in Seq(HeaderByte) /\ Len(h) = HEADER_SIZE
    BY <1>1 DEF Header
  <2>2. Len(Tail(h)) = HEADER_SIZE - 1
    BY <1>1, <2>1
  <2> QED
    BY <1>1, <2>1, <2>2 DEF Unsigned
<1>3. SizeOf(h) = NumberOf(ds, RADIX)
  BY DEF SizeOf
<1>4. \A i \in 1..n : value(u[i]) \in 0..(RADIX - 1)
  <2>1. \A i \in 1..n : DigitValues(u[i]) # {}
    BY DEF IsNumber
  <2>2. \A i \in 1..n : value(u[i]) \in DigitValues(u[i])
    BY <2>1
  <2>3. \A b : DigitValues(b) \subseteq 0..(RADIX - 1)
    BY DEF DigitValues
  <2> QED
    BY <2>2, <2>3
<1> HIDE DEF u, n, value
<1>5. ds \in Seq(0..(RADIX - 1)) /\ Len(ds) = n
  BY <1>2, <1>4
<1> HIDE DEF ds
<1>6. SizeOf(h) \in Nat /\ FitsIn(SizeOf(h), RADIX, n)
  BY <1>1, <1>3, <1>5, DigitsOfNumber
<1>7. CASE n + 1 = HEADER_SIZE
  BY <1>1, <1>2, <1>6, <1>7, FitsLonger
<1> QED
  BY <1>2, <1>6, <1>7

\* A size of so many digits is read from the header that is written for it.
LEMMA HeaderWritten ==
  ASSUME NEW n \in Nat, FitsIn(n, RADIX, HEADER_SIZE)
  PROVE  /\ packet_header(n) \in Header
         /\ IsNumber(packet_header(n)) /\ SizeOf(packet_header(n)) = n
<1> DEFINE d == DigitsOf(n, RADIX, HEADER_SIZE)
           h == packet_header(n)
<1>1. RADIX \in Nat /\ RADIX > 0 /\ HEADER_SIZE \in Nat \ {0}
  BY BytesAssumption DEF RADIX
<1>2. d \in [1..HEADER_SIZE -> 0..(RADIX - 1)] /\ NumberOf(d, RADIX) = n
  BY <1>1, NumberOfDigits
<1>3. h = [i \in 1..HEADER_SIZE |-> HEX[d[i] + 1]]
  BY DEF packet_header
<1> HIDE DEF d, h
<1>4. \A i \in 1..HEADER_SIZE : h[i] = HEX[d[i] + 1] /\ h[i] \in HeaderByte \ {PLUS}
  <2> SUFFICES ASSUME NEW i \in 1..HEADER_SIZE
               PROVE  h[i] = HEX[d[i] + 1] /\ h[i] \in HeaderByte \ {PLUS}
    OBVIOUS
  <2>1. d[i] \in 0..(RADIX - 1)
    BY <1>2
  <2>2. d[i] + 1 \in 1..Len(HEX)
    BY <1>1, <2>1 DEF RADIX
  <2>3. HEX \in Seq(HeaderByte \ {PLUS})
    BY BytesAssumption
  <2> QED
    BY <1>3, <2>2, <2>3
<1>5. h \in Header /\ h \in Seq(HeaderByte) /\ Len(h) = HEADER_SIZE
  <2>1. h = [i \in 1..HEADER_SIZE |-> h[i]]
    BY <1>3, <1>4
  <2>2. h \in Header
    BY <1>4, <2>1 DEF Header
  <2> QED
    BY <1>1, <2>2 DEF Header
<1>6. Unsigned(h) = h
  <2>1. Head(h) = h[1] /\ 1 \in 1..HEADER_SIZE
    BY <1>1, <1>5
  <2>2. Head(h) # PLUS
    BY <1>4, <2>1
  <2> QED
    BY <2>2 DEF Unsigned
<1>7. \A i \in 1..HEADER_SIZE : DigitValues(h[i]) = {d[i]}
  <2> SUFFICES ASSUME NEW i \in 1..HEADER_SIZE PROVE DigitValues(h[i]) = {d[i]}
    OBVIOUS
  <2>1. d[i] \in 0..(RADIX - 1)
    BY <1>2
  <2> QED
    BY <1>4, <2>1, DigitIs
<1>8. IsNumber(h)
  BY <1>5, <1>6, <1>7 DEF IsNumber
<1>9. SizeOf(h) = NumberOf(d, RADIX)
  <2> DEFINE value(b) == CHOOSE x \in DigitValues(b) : TRUE
  <2>1. SizeOf(h) = NumberOf([i \in 1..Len(h) |-> value(h[i])], RADIX)
    BY <1>6 DEF SizeOf
  <2>2. \A i \in 1..HEADER_SIZE : value(h[i]) = d[i]
    BY <1>7
  <2>3. d = [i \in 1..HEADER_SIZE |-> d[i]]
    BY <1>2
  <2> HIDE DEF value
  <2>4. [i \in 1..HEADER_SIZE |-> value(h[i])] = [i \in 1..HEADER_SIZE |-> d[i]]
    BY <2>2
  <2> QED
    BY <1>5, <2>1, <2>3, <2>4
<1> QED
  BY <1>2, <1>5, <1>8, <1>9 DEF h

\* The sizes up to the limit have no more digits than a header.
LEMMA LimitFits ==
  ASSUME NEW n \in Nat, n <= MAX_PACKET_SIZE
  PROVE  FitsIn(n, RADIX, HEADER_SIZE)
<1> DEFINE d == [i \in 1..HEADER_SIZE |-> RADIX - 1]
<1>1. RADIX \in Nat /\ RADIX > 0 /\ HEADER_SIZE \in Nat
  BY BytesAssumption DEF RADIX
<1>2. d \in Seq(0..(RADIX - 1)) /\ Len(d) = HEADER_SIZE
  BY <1>1
<1>3. MAX_PACKET_SIZE = NumberOf(d, RADIX)
  BY DEF MAX_PACKET_SIZE
<1> HIDE DEF d
<1>4. MAX_PACKET_SIZE \in Nat /\ FitsIn(MAX_PACKET_SIZE, RADIX, HEADER_SIZE)
  BY <1>1, <1>2, <1>3, DigitsOfNumber
<1> QED
  BY <1>1, <1>4, FitsBelow

\* What serialize_as_packet writes, byte by byte, whatever fits its header.
Bytes == HeaderByte \cup DataByte \cup {SPACE, NEWLINE, EOF}

\* A header is HEADER_SIZE bytes of headers.
LEMMA HeaderTyped ==
  ASSUME NEW n \in Nat
  PROVE  packet_header(n) \in Header
<1> DEFINE d == DigitsOf(n, RADIX, HEADER_SIZE)
<1>1. RADIX \in Nat /\ RADIX > 0 /\ HEADER_SIZE \in Nat
  BY BytesAssumption DEF RADIX
<1>2. d \in [1..HEADER_SIZE -> 0..(RADIX - 1)]
  BY <1>1, DigitsTyped
<1> HIDE DEF d
<1>3. ASSUME NEW i \in 1..HEADER_SIZE PROVE HEX[d[i] + 1] \in HeaderByte
  <2>1. d[i] + 1 \in 1..Len(HEX)
    BY <1>1, <1>2 DEF RADIX
  <2>2. HEX \in Seq(HeaderByte \ {PLUS})
    BY BytesAssumption
  <2> QED
    BY <2>1, <2>2
<1>4. packet_header(n) = [i \in 1..HEADER_SIZE |-> HEX[d[i] + 1]]
  BY DEF packet_header, d
<1> QED
  BY <1>3, <1>4 DEF Header

\* What serialize_as_packet writes has the size that its header was made of.
LEMMA PacketWritten ==
  ASSUME NEW key \in Seq(DataByte), NEW value \in Seq(DataByte)
  PROVE  LET h == packet_header(PacketSize(key, value))
             w == serialize_as_packet(key, value)
         IN  /\ PacketSize(key, value) \in Nat /\ h \in Header /\ Len(h) = HEADER_SIZE
             /\ w \in Seq(Bytes) /\ Len(w) = PacketSize(key, value)
             /\ IsPacket(w, h, key, SPACE, value, NEWLINE)
<1> DEFINE n == PacketSize(key, value)
           h == packet_header(n)
           w == serialize_as_packet(key, value)
<1>1. HEADER_SIZE \in Nat /\ n \in Nat /\ n = HEADER_SIZE + 2 + Len(key) + Len(value)
  BY BytesAssumption DEF PacketSize
<1>2. h \in Header
  <2> HIDE DEF n
  <2> QED
    BY <1>1, HeaderTyped
<1> HIDE DEF n, h
<1>3. h \in Seq(Bytes) /\ Len(h) = HEADER_SIZE
  BY <1>1, <1>2 DEF Header, Bytes
<1>4. key \in Seq(Bytes) /\ value \in Seq(Bytes) /\ SPACE \in Bytes /\ NEWLINE \in Bytes
  BY DEF Bytes
<1>5. w = h \o key \o <<SPACE>> \o value \o <<NEWLINE>>
  BY DEF serialize_as_packet, h, n
<1> HIDE DEF w
<1>6. w \in Seq(Bytes) /\ IsPacket(w, h, key, SPACE, value, NEWLINE)
  BY <1>3, <1>4, <1>5, PartsOfPacket, Zenon
<1>7. Len(w) = n
  BY <1>1, <1>3, <1>6 DEF IsPacket
<1> QED
  BY <1>1, <1>2, <1>3, <1>6, <1>7 DEF n, h, w

-----------------------------------------------------------------------------
\* A packet that is read as key and value is written with these bytes.
LEMMA ReadIsWritten ==
  ASSUME NEW header \in Header, IsNumber(header), SizeOf(header) >= HEADER_SIZE,
         NEW data \in [1..(SizeOf(header) - HEADER_SIZE) -> DataByte],
         ~Malformed(data)
  PROVE  /\ Spells(header \o data, Packet(KeyOf(data), ValueOf(data)))
         /\ SPACE \notin Range(KeyOf(data))
<1> DEFINE size  == SizeOf(header)
           sp    == Split(data)
           chunk == header \o data
           key   == KeyOf(data)
           value == ValueOf(data)
           w     == serialize_as_packet(key, value)
           h     == packet_header(PacketSize(key, value))
<1>1. /\ HEADER_SIZE \in Nat /\ size \in Nat /\ FitsIn(size, RADIX, HEADER_SIZE)
      /\ size >= HEADER_SIZE
  BY SizeIsNumber, BytesAssumption
<1>2. header \in Seq(Bytes) /\ Len(header) = HEADER_SIZE
  BY <1>1 DEF Header, Bytes
<1>3. data \in Seq(DataByte) /\ data \in Seq(Bytes) /\ Len(data) = size - HEADER_SIZE
  BY <1>1 DEF Bytes
<1>4. /\ sp \in 1..Len(data) /\ data[sp] = SPACE
      /\ \A i \in 1..(sp - 1) : data[i] # SPACE
  <2>1. sp # 0
    BY DEF Malformed
  <2> QED
    BY <1>3, <2>1, SplitIs DEF IsFirst
<1>5. sp <= Len(data) - 1
  <2>1. Len(data) - sp + 1 >= 2
    BY DEF Malformed, HasValue, SliceLength
  <2> QED
    BY <1>3, <1>4, <2>1
<1> HIDE DEF size, sp
<1>6. /\ key \in Seq(DataByte) /\ Len(key) = sp - 1
      /\ \A i \in 1..(sp - 1) : key[i] = data[i]
  <2>1. key = SubSeq(data, 1, sp - 1)
    BY DEF KeyOf, sp
  <2>2. 1 \in 1..(Len(data) + 1) /\ sp - 1 \in (1 - 1)..Len(data) /\ Len(data) \in Nat
    BY <1>3, <1>4
  <2> HIDE DEF key
  <2>3. key \in Seq(DataByte) /\ IsPart(key, data, 1, sp - 1)
    BY <1>3, <2>1, <2>2, PartFrom, Zenon
  <2> QED
    BY <1>3, <1>4, <2>3 DEF IsPart
<1>7. /\ value \in Seq(DataByte) /\ Len(value) = Len(data) - 1 - sp
      /\ \A i \in 1..(Len(data) - 1 - sp) : value[i] = data[sp + i]
  <2>1. value = SubSeq(data, sp + 1, Len(data) - 1)
    BY DEF ValueOf, sp
  <2>2. /\ sp + 1 \in 1..(Len(data) + 1) /\ Len(data) - 1 \in ((sp + 1) - 1)..Len(data)
        /\ Len(data) \in Nat
    BY <1>3, <1>4, <1>5
  <2> HIDE DEF value
  <2>3. value \in Seq(DataByte) /\ IsPart(value, data, sp + 1, Len(data) - 1)
    BY <1>3, <2>1, <2>2, PartFrom, Zenon
  <2> QED
    BY <1>3, <1>4, <2>2, <2>3 DEF IsPart
<1> HIDE DEF key, value
<1>8. PacketSize(key, value) = size
  BY <1>1, <1>3, <1>4, <1>5, <1>6, <1>7 DEF PacketSize
<1>9. /\ h \in Header /\ SizeOf(h) = size /\ w \in Seq(Bytes) /\ Len(w) = size
      /\ IsPacket(w, h, key, SPACE, value, NEWLINE)
  <2>1. h = packet_header(size) /\ FitsIn(size, RADIX, HEADER_SIZE) /\ size \in Nat
    BY <1>1, <1>8 DEF h
  <2>2. h \in Header /\ SizeOf(h) = size
    <3> HIDE DEF h
    <3> QED
      BY <2>1, HeaderWritten
  <2> QED
    BY <1>6, <1>7, <1>8, <2>2, PacketWritten
<1> HIDE DEF w, h
<1>10. /\ chunk \in Seq(Bytes) /\ Len(chunk) = size
       /\ \A i \in 1..HEADER_SIZE : chunk[i] = header[i]
       /\ \A j \in 1..Len(data) : chunk[HEADER_SIZE + j] = data[j]
  <2>1. chunk \in Seq(Bytes) /\ IsJoined(chunk, header, data)
    BY <1>2, <1>3, PartsOfTwo, Zenon
  <2> HIDE DEF chunk
  <2> QED
    BY <1>1, <1>2, <1>3, <2>1 DEF IsJoined
<1> HIDE DEF chunk
<1>11. Len(h) = HEADER_SIZE
  BY <1>1, <1>9 DEF Header
<1>12. HeaderSize(chunk) = size
  <2>1. SubSeq(chunk, 1, HEADER_SIZE) = header
    BY <1>1, <1>2, <1>10, BeginsWith, Zenon
  <2> QED
    BY <2>1 DEF HeaderSize, size
<1>13. HeaderSize(w) = size
  <2>1. h \in Seq(Bytes)
    BY <1>1, <1>9 DEF Header, Bytes
  <2>2. \A i \in 1..HEADER_SIZE : w[i] = h[i]
    BY <1>9, <1>11 DEF IsPacket
  <2>3. SubSeq(w, 1, HEADER_SIZE) = h
    BY <1>1, <1>9, <1>11, <2>1, <2>2, BeginsWith, Zenon
  <2> QED
    BY <1>9, <2>3 DEF HeaderSize
<1>14. ASSUME NEW i \in (HEADER_SIZE + 1)..(size - 1) PROVE chunk[i] = w[i]
  <2> DEFINE j == i - HEADER_SIZE
  <2>1. j \in 1..(Len(data) - 1) /\ i = HEADER_SIZE + j /\ j \in 1..Len(data)
    BY <1>1, <1>3
  <2> HIDE DEF j
  <2>2. chunk[i] = data[j]
    BY <1>10, <2>1
  <2>3. CASE j < sp
    <3>1. j \in 1..Len(key) /\ j \in 1..(sp - 1)
      BY <1>4, <1>6, <2>1, <2>3
    <3>2. w[HEADER_SIZE + j] = key[j]
      BY <1>9, <1>11, <3>1 DEF IsPacket
    <3> QED
      BY <1>6, <2>1, <2>2, <3>1, <3>2
  <2>4. CASE j = sp
    <3>1. w[HEADER_SIZE + (sp - 1) + 1] = SPACE
      BY <1>6, <1>9, <1>11 DEF IsPacket
    <3>2. HEADER_SIZE + (sp - 1) + 1 = i
      BY <1>1, <1>4, <2>1, <2>4
    <3> QED
      BY <1>4, <2>2, <2>4, <3>1, <3>2
  <2>5. CASE j > sp
    <3>1. j - sp \in 1..(Len(data) - 1 - sp) /\ j - sp \in 1..Len(value) /\ sp + (j - sp) = j
      BY <1>3, <1>4, <1>7, <2>1, <2>5
    <3>2. w[HEADER_SIZE + (sp - 1) + 1 + (j - sp)] = value[j - sp]
      BY <1>6, <1>9, <1>11, <3>1 DEF IsPacket
    <3>3. HEADER_SIZE + (sp - 1) + 1 + (j - sp) = i
      BY <1>1, <1>4, <2>1
    <3>4. value[j - sp] = data[j]
      BY <1>7, <3>1
    <3> QED
      BY <2>2, <3>2, <3>3, <3>4
  <2> QED
    BY <1>4, <2>1, <2>3, <2>4, <2>5
<1>15. SPACE \notin Range(key)
  <2>1. \A i \in 1..Len(key) : key[i] # SPACE
    BY <1>4, <1>6
  <2>2. DOMAIN key = 1..Len(key)
    BY <1>6
  <2> QED
    BY <2>1, <2>2 DEF Range
<1>16. Spells(chunk, Packet(key, value))
  <2> DEFINE p == Packet(key, value)
  <2>1. p.key = key /\ p.value = value
    BY DEF Packet
  <2> HIDE DEF p
  <2>2. serialize_as_packet(p.key, p.value) = w
    BY <2>1 DEF w
  <2>3. {Len(chunk), HeaderSize(chunk), HeaderSize(w)} = {Len(w)}
    BY <1>9, <1>10, <1>12, <1>13
  <2>4. \A i \in (HEADER_SIZE + 1)..(Len(chunk) - 1) : chunk[i] = w[i]
    BY <1>10, <1>14
  <2>5. Spells(chunk, p)
    BY <2>2, <2>3, <2>4, Zenon DEF Spells
  <2> QED
    BY <2>5 DEF p
<1> QED
  BY <1>15, <1>16 DEF chunk, key, value

-----------------------------------------------------------------------------
Written == WrittenPackets \cup WrittenHeaders

\* What is written is longer than a header and ends in a newline, or it is a
\* header, and one of a size that can be.
LEMMA WrittenIs ==
  ASSUME NEW bytes \in Written
  PROVE  \/ \E key \in Tag, value \in Seq(DataByte) :
              bytes = serialize_as_packet(key, value)
         \/ \E size \in Nat : /\ size > HEADER_SIZE /\ FitsIn(size, RADIX, HEADER_SIZE)
                             /\ bytes = packet_header(size)
<1>1. HEADER_SIZE \in Nat
  BY BytesAssumption
<1>2. CASE bytes \in WrittenPackets
  <2> DEFINE short == BoundedSeq(DataByte, MaxBytes - HEADER_SIZE - 2)
  <2>1. short \subseteq Seq(DataByte)
    <3> SUFFICES ASSUME NEW v \in short PROVE v \in Seq(DataByte)
      OBVIOUS
    <3>1. PICK m \in 0..(MaxBytes - HEADER_SIZE - 2) : v \in [1..m -> DataByte]
      BY DEF BoundedSeq, SeqOf
    <3>2. m \in Nat
      BY <1>1, BytesAssumption
    <3> QED
      BY <3>1, <3>2
  <2> HIDE DEF short
  <2>2. \E key \in Tag, value \in short : bytes = serialize_as_packet(key, value)
    BY <1>2 DEF WrittenPackets, short
  <2> QED
    BY <2>1, <2>2
<1>3. CASE bytes \in WrittenHeaders
  <2>1. PICK size \in (HEADER_SIZE + 3)..MAX_PACKET_SIZE : bytes = packet_header(size)
    BY <1>3, Zenon DEF WrittenHeaders
  <2>2. size \in Nat /\ size > HEADER_SIZE /\ size <= MAX_PACKET_SIZE
    BY <1>1
  <2>3. FitsIn(size, RADIX, HEADER_SIZE)
    BY <2>2, LimitFits
  <2> QED
    BY <2>1, <2>2, <2>3
<1> QED
  BY <1>2, <1>3 DEF Written

\* A key that is written has no space and is UTF-8.
LEMMA TagIs ==
  ASSUME NEW key \in Tag
  PROVE  key \in Seq(DataByte) /\ Utf8(key) /\ \A i \in 1..Len(key) : key[i] # SPACE
<1>1. key \in Seq(DataByte \ {SPACE}) /\ Utf8(key)
  BY BytesAssumption
<1> QED
  BY <1>1

\* The length of what is written, and its last byte.
LEMMA WrittenLength ==
  ASSUME NEW bytes \in Written
  PROVE  /\ Len(bytes) \in Nat
         /\ \/ Len(bytes) >= HEADER_SIZE + 2
            \/ /\ bytes \in Header /\ Len(bytes) = HEADER_SIZE
               /\ IsNumber(bytes) /\ SizeOf(bytes) > HEADER_SIZE
         /\ bytes[Len(bytes)] # EOF
<1>1. HEADER_SIZE \in Nat \ {0} /\ EOF \notin HeaderByte \cup DataByte \cup {NEWLINE}
  BY BytesAssumption
<1>2. ASSUME NEW key \in Tag, NEW value \in Seq(DataByte),
             bytes = serialize_as_packet(key, value)
      PROVE  /\ Len(bytes) \in Nat /\ Len(bytes) >= HEADER_SIZE + 2
             /\ bytes[Len(bytes)] = NEWLINE
  <2>1. key \in Seq(DataByte)
    BY TagIs
  <2>2. Len(bytes) = PacketSize(key, value) /\ bytes[Len(bytes)] = NEWLINE
    BY <1>2, <2>1, PacketWritten DEF IsPacket
  <2> QED
    BY <1>1, <2>1, <2>2 DEF PacketSize
<1>3. ASSUME NEW size \in Nat, size > HEADER_SIZE, FitsIn(size, RADIX, HEADER_SIZE),
             bytes = packet_header(size)
      PROVE  /\ bytes \in Header /\ Len(bytes) = HEADER_SIZE
             /\ IsNumber(bytes) /\ SizeOf(bytes) > HEADER_SIZE
  <2>1. bytes \in Header /\ IsNumber(bytes) /\ SizeOf(bytes) = size
    BY <1>3, HeaderWritten
  <2>2. Len(bytes) = HEADER_SIZE
    BY <1>1, <2>1 DEF Header
  <2> QED
    BY <1>3, <2>1, <2>2
<1>4. ASSUME bytes \in Header, Len(bytes) = HEADER_SIZE PROVE bytes[Len(bytes)] # EOF
  BY <1>1, <1>4 DEF Header
<1>5. CASE \E key \in Tag, value \in Seq(DataByte) : bytes = serialize_as_packet(key, value)
  BY <1>1, <1>2, <1>5
<1>6. CASE \E size \in Nat : /\ size > HEADER_SIZE /\ FitsIn(size, RADIX, HEADER_SIZE)
                             /\ bytes = packet_header(size)
  BY <1>1, <1>3, <1>4, <1>6
<1> QED
  BY <1>5, <1>6, WrittenIs

\* What ends before a packet or a header does is not all of one.
LEMMA CutIsNotWritten ==
  ASSUME NEW bytes, Len(bytes) \in Nat, bytes[Len(bytes)] = EOF
  PROVE  bytes \notin Written
BY WrittenLength

\* A header that is refused by itself is not written.
LEMMA BadHeaderIsNotWritten ==
  ASSUME NEW header \in Header, ~IsNumber(header) \/ SizeOf(header) <= HEADER_SIZE
  PROVE  header \notin Written
<1>1. HEADER_SIZE \in Nat
  BY BytesAssumption
<1>2. Len(header) = HEADER_SIZE
  BY <1>1 DEF Header
<1>3. ASSUME header \in Written PROVE FALSE
  <2>1. IsNumber(header) /\ SizeOf(header) > HEADER_SIZE
    BY <1>1, <1>2, <1>3, WrittenLength
  <2>2. SizeOf(header) \in Nat
    BY <2>1, SizeIsNumber
  <2> QED
    BY <1>1, <2>1, <2>2
<1> QED
  BY <1>3

\* A packet that is refused for its key or its value is not written.
LEMMA MalformedIsNotWritten ==
  ASSUME NEW header \in Header, IsNumber(header), SizeOf(header) > HEADER_SIZE,
         NEW data \in [1..(SizeOf(header) - HEADER_SIZE) -> DataByte],
         Malformed(data)
  PROVE  header \o data \notin Written
<1> DEFINE size  == SizeOf(header)
           sp    == Split(data)
           chunk == header \o data
<1>1. HEADER_SIZE \in Nat /\ size \in Nat /\ size > HEADER_SIZE
  BY SizeIsNumber, BytesAssumption
<1>2. header \in Seq(Bytes) /\ Len(header) = HEADER_SIZE
  BY <1>1 DEF Header, Bytes
<1>3. data \in Seq(DataByte) /\ data \in Seq(Bytes) /\ Len(data) = size - HEADER_SIZE
  BY <1>1 DEF Bytes
<1>4. /\ sp \in 0..Len(data)
      /\ sp = 0 => \A i \in 1..Len(data) : data[i] # SPACE
      /\ sp # 0 => /\ data[sp] = SPACE
                   /\ \A i \in 1..(sp - 1) : data[i] # SPACE
  BY <1>3, SplitIs DEF IsFirst
<1> HIDE DEF size, sp
<1>5. /\ chunk \in Seq(Bytes) /\ Len(chunk) = size
      /\ \A j \in 1..Len(data) : chunk[HEADER_SIZE + j] = data[j]
  <2>1. chunk \in Seq(Bytes) /\ IsJoined(chunk, header, data)
    BY <1>2, <1>3, PartsOfTwo, Zenon
  <2> HIDE DEF chunk
  <2> QED
    BY <1>1, <1>2, <1>3, <2>1 DEF IsJoined
<1> HIDE DEF chunk
<1>6. ASSUME NEW key \in Tag, NEW value \in Seq(DataByte),
             chunk = serialize_as_packet(key, value)
      PROVE  FALSE
  <2> DEFINE h == packet_header(PacketSize(key, value))
  <2>1. key \in Seq(DataByte) /\ Utf8(key) /\ \A i \in 1..Len(key) : key[i] # SPACE
    BY TagIs
  <2>2. Len(h) = HEADER_SIZE /\ IsPacket(chunk, h, key, SPACE, value, NEWLINE)
    BY <1>6, <2>1, PacketWritten
  <2> HIDE DEF h
  <2>3. Len(key) \in Nat /\ Len(value) \in Nat /\ Len(data) = Len(key) + Len(value) + 2
    BY <1>1, <1>3, <1>5, <2>1, <2>2 DEF IsPacket
  <2>4. \A j \in 1..Len(key) : data[j] = key[j]
    <3>1. \A j \in 1..Len(key) : chunk[HEADER_SIZE + j] = key[j]
      BY <2>2 DEF IsPacket
    <3> QED
      BY <1>5, <2>3, <3>1
  <2>5. data[Len(key) + 1] = SPACE
    <3>1. chunk[HEADER_SIZE + Len(key) + 1] = SPACE
      BY <2>2 DEF IsPacket
    <3>2. /\ HEADER_SIZE + Len(key) + 1 = HEADER_SIZE + (Len(key) + 1)
          /\ Len(key) + 1 \in 1..Len(data)
      BY <1>1, <2>3
    <3> QED
      BY <1>5, <3>1, <3>2
  <2>6. sp = Len(key) + 1
    <3>1. sp # 0
      BY <1>4, <2>3, <2>5
    <3>2. ~(sp < Len(key) + 1)
      BY <1>4, <2>1, <2>3, <2>4, <3>1
    <3>3. ~(sp > Len(key) + 1)
      BY <1>4, <2>3, <2>5, <3>1
    <3> QED
      BY <1>4, <2>3, <3>2, <3>3
  <2>7. KeyOf(data) = key
    <3>1. \A i \in 1..Len(key) : data[i] = key[i]
      BY <2>4
    <3>2. SubSeq(data, 1, Len(key)) = key
      BY <1>3, <2>1, <2>3, <3>1, BeginsWith
    <3>3. sp - 1 = Len(key)
      BY <2>3, <2>6
    <3> QED
      BY <3>2, <3>3 DEF KeyOf, sp
  <2>8. HasValue(data)
    <3>1. Len(data) - sp + 1 >= 2
      BY <2>3, <2>6
    <3> QED
      BY <3>1 DEF HasValue, SliceLength, sp
  <2>9. Split(data) # 0
    BY <2>3, <2>6 DEF sp
  <2> QED
    BY <2>1, <2>7, <2>8, <2>9 DEF Malformed
<1>7. ASSUME NEW n \in Nat, FitsIn(n, RADIX, HEADER_SIZE), chunk = packet_header(n)
      PROVE  FALSE
  <2>1. chunk \in Header
    BY <1>7, HeaderWritten
  <2>2. Len(chunk) = HEADER_SIZE
    BY <1>1, <2>1 DEF Header
  <2> QED
    BY <1>1, <1>5, <2>2
<1>8. chunk \notin Written
  BY <1>6, <1>7, WrittenIs
<1> QED
  BY <1>8 DEF chunk

-----------------------------------------------------------------------------
(***************************************************************************)
(* The inductive invariant: the three properties, and that there are no     *)
(* packets and no bytes between calls.                                      *)
(***************************************************************************)
IInv ==
  /\ chunks \in Seq(Seq(Bytes)) /\ IsSequence(packets)
  /\ outcome = "Idle" => Len(chunks) = 0 /\ Len(packets) = 0
  /\ NeverPanics /\ ReadsWhatIsThere /\ RefusesNothingWritten

\* A header and what comes after it.
LEMMA ChunkTyped ==
  ASSUME NEW header \in Header, IsNumber(header), SizeOf(header) >= HEADER_SIZE,
         NEW data \in [1..(SizeOf(header) - HEADER_SIZE) -> DataByte]
  PROVE  header \o data \in Seq(Bytes)
<1>1. header \in Seq(Bytes)
  BY BytesAssumption DEF Header, Bytes
<1>2. data \in Seq(Bytes)
  <2>1. SizeOf(header) - HEADER_SIZE \in Nat
    BY BytesAssumption, SizeIsNumber
  <2> QED
    BY <2>1 DEF Bytes
<1> QED
  BY <1>1, <1>2, PartsOfTwo, Zenon

\* Bytes that end too soon.
LEMMA CutIsRefused ==
  ASSUME NEW a \in Seq(Bytes), NEW b \in Seq(Bytes)
  PROVE  /\ a \o <<EOF>> \in Seq(Bytes) /\ a \o <<EOF>> \notin Written
         /\ a \o b \o <<EOF>> \in Seq(Bytes) /\ a \o b \o <<EOF>> \notin Written
<1>1. ASSUME NEW s \in Seq(Bytes)
      PROVE  s \o <<EOF>> \in Seq(Bytes) /\ s \o <<EOF>> \notin Written
  <2> DEFINE w == s \o <<EOF>>
  <2>1. EOF \in Bytes
    BY DEF Bytes
  <2>2. w \in Seq(Bytes) /\ Len(w) \in Nat /\ w[Len(w)] = EOF
    BY <2>1, EndsIn, Zenon
  <2> HIDE DEF w
  <2>3. w \notin Written
    BY <2>2, CutIsNotWritten
  <2> QED
    BY <2>2, <2>3 DEF w
<1>2. a \o b \in Seq(Bytes)
  BY PartsOfTwo, Zenon
<1> QED
  BY <1>1, <1>2, Zenon

\* Bytes that are refused, and that are not written.
LEMMA RefuseKeeps ==
  ASSUME IInv, Parsing, NEW bytes \in Seq(Bytes), bytes \notin Written, Refuse(bytes)
  PROVE  IInv'
<1>1. outcome' = "DeserializationError" /\ chunks' = Append(chunks, bytes)
      /\ packets' = packets
  BY DEF Refuse
<1>2. chunks' \in Seq(Seq(Bytes)) /\ Last(chunks') = bytes
  <2>1. chunks \in Seq(Seq(Bytes))
    BY DEF IInv
  <2>2. /\ chunks' \in Seq(Seq(Bytes)) /\ Len(chunks') = Len(chunks) + 1
        /\ chunks'[Len(chunks) + 1] = bytes
    BY <1>1, <2>1
  <2> QED
    BY <2>2 DEF Last
<1>3. IsSequence(packets')
  BY <1>1 DEF IInv
<1>4. RefusesNothingWritten'
  <2>1. WrittenPackets' = WrittenPackets /\ WrittenHeaders' = WrittenHeaders
    OBVIOUS
  <2>2. Last(chunks') \notin WrittenPackets \cup WrittenHeaders
    BY <1>2 DEF Written
  <2> QED
    BY <2>1, <2>2 DEF RefusesNothingWritten
<1> QED
  BY <1>1, <1>2, <1>3, <1>4 DEF IInv, NeverPanics, ReadsWhatIsThere

\* A packet that is read.
LEMMA ReadKeeps ==
  ASSUME IInv, Parsing,
         NEW header \in Header, IsNumber(header), SizeOf(header) >= HEADER_SIZE,
         NEW data \in [1..(SizeOf(header) - HEADER_SIZE) -> DataByte],
         ~Malformed(data), ReadPacket(header, data)
  PROVE  IInv'
<1> DEFINE chunk  == header \o data
           packet == Packet(KeyOf(data), ValueOf(data))
<1>1. Spells(chunk, packet) /\ SPACE \notin Range(packet.key)
  BY ReadIsWritten DEF Packet
<1>2. /\ outcome = "Parsing" /\ outcome' = "Parsing"
      /\ chunks' = Append(chunks, chunk) /\ packets' = Append(packets, packet)
  <2>1. SliceLength(data) >= 2
    BY DEF Malformed, HasValue
  <2> QED
    BY <2>1 DEF ReadPacket, Sliced, Parsing
<1> HIDE DEF chunk, packet
<1>3. /\ chunks \in Seq(Seq(Bytes)) /\ IsSequence(packets) /\ Len(packets) = Len(chunks)
      /\ \A i \in 1..Len(packets) :
           Spells(chunks[i], packets[i]) /\ SPACE \notin Range(packets[i].key)
  BY <1>2 DEF IInv, ReadsWhatIsThere
<1>4. /\ chunks' \in Seq(Seq(Bytes))
      /\ Len(chunks) \in Nat /\ Len(chunks') = Len(chunks) + 1
      /\ (\A i \in 1..Len(chunks) : chunks'[i] = chunks[i])
      /\ chunks'[Len(chunks) + 1] = chunk
  <2>1. chunk \in Seq(Bytes)
    BY ChunkTyped DEF chunk
  <2> QED
    BY <1>2, <1>3, <2>1
<1>5. /\ IsSequence(packets') /\ Len(packets') = Len(packets) + 1
      /\ (\A i \in 1..Len(packets) : packets'[i] = packets[i])
      /\ packets'[Len(packets) + 1] = packet
  BY <1>2, <1>3, AppendFacts
<1>6. Len(packets') = Len(chunks')
  BY <1>3, <1>4, <1>5
<1>7. ASSUME NEW i \in 1..Len(packets')
      PROVE  Spells(chunks'[i], packets'[i]) /\ SPACE \notin Range(packets'[i].key)
  <2>1. CASE i = Len(packets) + 1
    <3>1. chunks'[i] = chunk /\ packets'[i] = packet
      BY <1>3, <1>4, <1>5, <2>1
    <3> QED
      BY <1>1, <3>1
  <2>2. CASE i \in 1..Len(packets)
    <3>1. chunks'[i] = chunks[i] /\ packets'[i] = packets[i]
      BY <1>3, <1>4, <1>5, <2>2
    <3> QED
      BY <1>3, <2>2, <3>1
  <2> QED
    BY <1>3, <1>4, <1>5, <2>1, <2>2
<1>8. ReadsWhatIsThere'
  BY <1>6, <1>7, Zenon DEF ReadsWhatIsThere
<1> QED
  BY <1>2, <1>4, <1>5, <1>8 DEF IInv, NeverPanics, RefusesNothingWritten

\* No call is there at first.
LEMMA InitEstablishes == Init => IInv
<1> SUFFICES ASSUME Init PROVE IInv
  OBVIOUS
<1>1. outcome = "Idle" /\ chunks = << >> /\ packets = << >>
  BY DEF Init
<1>2. chunks \in Seq(Seq(Bytes)) /\ IsSequence(packets) /\ Len(chunks) = 0 /\ Len(packets) = 0
  BY <1>1, EmptySequence
<1> QED
  BY <1>1, <1>2 DEF IInv, NeverPanics, ReadsWhatIsThere, RefusesNothingWritten

\* Each way that a step at a header can go.
LEMMA StepKeeps ==
  ASSUME IInv, Parsing, NEW header \in Header, Step(header)
  PROVE  IInv'
<1>1. HEADER_SIZE \in Nat \ {0} /\ EOF \notin HeaderByte \cup DataByte \cup {NEWLINE}
  BY BytesAssumption
<1>2. CASE NotANumber(header)
  <2>1. header \notin Written
    BY <1>2, BadHeaderIsNotWritten DEF NotANumber
  <2> QED
    BY <1>1, <1>2, <2>1, RefuseKeeps DEF NotANumber, Header, Bytes
<1>3. CASE SizeTooSmall(header)
  <2>1. header \notin Written
    BY <1>3, BadHeaderIsNotWritten DEF SizeTooSmall, TooSmall
  <2> QED
    BY <1>1, <1>3, <2>1, RefuseKeeps DEF SizeTooSmall, Header, Bytes
<1>4. CASE SizeTooLarge(header)
  <2>1. PICK n \in 0..(Room - HEADER_SIZE), b \in DataByte :
             Refuse(header \o [i \in 1..n |-> b] \o <<EOF>>)
    BY <1>4 DEF SizeTooLarge
  <2> DEFINE bytes == header \o [i \in 1..n |-> b] \o <<EOF>>
  <2>2. n \in Nat
    <3>1. chunks \in Seq(Seq(Bytes))
      BY DEF IInv
    <3>2. FlattenSeq(chunks) \in Seq(Bytes)
      BY <3>1, EmptySequence, FlattenAppend
    <3>3. Room - HEADER_SIZE \in Int
      BY <1>1, <3>2, BytesAssumption DEF Room
    <3> QED
      BY <3>3
  <2>3. bytes \in Seq(Bytes) /\ bytes \notin Written
    <3> DEFINE all == [i \in 1..n |-> b]
    <3>1. header \in Seq(Bytes) /\ all \in Seq(Bytes)
      BY <1>1, <2>2 DEF Header, Bytes
    <3> HIDE DEF all
    <3> QED
      BY <3>1, CutIsRefused DEF all
  <2> QED
    BY <2>1, <2>3, RefuseKeeps
<1>5. CASE SplitPacket(header)
  <2> DEFINE size == SizeOf(header)
  <2>1. IsNumber(header) /\ size \in Nat /\ size > HEADER_SIZE
    <3>1. IsNumber(header) /\ ~(size <= HEADER_SIZE)
      BY <1>5 DEF SplitPacket, TooSmall
    <3> QED
      BY <1>1, <3>1, SizeIsNumber
  <2>2. PICK data \in [1..(size - HEADER_SIZE) -> DataByte] : ReadPacket(header, data)
    <3>1. ~(size < HEADER_SIZE)
      BY <1>1, <2>1
    <3> QED
      BY <1>5, <3>1 DEF SplitPacket
  <2>3. CASE Malformed(data)
    <3>1. Refuse(header \o data)
      BY <2>2, <2>3 DEF ReadPacket
    <3>2. header \o data \notin Written
      BY <2>1, <2>3, MalformedIsNotWritten
    <3>3. header \o data \in Seq(Bytes)
      <4>1. SizeOf(header) >= HEADER_SIZE
        BY <1>1, <2>1
      <4> QED
        BY <2>1, <4>1, ChunkTyped
    <3> QED
      BY <3>1, <3>2, <3>3, RefuseKeeps
  <2>4. CASE ~Malformed(data)
    <3>1. size >= HEADER_SIZE
      BY <1>1, <2>1
    <3> QED
      BY <2>1, <2>2, <2>4, <3>1, ReadKeeps
  <2> QED
    BY <2>3, <2>4
<1> QED
  BY <1>2, <1>3, <1>4, <1>5 DEF Step

\* A step of any kind.
LEMMA NextKeeps == IInv /\ [Next]_vars => IInv'
<1> SUFFICES ASSUME IInv, [Next]_vars PROVE IInv'
  OBVIOUS
<1>1. CASE deserialize_as_packets
  <2>1. /\ outcome = "Idle" /\ outcome' = "Parsing"
        /\ chunks' = chunks /\ packets' = packets
    BY <1>1 DEF deserialize_as_packets
  <2>2. Len(chunks) = 0 /\ Len(packets) = 0
    BY <2>1 DEF IInv
  <2>3. ReadsWhatIsThere'
    BY <2>1, <2>2 DEF ReadsWhatIsThere
  <2> QED
    BY <2>1, <2>3 DEF IInv, NeverPanics, RefusesNothingWritten
<1>2. CASE Parsing /\ NoBytesLeft
  <2>1. /\ outcome = "Parsing" /\ outcome' = "Ok"
        /\ chunks' = chunks /\ packets' = packets
    BY <1>2 DEF Parsing, NoBytesLeft
  <2>2. ReadsWhatIsThere'
    BY <2>1, Zenon DEF IInv, ReadsWhatIsThere
  <2> QED
    BY <2>1, <2>2 DEF IInv, NeverPanics, RefusesNothingWritten
<1>3. CASE Parsing /\ NoRoomForHeader
  <2>1. PICK n \in 1..(HEADER_SIZE - 1), b \in HeaderByte :
             Refuse([i \in 1..n |-> b] \o <<EOF>>)
    BY <1>3 DEF NoRoomForHeader
  <2> DEFINE all == [i \in 1..n |-> b]
  <2>2. all \in Seq(Bytes)
    BY BytesAssumption DEF Bytes
  <2> HIDE DEF all
  <2>3. all \o <<EOF>> \in Seq(Bytes) /\ all \o <<EOF>> \notin Written
    BY <2>2, CutIsRefused
  <2>4. Refuse(all \o <<EOF>>)
    BY <2>1 DEF all
  <2> QED
    BY <1>3, <2>3, <2>4, RefuseKeeps
<1>4. CASE Parsing /\ \E header \in Header : Step(header)
  BY <1>4, StepKeeps
<1>5. CASE Return
  <2>1. outcome' = "Idle" /\ chunks' = << >> /\ packets' = << >>
    BY <1>5 DEF Return
  <2>2. /\ chunks' \in Seq(Seq(Bytes)) /\ IsSequence(packets')
        /\ Len(chunks') = 0 /\ Len(packets') = 0
    BY <2>1, EmptySequence
  <2> QED
    BY <2>1, <2>2 DEF IInv, NeverPanics, ReadsWhatIsThere, RefusesNothingWritten
<1>6. CASE UNCHANGED vars
  <2>1. outcome' = outcome /\ chunks' = chunks /\ packets' = packets
    BY <1>6 DEF vars
  <2>2. ReadsWhatIsThere' /\ RefusesNothingWritten'
    BY <2>1, Zenon DEF IInv, ReadsWhatIsThere, RefusesNothingWritten
  <2> QED
    BY <2>1, <2>2 DEF IInv, NeverPanics
<1> QED
  BY <1>1, <1>2, <1>3, <1>4, <1>5, <1>6, Zenon DEF Next

\* The invariant holds at every moment.
LEMMA IInvHolds == Spec => []IInv
BY InitEstablishes, NextKeeps, PTL DEF Spec

\* The parser of V1 slices no token out of range, for every width of header
\* and every radix.
THEOREM V1NeverPanics == Spec => []NeverPanics
<1>1. IInv => NeverPanics
  BY DEF IInv
<1> QED
  BY <1>1, IInvHolds, PTL

\* The packets that the parser of V1 returns are those of the bytes it was
\* given, whatever bytes are in their values.
THEOREM V1ReadsWhatIsThere == Spec => []ReadsWhatIsThere
<1>1. IInv => ReadsWhatIsThere
  BY DEF IInv
<1> QED
  BY <1>1, IInvHolds, PTL

\* The parser of V1 refuses nothing that serialize_as_packet writes, up to the
\* largest packet that fits its header.
THEOREM V1RefusesNothingWritten == Spec => []RefusesNothingWritten
<1>1. IInv => RefusesNothingWritten
  BY DEF IInv
<1> QED
  BY <1>1, IInvHolds, PTL
=============================================================================
