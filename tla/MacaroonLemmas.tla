--------------------------- MODULE MacaroonLemmas ---------------------------
(***************************************************************************)
(* Lemmas for the proofs of several components: about numbers and sequences,*)
(* and about macaroons and their signatures as data.  Induction is stated   *)
(* for a set instead of a predicate: the least number outside the set       *)
(* cannot exist.                                                            *)
(***************************************************************************)
EXTENDS Macaroon, Digits, Integers, SequencesExt, WellFoundedInduction, TLAPS

\* A sequence, whatever its elements are.
IsSequence(t) == \E S : t \in Seq(S)

-----------------------------------------------------------------------------
\* A set of numbers that is not empty has a least element.
LEMMA LeastElement ==
  ASSUME NEW T \in SUBSET Nat, T # {}
  PROVE  \E n \in T : \A k \in T : n <= k
<1>1. PICK n \in T : \A k \in T : <<k, n>> \notin OpToRel(<, Nat)
  BY NatLessThanWellFounded, WFMin, Zenon
<1>2. \A k \in T : n <= k
  <2> SUFFICES ASSUME NEW k \in T PROVE ~(k < n)
    OBVIOUS
  <2> QED
    BY <1>1, Zenon DEF OpToRel
<1> QED
  BY <1>2

\* The least of a set of numbers.
LEMMA MinIs ==
  ASSUME NEW T \in SUBSET Nat, T # {}
  PROVE  Min(T) \in T /\ \A k \in T : Min(T) <= k
BY LeastElement DEF Min

\* A set that holds 0 and the successor of each number in it holds them all.
LEMMA Induction ==
  ASSUME NEW S, 0 \in S, \A n \in Nat : n \in S => n + 1 \in S
  PROVE  Nat \subseteq S
<1> SUFFICES ASSUME Nat \ S # {} PROVE FALSE
  OBVIOUS
<1>1. PICK n \in Nat \ S : \A k \in Nat \ S : n <= k
  BY LeastElement
<1>2. n # 0 /\ n - 1 \in Nat
  BY <1>1
<1>3. n - 1 \in S
  BY <1>1, <1>2
<1> QED
  BY <1>1, <1>2, <1>3

-----------------------------------------------------------------------------
\* What Append makes of a sequence.
LEMMA AppendFacts ==
  ASSUME NEW t, IsSequence(t), NEW x
  PROVE  /\ IsSequence(Append(t, x))
         /\ Len(t) \in Nat
         /\ Len(Append(t, x)) = Len(t) + 1
         /\ \A i \in 1..Len(t) : Append(t, x)[i] = t[i]
         /\ Append(t, x)[Len(t) + 1] = x
         /\ Append(t, x) # << >>
<1>1. PICK S : t \in Seq(S)
  BY DEF IsSequence
<1> DEFINE U == S \cup {x}
<1>2. t \in Seq(U) /\ x \in U
  <2>1. t \in [1..Len(t) -> S] /\ Len(t) \in Nat
    BY <1>1
  <2> QED
    BY <1>1, <2>1
<1> HIDE DEF U
<1>3. Append(t, x) \in Seq(U)
  BY <1>2
<1> QED
  BY <1>2, <1>3 DEF IsSequence

\* A sequence is determined by its last element and what is before it.
LEMMA AppendIsInjective ==
  ASSUME NEW t, NEW u, IsSequence(t), IsSequence(u), NEW x, NEW y,
         Append(t, x) = Append(u, y)
  PROVE  t = u /\ x = y
<1>1. Len(t) = Len(u) /\ Len(t) \in Nat /\ x = y
  <2>1. Len(t) + 1 = Len(u) + 1 /\ Len(t) \in Nat /\ Len(u) \in Nat
    BY AppendFacts
  <2>2. Len(t) = Len(u)
    BY <2>1
  <2> QED
    BY <2>1, <2>2, AppendFacts
<1>2. \A i \in 1..Len(t) : t[i] = u[i]
  BY <1>1, AppendFacts
<1>3. PICK S : t \in Seq(S)
  BY DEF IsSequence
<1>4. PICK U : u \in Seq(U)
  BY DEF IsSequence
<1>5. t = [i \in 1..Len(t) |-> t[i]] /\ u = [i \in 1..Len(u) |-> u[i]]
  BY <1>3, <1>4
<1> QED
  BY <1>1, <1>2, <1>5

\* A sequence between two single elements.
LEMMA Framed ==
  ASSUME NEW S, NEW x \in S, NEW b \in Seq(S), NEW y \in S,
         NEW s, s = <<x>> \o b \o <<y>>
  PROVE  /\ s \in Seq(S) /\ Len(b) \in Nat /\ Len(s) = Len(b) + 2
         /\ s[1] = x
         /\ \A j \in 1..Len(b) : s[j + 1] = b[j]
         /\ s[Len(b) + 2] = y
<1> DEFINE front == <<x>> \o b
           n == Len(b)
<1>1. /\ front \in Seq(S) /\ Len(front) = n + 1 /\ front[1] = x
      /\ n \in Nat
  OBVIOUS
<1>2. \A j \in 1..n : front[j + 1] = b[j]
  OBVIOUS
<1>3. s = Append(front, y)
  <2> HIDE DEF front
  <2>1. front \o <<y>> = Append(front, y)
    BY <1>1
  <2> QED
    BY <2>1 DEF front
<1> HIDE DEF front, n
<1>4. /\ Append(front, y) \in Seq(S) /\ Len(Append(front, y)) = n + 2
      /\ \A i \in 1..(n + 1) : Append(front, y)[i] = front[i]
      /\ Append(front, y)[n + 2] = y
  BY <1>1
<1>5. \A i \in 1..(n + 1) : s[i] = front[i]
  BY <1>3, <1>4, Zenon
<1>6. s \in Seq(S) /\ Len(s) = n + 2 /\ s[n + 2] = y
  BY <1>3, <1>4, Zenon
<1>7. 1 \in 1..(n + 1) /\ \A j \in 1..n : j + 1 \in 1..(n + 1)
  BY <1>1
<1>8. s[1] = x /\ \A j \in 1..n : s[j + 1] = b[j]
  BY <1>1, <1>2, <1>5, <1>7
<1> QED
  BY <1>1, <1>6, <1>8 DEF n

\* The elements of two sequences in a row.
IsJoined(w, a, b) ==
  /\ Len(a) \in Nat /\ Len(b) \in Nat /\ Len(w) = Len(a) + Len(b)
  /\ \A i \in 1..Len(a) : w[i] = a[i]
  /\ \A j \in 1..Len(b) : w[Len(a) + j] = b[j]

\* Two sequences, one after the other.
LEMMA PartsOfTwo ==
  ASSUME NEW S, NEW a \in Seq(S), NEW b \in Seq(S)
  PROVE  a \o b \in Seq(S) /\ IsJoined(a \o b, a, b)
BY DEF IsJoined

\* What a sequence begins with is its part from the first element.
LEMMA BeginsWith ==
  ASSUME NEW S, NEW s \in Seq(S), NEW t \in Seq(S), Len(t) <= Len(s),
         \A i \in 1..Len(t) : s[i] = t[i]
  PROVE  SubSeq(s, 1, Len(t)) = t
OBVIOUS

\* Concatenation is associative.
LEMMA ConcatAssociates ==
  ASSUME NEW S, NEW a \in Seq(S), NEW b \in Seq(S), NEW c \in Seq(S)
  PROVE  a \o b \in Seq(S) /\ (a \o b) \o c = a \o (b \o c)
OBVIOUS

\* x is the next element of w, and e its next elements, after b.
NextIs(S, b, x, w) == \E more \in Seq(S) : w = Append(b, x) \o more
After(S, b, e, w) == \E more \in Seq(S) : w = b \o (e \o more)

\* What follows once the first of what is left is taken.
LEMMA AfterHead ==
  ASSUME NEW S, NEW b \in Seq(S), NEW x \in S, NEW r \in Seq(S),
         NEW w, After(S, b, <<x>> \o r, w)
  PROVE  /\ NextIs(S, b, x, w)
         /\ Append(b, x) \in Seq(S) /\ After(S, Append(b, x), r, w)
<1> DEFINE one == <<x>>
<1>1. PICK more \in Seq(S) : w = b \o ((one \o r) \o more)
  BY DEF After
<1>2. Append(b, x) = b \o one /\ one \in Seq(S)
      /\ Append(b, x) \in Seq(S)
  OBVIOUS
<1> HIDE DEF one
<1> DEFINE rest == r \o more
<1>3. rest \in Seq(S) /\ (one \o r) \o more = one \o rest
  BY <1>2
<1> HIDE DEF rest
<1>4. b \o (one \o rest) = (b \o one) \o rest
  BY <1>2, <1>3
<1>5. w = Append(b, x) \o rest
  BY <1>1, <1>2, <1>3, <1>4, Zenon
<1> QED
  BY <1>2, <1>3, <1>5, Zenon DEF NextIs, After, rest

\* A sequence of two as the first and the second.
LEMMA TwoParts ==
  ASSUME NEW S, NEW x \in S, NEW y \in S
  PROVE  <<x, y>> = <<x>> \o <<y>>
<1> DEFINE one == <<x>>
<1>1. one \in Seq(S) /\ <<x, y>> = Append(one, y)
  OBVIOUS
<1> HIDE DEF one
<1>2. Append(one, y) = one \o <<y>>
  BY <1>1
<1> QED
  BY <1>1, <1>2 DEF one

\* Two elements added one after the other.
LEMMA AppendTwo ==
  ASSUME NEW S, NEW b \in Seq(S), NEW x \in S, NEW y \in S
  PROVE  Append(b, x) = b \o <<x>> /\ Append(Append(b, x), y) = b \o <<x, y>>
<1> DEFINE one == <<x>>
           two == <<y>>
           a   == b \o one
<1>1. one \in Seq(S) /\ two \in Seq(S)
  OBVIOUS
<1>2. Append(b, x) = a
  OBVIOUS
<1>3. a \in Seq(S) /\ <<x, y>> = one \o two
  BY <1>1, TwoParts
<1> HIDE DEF a
<1>4. Append(a, y) = a \o two
  BY <1>3
<1> HIDE DEF one, two
<1>5. (b \o one) \o two = b \o (one \o two)
  BY <1>1
<1> QED
  BY <1>2, <1>3, <1>4, <1>5, Zenon DEF a, one

\* The same along two elements.
LEMMA AfterTwo ==
  ASSUME NEW S, NEW b \in Seq(S), NEW x \in S, NEW y \in S,
         NEW w, After(S, b, <<x, y>>, w)
  PROVE  /\ NextIs(S, b, x, w) /\ NextIs(S, Append(b, x), y, w)
         /\ Append(Append(b, x), y) \in Seq(S)
<1>1. /\ <<x, y>> = <<x>> \o <<y>> /\ <<y>> = <<y>> \o << >>
      /\ <<y>> \in Seq(S) /\ << >> \in Seq(S)
  <2>1. <<x, y>> = <<x>> \o <<y>>
    BY TwoParts, Zenon
  <2>2. <<y>> = <<y>> \o << >>
    <3> DEFINE one == <<y>>
    <3>1. one \in Seq(S)
      OBVIOUS
    <3> HIDE DEF one
    <3>2. one = one \o << >>
      BY <3>1
    <3> QED
      BY <3>2 DEF one
  <2>3. <<y>> \in Seq(S) /\ << >> \in Seq(S)
    OBVIOUS
  <2> QED
    BY <2>1, <2>2, <2>3
<1>2. NextIs(S, b, x, w) /\ Append(b, x) \in Seq(S) /\ After(S, Append(b, x), <<y>>, w)
  BY <1>1, AfterHead
<1> DEFINE a == Append(b, x)
<1>3. a \in Seq(S) /\ After(S, a, <<y>> \o << >>, w)
  BY <1>1, <1>2
<1> HIDE DEF a
<1>4. NextIs(S, a, y, w) /\ Append(a, y) \in Seq(S)
  BY <1>1, <1>3, AfterHead
<1> QED
  BY <1>2, <1>4 DEF a

\* Along three.
LEMMA AfterThree ==
  ASSUME NEW S, NEW b \in Seq(S), NEW x \in S, NEW y \in S,
         NEW z \in S, NEW w, After(S, b, <<x, y, z>>, w)
  PROVE  /\ NextIs(S, b, x, w) /\ NextIs(S, Append(b, x), y, w)
         /\ NextIs(S, Append(Append(b, x), y), z, w)
<1>1. <<x, y, z>> = <<x>> \o <<y, z>> /\ <<y, z>> \in Seq(S)
  OBVIOUS
<1>2. NextIs(S, b, x, w) /\ Append(b, x) \in Seq(S) /\ After(S, Append(b, x), <<y, z>>, w)
  BY <1>1, AfterHead
<1> DEFINE a == Append(b, x)
<1>3. a \in Seq(S) /\ After(S, a, <<y, z>>, w)
  BY <1>2
<1> HIDE DEF a
<1>4. NextIs(S, a, y, w) /\ NextIs(S, Append(a, y), z, w)
  BY <1>3, AfterTwo
<1> QED
  BY <1>2, <1>4 DEF a

\* Along four.
LEMMA AfterFour ==
  ASSUME NEW S, NEW b \in Seq(S), NEW x \in S, NEW y \in S,
         NEW z \in S, NEW u \in S, NEW w, After(S, b, <<x, y, z, u>>, w)
  PROVE  /\ NextIs(S, b, x, w) /\ NextIs(S, Append(b, x), y, w)
         /\ NextIs(S, Append(Append(b, x), y), z, w)
<1>1. <<x, y, z, u>> = <<x>> \o <<y, z, u>> /\ <<y, z, u>> \in Seq(S)
  OBVIOUS
<1>2. NextIs(S, b, x, w) /\ Append(b, x) \in Seq(S) /\ After(S, Append(b, x), <<y, z, u>>, w)
  BY <1>1, AfterHead
<1> DEFINE a == Append(b, x)
<1>3. a \in Seq(S) /\ After(S, a, <<y, z, u>>, w)
  BY <1>2
<1> HIDE DEF a
<1>4. NextIs(S, a, y, w) /\ NextIs(S, Append(a, y), z, w)
  BY <1>3, AfterThree
<1> QED
  BY <1>2, <1>4 DEF a
-----------------------------------------------------------------------------
(* Beginnings of sequences. *)
IsStart(s, t) == Len(s) <= Len(t) /\ \A i \in 1..Len(s) : s[i] = t[i]

\* What two sequences in a row begin, the first begins, and the second what
\* is left after it.
LEMMA StartOfConcat ==
  ASSUME NEW S, NEW a \in Seq(S), NEW b \in Seq(S), NEW s \in Seq(S),
         IsStart(a \o b, s)
  PROVE  /\ IsStart(a, s)
         /\ \A t \in Seq(S) : s = a \o t => IsStart(b, t)
<1> DEFINE n == Len(a)
           k == Len(b)
           c == a \o b
<1>1. /\ n \in Nat /\ k \in Nat /\ Len(s) \in Nat /\ Len(c) = n + k
      /\ \A i \in 1..n : c[i] = a[i]
      /\ \A i \in 1..k : c[n + i] = b[i]
  <2>1. n \in Nat /\ k \in Nat /\ Len(s) \in Nat /\ Len(c) = n + k
    OBVIOUS
  <2>2. \A i \in 1..n : c[i] = a[i]
    OBVIOUS
  <2>3. \A i \in 1..k : c[n + i] = b[i]
    OBVIOUS
  <2> QED
    BY <2>1, <2>2, <2>3
<1>2. n + k <= Len(s) /\ \A i \in 1..(n + k) : c[i] = s[i]
  BY <1>1 DEF IsStart
<1>3. IsStart(a, s)
  <2> HIDE DEF c, n, k
  <2>1. n <= Len(s) /\ \A i \in 1..n : a[i] = s[i]
    BY <1>1, <1>2
  <2> QED
    BY <2>1 DEF IsStart, n
<1>4. ASSUME NEW t \in Seq(S), s = a \o t PROVE IsStart(b, t)
  <2>1. Len(s) = n + Len(t) /\ Len(t) \in Nat /\ \A i \in 1..Len(t) : s[n + i] = t[i]
    <3>1. Len(a \o t) = n + Len(t) /\ Len(t) \in Nat
      OBVIOUS
    <3>2. \A i \in 1..Len(t) : (a \o t)[n + i] = t[i]
      OBVIOUS
    <3> QED
      BY <1>4, <3>1, <3>2
  <2> HIDE DEF c, n, k
  <2>2. k <= Len(t)
    BY <1>1, <1>2, <2>1
  <2>3. \A i \in 1..k : b[i] = t[i]
    <3> SUFFICES ASSUME NEW i \in 1..k PROVE b[i] = t[i]
      OBVIOUS
    <3>1. c[n + i] = b[i] /\ n + i \in 1..(n + k) /\ i \in 1..Len(t)
      BY <1>1, <2>1, <2>2
    <3>2. c[n + i] = s[n + i] /\ s[n + i] = t[i]
      BY <1>2, <2>1, <3>1
    <3> QED
      BY <3>1, <3>2
  <2> QED
    BY <2>2, <2>3 DEF IsStart, k
<1> QED
  BY <1>3, <1>4

\* The first element.
LEMMA StartOfOne ==
  ASSUME NEW S, NEW x, NEW y \in S, NEW t \in Seq(S), IsStart(<<x>>, <<y>> \o t)
  PROVE  x = y
<1>1. (<<y>> \o t)[1] = y
  OBVIOUS
<1>2. Len(<<x>>) = 1 /\ <<x>>[1] = x
  OBVIOUS
<1> QED
  BY <1>1, <1>2 DEF IsStart

\* The first element of three pieces, the first of which is one element.
LEMMA StartOfTwo ==
  ASSUME NEW S, NEW x, NEW y \in S, NEW t \in Seq(S), NEW u \in Seq(S),
         IsStart(<<x>>, (<<y>> \o t) \o u)
  PROVE  x = y
<1> DEFINE f == <<y>> \o t
<1>1. f \in Seq(S) /\ Len(f) >= 1 /\ f[1] = y
  OBVIOUS
<1>2. Len(<<x>>) = 1 /\ <<x>>[1] = x
  OBVIOUS
<1> HIDE DEF f
<1>3. (f \o u)[1] = f[1]
  BY <1>1
<1> QED
  BY <1>1, <1>2, <1>3 DEF IsStart, f

\* Of two as long as each other, the one that begins the other is the other.
LEMMA StartOfSameLength ==
  ASSUME NEW S, NEW v \in Seq(S), NEW w \in Seq(S), NEW t \in Seq(S),
         Len(v) = Len(w), IsStart(v, w \o t)
  PROVE  v = w
<1>1. \A i \in 1..Len(w) : (w \o t)[i] = w[i]
  OBVIOUS
<1>2. \A i \in 1..Len(v) : v[i] = (w \o t)[i]
  BY DEF IsStart
<1>3. \A i \in 1..Len(v) : v[i] = w[i]
  BY <1>1, <1>2
<1> QED
  BY <1>3

-----------------------------------------------------------------------------
(***************************************************************************)
(* FlattenSeq, whose recursive function is known by what it is equal to.    *)
(***************************************************************************)
\* f is the recursive function of FlattenSeq, for the first n elements of s.
IsFlatten(f, s, n) ==
  f = [i \in 1..n |-> IF i = 1 THEN s[i] ELSE f[i - 1] \o s[i]]

\* One step of it.
LEMMA FlattenStep ==
  ASSUME NEW f, NEW s, NEW n, IsFlatten(f, s, n), NEW i \in 1..n
  PROVE  f[i] = IF i = 1 THEN s[i] ELSE f[i - 1] \o s[i]
<1> DEFINE F == [j \in 1..n |-> IF j = 1 THEN s[j] ELSE f[j - 1] \o s[j]]
<1>1. F[i] = IF i = 1 THEN s[i] ELSE f[i - 1] \o s[i]
  OBVIOUS
<1>2. f = F
  BY Zenon DEF IsFlatten
<1> HIDE DEF F
<1> QED
  BY <1>1, <1>2

\* The same, for the number of the element before.
LEMMA FlattenNext ==
  ASSUME NEW f, NEW s, NEW n, IsFlatten(f, s, n), NEW k \in Nat, k + 1 \in 1..n
  PROVE  f[k + 1] = IF k = 0 THEN s[k + 1] ELSE f[k] \o s[k + 1]
<1> DEFINE i == k + 1
<1>1. i \in 1..n /\ i - 1 = k /\ (i = 1 <=> k = 0)
  OBVIOUS
<1> HIDE DEF i
<1>2. f[i] = IF i = 1 THEN s[i] ELSE f[i - 1] \o s[i]
  BY <1>1, FlattenStep
<1>3. f[i] = IF k = 0 THEN s[i] ELSE f[k] \o s[i]
  BY <1>1, <1>2
<1> QED
  BY <1>3 DEF i

\* There is such a function, for any number of elements.
LEMMA FlattenExists ==
  ASSUME NEW s, NEW n \in Nat
  PROVE  \E f : IsFlatten(f, s, n)
<1> DEFINE X == { k \in Nat : \E f : IsFlatten(f, s, k) }
<1>1. 0 \in X
  <2>1. IsFlatten(<< >>, s, 0)
    BY DEF IsFlatten
  <2> QED
    BY <2>1
<1>2. ASSUME NEW k \in Nat, k \in X PROVE k + 1 \in X
  <2>1. PICK f : IsFlatten(f, s, k)
    BY <1>2
  <2> DEFINE g == [i \in 1..(k + 1) |->
                     IF i <= k THEN f[i] ELSE IF i = 1 THEN s[i] ELSE f[i - 1] \o s[i]]
  <2>2. ASSUME NEW i \in 1..(k + 1)
        PROVE  g[i] = IF i = 1 THEN s[i] ELSE g[i - 1] \o s[i]
    <3>1. i <= k => i \in 1..k /\ g[i] = f[i] /\ (i # 1 => g[i - 1] = f[i - 1])
      OBVIOUS
    <3>2. ~(i <= k) => g[i] = (IF i = 1 THEN s[i] ELSE f[i - 1] \o s[i])
                      /\ (i # 1 => g[i - 1] = f[i - 1])
      OBVIOUS
    <3>3. i <= k => f[i] = IF i = 1 THEN s[i] ELSE f[i - 1] \o s[i]
      BY <2>1, <3>1, FlattenStep
    <3> QED
      BY <3>1, <3>2, <3>3
  <2>3. IsFlatten(g, s, k + 1)
    BY <2>2 DEF IsFlatten
  <2> QED
    BY <2>3
<1> HIDE DEF X
<1>3. Nat \subseteq X
  BY <1>1, <1>2, Induction
<1> QED
  BY <1>3 DEF X

\* It gives sequences.
LEMMA FlattenTyped ==
  ASSUME NEW S, NEW s \in Seq(Seq(S)), NEW f, IsFlatten(f, s, Len(s))
  PROVE  \A i \in 1..Len(s) : f[i] \in Seq(S)
<1> DEFINE X == { k \in Nat : k \in 1..Len(s) => f[k] \in Seq(S) }
<1>1. 0 \in X
  OBVIOUS
<1>2. ASSUME NEW k \in Nat, k \in X PROVE k + 1 \in X
  <2> SUFFICES ASSUME k + 1 \in 1..Len(s) PROVE f[k + 1] \in Seq(S)
    OBVIOUS
  <2>1. s[k + 1] \in Seq(S)
    OBVIOUS
  <2>2. f[k + 1] = IF k = 0 THEN s[k + 1] ELSE f[k] \o s[k + 1]
    BY FlattenNext
  <2>3. k # 0 => f[k] \in Seq(S)
    BY <1>2
  <2> QED
    BY <2>1, <2>2, <2>3
<1> HIDE DEF X
<1>3. Nat \subseteq X
  BY <1>1, <1>2, Induction
<1> QED
  BY <1>3 DEF X

\* For the elements of s it gives the same when another one follows them.
LEMMA FlattenPrefix ==
  ASSUME NEW S, NEW s \in Seq(Seq(S)), NEW t \in Seq(S), Len(s) # 0,
         NEW f, IsFlatten(f, s, Len(s)),
         NEW g, IsFlatten(g, Append(s, t), Len(s) + 1)
  PROVE  f[Len(s)] = g[Len(s)]
<1> DEFINE X == { k \in Nat : k \in 1..Len(s) => f[k] = g[k] }
<1>1. 0 \in X
  OBVIOUS
<1>2. ASSUME NEW k \in Nat, k \in X PROVE k + 1 \in X
  <2> SUFFICES ASSUME k + 1 \in 1..Len(s) PROVE f[k + 1] = g[k + 1]
    OBVIOUS
  <2>1. f[k + 1] = IF k = 0 THEN s[k + 1] ELSE f[k] \o s[k + 1]
    BY FlattenNext
  <2> DEFINE u == Append(s, t)
  <2>2. g[k + 1] = IF k = 0 THEN u[k + 1] ELSE g[k] \o u[k + 1]
    <3>1. k + 1 \in 1..(Len(s) + 1) /\ IsFlatten(g, u, Len(s) + 1)
      OBVIOUS
    <3> HIDE DEF u
    <3> QED
      BY <3>1, FlattenNext
  <2>3. u[k + 1] = s[k + 1]
    OBVIOUS
  <2>4. k # 0 => f[k] = g[k]
    BY <1>2
  <2> QED
    BY <2>1, <2>2, <2>3, <2>4
<1> HIDE DEF X
<1>3. Nat \subseteq X
  BY <1>1, <1>2, Induction
<1> QED
  BY <1>3 DEF X

\* FlattenSeq is its last value.
LEMMA FlattenIs ==
  ASSUME NEW S, NEW s \in Seq(Seq(S)), Len(s) # 0
  PROVE  \E f : IsFlatten(f, s, Len(s)) /\ FlattenSeq(s) = f[Len(s)]
<1> DEFINE f == CHOOSE f : IsFlatten(f, s, Len(s))
<1>1. IsFlatten(f, s, Len(s))
  <2>1. Len(s) \in Nat
    OBVIOUS
  <2> QED
    BY <2>1, FlattenExists, Zenon
<1>2. FlattenSeq(s) = f[Len(s)]
  BY DEF FlattenSeq, IsFlatten
<1> QED
  BY <1>1, <1>2

\* FlattenSeq, one sequence at a time.
LEMMA FlattenAppend ==
  ASSUME NEW S, NEW s \in Seq(Seq(S)), NEW t \in Seq(S)
  PROVE  /\ FlattenSeq(s) \in Seq(S)
         /\ FlattenSeq(Append(s, t)) = FlattenSeq(s) \o t
<1> DEFINE u == Append(s, t)
           n == Len(s)
<1>1. /\ u \in Seq(Seq(S)) /\ n \in Nat /\ Len(u) = n + 1 /\ u[n + 1] = t
      /\ \A i \in 1..n : s[i] = u[i]
  OBVIOUS
<1>2. PICK g : IsFlatten(g, u, n + 1) /\ FlattenSeq(u) = g[n + 1]
  <2> HIDE DEF u, n
  <2> QED
  BY <1>1, FlattenIs
<1>3. g[n + 1] = IF n + 1 = 1 THEN u[n + 1] ELSE g[n] \o u[n + 1]
  <2> HIDE DEF u, n
  <2> QED
  BY <1>1, <1>2, FlattenStep
<1>4. CASE n = 0
  <2>1. s = << >> /\ FlattenSeq(s) = << >>
    BY <1>4 DEF FlattenSeq
  <2>2. FlattenSeq(u) = t
    BY <1>1, <1>2, <1>3, <1>4
  <2>3. << >> \o t = t
    OBVIOUS
  <2>4. FlattenSeq(s) \in Seq(S)
    <3>1. << >> \in Seq(S)
      OBVIOUS
    <3> QED
      BY <2>1, <3>1, Zenon
  <2> HIDE DEF u, n
  <2>5. FlattenSeq(u) = FlattenSeq(s) \o t
    BY <2>1, <2>2, <2>3
  <2> QED
    BY <2>4, <2>5 DEF u
<1>5. CASE n # 0
  <2>1. PICK f : IsFlatten(f, s, n) /\ FlattenSeq(s) = f[n]
    BY <1>5, FlattenIs
  <2>2. f[n] = g[n]
    BY <1>2, <1>5, <2>1, FlattenPrefix
  <2>3. f[n] \in Seq(S)
    BY <1>1, <1>5, <2>1, FlattenTyped
  <2> HIDE DEF u, n
  <2>4. FlattenSeq(u) = FlattenSeq(s) \o t
    BY <1>1, <1>2, <1>3, <1>5, <2>1, <2>2
  <2> QED
    BY <2>1, <2>3, <2>4 DEF u
<1> QED
  BY <1>4, <1>5

-----------------------------------------------------------------------------
(***************************************************************************)
(* The chain: hmac starts it and Caveat::sign extends it.                   *)
(***************************************************************************)

\* verify_with_sig starts with the chain of no caveats.
LEMMA FirstLink ==
  ASSUME NEW key \in CallerKey, NEW m
  PROVE  hmac(key, m.identifier) = ChainSignature(key, m, 0)
<1>1. PICK s \in Secret : key = [secret |-> s, texts |-> << >>]
  BY DEF CallerKey, Key
<1>2. Append(<< >>, <<m.identifier>>) = [i \in 1..1 |-> <<m.identifier>>]
  OBVIOUS
<1>3. hmac(key, m.identifier)
        = [secret |-> s, texts |-> Append(<< >>, <<m.identifier>>)]
  BY <1>1 DEF hmac, MACed
<1> QED
  BY <1>1, <1>2, <1>3 DEF ChainSignature

\* Signing the j-th caveat under the chain of the ones before it makes the
\* chain of the first j caveats.
LEMMA NextLink ==
  ASSUME NEW key, NEW m, NEW j \in Nat, j > 0,
         IsFirstParty(m.caveats[j]) \/ IsThirdParty(m.caveats[j])
  PROVE  sign(m.caveats[j], ChainSignature(key, m, j - 1))
           = ChainSignature(key, m, j)
<1> DEFINE text(i) == IF i = 1 THEN <<m.identifier>>
                               ELSE CaveatText(m.caveats[i - 1])
           before == [i \in 1..j |-> text(i)]
           after  == [i \in 1..(j + 1) |-> text(i)]
           T == { text(i) : i \in 1..(j + 1) }
<1>1. before \in Seq(T) /\ Len(before) = j
  <2>1. \A i \in 1..j : text(i) \in T
    OBVIOUS
  <2> HIDE DEF text, T
  <2> QED BY <2>1
<1>2. text(j + 1) = CaveatText(m.caveats[j]) /\ text(j + 1) \in T
  OBVIOUS
<1>3. Append(before, text(j + 1)) = after
  <2> HIDE DEF text, T
  <2> QED BY <1>1, <1>2
<1>4. /\ ChainSignature(key, m, j - 1).secret = key.secret
      /\ ChainSignature(key, m, j - 1).texts = before
  BY DEF ChainSignature
<1>5. ChainSignature(key, m, j) = [secret |-> key.secret, texts |-> after]
  BY DEF ChainSignature
<1>6. sign(m.caveats[j], ChainSignature(key, m, j - 1))
        = MACed(ChainSignature(key, m, j - 1), CaveatText(m.caveats[j]))
  BY DEF sign, hmac, hmac2, CaveatText
<1> HIDE DEF before, after, text, T
<1>7. MACed(ChainSignature(key, m, j - 1), text(j + 1))
        = [secret |-> key.secret, texts |-> Append(before, text(j + 1))]
  BY <1>4, Zenon DEF MACed
<1> QED
  BY <1>2, <1>3, <1>5, <1>6, <1>7

\* Attenuation leaves the chain of the caveats that were there alone.
LEMMA ChainOfPrefix ==
  ASSUME NEW key, NEW m, NEW w, IsSequence(m.caveats), NEW c,
         w.identifier = m.identifier, w.caveats = Append(m.caveats, c),
         NEW n \in 0..Len(m.caveats)
  PROVE  ChainSignature(key, w, n) = ChainSignature(key, m, n)
<1> DEFINE text(v, i) == IF i = 1 THEN <<v.identifier>>
                                  ELSE CaveatText(v.caveats[i - 1])
<1>1. Len(m.caveats) \in Nat
        /\ \A i \in 1..Len(m.caveats) : w.caveats[i] = m.caveats[i]
  BY AppendFacts
<1>2. ASSUME NEW i \in 1..(n + 1) PROVE text(w, i) = text(m, i)
  <2>1. i = 1 \/ i - 1 \in 1..Len(m.caveats)
    BY <1>1
  <2> QED
    BY <2>1, <1>1
<1> HIDE DEF text
<1>3. [i \in 1..(n + 1) |-> text(w, i)] = [i \in 1..(n + 1) |-> text(m, i)]
  BY <1>2
<1>4. ChainSignature(key, w, n)
        = [secret |-> key.secret, texts |-> [i \in 1..(n + 1) |-> text(w, i)]]
  BY DEF ChainSignature, text
<1>5. ChainSignature(key, m, n)
        = [secret |-> key.secret, texts |-> [i \in 1..(n + 1) |-> text(m, i)]]
  BY DEF ChainSignature, text
<1> QED
  BY <1>3, <1>4, <1>5

\* Signing one more caveat under the full signature makes the full signature.
LEMMA FullSignatureExtends ==
  ASSUME NEW key, NEW m, NEW w, IsSequence(m.caveats), NEW c,
         IsFirstParty(c) \/ IsThirdParty(c),
         w.identifier = m.identifier, w.caveats = Append(m.caveats, c)
  PROVE  sign(c, FullSignature(key, m)) = FullSignature(key, w)
<1> DEFINE k == Len(m.caveats)
<1>1. k \in Nat /\ Len(w.caveats) = k + 1 /\ w.caveats[k + 1] = c
  BY AppendFacts
<1> HIDE DEF k
<1>2. k \in 0..k /\ (k + 1) - 1 = k /\ k + 1 \in Nat /\ k + 1 > 0
  BY <1>1
<1>3. ChainSignature(key, w, k) = ChainSignature(key, m, k)
  BY <1>2, ChainOfPrefix DEF k
<1>4. sign(w.caveats[k + 1], ChainSignature(key, w, (k + 1) - 1))
        = ChainSignature(key, w, k + 1)
  BY <1>1, <1>2, NextLink
<1> QED
  BY <1>1, <1>2, <1>3, <1>4 DEF FullSignature, k

-----------------------------------------------------------------------------
(***************************************************************************)
(* Numbers and their digits.                                                *)
(***************************************************************************)

\* Quotient and remainder, and what has them.
LEMMA Division ==
  ASSUME NEW b \in Nat, b > 0
  PROVE  /\ \A n \in Nat : n \div b \in Nat /\ n % b \in 0..(b - 1)
                           /\ n = (n \div b) * b + (n % b)
         /\ \A q \in Nat, d \in 0..(b - 1) : (q * b + d) \div b = q /\ (q * b + d) % b = d
         /\ \A m, n \in Nat : m <= n => m \div b <= n \div b
<1>1. \A n \in Nat : n \div b \in Nat /\ n % b \in 0..(b - 1) /\ n = (n \div b) * b + (n % b)
  OBVIOUS
<1>2. \A q \in Nat, d \in 0..(b - 1) : (q * b + d) \div b = q /\ (q * b + d) % b = d
  OBVIOUS
<1>3. ASSUME NEW m \in Nat, NEW n \in Nat, m <= n PROVE m \div b <= n \div b
  <2> DEFINE p == m \div b
             q == n \div b
  <2>1. p \in Nat /\ q \in Nat /\ p * b <= m /\ n < (q + 1) * b
    <3>1. \A k \in Nat : k \div b \in Nat /\ (k \div b) * b <= k /\ k < ((k \div b) + 1) * b
      OBVIOUS
    <3> QED
      BY <3>1
  <2> HIDE DEF p, q
  <2>2. p * b < (q + 1) * b
    BY <1>3, <2>1
  <2>3. p < q + 1
    BY <2>1, <2>2
  <2> QED
    BY <2>1, <2>3 DEF p, q
<1> QED
  BY <1>1, <1>2, <1>3

\* There is a function for every recursion along a number.
ByRecursion(f, n, a, step) ==
  f = [k \in 0..n |-> IF k = 0 THEN a ELSE step[<<f[k - 1], k>>]]

\* A value in X at every k leads to one at k + 1, so there are values up to n.
LEMMA Recursion ==
  ASSUME NEW n \in Nat, NEW X, NEW a \in X, NEW step \in [X \X (1..n) -> X]
  PROVE  \E f \in [0..n -> X] : ByRecursion(f, n, a, step)
<1> DEFINE IsUpTo(f, m) == /\ f \in [0..m -> X] /\ f[0] = a
                           /\ \A k \in 1..m : f[k] = step[<<f[k - 1], k>>]
           Y == { m \in Nat : m <= n => \E f : IsUpTo(f, m) }
<1>1. 0 \in Y
  <2>1. IsUpTo([k \in 0..0 |-> a], 0)
    OBVIOUS
  <2> QED
    BY <2>1
<1>2. ASSUME NEW m \in Nat, m \in Y PROVE m + 1 \in Y
  <2> SUFFICES ASSUME m + 1 <= n PROVE \E f : IsUpTo(f, m + 1)
    OBVIOUS
  <2>1. PICK f : IsUpTo(f, m)
    BY <1>2
  <2> DEFINE x == step[<<f[m], m + 1>>]
             g == [k \in 0..(m + 1) |-> IF k <= m THEN f[k] ELSE x]
  <2>2. x \in X
    <3>1. f[m] \in X /\ m + 1 \in 1..n
      BY <2>1
    <3> QED
      BY <3>1
  <2> HIDE DEF x
  <2>3. g \in [0..(m + 1) -> X] /\ g[0] = a
    BY <2>1, <2>2
  <2>4. ASSUME NEW k \in 1..(m + 1) PROVE g[k] = step[<<g[k - 1], k>>]
    <3>1. CASE k <= m
      <4>1. g[k] = f[k] /\ g[k - 1] = f[k - 1] /\ k \in 1..m
        BY <3>1
      <4> QED
        BY <2>1, <4>1
    <3>2. CASE k = m + 1
      <4>1. g[k] = x /\ g[k - 1] = f[m]
        BY <3>2
      <4> QED
        BY <3>2, <4>1 DEF x
    <3> QED
      BY <3>1, <3>2
  <2> QED
    BY <2>3, <2>4
<1> HIDE DEF Y
<1>3. Nat \subseteq Y
  BY <1>1, <1>2, Induction
<1>4. PICK f : IsUpTo(f, n)
  <2>1. n \in Y
    BY <1>3
  <2> HIDE DEF IsUpTo
  <2>2. \E f : IsUpTo(f, n)
    BY <2>1 DEF Y
  <2> QED
    BY <2>2
<1> DEFINE g == [k \in 0..n |-> IF k = 0 THEN a ELSE step[<<f[k - 1], k>>]]
<1>5. f = g
  <2>1. \A k \in 0..n : g[k] = f[k]
    <3> SUFFICES ASSUME NEW k \in 0..n PROVE g[k] = f[k]
      OBVIOUS
    <3>1. CASE k = 0
      BY <1>4, <3>1
    <3>2. CASE k # 0
      BY <1>4, <3>2
    <3> QED
      BY <3>1, <3>2
  <2>2. f \in [0..n -> X] /\ g = [k \in 0..n |-> g[k]]
    BY <1>4
  <2> HIDE DEF g
  <2> QED
    BY <2>1, <2>2
<1> QED
  BY <1>4, <1>5 DEF ByRecursion

\* Products and sums of numbers are numbers.
LEMMA SumOfProduct == \A x, y, z \in Nat : x * y + z \in Nat
OBVIOUS

\* The value of the first digits.
IsValue(v, digits, base) ==
  /\ v \in [0..Len(digits) -> Nat] /\ v[0] = 0
  /\ \A k \in 1..Len(digits) : v[k] = v[k - 1] * base + digits[k]

\* NumberOf is by its definition what the digits are worth up to the last one.
LEMMA NumberIs ==
  ASSUME NEW base \in Nat, NEW digits \in Seq(Nat)
  PROVE  \E v : IsValue(v, digits, base) /\ NumberOf(digits, base) = v[Len(digits)]
<1> DEFINE n == Len(digits)
           Body(f) == [k \in 0..n |-> IF k = 0 THEN 0 ELSE f[k - 1] * base + digits[k]]
           v == CHOOSE f : f = Body(f)
<1>0. n \in Nat
  OBVIOUS
<1>1. NumberOf(digits, base) = v[n]
  BY Zenon DEF NumberOf
<1>2. \E f : f = Body(f)
  <2> DEFINE step == [p \in Nat \X (1..n) |-> p[1] * base + digits[p[2]]]
  <2>1. step \in [Nat \X (1..n) -> Nat]
    <3>1. ASSUME NEW p \in Nat \X (1..n) PROVE p[1] * base + digits[p[2]] \in Nat
      <4>1. p[1] \in Nat /\ p[2] \in 1..n
        OBVIOUS
      <4>2. digits[p[2]] \in Nat
        BY <4>1
      <4> QED
        BY <4>1, <4>2, SumOfProduct
    <3> QED
      BY <3>1
  <2>2. \A x \in Nat, k \in 1..n : step[<<x, k>>] = x * base + digits[k]
    OBVIOUS
  <2> HIDE DEF step, n
  <2>3. PICK f \in [0..n -> Nat] : ByRecursion(f, n, 0, step)
    BY <1>0, <2>1, Recursion
  <2>4. \A k \in 0..n : k # 0 => step[<<f[k - 1], k>>] = f[k - 1] * base + digits[k]
    <3> SUFFICES ASSUME NEW k \in 0..n, k # 0
                 PROVE  step[<<f[k - 1], k>>] = f[k - 1] * base + digits[k]
      OBVIOUS
    <3>1. f[k - 1] \in Nat /\ k \in 1..n
      BY <1>0
    <3> QED
      BY <2>2, <3>1
  <2>5. [k \in 0..n |-> IF k = 0 THEN 0 ELSE step[<<f[k - 1], k>>]] = Body(f)
    BY <2>4
  <2> QED
    BY <2>3, <2>5 DEF ByRecursion
<1>3. v = Body(v)
  BY <1>2
<1> HIDE DEF v
<1>4. v[0] = 0 /\ \A k \in 1..n : v[k] = v[k - 1] * base + digits[k]
  <2> DEFINE w == Body(v)
  <2>1. w[0] = 0 /\ \A k \in 1..n : w[k] = v[k - 1] * base + digits[k]
    BY <1>0
  <2>2. v = w
    BY <1>3
  <2> HIDE DEF w
  <2> QED
    BY <2>1, <2>2
<1>5. \A k \in 0..n : v[k] \in Nat
  <2> DEFINE Y == { k \in Nat : k <= n => v[k] \in Nat }
  <2>1. 0 \in Y
    BY <1>4
  <2>2. ASSUME NEW k \in Nat, k \in Y PROVE k + 1 \in Y
    <3> SUFFICES ASSUME k + 1 <= n PROVE v[k + 1] \in Nat
      OBVIOUS
    <3>1. v[k + 1] = v[k] * base + digits[k + 1]
      <4> HIDE DEF n
      <4>1. k + 1 \in 1..n /\ (k + 1) - 1 = k
        BY <1>0
      <4> QED
        BY <1>4, <4>1
    <3>2. v[k] \in Nat /\ digits[k + 1] \in Nat
      BY <1>0, <2>2
    <3> QED
      BY <3>1, <3>2, SumOfProduct
  <2> HIDE DEF Y
  <2>3. Nat \subseteq Y
    BY <2>1, <2>2, Induction
  <2> QED
    BY <2>3 DEF Y
<1>6. v \in [0..n -> Nat]
  <2>1. v = [k \in 0..n |-> v[k]]
    <3> DEFINE w == Body(v)
    <3>1. w = [k \in 0..n |-> w[k]]
      OBVIOUS
    <3>2. v = w
      BY <1>3
    <3> HIDE DEF w
    <3> QED
      BY <3>1, <3>2
  <2> QED
    BY <1>5, <2>1
<1> QED
  BY <1>1, <1>4, <1>6 DEF IsValue

\* What is left of a number without its lowest digits.
IsRest(r, number, base, length) ==
  /\ r \in [0..length -> Nat] /\ r[0] = number
  /\ \A k \in 1..length : r[k] = r[k - 1] \div base

\* DigitsOf takes the lowest digit of what is left of the number each time.
LEMMA DigitsAre ==
  ASSUME NEW base \in Nat, base > 0, NEW number \in Nat, NEW length \in Nat
  PROVE  \E r : /\ IsRest(r, number, base, length)
                /\ DigitsOf(number, base, length)
                     = [i \in 1..length |-> r[length - i] % base]
<1> DEFINE Body(f) == [k \in 0..length |-> IF k = 0 THEN number ELSE f[k - 1] \div base]
           r == CHOOSE f : f = Body(f)
<1>1. DigitsOf(number, base, length) = [i \in 1..length |-> r[length - i] % base]
  BY Zenon DEF DigitsOf
<1>2. \E f : f = Body(f)
  <2> DEFINE step == [p \in Nat \X (1..length) |-> p[1] \div base]
  <2>1. step \in [Nat \X (1..length) -> Nat]
    <3>1. ASSUME NEW p \in Nat \X (1..length) PROVE p[1] \div base \in Nat
      <4>1. p[1] \in Nat
        OBVIOUS
      <4> QED
        BY <4>1, Division
    <3> QED
      BY <3>1
  <2>2. \A x \in Nat, k \in 1..length : step[<<x, k>>] = x \div base
    OBVIOUS
  <2> HIDE DEF step
  <2>3. PICK f \in [0..length -> Nat] : ByRecursion(f, length, number, step)
    BY <2>1, Recursion
  <2>4. \A k \in 0..length : k # 0 => step[<<f[k - 1], k>>] = f[k - 1] \div base
    <3> SUFFICES ASSUME NEW k \in 0..length, k # 0
                 PROVE  step[<<f[k - 1], k>>] = f[k - 1] \div base
      OBVIOUS
    <3>1. f[k - 1] \in Nat /\ k \in 1..length
      OBVIOUS
    <3> QED
      BY <2>2, <3>1
  <2>5. [k \in 0..length |-> IF k = 0 THEN number ELSE step[<<f[k - 1], k>>]] = Body(f)
    BY <2>4
  <2> QED
    BY <2>3, <2>5 DEF ByRecursion
<1>3. r = Body(r)
  BY <1>2
<1> HIDE DEF r
<1>4. r[0] = number /\ \A k \in 1..length : r[k] = r[k - 1] \div base
  <2> DEFINE w == Body(r)
  <2>1. w[0] = number /\ \A k \in 1..length : w[k] = r[k - 1] \div base
    OBVIOUS
  <2>2. r = w
    BY <1>3
  <2> HIDE DEF w
  <2> QED
    BY <2>1, <2>2
<1>5. \A k \in 0..length : r[k] \in Nat
  <2> DEFINE Y == { k \in Nat : k <= length => r[k] \in Nat }
  <2>1. 0 \in Y
    BY <1>4
  <2>2. ASSUME NEW k \in Nat, k \in Y PROVE k + 1 \in Y
    <3> SUFFICES ASSUME k + 1 <= length PROVE r[k + 1] \in Nat
      OBVIOUS
    <3>1. k + 1 \in 1..length /\ (k + 1) - 1 = k
      OBVIOUS
    <3>2. r[k + 1] = r[k] \div base
      BY <1>4, <3>1
    <3>3. r[k] \in Nat
      BY <2>2
    <3> QED
      BY <3>2, <3>3, Division
  <2> HIDE DEF Y
  <2>3. Nat \subseteq Y
    BY <2>1, <2>2, Induction
  <2> QED
    BY <2>3 DEF Y
<1>6. r \in [0..length -> Nat]
  <2>1. r = [k \in 0..length |-> r[k]]
    <3> DEFINE w == Body(r)
    <3>1. w = [k \in 0..length |-> w[k]]
      OBVIOUS
    <3>2. r = w
      BY <1>3
    <3> HIDE DEF w
    <3> QED
      BY <3>1, <3>2
  <2> QED
    BY <1>5, <2>1
<1> QED
  BY <1>1, <1>4, <1>6 DEF IsRest

\* Less is left of a smaller number.
LEMMA RestsGrow ==
  ASSUME NEW base \in Nat, base > 0, NEW length \in Nat,
         NEW m \in Nat, NEW n \in Nat, m <= n,
         NEW r, IsRest(r, m, base, length), NEW s, IsRest(s, n, base, length)
  PROVE  \A k \in 0..length : r[k] <= s[k]
<1> DEFINE Y == { k \in Nat : k <= length => r[k] <= s[k] }
<1>1. 0 \in Y
  BY DEF IsRest
<1>2. ASSUME NEW k \in Nat, k \in Y PROVE k + 1 \in Y
  <2> SUFFICES ASSUME k + 1 <= length PROVE r[k + 1] <= s[k + 1]
    OBVIOUS
  <2>1. k + 1 \in 1..length /\ (k + 1) - 1 = k /\ k \in 0..length
    OBVIOUS
  <2>2. r[k] <= s[k] /\ r[k] \in Nat /\ s[k] \in Nat
    BY <1>2, <2>1 DEF IsRest
  <2>3. r[k + 1] = r[k] \div base /\ s[k + 1] = s[k] \div base
    BY <2>1 DEF IsRest
  <2> QED
    BY <2>2, <2>3, Division
<1> HIDE DEF Y
<1>3. Nat \subseteq Y
  BY <1>1, <1>2, Induction
<1> QED
  BY <1>3 DEF Y

\* The digits are all of the number.
FitsIn(number, base, length) ==
  \E r : IsRest(r, number, base, length) /\ r[length] = 0

\* What fits leaves room for what is less.
LEMMA FitsBelow ==
  ASSUME NEW base \in Nat, base > 0, NEW length \in Nat,
         NEW n \in Nat, FitsIn(n, base, length), NEW m \in Nat, m <= n
  PROVE  FitsIn(m, base, length)
<1>1. PICK s : IsRest(s, n, base, length) /\ s[length] = 0
  BY DEF FitsIn
<1>2. PICK r : IsRest(r, m, base, length)
  BY DigitsAre
<1>3. length \in 0..length
  OBVIOUS
<1>4. r[length] <= s[length]
  BY <1>1, <1>2, <1>3, RestsGrow
<1>5. r[length] \in Nat
  BY <1>2, <1>3 DEF IsRest
<1>6. r[length] = 0
  BY <1>1, <1>4, <1>5
<1> QED
  BY <1>2, <1>6 DEF FitsIn

\* What fits in some digits fits in one more.
LEMMA FitsLonger ==
  ASSUME NEW base \in Nat, base > 0, NEW length \in Nat,
         NEW n \in Nat, FitsIn(n, base, length)
  PROVE  FitsIn(n, base, length + 1)
<1>1. PICK r : IsRest(r, n, base, length) /\ r[length] = 0
  BY DEF FitsIn
<1> DEFINE s == [k \in 0..(length + 1) |-> IF k <= length THEN r[k] ELSE 0]
<1>2. s \in [0..(length + 1) -> Nat] /\ s[0] = n /\ s[length + 1] = 0
  BY <1>1 DEF IsRest
<1>3. ASSUME NEW k \in 1..(length + 1) PROVE s[k] = s[k - 1] \div base
  <2>1. CASE k <= length
    BY <1>1, <2>1 DEF IsRest
  <2>2. CASE k = length + 1
    <3>1. s[k] = 0 /\ s[k - 1] = 0
      BY <1>1, <2>2
    <3>2. (0 * base + 0) \div base = 0 /\ 0 * base + 0 = 0
      BY Division
    <3> QED
      BY <3>1, <3>2
  <2> QED
    BY <2>1, <2>2
<1> HIDE DEF s
<1> QED
  BY <1>2, <1>3 DEF FitsIn, IsRest

\* Digits are less than the base.
LEMMA DigitsTyped ==
  ASSUME NEW base \in Nat, base > 0, NEW n \in Nat, NEW length \in Nat
  PROVE  DigitsOf(n, base, length) \in [1..length -> 0..(base - 1)]
<1>1. PICK r : IsRest(r, n, base, length)
               /\ DigitsOf(n, base, length) = [i \in 1..length |-> r[length - i] % base]
  BY DigitsAre
<1>2. ASSUME NEW i \in 1..length PROVE r[length - i] % base \in 0..(base - 1)
  <2>1. length - i \in 0..length
    OBVIOUS
  <2>2. r[length - i] \in Nat
    BY <1>1, <2>1 DEF IsRest
  <2> QED
    BY <2>2, Division
<1> QED
  BY <1>1, <1>2

\* A number that fits is read from its digits.
LEMMA NumberOfDigits ==
  ASSUME NEW base \in Nat, base > 0, NEW length \in Nat,
         NEW n \in Nat, FitsIn(n, base, length)
  PROVE  /\ DigitsOf(n, base, length) \in [1..length -> 0..(base - 1)]
         /\ NumberOf(DigitsOf(n, base, length), base) = n
<1> DEFINE d == DigitsOf(n, base, length)
<1>1. PICK r : IsRest(r, n, base, length) /\ d = [i \in 1..length |-> r[length - i] % base]
  BY DigitsAre
<1>2. \A k \in 0..length : r[k] \in Nat
  BY <1>1 DEF IsRest
<1>3. PICK s : IsRest(s, n, base, length) /\ s[length] = 0
  BY DEF FitsIn
<1>4. r[length] = 0
  <2>1. length \in 0..length
    OBVIOUS
  <2>2. r[length] <= s[length]
    BY <1>1, <1>3, <2>1, RestsGrow
  <2>3. r[length] \in Nat
    BY <1>2, <2>1
  <2> QED
    BY <1>3, <2>2, <2>3
<1>5. \A i \in 1..length : d[i] = r[length - i] % base
  BY <1>1
<1>6. \A i \in 1..length : d[i] \in 0..(base - 1)
  <2> SUFFICES ASSUME NEW i \in 1..length PROVE d[i] \in 0..(base - 1)
    OBVIOUS
  <2>1. length - i \in 0..length
    OBVIOUS
  <2>2. r[length - i] \in Nat
    BY <1>2, <2>1
  <2> QED
    BY <1>5, <2>2, Division
<1>7. d \in [1..length -> 0..(base - 1)]
  <2>1. d = [i \in 1..length |-> d[i]]
    BY <1>1
  <2> HIDE DEF d
  <2> QED
    BY <1>6, <2>1
<1> HIDE DEF d
<1>8. d \in Seq(Nat) /\ Len(d) = length
  BY <1>7
<1>9. PICK v : IsValue(v, d, base) /\ NumberOf(d, base) = v[length]
  BY <1>8, NumberIs
<1> DEFINE Y == { k \in Nat : k <= length => v[k] = r[length - k] }
<1>10. 0 \in Y
  BY <1>4, <1>9 DEF IsValue
<1>11. ASSUME NEW k \in Nat, k \in Y PROVE k + 1 \in Y
  <2> SUFFICES ASSUME k + 1 <= length PROVE v[k + 1] = r[length - (k + 1)]
    OBVIOUS
  <2> DEFINE j == length - (k + 1)
  <2>1. /\ k + 1 \in 1..length /\ (k + 1) - 1 = k
        /\ j \in 0..length /\ j + 1 \in 1..length /\ (j + 1) - 1 = j /\ length - k = j + 1
    OBVIOUS
  <2> HIDE DEF j
  <2>2. v[k + 1] = v[k] * base + d[k + 1]
    BY <1>8, <1>9, <2>1 DEF IsValue
  <2>3. v[k] = r[j + 1] /\ r[j + 1] = r[j] \div base
    BY <1>1, <1>11, <2>1 DEF IsRest
  <2>4. d[k + 1] = r[j] % base
    BY <1>5, <2>1 DEF j
  <2>5. r[j] \in Nat
    BY <1>2, <2>1
  <2>6. r[j] = (r[j] \div base) * base + (r[j] % base)
    BY <2>5, Division
  <2> QED
    BY <2>2, <2>3, <2>4, <2>6 DEF j
<1> HIDE DEF Y
<1>12. Nat \subseteq Y
  BY <1>10, <1>11, Induction
<1>13. v[length] = r[0]
  <2>1. v[length] = r[length - length]
    BY <1>12 DEF Y
  <2> QED
    BY <2>1
<1> QED
  BY <1>1, <1>7, <1>9, <1>13 DEF IsRest, d

\* Digits are those of the number that is read from them.
LEMMA DigitsOfNumber ==
  ASSUME NEW base \in Nat, base > 0, NEW digits \in Seq(0..(base - 1))
  PROVE  /\ NumberOf(digits, base) \in Nat
         /\ FitsIn(NumberOf(digits, base), base, Len(digits))
         /\ DigitsOf(NumberOf(digits, base), base, Len(digits)) = digits
<1> DEFINE l == Len(digits)
           n == NumberOf(digits, base)
<1>1. digits \in Seq(Nat) /\ l \in Nat /\ \A i \in 1..l : digits[i] \in 0..(base - 1)
  OBVIOUS
<1>2. PICK v : IsValue(v, digits, base) /\ n = v[l]
  BY <1>1, NumberIs
<1>3. v[0] = 0 /\ (\A k \in 0..l : v[k] \in Nat)
      /\ \A k \in 1..l : v[k] = v[k - 1] * base + digits[k]
  BY <1>2 DEF IsValue
<1>4. n \in Nat
  BY <1>1, <1>2, <1>3
<1>5. PICK r : /\ IsRest(r, n, base, l)
               /\ DigitsOf(n, base, l) = [i \in 1..l |-> r[l - i] % base]
  BY <1>1, <1>4, DigitsAre
<1> HIDE DEF n, l
<1>6. r[0] = n /\ \A k \in 1..l : r[k] = r[k - 1] \div base
  BY <1>5 DEF IsRest
<1> DEFINE Y == { k \in Nat : k <= l => r[k] = v[l - k] }
<1>7. 0 \in Y
  <2>1. l - 0 = l
    BY <1>1
  <2> QED
    BY <1>2, <1>6, <2>1
<1>8. ASSUME NEW k \in Nat, k \in Y PROVE k + 1 \in Y
  <2> SUFFICES ASSUME k + 1 <= l PROVE r[k + 1] = v[l - (k + 1)]
    OBVIOUS
  <2> DEFINE j == l - (k + 1)
  <2>1. /\ k + 1 \in 1..l /\ (k + 1) - 1 = k
        /\ j \in 0..l /\ j + 1 \in 1..l /\ (j + 1) - 1 = j /\ l - k = j + 1
    BY <1>1
  <2>2. r[k] = v[j + 1]
    <3>1. r[k] = v[l - k]
      BY <1>1, <1>8
    <3> QED
      BY <2>1, <3>1
  <2> HIDE DEF j
  <2>3. r[k + 1] = r[k] \div base
    BY <1>6, <2>1
  <2>4. v[j + 1] = v[j] * base + digits[j + 1] /\ v[j] \in Nat /\ digits[j + 1] \in 0..(base - 1)
    BY <1>1, <1>3, <2>1
  <2>5. (v[j] * base + digits[j + 1]) \div base = v[j]
    BY <2>4, Division
  <2> QED
    BY <2>2, <2>3, <2>4, <2>5 DEF j
<1> HIDE DEF Y
<1>9. Nat \subseteq Y
  BY <1>7, <1>8, Induction
<1>10. \A k \in 0..l : r[k] = v[l - k]
  BY <1>1, <1>9 DEF Y
<1>11. FitsIn(n, base, l)
  <2>1. l \in 0..l /\ l - l = 0
    BY <1>1
  <2>2. r[l] = 0
    BY <1>3, <1>10, <2>1
  <2> QED
    BY <1>5, <2>2 DEF FitsIn
<1>12. \A i \in 1..l : r[l - i] % base = digits[i]
  <2> SUFFICES ASSUME NEW i \in 1..l PROVE r[l - i] % base = digits[i]
    OBVIOUS
  <2>1. l - i \in 0..l /\ l - (l - i) = i /\ i - 1 \in 0..l
    BY <1>1
  <2>2. r[l - i] = v[i]
    BY <1>10, <2>1
  <2>3. v[i] = v[i - 1] * base + digits[i] /\ v[i - 1] \in Nat /\ digits[i] \in 0..(base - 1)
    BY <1>1, <1>3, <2>1
  <2>4. (v[i - 1] * base + digits[i]) % base = digits[i]
    BY <2>3, Division
  <2> QED
    BY <2>2, <2>3, <2>4
<1>13. DigitsOf(n, base, l) = digits
  <2>1. digits = [i \in 1..l |-> digits[i]]
    BY DEF l
  <2>2. [i \in 1..l |-> r[l - i] % base] = [i \in 1..l |-> digits[i]]
    BY <1>12
  <2> QED
    BY <1>5, <2>1, <2>2
<1> QED
  BY <1>4, <1>11, <1>13 DEF n, l

-----------------------------------------------------------------------------
(***************************************************************************)
(* The numbers that so many digits can hold.                                *)
(***************************************************************************)
\* No digits hold zero alone, and one more digit holds what, without its
\* lowest digit, the others hold.
LEMMA FitsNone ==
  ASSUME NEW base \in Nat, base > 0, NEW n \in Nat
  PROVE  FitsIn(n, base, 0) <=> n = 0
<1>1. ASSUME n = 0 PROVE FitsIn(n, base, 0)
  <2> DEFINE r == [k \in 0..0 |-> n]
  <2>1. IsRest(r, n, base, 0) /\ r[0] = 0
    BY <1>1 DEF IsRest
  <2> QED
    BY <2>1 DEF FitsIn
<1>2. ASSUME FitsIn(n, base, 0) PROVE n = 0
  BY <1>2 DEF FitsIn, IsRest
<1> QED
  BY <1>1, <1>2

\* A digit more is a division less.
LEMMA FitsOneMore ==
  ASSUME NEW base \in Nat, base > 0, NEW n \in Nat, NEW l \in Nat
  PROVE  FitsIn(n, base, l + 1) <=> FitsIn(n \div base, base, l)
<1>1. ASSUME FitsIn(n, base, l + 1) PROVE FitsIn(n \div base, base, l)
  <2>1. PICK r : IsRest(r, n, base, l + 1) /\ r[l + 1] = 0
    BY <1>1 DEF FitsIn
  <2> DEFINE s == [k \in 0..l |-> r[k + 1]]
  <2>2. s \in [0..l -> Nat] /\ s[l] = 0
    BY <2>1 DEF IsRest
  <2>3. s[0] = n \div base
    <3>1. 1 \in 1..(l + 1) /\ 1 - 1 = 0 /\ 0 \in 0..l
      OBVIOUS
    <3> QED
      BY <2>1, <3>1 DEF IsRest
  <2>4. ASSUME NEW k \in 1..l PROVE s[k] = s[k - 1] \div base
    <3>1. k + 1 \in 1..(l + 1) /\ (k + 1) - 1 = k /\ k - 1 \in 0..l /\ (k - 1) + 1 = k
      OBVIOUS
    <3>2. r[k + 1] = r[k] \div base
      BY <2>1, <3>1 DEF IsRest
    <3> QED
      BY <3>1, <3>2
  <2> HIDE DEF s
  <2>5. IsRest(s, n \div base, base, l)
    BY <2>2, <2>3, <2>4 DEF IsRest
  <2> QED
    BY <2>2, <2>5 DEF FitsIn
<1>2. ASSUME FitsIn(n \div base, base, l) PROVE FitsIn(n, base, l + 1)
  <2>1. PICK s : IsRest(s, n \div base, base, l) /\ s[l] = 0
    BY <1>2 DEF FitsIn
  <2> DEFINE r == [k \in 0..(l + 1) |-> IF k = 0 THEN n ELSE s[k - 1]]
  <2>2. r \in [0..(l + 1) -> Nat] /\ r[0] = n /\ r[l + 1] = 0
    BY <2>1 DEF IsRest
  <2>3. ASSUME NEW k \in 1..(l + 1) PROVE r[k] = r[k - 1] \div base
    <3>1. CASE k = 1
      <4>1. r[k] = s[0] /\ r[k - 1] = n
        BY <3>1
      <4> QED
        BY <2>1, <4>1 DEF IsRest
    <3>2. CASE k > 1
      <4>1. k - 1 \in 1..l /\ r[k] = s[k - 1] /\ r[k - 1] = s[(k - 1) - 1]
        BY <3>2
      <4> QED
        BY <2>1, <4>1 DEF IsRest
    <3> QED
      BY <3>1, <3>2
  <2> HIDE DEF r
  <2>4. IsRest(r, n, base, l + 1)
    BY <2>2, <2>3 DEF IsRest
  <2> QED
    BY <2>2, <2>4 DEF FitsIn
<1> QED
  BY <1>1, <1>2

-----------------------------------------------------------------------------
\* k is the place of the first x in s, 0 if there is none.
IsFirst(k, s, x) ==
  /\ k \in 0..Len(s)
  /\ k = 0 => \A i \in 1..Len(s) : s[i] # x
  /\ k # 0 => s[k] = x /\ \A i \in 1..(k - 1) : s[i] # x

\* SelectInSeq finds the first place of an element, or 0.
LEMMA FirstIs ==
  ASSUME NEW S, NEW s \in Seq(S), NEW x
  PROVE  LET I == { i \in 1..Len(s) : s[i] = x }
         IN  IsFirst(IF I # {} THEN Min(I) ELSE 0, s, x)
<1> DEFINE I == { i \in 1..Len(s) : s[i] = x }
           k == IF I # {} THEN Min(I) ELSE 0
<1>1. I # {} => Min(I) \in I /\ \A j \in I : Min(I) <= j
  <2>1. I \in SUBSET Nat
    OBVIOUS
  <2> HIDE DEF I
  <2> QED
    BY <2>1, MinIs
<1>2. CASE I = {}
  <2>1. k = 0
    BY <1>2
  <2> HIDE DEF k
  <2> QED
    BY <1>2, <2>1 DEF IsFirst, k
<1>3. CASE I # {}
  <2> DEFINE m == Min(I)
  <2>1. k = m /\ m \in I /\ \A j \in I : m <= j
    BY <1>1, <1>3
  <2> HIDE DEF m, k
  <2>2. IsFirst(k, s, x)
    BY <2>1 DEF IsFirst
  <2> QED
    BY <2>2 DEF k
<1> QED
  BY <1>2, <1>3

\* There is one such place.
LEMMA FirstIsUnique ==
  ASSUME NEW s, Len(s) \in Nat, NEW x, NEW k, NEW m, IsFirst(k, s, x), IsFirst(m, s, x)
  PROVE  k = m
BY DEF IsFirst
=============================================================================
