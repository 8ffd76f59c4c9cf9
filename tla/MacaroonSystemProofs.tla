------------------------- MODULE MacaroonSystemProofs -------------------------
(***************************************************************************)
(* Proofs about MacaroonApi and MacaroonSystem, for all sets of texts,      *)
(* secrets and variables.                                                   *)
(*                                                                          *)
(* First, MacaroonApi: whatever calls a program makes, its macaroons are    *)
(* within the limits, their caveat keys open in order, and their signatures *)
(* tell their histories apart.  The state does not hold what the argument   *)
(* is about: a macaroon that was bound to another, or overwritten, is gone, *)
(* and its signature lives on inside others.  The inductive invariant       *)
(* therefore says that there is a set C of all caveats ever made and a      *)
(* ledger L of all pairs of a signature and an identity ever made.          *)
(*                                                                          *)
(* Then HistoryDecides: in a program that verifies its macaroons at any     *)
(* time, verify's answer is a function of their histories.  VerifierProofs  *)
(* says that verify accepts a call exactly if its signatures authorize it,  *)
(* and the ledger says what a signature tells of the history of its         *)
(* macaroon.                                                                *)
(***************************************************************************)
EXTENDS MacaroonSystem, MacaroonLemmas

MacaroonFields == {"identifier", "location", "signature", "caveats"}
HistoryFields == {"secret", "bindings"}
IdentityFields == {"identifier", "caveats", "secret", "bindings"}

-----------------------------------------------------------------------------
\* A caveat that a call made when n nonces had been drawn.
MadeCaveat(c, n) ==
  \/ \E p \in Text : ~TooLarge(p) /\ c = FirstParty(p)
  \/ \E sealed : \E id \in Text, location \in Location :
       /\ c = ThirdParty(id, sealed, location)
       /\ ~TooLarge(id) /\ ~TooLarge(location)
       /\ sealed.plaintext \in CallerKey
       /\ sealed.nonce \in 0..(n - 1)

\* No nonce is in two caveats.
MadeCaveats(C, n) ==
  /\ \A c \in C : MadeCaveat(c, n)
  /\ \A c, d \in C :
       /\ IsThirdParty(c) /\ IsThirdParty(d)
       /\ c.verifier_id.nonce = d.verifier_id.nonce
       => c = d

-----------------------------------------------------------------------------
\* The caveats of a macaroon m with history h that were there before its first
\* binding.
UnboundOf(m, h) ==
  IF h.bindings = << >> THEN Len(m.caveats) ELSE h.bindings[1].at

\* The signature and the keys sealed in the caveats: a link of the chain of the
\* secret until the first binding, never one afterwards.
Chained(m, h) ==
  /\ h.bindings = << >> => m.signature = FullSignature(Key(h.secret), m)
  /\ h.bindings # << >> => /\ m.signature.secret = ZeroSecret
                           /\ h.bindings[1].at \in 0..Len(m.caveats)
  /\ \A i \in ThirdPartyIndices(m) :
       LET sealedUnder == m.caveats[i].verifier_id.key
       IN  /\ i <= UnboundOf(m, h)
                => sealedUnder = ChainSignature(Key(h.secret), m, i - 1)
           /\ i > UnboundOf(m, h) => sealedUnder.secret = ZeroSecret

MadeMacaroon(m, h, C) ==
  /\ DOMAIN m = MacaroonFields /\ DOMAIN h = HistoryFields
  /\ m.identifier \in Text /\ ~TooLarge(m.identifier) /\ Size(m.identifier) # 0
  /\ m.location \in Location \cup {NoLocation}
  /\ m.location # NoLocation => ~TooLarge(m.location)
  /\ m.caveats \in Seq(C) /\ Len(m.caveats) <= MAX_CAVEATS
  /\ h.secret \in Secret /\ IsSequence(h.bindings)
  /\ Chained(m, h)

-----------------------------------------------------------------------------
\* The entries of the ledger: one for each way to make a signature.
Entry(m, h) ==
  [signature |-> m.signature,
   identity  |-> [identifier |-> m.identifier, caveats |-> m.caveats,
                  secret |-> h.secret, bindings |-> h.bindings]]

Minted(secret, identifier) ==
  [signature |-> hmac(Key(secret), identifier),
   identity  |-> [identifier |-> identifier, caveats |-> << >>,
                  secret |-> secret, bindings |-> << >>]]

WithOneMore(identity, c) == [identity EXCEPT !.caveats = Append(@, c)]

Attenuated(y, c) ==
  [signature |-> sign(c, y.signature), identity |-> WithOneMore(y.identity, c)]

Binding(root, identity) == [root |-> root, at |-> Len(identity.caveats)]

WithBinding(identity, b) == [identity EXCEPT !.bindings = Append(@, b)]

\* The history h after bind bound the macaroon m to r with history g.
BoundHistory(r, g, m, h) ==
  [h EXCEPT !.bindings = Append(@, [root |-> Entry(r, g).identity,
                                    at   |-> Len(m.caveats)])]

BoundTo(r, y) ==
  [signature |-> BoundSignature(r.signature, y.signature),
   identity  |-> WithBinding(y.identity, Binding(r.identity, y.identity))]

MadeFrom(x, L, C) ==
  \/ \E secret \in Secret, identifier \in Text : x = Minted(secret, identifier)
  \/ \E y \in L, c \in C : x = Attenuated(y, c)
  \/ \E r, y \in L : x = BoundTo(r, y)

WellFormed(x) ==
  /\ DOMAIN x.identity = IdentityFields
  /\ IsSequence(x.identity.caveats) /\ IsSequence(x.identity.bindings)
  /\ x.signature = [secret |-> x.signature.secret, texts |-> x.signature.texts]
  /\ IsSequence(x.signature.texts) /\ x.signature.texts # << >>

\* A signature is the chain of its secret until the first binding, and under
\* no secret of a caller afterwards.  It is no binding of itself.
Lawful(x) ==
  LET sig == x.signature
      i   == x.identity
  IN  /\ i.secret \in Secret
      /\ i.bindings = << >> => sig = FullSignature(Key(i.secret), i)
      /\ i.bindings # << >> => /\ sig.secret = ZeroSecret
                               /\ i.bindings[1].at \in 0..Len(i.caveats)
      /\ Len(sig.texts) = 1 /\ Len(sig.texts[1]) = 2 => sig.texts[1][1] # sig

\* In a ledger a signature stands for one identity.
Ledger(L, C) ==
  /\ \A x \in L : WellFormed(x) /\ Lawful(x) /\ MadeFrom(x, L, C)
  /\ \A x, y \in L : x.signature = y.signature => x.identity = y.identity

\* L and C account for all that the program holds.
Accounts(L, C) ==
  /\ MadeCaveats(C, nonces)
  /\ Ledger(L, C)
  /\ \A s \in Held : /\ MadeMacaroon(macaroon[s], origin[s], C)
                     /\ Entry(macaroon[s], origin[s]) \in L

\* The inductive invariant.
ApiInv ==
  /\ calls \in 0..MaxCalls /\ nonces \in 0..calls
  /\ result \in ApiErrors \cup {"Ok"}
  /\ Held \subseteq Slot /\ DOMAIN origin = Held
  /\ \E L, C : Accounts(L, C)

-----------------------------------------------------------------------------
(***************************************************************************)
(* Caveats.                                                                 *)
(***************************************************************************)

\* A caveat is of one of the two kinds, and signing it adds its text.
LEMMA CaveatFacts ==
  ASSUME NEW c, NEW n, MadeCaveat(c, n)
  PROVE  /\ IsFirstParty(c) <=> ~IsThirdParty(c)
         /\ IsFirstParty(c) => /\ c.predicate \in Text /\ ~TooLarge(c.predicate)
                               /\ c = FirstParty(c.predicate)
         /\ IsThirdParty(c) => /\ c.id \in Text /\ ~TooLarge(c.id)
                               /\ c.location \in Location /\ ~TooLarge(c.location)
                               /\ c.verifier_id.plaintext \in CallerKey
                               /\ c.verifier_id.nonce \in 0..(n - 1)
         /\ \A key : sign(c, key) = MACed(key, CaveatText(c))
BY DEF MadeCaveat, IsFirstParty, IsThirdParty, FirstParty, ThirdParty,
       sign, hmac, hmac2, CaveatText

\* The text that is signed tells a caveat: a third-party caveat's location is
\* not signed, but its nonce is, and no nonce is in two caveats.
LEMMA TextTellsCaveat ==
  ASSUME NEW C, NEW n, MadeCaveats(C, n), NEW c \in C, NEW d \in C,
         CaveatText(c) = CaveatText(d)
  PROVE  c = d
<1>1. /\ MadeCaveat(c, n) /\ MadeCaveat(d, n)
      /\ IsThirdParty(c) /\ IsThirdParty(d)
           /\ c.verifier_id.nonce = d.verifier_id.nonce => c = d
  BY DEF MadeCaveats
<1>2. /\ IsFirstParty(c) <=> ~IsThirdParty(c)
      /\ IsFirstParty(d) <=> ~IsThirdParty(d)
      /\ IsFirstParty(c) => c = FirstParty(c.predicate)
      /\ IsFirstParty(d) => d = FirstParty(d.predicate)
  BY <1>1, CaveatFacts
<1>3. CASE IsFirstParty(c) /\ IsFirstParty(d)
  <2>1. <<c.predicate>> = <<d.predicate>>
    BY <1>3 DEF CaveatText
  <2>2. c.predicate = d.predicate
    BY <2>1
  <2> QED
    BY <1>2, <1>3, <2>2, Zenon
<1>4. CASE IsThirdParty(c) /\ IsThirdParty(d)
  <2>1. <<c.verifier_id, c.id>> = <<d.verifier_id, d.id>>
    BY <1>2, <1>4 DEF CaveatText
  <2>2. c.verifier_id = d.verifier_id
    BY <2>1
  <2> QED
    BY <1>1, <1>4, <2>2, Zenon
<1>5. CASE IsFirstParty(c) /\ IsThirdParty(d)
  BY <1>2, <1>5 DEF CaveatText
<1>6. CASE IsThirdParty(c) /\ IsFirstParty(d)
  BY <1>2, <1>6 DEF CaveatText
<1> QED
  BY <1>2, <1>3, <1>4, <1>5, <1>6

\* One more caveat, if its nonce was not drawn before.
LEMMA MoreCaveats ==
  ASSUME NEW C, NEW n \in Nat, NEW k \in Nat, n <= k, MadeCaveats(C, n),
         NEW c, MadeCaveat(c, k), IsThirdParty(c) => c.verifier_id.nonce >= n
  PROVE  MadeCaveats(C \cup {c}, k)
<1>1. ASSUME NEW d \in C PROVE MadeCaveat(d, k)
  <2>1. MadeCaveat(d, n)
    BY DEF MadeCaveats
  <2>2. 0..(n - 1) \subseteq 0..(k - 1)
    OBVIOUS
  <2> QED
    BY <2>1, <2>2, Zenon DEF MadeCaveat
<1>2. ASSUME NEW d \in C, IsThirdParty(c), IsThirdParty(d)
      PROVE  c.verifier_id.nonce # d.verifier_id.nonce
  <2>1. d.verifier_id.nonce \in 0..(n - 1)
    BY <1>2, CaveatFacts DEF MadeCaveats
  <2>2. c.verifier_id.nonce \in 0..(k - 1)
    BY <1>2, CaveatFacts
  <2> QED
    BY <1>2, <2>1, <2>2
<1> QED
  BY <1>1, <1>2, Zenon DEF MadeCaveats

-----------------------------------------------------------------------------
(***************************************************************************)
(* Signatures.                                                              *)
(***************************************************************************)

\* The three ways to make a signature, as secret and texts.
LEMMA MintedSignature ==
  ASSUME NEW secret, NEW identifier
  PROVE  Minted(secret, identifier).signature
           = [secret |-> secret, texts |-> << <<identifier>> >>]
BY DEF Minted, hmac, MACed, Key

\* The signature that one more caveat makes.
LEMMA AttenuatedSignature ==
  ASSUME NEW y, WellFormed(y), NEW c, NEW n, MadeCaveat(c, n)
  PROVE  Attenuated(y, c).signature
           = [secret |-> y.signature.secret,
              texts  |-> Append(y.signature.texts, CaveatText(c))]
BY CaveatFacts DEF Attenuated, MACed

\* The signature that binding to a root makes.
LEMMA BoundToSignature ==
  ASSUME NEW r, NEW y
  PROVE  BoundTo(r, y).signature
           = [secret |-> ZeroSecret,
              texts  |-> << <<r.signature, y.signature>> >>]
BY DEF BoundTo, BoundSignature, hmac2, MACed, Key

\* Appending to a sequence that is not empty leaves more than one element.
LEMMA AppendIsLonger ==
  ASSUME NEW t, IsSequence(t), t # << >>, NEW x
  PROVE  Len(Append(t, x)) # 1
<1>1. Len(t) # 0
  <2>1. PICK S : t \in Seq(S)
    BY DEF IsSequence
  <2> QED
    BY <2>1
<1>2. Len(Append(t, x)) = Len(t) + 1 /\ Len(t) \in Nat
  BY AppendFacts
<1> QED
  BY <1>1, <1>2

\* What is made from entries of the ledger may be entered in it.
LEMMA WellFormedEntry ==
  ASSUME NEW L, NEW C, NEW n, MadeCaveats(C, n),
         \A y \in L : WellFormed(y), NEW x, MadeFrom(x, L, C)
  PROVE  WellFormed(x)
<1>1. ASSUME NEW secret \in Secret, NEW identifier \in Text,
             x = Minted(secret, identifier)
      PROVE  WellFormed(x)
  <2>1. IsSequence(<< >>) /\ IsSequence(<< <<identifier>> >>)
    <3>1. << >> \in Seq({}) /\ << <<identifier>> >> \in Seq({ <<identifier>> })
      OBVIOUS
    <3> QED
      BY <3>1, Zenon DEF IsSequence
  <2>2. x.identity = [identifier |-> identifier, caveats |-> << >>,
                      secret |-> secret, bindings |-> << >>]
    BY <1>1 DEF Minted
  <2>3. x.signature = [secret |-> secret, texts |-> << <<identifier>> >>]
    BY <1>1, MintedSignature
  <2> QED
    BY <2>1, <2>2, <2>3 DEF WellFormed, IdentityFields
<1>2. ASSUME NEW y \in L, NEW c \in C, x = Attenuated(y, c)
      PROVE  WellFormed(x)
  <2>1. WellFormed(y) /\ MadeCaveat(c, n)
    BY DEF MadeCaveats
  <2>2. x.identity = [y.identity EXCEPT !.caveats = Append(@, c)]
    BY <1>2 DEF Attenuated, WithOneMore
  <2>3. x.signature = [secret |-> y.signature.secret,
                       texts  |-> Append(y.signature.texts, CaveatText(c))]
    BY <1>2, <2>1, AttenuatedSignature
  <2>4. IsSequence(y.identity.caveats) /\ IsSequence(y.signature.texts)
    BY <2>1 DEF WellFormed
  <2>5. /\ IsSequence(Append(y.identity.caveats, c))
        /\ IsSequence(Append(y.signature.texts, CaveatText(c)))
        /\ Append(y.signature.texts, CaveatText(c)) # << >>
    BY <2>4, AppendFacts
  <2>6. /\ DOMAIN x.identity = IdentityFields
        /\ x.identity.caveats = Append(y.identity.caveats, c)
        /\ x.identity.bindings = y.identity.bindings
    BY <2>1, <2>2 DEF WellFormed, IdentityFields
  <2> QED
    BY <2>1, <2>3, <2>5, <2>6 DEF WellFormed
<1>3. ASSUME NEW r \in L, NEW y \in L, x = BoundTo(r, y)
      PROVE  WellFormed(x)
  <2> DEFINE b == Binding(r.identity, y.identity)
  <2>1. WellFormed(y)
    OBVIOUS
  <2>2. x.identity = [y.identity EXCEPT !.bindings = Append(@, b)]
    BY <1>3 DEF BoundTo, WithBinding
  <2>3. x.signature = [secret |-> ZeroSecret,
                       texts  |-> << <<r.signature, y.signature>> >>]
    BY <1>3, BoundToSignature
  <2> HIDE DEF b
  <2>4. IsSequence(Append(y.identity.bindings, b))
    BY <2>1, AppendFacts DEF WellFormed
  <2>5. /\ DOMAIN x.identity = IdentityFields
        /\ x.identity.bindings = Append(y.identity.bindings, b)
        /\ x.identity.caveats = y.identity.caveats
    BY <2>1, <2>2 DEF WellFormed, IdentityFields
  <2>6. IsSequence(<< <<r.signature, y.signature>> >>)
    <3>1. << <<r.signature, y.signature>> >> \in Seq({ <<r.signature, y.signature>> })
      OBVIOUS
    <3> QED
      BY <3>1, Zenon DEF IsSequence
  <2> QED
    BY <2>1, <2>3, <2>4, <2>5, <2>6 DEF WellFormed
<1> QED
  BY <1>1, <1>2, <1>3 DEF MadeFrom

OneText(x) == Len(x.signature.texts) = 1

\* A signature stands for one identity, if the signatures it was made from do:
\* its length and its secret tell how it was made, and from what.
LEMMA SameSignature ==
  ASSUME NEW L, NEW C, NEW n, MadeCaveats(C, n),
         \A y \in L : WellFormed(y),
         \A y, z \in L : y.signature = z.signature => y.identity = z.identity,
         NEW u, NEW v, MadeFrom(u, L, C), MadeFrom(v, L, C),
         u.signature = v.signature
  PROVE  u.identity = v.identity
<1>1. ASSUME NEW s \in Secret, NEW i \in Text, u = Minted(s, i),
             NEW t \in Secret, NEW j \in Text, v = Minted(t, j)
      PROVE  u.identity = v.identity
  <2>1. [secret |-> s, texts |-> << <<i>> >>] = [secret |-> t, texts |-> << <<j>> >>]
    BY <1>1, MintedSignature
  <2>2. s = t /\ i = j
    BY <2>1
  <2> QED
    BY <1>1, <2>2
<1>2. ASSUME NEW y \in L, NEW c \in C, u = Attenuated(y, c),
             NEW z \in L, NEW d \in C, v = Attenuated(z, d)
      PROVE  u.identity = v.identity
  <2>1. WellFormed(y) /\ WellFormed(z) /\ MadeCaveat(c, n) /\ MadeCaveat(d, n)
    BY DEF MadeCaveats
  <2>2. [secret |-> y.signature.secret,
         texts  |-> Append(y.signature.texts, CaveatText(c))]
          = [secret |-> z.signature.secret,
             texts  |-> Append(z.signature.texts, CaveatText(d))]
    BY <1>2, <2>1, AttenuatedSignature
  <2>3. /\ y.signature.secret = z.signature.secret
        /\ Append(y.signature.texts, CaveatText(c))
             = Append(z.signature.texts, CaveatText(d))
    BY <2>2
  <2>4. y.signature.texts = z.signature.texts /\ CaveatText(c) = CaveatText(d)
    BY <2>1, <2>3, AppendIsInjective DEF WellFormed
  <2>5. y.signature = z.signature
    BY <2>1, <2>3, <2>4, Zenon DEF WellFormed
  <2>6. y.identity = z.identity /\ c = d
    BY <2>4, <2>5, TextTellsCaveat
  <2> QED
    BY <1>2, <2>6 DEF Attenuated
<1>3. ASSUME NEW q \in L, NEW y \in L, u = BoundTo(q, y),
             NEW r \in L, NEW z \in L, v = BoundTo(r, z)
      PROVE  u.identity = v.identity
  <2>1. [secret |-> ZeroSecret, texts |-> << <<q.signature, y.signature>> >>]
          = [secret |-> ZeroSecret, texts |-> << <<r.signature, z.signature>> >>]
    BY <1>3, BoundToSignature
  <2>2. q.signature = r.signature /\ y.signature = z.signature
    BY <2>1
  <2>3. q.identity = r.identity /\ y.identity = z.identity
    BY <2>2
  <2> QED
    BY <1>3, <2>3 DEF BoundTo
<1>4. ASSUME NEW w, NEW x, w.signature = x.signature,
             NEW s \in Secret, NEW i \in Text, w = Minted(s, i),
             NEW r \in L, NEW z \in L, x = BoundTo(r, z)
      PROVE  FALSE
  <2>1. [secret |-> s, texts |-> << <<i>> >>]
          = [secret |-> ZeroSecret, texts |-> << <<r.signature, z.signature>> >>]
    BY <1>4, MintedSignature, BoundToSignature
  <2> QED
    BY <2>1, SecretAssumption
<1>5. ASSUME NEW w, NEW x, w.signature = x.signature,
             NEW y \in L, NEW c \in C, w = Attenuated(y, c), OneText(x)
      PROVE  FALSE
  <2>1. WellFormed(y) /\ MadeCaveat(c, n)
    BY DEF MadeCaveats
  <2> DEFINE longer == Append(y.signature.texts, CaveatText(c))
  <2>2. w.signature.texts = longer
    <3>1. w.signature = [secret |-> y.signature.secret, texts |-> longer]
      BY <1>5, <2>1, AttenuatedSignature
    <3> QED
      BY <3>1
  <2>3. Len(Append(y.signature.texts, CaveatText(c))) = 1
    BY <1>5, <2>2, Zenon DEF OneText
  <2>4. IsSequence(y.signature.texts) /\ y.signature.texts # << >>
    BY <2>1 DEF WellFormed
  <2> QED
    BY <2>3, <2>4, AppendIsLonger
<1>6. ASSUME NEW x, NEW s, NEW i, x = Minted(s, i) PROVE OneText(x)
  <2>1. x.signature = [secret |-> s, texts |-> << <<i>> >>]
    BY <1>6, MintedSignature
  <2> QED
    BY <2>1 DEF OneText
<1>7. ASSUME NEW x, NEW r, NEW z, x = BoundTo(r, z) PROVE OneText(x)
  <2>1. x.signature = [secret |-> ZeroSecret,
                       texts  |-> << <<r.signature, z.signature>> >>]
    BY <1>7, BoundToSignature
  <2> QED
    BY <2>1 DEF OneText
<1>8. CASE \E s \in Secret, i \in Text : u = Minted(s, i)
  <2>1. ASSUME NEW y \in L, NEW c \in C, v = Attenuated(y, c) PROVE FALSE
    BY <1>5, <1>6, <1>8, <2>1, Zenon
  <2>2. ASSUME NEW r \in L, NEW y \in L, v = BoundTo(r, y) PROVE FALSE
    BY <1>4, <1>8, <2>2, Zenon
  <2> QED
    BY <1>1, <1>8, <2>1, <2>2, Zenon DEF MadeFrom
<1>9. CASE \E y \in L, c \in C : u = Attenuated(y, c)
  <2>1. ASSUME NEW s \in Secret, NEW i \in Text, v = Minted(s, i) PROVE FALSE
    BY <1>5, <1>6, <1>9, <2>1, Zenon
  <2>2. ASSUME NEW r \in L, NEW y \in L, v = BoundTo(r, y) PROVE FALSE
    BY <1>5, <1>7, <1>9, <2>2, Zenon
  <2> QED
    BY <1>2, <1>9, <2>1, <2>2, Zenon DEF MadeFrom
<1>10. CASE \E r, y \in L : u = BoundTo(r, y)
  <2>1. ASSUME NEW s \in Secret, NEW i \in Text, v = Minted(s, i) PROVE FALSE
    BY <1>4, <1>10, <2>1, Zenon
  <2>2. ASSUME NEW y \in L, NEW c \in C, v = Attenuated(y, c) PROVE FALSE
    BY <1>5, <1>7, <1>10, <2>2, Zenon
  <2> QED
    BY <1>3, <1>10, <2>1, <2>2, Zenon DEF MadeFrom
<1> QED
  BY <1>8, <1>9, <1>10 DEF MadeFrom

\* An identity with a caveat added, field by field.
LEMMA WithOneMoreFields ==
  ASSUME NEW identity, DOMAIN identity = IdentityFields, NEW c
  PROVE  WithOneMore(identity, c)
           = [identifier |-> identity.identifier,
              caveats |-> Append(identity.caveats, c), secret |-> identity.secret,
              bindings |-> identity.bindings]
<1> DEFINE z == WithOneMore(identity, c)
<1>1. /\ DOMAIN z = IdentityFields
      /\ z.identifier = identity.identifier /\ z.secret = identity.secret
      /\ z.caveats = Append(identity.caveats, c)
      /\ z.bindings = identity.bindings
      /\ z = [field \in IdentityFields |-> z[field]]
  BY DEF WithOneMore, IdentityFields
<1> HIDE DEF z
<1>2. z = [identifier |-> identity.identifier,
           caveats |-> Append(identity.caveats, c), secret |-> identity.secret,
           bindings |-> identity.bindings]
  BY <1>1 DEF IdentityFields
<1> QED
  BY <1>2 DEF z

\* An identity with a binding added, field by field.
LEMMA WithBindingFields ==
  ASSUME NEW identity, DOMAIN identity = IdentityFields, NEW b
  PROVE  WithBinding(identity, b)
           = [identifier |-> identity.identifier,
              caveats |-> identity.caveats, secret |-> identity.secret,
              bindings |-> Append(identity.bindings, b)]
<1> DEFINE z == WithBinding(identity, b)
<1>1. /\ DOMAIN z = IdentityFields
      /\ z.identifier = identity.identifier /\ z.secret = identity.secret
      /\ z.caveats = identity.caveats
      /\ z.bindings = Append(identity.bindings, b)
      /\ z = [field \in IdentityFields |-> z[field]]
  BY DEF WithBinding, IdentityFields
<1> HIDE DEF z
<1>2. z = [identifier |-> identity.identifier,
           caveats |-> identity.caveats, secret |-> identity.secret,
           bindings |-> Append(identity.bindings, b)]
  BY <1>1 DEF IdentityFields
<1> QED
  BY <1>2 DEF z

\* What is made from lawful signatures is lawful.
LEMMA LawfulEntry ==
  ASSUME NEW L, NEW C, NEW n, MadeCaveats(C, n),
         \A y \in L : WellFormed(y) /\ Lawful(y), NEW x, MadeFrom(x, L, C)
  PROVE  Lawful(x)
<1>1. ASSUME NEW secret \in Secret, NEW identifier \in Text,
             x = Minted(secret, identifier)
      PROVE  Lawful(x)
  <2>1. x.identity = [identifier |-> identifier, caveats |-> << >>,
                      secret |-> secret, bindings |-> << >>]
    BY <1>1 DEF Minted
  <2>2. Key(secret) \in CallerKey
    BY DEF CallerKey
  <2>3. x.signature = FullSignature(Key(secret), x.identity)
    <3>1. hmac(Key(secret), x.identity.identifier)
            = ChainSignature(Key(secret), x.identity, 0)
      BY <2>2, FirstLink
    <3>2. Len(x.identity.caveats) = 0 /\ x.identity.identifier = identifier
      BY <2>1
    <3> QED
      BY <1>1, <3>1, <3>2 DEF Minted, FullSignature
  <2>4. x.signature = [secret |-> secret, texts |-> << <<identifier>> >>]
    BY <1>1, MintedSignature
  <2>5. Len(x.signature.texts[1]) # 2
    BY <2>4
  <2>6. x.identity.secret = secret /\ x.identity.bindings = << >>
    BY <2>1
  <2> QED
    BY <2>3, <2>5, <2>6, Zenon DEF Lawful
<1>2. ASSUME NEW y \in L, NEW c \in C, x = Attenuated(y, c)
      PROVE  Lawful(x)
  <2>1. WellFormed(y) /\ Lawful(y) /\ MadeCaveat(c, n)
    BY DEF MadeCaveats
  <2>2. IsFirstParty(c) \/ IsThirdParty(c)
    BY <2>1, CaveatFacts
  <2>3. DOMAIN y.identity = IdentityFields /\ IsSequence(y.identity.caveats)
        /\ IsSequence(y.signature.texts) /\ y.signature.texts # << >>
    BY <2>1 DEF WellFormed
  <2>4. x.identity = [identifier |-> y.identity.identifier,
                      caveats |-> Append(y.identity.caveats, c),
                      secret |-> y.identity.secret,
                      bindings |-> y.identity.bindings]
    BY <1>2, <2>3, WithOneMoreFields DEF Attenuated
  <2>5. /\ x.identity.identifier = y.identity.identifier
        /\ x.identity.caveats = Append(y.identity.caveats, c)
        /\ x.identity.secret = y.identity.secret
        /\ x.identity.bindings = y.identity.bindings
    BY <2>4
  <2>6. /\ x.signature = sign(c, y.signature)
        /\ x.signature = [secret |-> y.signature.secret,
                          texts  |-> Append(y.signature.texts, CaveatText(c))]
    BY <1>2, <2>1, AttenuatedSignature DEF Attenuated
  <2>7. /\ x.signature.secret = y.signature.secret
        /\ x.signature.texts = Append(y.signature.texts, CaveatText(c))
    BY <2>6
  <2>8. Len(x.signature.texts) # 1
    BY <2>3, <2>7, AppendIsLonger
  <2>9. x.identity.secret \in Secret
    BY <2>1, <2>5 DEF Lawful
  <2>10. ASSUME x.identity.bindings = << >>
         PROVE  x.signature = FullSignature(Key(x.identity.secret), x.identity)
    <3>1. y.signature = FullSignature(Key(y.identity.secret), y.identity)
      BY <2>1, <2>5, <2>10 DEF Lawful
    <3>2. sign(c, FullSignature(Key(y.identity.secret), y.identity))
            = FullSignature(Key(y.identity.secret), x.identity)
      BY <2>2, <2>3, <2>5, FullSignatureExtends
    <3> QED
      BY <2>5, <2>6, <3>1, <3>2
  <2>11. ASSUME x.identity.bindings # << >>
         PROVE  /\ x.signature.secret = ZeroSecret
                /\ x.identity.bindings[1].at \in 0..Len(x.identity.caveats)
    <3>1. /\ y.signature.secret = ZeroSecret
          /\ y.identity.bindings[1].at \in 0..Len(y.identity.caveats)
      BY <2>1, <2>5, <2>11 DEF Lawful
    <3>2. /\ Len(x.identity.caveats) = Len(y.identity.caveats) + 1
          /\ Len(y.identity.caveats) \in Nat
      BY <2>3, <2>5, AppendFacts
    <3>3. \A k \in Nat : 0..k \subseteq 0..(k + 1)
      OBVIOUS
    <3> QED
      BY <2>5, <2>7, <3>1, <3>2, <3>3
  <2> QED
    BY <2>8, <2>9, <2>10, <2>11, Zenon DEF Lawful
<1>3. ASSUME NEW r \in L, NEW y \in L, x = BoundTo(r, y)
      PROVE  Lawful(x)
  <2> DEFINE b == Binding(r.identity, y.identity)
  <2>1. WellFormed(y) /\ Lawful(y) /\ Lawful(r)
    OBVIOUS
  <2>2. DOMAIN y.identity = IdentityFields /\ IsSequence(y.identity.bindings)
        /\ IsSequence(y.identity.caveats)
    BY <2>1 DEF WellFormed
  <2>3. b.at = Len(y.identity.caveats)
    BY DEF Binding
  <2> HIDE DEF b
  <2>4. x.identity = [identifier |-> y.identity.identifier,
                      caveats |-> y.identity.caveats,
                      secret |-> y.identity.secret,
                      bindings |-> Append(y.identity.bindings, b)]
    BY <1>3, <2>2, WithBindingFields DEF BoundTo, b
  <2>5. /\ x.identity.caveats = y.identity.caveats
        /\ x.identity.secret = y.identity.secret
        /\ x.identity.bindings = Append(y.identity.bindings, b)
    BY <2>4
  <2>6. x.signature = [secret |-> ZeroSecret,
                       texts  |-> << <<r.signature, y.signature>> >>]
    BY <1>3, BoundToSignature
  <2>7. /\ x.signature.secret = ZeroSecret /\ Len(x.signature.texts) = 1
        /\ Len(x.signature.texts[1]) = 2
        /\ x.signature.texts[1][1] = r.signature
    BY <2>6
  <2>8. x.signature.texts[1][1] # x.signature
    <3> SUFFICES ASSUME r.signature = x.signature PROVE FALSE
      BY <2>7
    <3> QED
      BY <2>1, <2>7 DEF Lawful
  <2>9. x.identity.secret \in Secret
    BY <2>1, <2>5 DEF Lawful
  <2>10. x.identity.bindings # << >>
    BY <2>2, <2>5, AppendFacts
  <2>11. x.identity.bindings[1].at \in 0..Len(x.identity.caveats)
    <3>1. Len(y.identity.caveats) \in Nat
      BY <2>2, AppendFacts
    <3>2. CASE y.identity.bindings = << >>
      <4>1. Append(<< >>, b)[1] = b
        OBVIOUS
      <4> QED
        BY <2>3, <2>5, <3>1, <3>2, <4>1
    <3>3. CASE y.identity.bindings # << >>
      <4>1. 1 \in 1..Len(y.identity.bindings)
        <5>1. PICK S : y.identity.bindings \in Seq(S)
          BY <2>2 DEF IsSequence
        <5> QED
          BY <3>3, <5>1
      <4>2. x.identity.bindings[1] = y.identity.bindings[1]
        BY <2>2, <2>5, <4>1, AppendFacts
      <4> QED
        BY <2>1, <2>5, <3>3, <4>2 DEF Lawful
    <3> QED
      BY <3>2, <3>3
  <2> QED
    BY <2>7, <2>8, <2>9, <2>10, <2>11, Zenon DEF Lawful
<1> QED
  BY <1>1, <1>2, <1>3 DEF MadeFrom

\* The ledger takes one more signature, made from those it has.
LEMMA LedgerGrows ==
  ASSUME NEW L, NEW C, Ledger(L, C), NEW D, NEW n, C \subseteq D,
         MadeCaveats(D, n), NEW x, MadeFrom(x, L, D)
  PROVE  Ledger(L \cup {x}, D)
<1>1. \A y \in L : WellFormed(y) /\ Lawful(y) /\ MadeFrom(y, L, D)
  BY DEF Ledger, MadeFrom
<1>2. \A y, z \in L : y.signature = z.signature => y.identity = z.identity
  BY DEF Ledger
<1>3. WellFormed(x) /\ Lawful(x)
  BY <1>1, WellFormedEntry, LawfulEntry
<1>4. \A y \in L \cup {x} : MadeFrom(y, L, D)
  BY <1>1
<1>5. \A y, z \in L \cup {x} : y.signature = z.signature => y.identity = z.identity
  BY <1>1, <1>2, <1>4, SameSignature
<1>6. \A y \in L \cup {x} : MadeFrom(y, L \cup {x}, D)
  BY <1>4 DEF MadeFrom
<1> QED
  BY <1>1, <1>3, <1>5, <1>6 DEF Ledger

-----------------------------------------------------------------------------
(***************************************************************************)
(* Macaroons.                                                               *)
(***************************************************************************)

\* What is known of a macaroon that a call has made.
LEMMA MadeMacaroonFacts ==
  ASSUME NEW m, NEW h, NEW C, MadeMacaroon(m, h, C)
  PROVE  /\ IsSequence(m.caveats) /\ Len(m.caveats) \in Nat
         /\ \A i \in 1..Len(m.caveats) : m.caveats[i] \in C
         /\ UnboundOf(m, h) \in 0..Len(m.caveats)
<1>1. m.caveats \in Seq(C)
  BY DEF MadeMacaroon
<1>2. IsSequence(m.caveats) /\ Len(m.caveats) \in Nat
  BY <1>1 DEF IsSequence
<1>3. \A i \in 1..Len(m.caveats) : m.caveats[i] \in C
  BY <1>1
<1>4. h.bindings # << >> => h.bindings[1].at \in 0..Len(m.caveats)
  BY DEF MadeMacaroon, Chained
<1> QED
  BY <1>2, <1>3, <1>4 DEF UnboundOf

\* It is still one when there are more caveats to have been made.
LEMMA MadeMacaroonGrows ==
  ASSUME NEW m, NEW h, NEW C, NEW D, C \subseteq D, MadeMacaroon(m, h, C)
  PROVE  MadeMacaroon(m, h, D)
<1>1. Seq(C) \subseteq Seq(D)
  OBVIOUS
<1> QED
  BY <1>1, Zenon DEF MadeMacaroon

\* create.
LEMMA NewMade ==
  ASSUME NEW location \in Location \cup {NoLocation},
         NEW secret \in Secret, NEW identifier \in Text, NEW C,
         location # NoLocation => ~TooLarge(location),
         ~TooLarge(identifier), Size(identifier) # 0
  PROVE  LET m == New(location, Key(secret), identifier)
             h == [secret |-> secret, bindings |-> << >>]
         IN  MadeMacaroon(m, h, C) /\ Entry(m, h) = Minted(secret, identifier)
<1> DEFINE m == New(location, Key(secret), identifier)
           h == [secret |-> secret, bindings |-> << >>]
<1>1. /\ m = [identifier |-> identifier, location |-> location,
              signature |-> hmac(Key(secret), identifier), caveats |-> << >>]
      /\ h.secret = secret /\ h.bindings = << >> /\ DOMAIN h = HistoryFields
  BY DEF New, HistoryFields
<1>2. /\ m.identifier = identifier /\ m.location = location
      /\ m.signature = hmac(Key(secret), identifier)
      /\ m.caveats = << >> /\ DOMAIN m = MacaroonFields
  BY DEF New, MacaroonFields
<1>3. << >> \in Seq(C) /\ Len(<< >>) = 0 /\ IsSequence(<< >>)
  <2>1. << >> \in Seq(C) /\ Len(<< >>) = 0
    OBVIOUS
  <2> QED
    BY <2>1, Zenon DEF IsSequence
<1>4. Key(secret) \in CallerKey
  BY DEF CallerKey
<1> HIDE DEF m, h
<1>5. m.signature = FullSignature(Key(h.secret), m)
  BY <1>1, <1>2, <1>3, <1>4, FirstLink DEF FullSignature
<1>6. ThirdPartyIndices(m) = {}
  BY <1>2, <1>3 DEF ThirdPartyIndices
<1>7. Chained(m, h)
  BY <1>1, <1>5, <1>6 DEF Chained
<1>8. MadeMacaroon(m, h, C)
  BY <1>1, <1>2, <1>3, <1>7, LimitsAssumption DEF MadeMacaroon
<1>9. Entry(m, h) = Minted(secret, identifier)
  BY <1>1, <1>2 DEF Entry, Minted
<1> QED
  BY <1>8, <1>9 DEF m, h

\* The fields of a macaroon that a caveat was added to.
LEMMA WithCaveatFields ==
  ASSUME NEW m, NEW c, DOMAIN m = MacaroonFields
  PROVE  LET w == WithCaveat(m, c)
         IN  /\ DOMAIN w = MacaroonFields
             /\ w.identifier = m.identifier /\ w.location = m.location
             /\ w.signature = sign(c, m.signature)
             /\ w.caveats = Append(m.caveats, c)
BY DEF WithCaveat, MacaroonFields

\* add_first_party_caveat and add_third_party_caveat.
LEMMA WithCaveatMade ==
  ASSUME NEW m, NEW h, NEW C, MadeMacaroon(m, h, C),
         NEW c \in C, NEW n, MadeCaveat(c, n), Len(m.caveats) < MAX_CAVEATS,
         IsThirdParty(c) => c.verifier_id.key = m.signature
  PROVE  LET w == WithCaveat(m, c)
         IN  MadeMacaroon(w, h, C) /\ Entry(w, h) = Attenuated(Entry(m, h), c)
<1> DEFINE w == WithCaveat(m, c)
           key == Key(h.secret)
           k == Len(m.caveats)
<1>1. DOMAIN m = MacaroonFields /\ m.caveats \in Seq(C) /\ Chained(m, h)
  BY DEF MadeMacaroon
<1>2. /\ DOMAIN w = MacaroonFields
      /\ w.identifier = m.identifier /\ w.location = m.location
      /\ w.signature = sign(c, m.signature)
      /\ w.caveats = Append(m.caveats, c)
  BY <1>1, WithCaveatFields
<1> HIDE DEF w, key
<1>3. IsSequence(m.caveats) /\ k \in Nat /\ UnboundOf(m, h) \in 0..k
  BY MadeMacaroonFacts
<1>4. /\ w.caveats \in Seq(C) /\ Len(w.caveats) = k + 1
      /\ w.caveats[k + 1] = c
      /\ \A i \in 1..k : w.caveats[i] = m.caveats[i]
  BY <1>1, <1>2, <1>3, AppendFacts
<1>5. IsFirstParty(c) \/ IsThirdParty(c)
  BY CaveatFacts
<1>6. \A i \in 0..k : ChainSignature(key, w, i) = ChainSignature(key, m, i)
  BY <1>2, <1>3, ChainOfPrefix
<1>7. ASSUME h.bindings = << >>
      PROVE  /\ m.signature = FullSignature(key, m)
             /\ w.signature = FullSignature(key, w)
             /\ UnboundOf(m, h) = k /\ UnboundOf(w, h) = k + 1
  <2>1. m.signature = FullSignature(key, m)
    BY <1>1, <1>7 DEF Chained, key
  <2>2. sign(c, FullSignature(key, m)) = FullSignature(key, w)
    BY <1>2, <1>3, <1>5, FullSignatureExtends
  <2> QED
    BY <1>2, <1>4, <1>7, <2>1, <2>2 DEF UnboundOf
<1>8. ASSUME h.bindings # << >>
      PROVE  /\ m.signature.secret = ZeroSecret
             /\ w.signature.secret = ZeroSecret
             /\ UnboundOf(w, h) = UnboundOf(m, h)
             /\ h.bindings[1].at \in 0..k
  <2>1. m.signature.secret = ZeroSecret /\ h.bindings[1].at \in 0..k
    BY <1>1, <1>8 DEF Chained
  <2>2. sign(c, m.signature).secret = m.signature.secret
    <3>1. sign(c, m.signature) = MACed(m.signature, CaveatText(c))
      BY CaveatFacts
    <3> QED
      BY <3>1 DEF MACed
  <2> QED
    BY <1>2, <1>8, <2>1, <2>2 DEF UnboundOf
<1>9. ASSUME NEW i \in ThirdPartyIndices(w)
      PROVE  LET sealedUnder == w.caveats[i].verifier_id.key
             IN  /\ i <= UnboundOf(w, h)
                      => sealedUnder = ChainSignature(key, w, i - 1)
                 /\ i > UnboundOf(w, h) => sealedUnder.secret = ZeroSecret
  <2>1. i \in 1..(k + 1) /\ IsThirdParty(w.caveats[i])
    BY <1>4 DEF ThirdPartyIndices
  <2>2. ASSUME i <= k
        PROVE  LET sealedUnder == w.caveats[i].verifier_id.key
               IN  /\ i <= UnboundOf(m, h)
                        => sealedUnder = ChainSignature(key, w, i - 1)
                   /\ i > UnboundOf(m, h) => sealedUnder.secret = ZeroSecret
    <3>1. i \in 1..k /\ i - 1 \in 0..k
      BY <1>3, <2>1, <2>2
    <3>2. i \in ThirdPartyIndices(m) /\ w.caveats[i] = m.caveats[i]
      BY <1>4, <2>1, <3>1 DEF ThirdPartyIndices
    <3> QED
      BY <1>1, <1>6, <3>1, <3>2, Zenon DEF Chained, key
  <2>3. CASE h.bindings = << >>
    <3>1. i <= UnboundOf(w, h) /\ ~(i > UnboundOf(w, h))
      BY <1>3, <1>7, <2>1, <2>3
    <3>2. CASE i <= k
      BY <1>7, <2>2, <2>3, <3>1, <3>2
    <3>3. CASE i = k + 1
      <4>1. w.caveats[i].verifier_id.key = FullSignature(key, m)
        BY <1>4, <1>7, <2>1, <2>3, <3>3
      <4>2. FullSignature(key, m) = ChainSignature(key, w, i - 1)
        <5>1. i - 1 = k /\ k \in 0..k
          BY <1>3, <3>3
        <5> QED
          BY <1>6, <5>1 DEF FullSignature
      <4> QED
        BY <3>1, <4>1, <4>2
    <3> QED
      BY <1>3, <2>1, <3>2, <3>3
  <2>4. CASE h.bindings # << >>
    <3>1. CASE i <= k
      BY <1>8, <2>2, <2>4, <3>1
    <3>2. CASE i = k + 1
      <4>1. w.caveats[i].verifier_id.key.secret = ZeroSecret
        BY <1>4, <1>8, <2>1, <2>4, <3>2
      <4>2. i > UnboundOf(w, h) /\ ~(i <= UnboundOf(w, h))
        BY <1>3, <1>8, <2>4, <3>2
      <4> QED
        BY <4>1, <4>2
    <3> QED
      BY <1>3, <2>1, <3>1, <3>2
  <2> QED
    BY <2>3, <2>4
<1>10. Chained(w, h)
  <2>1. 0..k \subseteq 0..Len(w.caveats)
    BY <1>3, <1>4
  <2> QED
    BY <1>7, <1>8, <1>9, <2>1 DEF Chained, key
<1>11. Len(w.caveats) <= MAX_CAVEATS
  BY <1>3, <1>4, LimitsAssumption
<1>12. MadeMacaroon(w, h, C)
  BY <1>2, <1>4, <1>10, <1>11 DEF MadeMacaroon
<1>13. Entry(w, h) = Attenuated(Entry(m, h), c)
  <2>1. Entry(m, h).signature = m.signature
    BY DEF Entry
  <2> DEFINE id == [identifier |-> m.identifier,
                    caveats |-> Append(m.caveats, c),
                    secret |-> h.secret, bindings |-> h.bindings]
  <2>2. WithOneMore(Entry(m, h).identity, c) = id
    <3> DEFINE before == Entry(m, h).identity
    <3>1. /\ DOMAIN before = IdentityFields
          /\ before.identifier = m.identifier /\ before.caveats = m.caveats
          /\ before.secret = h.secret /\ before.bindings = h.bindings
      BY DEF Entry, IdentityFields
    <3> HIDE DEF before
    <3>2. WithOneMore(before, c) = id
      BY <3>1, WithOneMoreFields, Zenon
    <3> QED
      BY <3>2 DEF before
  <2>3. Attenuated(Entry(m, h), c)
          = [signature |-> sign(c, m.signature), identity |-> id]
    BY <2>1, <2>2, Zenon DEF Attenuated
  <2>4. Entry(w, h) = [signature |-> sign(c, m.signature), identity |-> id]
    BY <1>2 DEF Entry
  <2> QED
    BY <2>3, <2>4, Zenon
<1> QED
  BY <1>12, <1>13 DEF w

\* bind.
LEMMA BoundMade ==
  ASSUME NEW C, NEW r, NEW g, MadeMacaroon(r, g, C),
         NEW m, NEW h, MadeMacaroon(m, h, C)
  PROVE  LET w == Bound(r, m)
             v == BoundHistory(r, g, m, h)
         IN  /\ MadeMacaroon(w, v, C)
             /\ Entry(w, v) = BoundTo(Entry(r, g), Entry(m, h))
<1> DEFINE w == Bound(r, m)
           b == [root |-> Entry(r, g).identity, at |-> Len(m.caveats)]
           v == BoundHistory(r, g, m, h)
           key == Key(h.secret)
<1>1. /\ DOMAIN m = MacaroonFields /\ DOMAIN h = HistoryFields
      /\ IsSequence(h.bindings) /\ Chained(m, h)
  BY DEF MadeMacaroon
<1>2. b.at = Len(m.caveats) /\ b.root = Entry(r, g).identity
  OBVIOUS
<1>3. v = [h EXCEPT !.bindings = Append(@, b)]
  BY DEF BoundHistory
<1> HIDE DEF b, v
<1>4. /\ DOMAIN w = MacaroonFields
      /\ w.identifier = m.identifier /\ w.location = m.location
      /\ w.signature = BoundSignature(r.signature, m.signature)
      /\ w.caveats = m.caveats
  BY <1>1 DEF Bound, MacaroonFields
<1>5. /\ DOMAIN v = HistoryFields /\ v.secret = h.secret
      /\ v.bindings = Append(h.bindings, b)
  BY <1>1, <1>3 DEF HistoryFields
<1> HIDE DEF w, key
<1>6. Len(m.caveats) \in Nat /\ UnboundOf(m, h) \in 0..Len(m.caveats)
  BY MadeMacaroonFacts
<1>7. /\ IsSequence(v.bindings) /\ v.bindings # << >>
      /\ v.bindings[1].at = UnboundOf(m, h)
  <2>1. /\ IsSequence(v.bindings) /\ v.bindings # << >>
        /\ Len(h.bindings) \in Nat
        /\ \A i \in 1..Len(h.bindings) : v.bindings[i] = h.bindings[i]
        /\ v.bindings[Len(h.bindings) + 1] = b
    BY <1>1, <1>5, AppendFacts
  <2>2. CASE h.bindings = << >>
    <3>1. Len(h.bindings) = 0
      BY <2>2
    <3> QED
      BY <1>2, <2>1, <2>2, <3>1 DEF UnboundOf
  <2>3. CASE h.bindings # << >>
    <3>1. Len(h.bindings) # 0
      <4>1. PICK S : h.bindings \in Seq(S)
        BY <1>1 DEF IsSequence
      <4> QED
        BY <2>3, <4>1
    <3>2. 1 \in 1..Len(h.bindings)
      BY <2>1, <3>1
    <3> QED
      BY <2>1, <2>3, <3>2 DEF UnboundOf
  <2> QED
    BY <2>2, <2>3
<1>8. UnboundOf(w, v) = UnboundOf(m, h)
  BY <1>7 DEF UnboundOf
<1>9. w.signature.secret = ZeroSecret
  <2>1. BoundSignature(r.signature, m.signature)
          = [secret |-> ZeroSecret,
             texts |-> Append(<< >>, <<r.signature, m.signature>>)]
    BY DEF BoundSignature, hmac2, MACed, Key
  <2> QED
    BY <1>4, <2>1
<1>10. \A i : ChainSignature(key, w, i) = ChainSignature(key, m, i)
  BY <1>4, Zenon DEF ChainSignature
<1>11. ThirdPartyIndices(w) = ThirdPartyIndices(m)
  BY <1>4 DEF ThirdPartyIndices
<1>12. ASSUME NEW i \in ThirdPartyIndices(w)
       PROVE  LET sealedUnder == w.caveats[i].verifier_id.key
              IN  /\ i <= UnboundOf(w, v)
                       => sealedUnder = ChainSignature(key, w, i - 1)
                  /\ i > UnboundOf(w, v) => sealedUnder.secret = ZeroSecret
  BY <1>1, <1>4, <1>8, <1>10, <1>11, Zenon DEF Chained, key
<1>13. Chained(w, v)
  BY <1>4, <1>5, <1>6, <1>7, <1>9, <1>12 DEF Chained, key
<1>14. MadeMacaroon(w, v, C)
  <2>1. MadeMacaroon(m, h, C)
    OBVIOUS
  <2> QED
    BY <1>4, <1>5, <1>7, <1>13, <2>1, Zenon DEF MadeMacaroon
<1>15. Entry(w, v) = BoundTo(Entry(r, g), Entry(m, h))
  <2> DEFINE id == [identifier |-> m.identifier, caveats |-> m.caveats,
                    secret |-> h.secret, bindings |-> Append(h.bindings, b)]
             sig == BoundSignature(r.signature, m.signature)
  <2>1. /\ Entry(m, h).signature = m.signature
        /\ Entry(r, g).signature = r.signature
        /\ Binding(Entry(r, g).identity, Entry(m, h).identity) = b
    BY DEF Entry, Binding, b
  <2>2. WithBinding(Entry(m, h).identity, b) = id
    <3> DEFINE before == Entry(m, h).identity
    <3>1. /\ DOMAIN before = IdentityFields
          /\ before.identifier = m.identifier /\ before.caveats = m.caveats
          /\ before.secret = h.secret /\ before.bindings = h.bindings
      BY DEF Entry, IdentityFields
    <3> HIDE DEF before
    <3>2. WithBinding(before, b) = id
      BY <3>1, WithBindingFields, Zenon
    <3> QED
      BY <3>2 DEF before
  <2>3. BoundTo(Entry(r, g), Entry(m, h)) = [signature |-> sig, identity |-> id]
    BY <2>1, <2>2, Zenon DEF BoundTo
  <2>4. Entry(w, v) = [signature |-> sig, identity |-> id]
    BY <1>4, <1>5 DEF Entry
  <2> QED
    BY <2>3, <2>4, Zenon
<1> QED
  BY <1>14, <1>15 DEF w, v, b

-----------------------------------------------------------------------------
(***************************************************************************)
(* The invariant is inductive.                                              *)
(***************************************************************************)

\* The invariant holds before the first call.
LEMMA ApiInitInv == ApiInit => ApiInv
<1> SUFFICES ASSUME ApiInit PROVE ApiInv
  OBVIOUS
<1>1. Held = {} /\ DOMAIN origin = {}
  BY DEF ApiInit, Held
<1>2. Accounts({}, {})
  BY <1>1 DEF Accounts, MadeCaveats, Ledger
<1> QED
  BY <1>1, <1>2, LimitsAssumption DEF ApiInit, ApiInv

\* Every call that makes or changes a macaroon ends in Assign.
LEMMA AssignKeeps ==
  ASSUME ApiInv, NEW L, NEW C, Accounts(L, C),
         NEW D, C \subseteq D, MadeCaveats(D, nonces'), nonces' \in 0..calls',
         NEW s \in Slot, NEW m, NEW h, Assign(s, m, h),
         MadeMacaroon(m, h, D), MadeFrom(Entry(m, h), L, D)
  PROVE  ApiInv'
<1> DEFINE M == L \cup {Entry(m, h)}
<1>1. /\ Held' = Held \cup {s} /\ DOMAIN origin' = Held'
      /\ macaroon'[s] = m /\ origin'[s] = h
      /\ \A t \in Held' : t # s => /\ t \in Held
                                   /\ macaroon'[t] = macaroon[t]
                                   /\ origin'[t] = origin[t]
  BY DEF Assign, Held, ApiInv
<1>2. calls' \in 0..MaxCalls /\ result' = "Ok"
  BY LimitsAssumption DEF Assign, ApiInv
<1>3. Ledger(M, D)
  BY LedgerGrows DEF Accounts
<1>4. ASSUME NEW t \in Held'
      PROVE  MadeMacaroon(macaroon'[t], origin'[t], D)
               /\ Entry(macaroon'[t], origin'[t]) \in M
  <2>1. CASE t = s
    BY <1>1, <2>1
  <2>2. CASE t # s
    <3>1. /\ MadeMacaroon(macaroon[t], origin[t], C)
          /\ Entry(macaroon[t], origin[t]) \in L
          /\ macaroon'[t] = macaroon[t] /\ origin'[t] = origin[t]
      BY <1>1, <1>4, <2>2 DEF Accounts
    <3>2. MadeMacaroon(macaroon[t], origin[t], D)
      BY <3>1, MadeMacaroonGrows
    <3> QED
      BY <3>1, <3>2
  <2> QED
    BY <2>1, <2>2
<1> HIDE DEF M
<1>5. Accounts(M, D)'
  BY <1>3, <1>4 DEF Accounts
<1> QED
  BY <1>1, <1>5, <1>2 DEF ApiInv

\* Every call preserves the invariant.
LEMMA ApiNextInv ==
  ASSUME ApiInv, ApiNext
  PROVE  ApiInv'
<1>1. PICK L, C : Accounts(L, C)
  BY DEF ApiInv
<1>2. /\ calls \in 0..MaxCalls /\ nonces \in 0..calls
      /\ Held \subseteq Slot /\ DOMAIN origin = Held
      /\ MadeCaveats(C, nonces) /\ Ledger(L, C)
      /\ calls \in Nat /\ nonces \in Nat
  BY <1>1, LimitsAssumption DEF ApiInv, Accounts
<1>3. ASSUME NEW s \in Held
      PROVE  /\ s \in Slot
             /\ MadeMacaroon(macaroon[s], origin[s], C)
             /\ Entry(macaroon[s], origin[s]) \in L
             /\ DOMAIN macaroon[s] = MacaroonFields
             /\ DOMAIN origin[s] = HistoryFields
  BY <1>1, <1>2 DEF Accounts, MadeMacaroon
<1>4. ASSUME NEW error \in ApiErrors, Err(error) PROVE ApiInv'
  BY <1>4 DEF Err, ApiInv, Accounts, Held
<1>5. ASSUME NEW s \in Slot, NEW m, NEW h, Assign(s, m, h), UNCHANGED nonces
      PROVE  MadeCaveats(C, nonces') /\ nonces' \in 0..calls'
  BY <1>2, <1>5 DEF Assign
<1>6. ASSUME NEW s \in Slot, NEW secret \in Secret, NEW identifier \in Text,
             NEW location \in Location \cup {NoLocation},
             create(s, location, secret, identifier)
      PROVE  ApiInv'
  <2> DEFINE m == New(location, Key(secret), identifier)
             h == [secret |-> secret, bindings |-> << >>]
  <2>1. CASE Err("FieldTooLarge") \/ Err("IncompleteMacaroon")
    BY <1>4, <2>1 DEF ApiErrors
  <2>2. CASE /\ ~TooLarge(identifier)
             /\ location # NoLocation => ~TooLarge(location)
             /\ Size(identifier) # 0
             /\ Assign(s, m, h)
             /\ UNCHANGED nonces
    <3>1. MadeMacaroon(m, h, C) /\ Entry(m, h) = Minted(secret, identifier)
      BY <2>2, NewMade
    <3>2. MadeFrom(Entry(m, h), L, C)
      BY <3>1, Zenon DEF MadeFrom
    <3>3. MadeCaveats(C, nonces') /\ nonces' \in 0..calls'
      BY <1>5, <2>2
    <3> HIDE DEF m, h
    <3> QED
      BY <1>1, <2>2, <3>1, <3>2, <3>3, AssignKeeps
  <2> QED
    BY <1>6, <2>1, <2>2 DEF create
<1>7. ASSUME NEW s \in Held, NEW predicate \in Text,
             add_first_party_caveat(s, predicate)
      PROVE  ApiInv'
  <2> DEFINE c == FirstParty(predicate)
             m == WithCaveat(macaroon[s], c)
             D == C \cup {c}
  <2>1. CASE Err("FieldTooLarge") \/ Err("TooManyCaveats")
    BY <1>4, <2>1 DEF ApiErrors
  <2>2. CASE /\ ~TooLarge(predicate)
             /\ check_caveat_capacity(macaroon[s])
             /\ Assign(s, m, origin[s])
             /\ UNCHANGED nonces
    <3>1. MadeCaveat(c, nonces) /\ ~IsThirdParty(c)
      BY <2>2 DEF MadeCaveat, IsThirdParty, FirstParty
    <3> HIDE DEF c
    <3>2. MadeCaveats(D, nonces)
      BY <1>2, <3>1, MoreCaveats
    <3>3. MadeMacaroon(macaroon[s], origin[s], D)
      BY <1>3, MadeMacaroonGrows
    <3>4. /\ MadeMacaroon(m, origin[s], D)
          /\ Entry(m, origin[s]) = Attenuated(Entry(macaroon[s], origin[s]), c)
      BY <2>2, <3>1, <3>3, WithCaveatMade DEF check_caveat_capacity
    <3>5. MadeFrom(Entry(m, origin[s]), L, D)
      BY <1>3, <3>4, Zenon DEF MadeFrom
    <3>6. nonces' = nonces /\ nonces' \in 0..calls'
      BY <1>3, <1>5, <2>2
    <3> HIDE DEF m
    <3> QED
      BY <1>1, <1>3, <2>2, <3>2, <3>4, <3>5, <3>6, AssignKeeps
  <2> QED
    BY <1>7, <2>1, <2>2 DEF add_first_party_caveat
<1>8. ASSUME NEW s \in Held, NEW secret \in Secret, NEW id \in Text,
             NEW location \in Location,
             add_third_party_caveat(s, location, secret, id)
      PROVE  ApiInv'
  <2> DEFINE c == NewThirdParty(macaroon[s], location, Key(secret), id, nonces)
             m == WithCaveat(macaroon[s], c)
             D == C \cup {c}
  <2>1. CASE \/ Err("FieldTooLarge") \/ Err("TooManyCaveats") \/ Err("RngError")
    BY <1>4, <2>1 DEF ApiErrors
  <2>2. CASE /\ ~TooLarge(id) /\ ~TooLarge(location)
             /\ check_caveat_capacity(macaroon[s])
             /\ nonces' = nonces + 1
             /\ Assign(s, m, origin[s])
    <3>1. nonces' = nonces + 1 /\ nonces' \in 0..calls' /\ nonces' \in Nat
      BY <1>2, <2>2 DEF Assign
    <3>2. MadeCaveat(c, nonces')
      <4> DEFINE sealed == encrypt_key(macaroon[s].signature, Key(secret), nonces)
      <4>1. sealed.plaintext = Key(secret) /\ sealed.nonce = nonces
        BY DEF encrypt_key
      <4>2. Key(secret) \in CallerKey /\ nonces \in 0..(nonces' - 1)
        BY <1>2, <3>1 DEF CallerKey
      <4>3. c = ThirdParty(id, sealed, location)
        BY DEF NewThirdParty
      <4> HIDE DEF sealed, c
      <4> QED
        BY <2>2, <4>1, <4>2, <4>3, Zenon DEF MadeCaveat
    <3>3. c.verifier_id.nonce = nonces /\ c.verifier_id.key = macaroon[s].signature
      BY DEF NewThirdParty, encrypt_key, ThirdParty
    <3> HIDE DEF c
    <3>4. MadeCaveats(D, nonces')
      <4>1. nonces <= nonces' /\ c.verifier_id.nonce >= nonces
        BY <1>2, <3>1, <3>3
      <4> QED
        BY <1>2, <3>1, <3>2, <4>1, MoreCaveats
    <3>5. MadeMacaroon(macaroon[s], origin[s], D)
      BY <1>3, MadeMacaroonGrows
    <3>6. /\ MadeMacaroon(m, origin[s], D)
          /\ Entry(m, origin[s]) = Attenuated(Entry(macaroon[s], origin[s]), c)
      BY <2>2, <3>2, <3>3, <3>5, WithCaveatMade DEF check_caveat_capacity
    <3>7. MadeFrom(Entry(m, origin[s]), L, D)
      BY <1>3, <3>6, Zenon DEF MadeFrom
    <3> HIDE DEF m
    <3> QED
      BY <1>1, <1>3, <2>2, <3>1, <3>4, <3>6, <3>7, AssignKeeps
  <2> QED
    BY <1>8, <2>1, <2>2 DEF add_third_party_caveat
<1>9. ASSUME NEW root \in Held, NEW discharge \in Held, bind(root, discharge)
      PROVE  ApiInv'
  <2> DEFINE m == Bound(macaroon[root], macaroon[discharge])
             h == BoundHistory(macaroon[root], origin[root],
                               macaroon[discharge], origin[discharge])
  <2>1. Entry(macaroon[root], origin[root]).identity = Identity(root)
    BY DEF Entry, Identity
  <2>2. Assign(discharge, m, h) /\ UNCHANGED nonces
    BY <1>9, <2>1 DEF bind, BoundHistory
  <2>3. /\ MadeMacaroon(m, h, C)
        /\ Entry(m, h) = BoundTo(Entry(macaroon[root], origin[root]),
                                 Entry(macaroon[discharge], origin[discharge]))
    BY <1>3, BoundMade
  <2>4. MadeFrom(Entry(m, h), L, C)
    BY <1>3, <2>3, Zenon DEF MadeFrom
  <2>5. MadeCaveats(C, nonces') /\ nonces' \in 0..calls'
    BY <1>3, <1>5, <2>2
  <2> HIDE DEF m, h
  <2> QED
    BY <1>1, <1>3, <2>2, <2>3, <2>4, <2>5, AssignKeeps
<1>10. ASSUME NEW from \in Held, NEW to \in Slot, clone(from, to)
       PROVE  ApiInv'
  <2>1. Assign(to, macaroon[from], origin[from]) /\ UNCHANGED nonces
    BY <1>10 DEF clone
  <2>2. MadeCaveats(C, nonces') /\ nonces' \in 0..calls'
    BY <1>5, <2>1
  <2>3. MadeFrom(Entry(macaroon[from], origin[from]), L, C)
    BY <1>2, <1>3 DEF Ledger
  <2> QED
    BY <1>1, <1>3, <2>1, <2>2, <2>3, AssignKeeps
<1> QED
  BY <1>6, <1>7, <1>8, <1>9, <1>10 DEF ApiNext

\* The invariant holds in every reachable state.
THEOREM ApiInvariantHolds == ApiSpec => []ApiInv
<1>1. ApiInv /\ UNCHANGED apiVars => ApiInv'
  BY DEF apiVars, ApiInv, Accounts, Held
<1> QED
  BY <1>1, ApiInitInv, ApiNextInv, PTL DEF ApiSpec

-----------------------------------------------------------------------------
(***************************************************************************)
(* What the invariant says of the properties that TLC checks.               *)
(***************************************************************************)

\* What the accounts say of one macaroon.
LEMMA HeldFacts ==
  ASSUME ApiInv
  PROVE  \E L, C : /\ MadeCaveats(C, nonces) /\ Ledger(L, C)
                   /\ \A s \in Held : /\ MadeMacaroon(macaroon[s], origin[s], C)
                                      /\ Entry(macaroon[s], origin[s]) \in L
BY DEF ApiInv, Accounts

\* ApiTypeOK: the program's state is of its types.
THEOREM ApiTypeCorrect == ApiSpec => []ApiTypeOK
<1>1. ASSUME ApiInv PROVE ApiTypeOK
  <2>1. PICK L, C : /\ MadeCaveats(C, nonces)
                    /\ \A s \in Held : MadeMacaroon(macaroon[s], origin[s], C)
    BY <1>1, HeldFacts
  <2>2. ASSUME NEW s \in Held, NEW i \in 1..Len(macaroon[s].caveats)
        PROVE  LET c == macaroon[s].caveats[i]
               IN  IF IsFirstParty(c)
                     THEN c.predicate \in Text
                     ELSE c.id \in Text /\ c.location \in Location
                            /\ c.verifier_id.plaintext \in CallerKey
    <3> DEFINE c == macaroon[s].caveats[i]
    <3>1. c \in C
      BY <2>1, MadeMacaroonFacts
    <3>2. MadeCaveat(c, nonces)
      BY <2>1, <3>1 DEF MadeCaveats
    <3> QED
      BY <3>2, CaveatFacts
  <2>3. ASSUME NEW s \in Held
        PROVE  /\ macaroon[s].identifier \in Text
               /\ macaroon[s].location \in Location \cup {NoLocation}
               /\ origin[s].secret \in Secret
    BY <2>1 DEF MadeMacaroon
  <2>4. /\ calls \in 0..MaxCalls /\ nonces \in 0..calls
        /\ result \in ApiErrors \cup {"Ok"}
        /\ Held \subseteq Slot /\ DOMAIN origin = Held
    BY <1>1 DEF ApiInv
  <2> QED
    BY <2>2, <2>3, <2>4, Zenon DEF ApiTypeOK
<1> QED
  BY <1>1, ApiInvariantHolds, PTL

\* WithinLimits: no sequence of calls makes a macaroon that is over the limits.
THEOREM LimitsRespected == ApiSpec => []WithinLimits
<1>1. ASSUME ApiInv PROVE WithinLimits
  <2>1. PICK L, C : /\ MadeCaveats(C, nonces)
                    /\ \A s \in Held : MadeMacaroon(macaroon[s], origin[s], C)
    BY <1>1, HeldFacts
  <2>2. ASSUME NEW s \in Held, NEW i \in 1..Len(macaroon[s].caveats)
        PROVE  LET c == macaroon[s].caveats[i]
               IN  IF IsFirstParty(c)
                     THEN ~TooLarge(c.predicate)
                     ELSE ~TooLarge(c.id) /\ ~TooLarge(c.location)
    <3> DEFINE c == macaroon[s].caveats[i]
    <3>1. c \in C
      BY <2>1, MadeMacaroonFacts
    <3>2. MadeCaveat(c, nonces)
      BY <2>1, <3>1 DEF MadeCaveats
    <3> QED
      BY <3>2, CaveatFacts
  <2>3. ASSUME NEW s \in Held
        PROVE  LET m == macaroon[s]
               IN  /\ Size(m.identifier) \in 1..MAX_FIELD_SIZE_BYTES
                   /\ m.location # NoLocation => ~TooLarge(m.location)
                   /\ Len(m.caveats) <= MAX_CAVEATS
    <3>1. /\ macaroon[s].identifier \in Text
          /\ ~TooLarge(macaroon[s].identifier)
          /\ Size(macaroon[s].identifier) # 0
          /\ macaroon[s].location # NoLocation => ~TooLarge(macaroon[s].location)
          /\ Len(macaroon[s].caveats) <= MAX_CAVEATS
      BY <2>1 DEF MadeMacaroon
    <3>2. Size(macaroon[s].identifier) \in Nat /\ MAX_FIELD_SIZE_BYTES \in Nat
      BY <3>1, LimitsAssumption
    <3>3. Size(macaroon[s].identifier) \in 1..MAX_FIELD_SIZE_BYTES
      BY <3>1, <3>2 DEF TooLarge
    <3> QED
      BY <3>1, <3>3
  <2> QED
    BY <2>2, <2>3, Zenon DEF WithinLimits
<1> QED
  BY <1>1, ApiInvariantHolds, PTL

\* KeysOpenInOrder: a holder of the secret opens the caveat keys in order, up
\* to the first caveat that was added after a binding and none from there on.
THEOREM CaveatKeysOpen == ApiSpec => []KeysOpenInOrder
<1>1. ASSUME ApiInv PROVE KeysOpenInOrder
  <2>1. PICK C : \A s \in Held : MadeMacaroon(macaroon[s], origin[s], C)
    BY <1>1, HeldFacts
  <2> SUFFICES ASSUME NEW s \in Held, NEW i \in ThirdPartyIndices(macaroon[s])
               PROVE  i <= Unbound(s) <=>
                        Decrypts(ChainSignature(Key(origin[s].secret),
                                                macaroon[s], i - 1),
                                 macaroon[s].caveats[i].verifier_id)
    BY DEF KeysOpenInOrder
  <2> DEFINE link == ChainSignature(Key(origin[s].secret), macaroon[s], i - 1)
             sealedUnder == macaroon[s].caveats[i].verifier_id.key
  <2>2. MadeMacaroon(macaroon[s], origin[s], C)
    BY <2>1
  <2>3. Unbound(s) = UnboundOf(macaroon[s], origin[s])
    BY DEF Unbound, Bindings, UnboundOf
  <2>4. /\ i <= Unbound(s) => sealedUnder = link
        /\ i > Unbound(s) => sealedUnder.secret = ZeroSecret
        /\ origin[s].secret \in Secret
    BY <2>2, <2>3 DEF MadeMacaroon, Chained
  <2>5. link.secret = origin[s].secret
    BY DEF ChainSignature, Key
  <2>6. i \in Nat /\ Unbound(s) \in Nat
    BY <2>2, <2>3, MadeMacaroonFacts DEF ThirdPartyIndices
  <2> HIDE DEF link, sealedUnder
  <2>7. i > Unbound(s) => sealedUnder # link
    BY <2>4, <2>5, SecretAssumption
  <2> QED
    BY <2>4, <2>6, <2>7 DEF Decrypts, link, sealedUnder
<1> QED
  BY <1>1, ApiInvariantHolds, PTL

\* SignatureIsChainUntilBound: the signature is the full chain of the secret
\* exactly while the macaroon was never bound.
THEOREM ChainUntilBound == ApiSpec => []SignatureIsChainUntilBound
<1>1. ASSUME ApiInv PROVE SignatureIsChainUntilBound
  <2>1. PICK C : \A s \in Held : MadeMacaroon(macaroon[s], origin[s], C)
    BY <1>1, HeldFacts
  <2> SUFFICES ASSUME NEW s \in Held
               PROVE  Bindings(s) = << >> <=>
                        macaroon[s].signature =
                          FullSignature(Key(origin[s].secret), macaroon[s])
    BY DEF SignatureIsChainUntilBound
  <2>2. /\ origin[s].secret \in Secret
        /\ Bindings(s) = << >> => macaroon[s].signature =
                                    FullSignature(Key(origin[s].secret), macaroon[s])
        /\ Bindings(s) # << >> => macaroon[s].signature.secret = ZeroSecret
    BY <2>1 DEF MadeMacaroon, Chained, Bindings
  <2>3. FullSignature(Key(origin[s].secret), macaroon[s]).secret = origin[s].secret
    BY DEF FullSignature, ChainSignature, Key
  <2> QED
    BY <2>2, <2>3, SecretAssumption
<1> QED
  BY <1>1, ApiInvariantHolds, PTL

\* SignatureTellsHistory: two macaroons of the program with one signature have
\* the same secret, identifier, caveats and bindings.
THEOREM SignaturesTellHistory == ApiSpec => []SignatureTellsHistory
<1>1. ASSUME ApiInv PROVE SignatureTellsHistory
  <2>1. PICK L, C : Ledger(L, C)
                    /\ \A s \in Held : Entry(macaroon[s], origin[s]) \in L
    BY <1>1, HeldFacts
  <2>2. ASSUME NEW s \in Held
        PROVE  /\ Entry(macaroon[s], origin[s]).signature = macaroon[s].signature
               /\ Entry(macaroon[s], origin[s]).identity = Identity(s)
    BY DEF Entry, Identity
  <2>3. \A x, y \in L : x.signature = y.signature => x.identity = y.identity
    BY <2>1 DEF Ledger
  <2> QED
    BY <2>1, <2>2, <2>3 DEF SignatureTellsHistory
<1> QED
  BY <1>1, ApiInvariantHolds, PTL


\* The verifier, with what is proved about it.  Its arguments come from the
\* program's variables instead of a set of given macaroons.
P == INSTANCE VerifierProofs WITH
       Token <- {}, General <- {}, MaxGeneral <- 0, MaxTime <- 0

-----------------------------------------------------------------------------
(***************************************************************************)
(* The operators of the instances are those of this module.                 *)
(***************************************************************************)
LEMMA SameSteps ==
  /\ V!Init <=> P!Init
  /\ V!Step <=> P!Step
  /\ V!Return <=> P!Return
  /\ \A p : V!satisfy_exact(p) <=> P!satisfy_exact(p)
  /\ \A c : V!verify(c) <=> P!verify(c)
  /\ V!Errors = P!Errors
BY DEF
  V!Key, V!CallerKey, V!MACed, V!hmac, V!hmac2, V!Decrypts, V!decrypt_key,
  V!IsFirstParty, V!IsThirdParty, V!sign, V!BoundSignature, V!Discharges,
  V!Mac, V!CaveatAt, V!DistinctIdentifiers, V!config, V!NoCall, V!NoFrames,
  V!Errors, V!satisfy_exact, V!verify, V!Frame, V!Fail, V!CollectDischarges,
  V!frame, V!AtCaveat, V!caveat, V!AtFirstParty, V!AtThirdParty, V!Signed,
  V!Satisfy, V!ExactMatch, V!GeneralMatch, V!GeneralMismatch, V!NotSatisfied,
  V!CannotDecrypt, V!Found, V!NoDischarge, V!TooDeep, V!Discharge, V!AtEnd,
  V!SignatureHolds, V!BadSignature, V!ReturnToParent, V!FinishRoot, V!Return,
  V!verify_with_sig, V!Step, V!Init,
  P!Key, P!CallerKey, P!MACed, P!hmac, P!hmac2, P!Decrypts, P!decrypt_key,
  P!IsFirstParty, P!IsThirdParty, P!sign, P!BoundSignature, P!Discharges,
  P!Mac, P!CaveatAt, P!DistinctIdentifiers, P!config, P!NoCall, P!NoFrames,
  P!Errors, P!satisfy_exact, P!verify, P!Frame, P!Fail, P!CollectDischarges,
  P!frame, P!AtCaveat, P!caveat, P!AtFirstParty, P!AtThirdParty, P!Signed,
  P!Satisfy, P!ExactMatch, P!GeneralMatch, P!GeneralMismatch, P!NotSatisfied,
  P!CannotDecrypt, P!Found, P!NoDischarge, P!TooDeep, P!Discharge, P!AtEnd,
  P!SignatureHolds, P!BadSignature, P!ReturnToParent, P!FinishRoot, P!Return,
  P!verify_with_sig, P!Step, P!Init

\* What authorizes a macaroon does not depend on which instance says so.
LEMMA SameAuthorization ==
  /\ \A c, D, Q : P!AuthorizedBy(c, D, Q) <=> AuthorizedBy(c, D, Q)
  /\ \A c, Q : P!Authorized(c, Q) <=> Authorized(c, Q)
  /\ \A c, e, g, t :
       /\ P!SatisfiedAtSomeTime(c, e, g, t) = SatisfiedAtSomeTime(c, e, g, t)
       /\ P!SatisfiedAllAlong(c, e, g, t) = SatisfiedAllAlong(c, e, g, t)
  /\ \A c : P!Discharges(c) = Discharges(c) /\ P!Nodes(c) = Nodes(c)
  /\ \A c, n : P!Mac(c, n) = Mac(c, n)
BY DEF
  Key, CallerKey, MACed, hmac, hmac2, Decrypts, IsFirstParty, IsThirdParty,
  ThirdPartyIndices, FirstPartyPredicates, BoundSignature, CaveatText,
  ChainSignature, FullSignature, Discharges, Nodes, Mac, Pointers, CaveatAt,
  DistinctIdentifiers, OneDischargeEach, Nested, KeyOf, KeysOpen,
  SignaturesHold, AuthorizedBy, Authorized, PredicatesOf,
  SatisfiedAtSomeTime, SatisfiedAllAlong,
  P!Key, P!CallerKey, P!MACed, P!hmac, P!hmac2, P!Decrypts, P!IsFirstParty,
  P!IsThirdParty, P!ThirdPartyIndices, P!FirstPartyPredicates,
  P!BoundSignature, P!CaveatText, P!ChainSignature, P!FullSignature,
  P!Discharges, P!Nodes, P!Mac, P!Pointers, P!CaveatAt,
  P!DistinctIdentifiers, P!OneDischargeEach, P!Nested, P!KeyOf, P!KeysOpen,
  P!SignaturesHold, P!AuthorizedBy, P!Authorized, P!PredicatesOf,
  P!SatisfiedAtSomeTime, P!SatisfiedAllAlong

\* What is proved of the verifier holds of the verifier in the program.
LEMMA VerifierNext ==
  ASSUME P!VerifierInv, P!CompleteInv,
         \/ P!Step
         \/ P!Return
         \/ \E p \in Exact : P!satisfy_exact(p)
         \/ UNCHANGED verifierVars
  PROVE  P!VerifierInv' /\ P!CompleteInv'
<1>1. [P!Next]_(P!vars)
  BY DEF P!Next, P!vars, verifierVars
<1>2. P!VerifierInv'
  BY <1>1, P!NextInv, DischargesAssumption, SecretAssumption, DepthAssumption
<1>3. P!CompleteInv'
  BY <1>1, P!CompleteNext, DischargesAssumption, SecretAssumption, DepthAssumption
<1> QED
  BY <1>2, <1>3

-----------------------------------------------------------------------------
(***************************************************************************)
(* What a signature that is bound to a root tells, by the ledger.           *)
(***************************************************************************)

\* The chain is a function of the identifier and the caveats.
LEMMA SameChain ==
  ASSUME NEW key, NEW m, NEW w, m.identifier = w.identifier, m.caveats = w.caveats
  PROVE  FullSignature(key, m) = FullSignature(key, w)
BY DEF FullSignature, ChainSignature

\* A binding, as secret and texts.
LEMMA BoundSignatureFields ==
  \A a, b : BoundSignature(a, b)
              = [secret |-> ZeroSecret, texts |-> << <<a, b>> >>]
BY DEF BoundSignature, hmac2, MACed, Key

\* A signature that is the binding of a full chain to the signature of r was
\* made by one bind, after the last caveat, to just the macaroon that r is.
LEMMA BindingTold ==
  ASSUME NEW L, NEW C, NEW n, MadeCaveats(C, n), Ledger(L, C),
         NEW x \in L, NEW r \in L, NEW s \in Secret, NEW m,
         x.signature = BoundSignature(r.signature, FullSignature(Key(s), m))
  PROVE  /\ x.identity.secret = s
         /\ x.identity.bindings
              = << [root |-> r.identity, at |-> Len(x.identity.caveats)] >>
<1> DEFINE F == FullSignature(Key(s), m)
<1>1. F.secret = s
  BY DEF FullSignature, ChainSignature, Key
<1> HIDE DEF F
<1>2. x.signature = [secret |-> ZeroSecret, texts |-> << <<r.signature, F>> >>]
  BY BoundSignatureFields DEF F
<1>3. /\ x.signature.secret = ZeroSecret /\ Len(x.signature.texts) = 1
      /\ x.signature.texts[1][1] = r.signature /\ x.signature.texts[1][2] = F
  BY <1>2
<1>4. MadeFrom(x, L, C)
  BY DEF Ledger
<1>5. ASSUME NEW secret \in Secret, NEW identifier \in Text,
             x = Minted(secret, identifier)
      PROVE  FALSE
  <2>1. x.signature = [secret |-> secret, texts |-> << <<identifier>> >>]
    BY <1>5, MintedSignature
  <2> QED
    BY <1>3, <2>1, SecretAssumption
<1>6. ASSUME NEW y \in L, NEW c \in C, x = Attenuated(y, c)
      PROVE  FALSE
  <2>1. WellFormed(y) /\ MadeCaveat(c, n)
    BY DEF Ledger, MadeCaveats
  <2>2. x.signature = [secret |-> y.signature.secret,
                       texts  |-> Append(y.signature.texts, CaveatText(c))]
    BY <1>6, <2>1, AttenuatedSignature
  <2>3. x.signature.texts = Append(y.signature.texts, CaveatText(c))
    BY <2>2
  <2> QED
    BY <1>3, <2>1, <2>3, AppendIsLonger DEF WellFormed
<1>7. ASSUME NEW q \in L, NEW y \in L, x = BoundTo(q, y)
      PROVE  /\ x.identity.secret = s
             /\ x.identity.bindings
                  = << [root |-> r.identity, at |-> Len(x.identity.caveats)] >>
  <2>1. WellFormed(y) /\ Lawful(y)
    BY DEF Ledger
  <2>2. x.signature = [secret |-> ZeroSecret,
                       texts  |-> << <<q.signature, y.signature>> >>]
    BY <1>7, BoundToSignature
  <2>3. /\ x.signature.texts[1][1] = q.signature
        /\ x.signature.texts[1][2] = y.signature
    BY <2>2
  <2>4. q.signature = r.signature /\ y.signature = F
    BY <1>3, <2>3
  <2>5. q.identity = r.identity
    BY <2>4 DEF Ledger
  <2>6. y.signature.secret = s /\ s # ZeroSecret
    BY <1>1, <2>4, SecretAssumption
  <2>7. y.identity.bindings = << >>
    BY <2>1, <2>6 DEF Lawful
  <2>8. y.signature = FullSignature(Key(y.identity.secret), y.identity)
    BY <2>1, <2>7 DEF Lawful
  <2>9. FullSignature(Key(y.identity.secret), y.identity).secret = y.identity.secret
    BY DEF FullSignature, ChainSignature, Key
  <2>10. y.identity.secret = s
    BY <2>6, <2>8, <2>9
  <2> DEFINE b == Binding(r.identity, y.identity)
  <2>11. x.identity = WithBinding(y.identity, b)
    BY <1>7, <2>5 DEF BoundTo
  <2>12. b = [root |-> r.identity, at |-> Len(y.identity.caveats)]
    BY DEF Binding
  <2> HIDE DEF b
  <2>13. x.identity = [identifier |-> y.identity.identifier,
                       caveats |-> y.identity.caveats,
                       secret |-> y.identity.secret,
                       bindings |-> Append(y.identity.bindings, b)]
    BY <2>1, <2>11, WithBindingFields DEF WellFormed
  <2>14. /\ x.identity.secret = s /\ x.identity.caveats = y.identity.caveats
         /\ x.identity.bindings = Append(<< >>, b)
    BY <2>7, <2>10, <2>13
  <2>15. Append(<< >>, b) = <<b>>
    OBVIOUS
  <2> QED
    BY <2>12, <2>14, <2>15
<1> QED
  BY <1>4, <1>5, <1>6, <1>7, Zenon DEF MadeFrom

\* A macaroon whose history is one bind, after the last caveat, to a macaroon
\* that was never bound, has the signature that verify wants.
LEMMA BindingTells ==
  ASSUME NEW L, NEW C, NEW n, MadeCaveats(C, n), Ledger(L, C),
         NEW x \in L, NEW r \in L, r.identity.bindings = << >>,
         Len(x.identity.bindings) = 1,
         x.identity.bindings[1].root = r.identity,
         x.identity.bindings[1].at = Len(x.identity.caveats)
  PROVE  x.signature = BoundSignature(r.signature,
                         FullSignature(Key(x.identity.secret), x.identity))
<1>1. MadeFrom(x, L, C) /\ \A y \in L : WellFormed(y) /\ Lawful(y)
  BY DEF Ledger
<1>2. ASSUME NEW secret \in Secret, NEW identifier \in Text,
             x = Minted(secret, identifier)
      PROVE  FALSE
  <2>1. x.identity.bindings = << >>
    BY <1>2 DEF Minted
  <2>2. Len(<< >>) = 0
    OBVIOUS
  <2> QED
    BY <2>1, <2>2
<1>3. ASSUME NEW y \in L, NEW c \in C, x = Attenuated(y, c)
      PROVE  FALSE
  <2>1. WellFormed(y) /\ Lawful(y)
    BY <1>1
  <2>2. x.identity = [identifier |-> y.identity.identifier,
                      caveats |-> Append(y.identity.caveats, c),
                      secret |-> y.identity.secret,
                      bindings |-> y.identity.bindings]
    BY <1>3, <2>1, WithOneMoreFields DEF Attenuated, WellFormed
  <2>3. /\ x.identity.caveats = Append(y.identity.caveats, c)
        /\ x.identity.bindings = y.identity.bindings
    BY <2>2
  <2>4. /\ Len(x.identity.caveats) = Len(y.identity.caveats) + 1
        /\ Len(y.identity.caveats) \in Nat
    BY <2>1, <2>3, AppendFacts DEF WellFormed
  <2>5. y.identity.bindings # << >>
    BY <2>3
  <2>6. y.identity.bindings[1].at \in 0..Len(y.identity.caveats)
    BY <2>1, <2>5 DEF Lawful
  <2> QED
    BY <2>3, <2>4, <2>6
<1>4. ASSUME NEW q \in L, NEW y \in L, x = BoundTo(q, y)
      PROVE  x.signature = BoundSignature(r.signature,
                             FullSignature(Key(x.identity.secret), x.identity))
  <2> DEFINE b == Binding(q.identity, y.identity)
  <2>1. WellFormed(y) /\ Lawful(y) /\ Lawful(q) /\ Lawful(r)
    BY <1>1
  <2>2. b.root = q.identity
    BY DEF Binding
  <2>3. x.identity = [identifier |-> y.identity.identifier,
                      caveats |-> y.identity.caveats,
                      secret |-> y.identity.secret,
                      bindings |-> Append(y.identity.bindings, b)]
    BY <1>4, <2>1, WithBindingFields DEF BoundTo, WellFormed
  <2> HIDE DEF b
  <2>4. /\ x.identity.identifier = y.identity.identifier
        /\ x.identity.caveats = y.identity.caveats
        /\ x.identity.secret = y.identity.secret
        /\ x.identity.bindings = Append(y.identity.bindings, b)
    BY <2>3
  <2>5. PICK S : y.identity.bindings \in Seq(S)
    BY <2>1 DEF WellFormed, IsSequence
  <2>6. Len(y.identity.bindings) = 0
    <3> DEFINE k == Len(y.identity.bindings)
    <3>1. Len(x.identity.bindings) = k + 1 /\ k \in Nat
      BY <2>1, <2>4, AppendFacts DEF WellFormed
    <3> HIDE DEF k
    <3>2. k + 1 = 1
      BY <3>1
    <3>3. k = 0
      BY <3>1, <3>2
    <3> QED
      BY <3>3 DEF k
  <2>7. y.identity.bindings = << >>
    BY <2>5, <2>6
  <2>8. x.identity.bindings[1] = b
    <3>1. Append(<< >>, b) = <<b>>
      OBVIOUS
    <3>2. x.identity.bindings = <<b>>
      BY <2>4, <2>7, <3>1
    <3> QED
      BY <3>2
  <2>9. q.identity = r.identity
    BY <2>2, <2>8
  <2>10. q.signature = r.signature
    BY <2>1, <2>9 DEF Lawful
  <2>11. y.signature = FullSignature(Key(y.identity.secret), y.identity)
    BY <2>1, <2>7 DEF Lawful
  <2>12. y.signature = FullSignature(Key(x.identity.secret), x.identity)
    BY <2>4, <2>11, SameChain
  <2>13. x.signature = BoundSignature(q.signature, y.signature)
    BY <1>4 DEF BoundTo
  <2> QED
    BY <2>10, <2>12, <2>13
<1> QED
  BY <1>1, <1>2, <1>3, <1>4, Zenon DEF MadeFrom

-----------------------------------------------------------------------------
(***************************************************************************)
(* A call of verify on macaroons that the program holds.                    *)
(***************************************************************************)

\* The slots of a call hold its macaroons for as long as it runs.
SlotsOK ==
  outcome # "Idle" =>
    \A n \in Nodes(call) : slots[n] \in Held /\ Mac(call, n) = macaroon[slots[n]]

\* What the program holds, verify may be given.
LEMMA HeldTokens ==
  ASSUME ApiInv, NEW s \in Held
  PROVE  P!IsToken(macaroon[s])
<1>1. PICK L, C : /\ MadeCaveats(C, nonces) /\ Ledger(L, C)
                  /\ \A t \in Held : /\ MadeMacaroon(macaroon[t], origin[t], C)
                                     /\ Entry(macaroon[t], origin[t]) \in L
  BY HeldFacts
<1> DEFINE m == macaroon[s]
<1>2. MadeMacaroon(m, origin[s], C) /\ Lawful(Entry(m, origin[s]))
  BY <1>1 DEF Ledger
<1>3. /\ Len(m.caveats) \in Nat
      /\ \A i \in 1..Len(m.caveats) : MadeCaveat(m.caveats[i], nonces)
  BY <1>1, <1>2, MadeMacaroonFacts DEF MadeCaveats
<1>4. ASSUME NEW i \in 1..Len(m.caveats)
      PROVE  \/ IsFirstParty(m.caveats[i])
             \/ /\ IsThirdParty(m.caveats[i])
                /\ m.caveats[i].verifier_id.plaintext \in CallerKey
  BY <1>3, CaveatFacts
<1>5. Len(m.signature.texts) = 1 /\ Len(m.signature.texts[1]) = 2
        => m.signature.texts[1][1] # m.signature
  BY <1>2 DEF Lawful, Entry
<1> HIDE DEF m
<1>6. P!IsToken(m)
  BY <1>3, <1>4, <1>5 DEF P!IsToken, P!IsFirstParty, P!IsThirdParty, P!CallerKey,
     P!Key, IsFirstParty, IsThirdParty, CallerKey, Key
<1> QED
  BY <1>6 DEF m

\* The arguments that Verify makes of its choice of slots.
LEMMA CallOfSlots ==
  ASSUME ApiInv, NEW k \in 0..MaxDischarges, NEW choice \in [0..k -> Held],
         NEW key \in CallerKey
  PROVE  LET c == CallOf(choice, k, key)
         IN  /\ P!IsCall(c)
             /\ \A n \in Nodes(c) : /\ choice[n] \in Held
                                    /\ Mac(c, n) = macaroon[choice[n]]
<1> DEFINE c == CallOf(choice, k, key)
           T == { macaroon[s] : s \in Held }
<1>1. k \in Nat
  BY DischargesAssumption
<1>2. \A n \in 0..k : choice[n] \in Held
  OBVIOUS
<1>3. /\ c.key = key /\ c.root = macaroon[choice[0]]
      /\ c.discharges = [d \in 1..k |-> macaroon[choice[d]]]
  BY DEF CallOf
<1> HIDE DEF c
<1>4. c.discharges \in Seq(T) /\ Len(c.discharges) = k
  BY <1>1, <1>2, <1>3
<1>5. Nodes(c) = 0..k
  BY <1>1, <1>4 DEF Nodes, Discharges
<1>6. \A n \in Nodes(c) : choice[n] \in Held /\ Mac(c, n) = macaroon[choice[n]]
  BY <1>1, <1>2, <1>3, <1>5 DEF Mac
<1>7. P!IsCall(c)
  <2>1. \A n \in Nodes(c) : P!IsToken(Mac(c, n))
    BY <1>6, HeldTokens
  <2>2. \A n \in P!Nodes(c) : P!IsToken(P!Mac(c, n))
    BY <2>1, SameAuthorization
  <2>3. c.key \in P!CallerKey
    BY <1>3 DEF CallerKey, Key, P!CallerKey, P!Key
  <2> QED
    BY <1>1, <1>4, <2>2, <2>3 DEF P!IsCall
<1> QED
  BY <1>6, <1>7 DEF c

\* What the ledger knows of the macaroons of a call.
LEMMA CallLedger ==
  ASSUME ApiInv, SlotsOK, outcome # "Idle"
  PROVE  \E L, C :
           /\ MadeCaveats(C, nonces) /\ Ledger(L, C)
           /\ \A n \in Nodes(call) :
                /\ slots[n] \in Held
                /\ Mac(call, n) = macaroon[slots[n]]
                /\ MadeMacaroon(macaroon[slots[n]], History(n), C)
                /\ Entry(macaroon[slots[n]], History(n)) \in L
<1>1. PICK L, C : /\ MadeCaveats(C, nonces) /\ Ledger(L, C)
                  /\ \A t \in Held : /\ MadeMacaroon(macaroon[t], origin[t], C)
                                     /\ Entry(macaroon[t], origin[t]) \in L
  BY HeldFacts
<1>2. \A n \in Nodes(call) : slots[n] \in Held /\ Mac(call, n) = macaroon[slots[n]]
  BY DEF SlotsOK
<1> QED
  BY <1>1, <1>2 DEF History

\* The entry of a macaroon of the call is its signature and its identity.
LEMMA EntryOfSlot ==
  \A s : /\ Entry(macaroon[s], origin[s]).identity = Identity(s)
         /\ Entry(macaroon[s], origin[s]).signature = macaroon[s].signature
BY DEF Entry, Identity

-----------------------------------------------------------------------------
\* Signatures that authorize a call were made by rightful histories.
LEMMA AuthorizedIsRightful ==
  ASSUME ApiInv, SlotsOK, outcome # "Idle", P!IsCall(call),
         NEW Q, Q \subseteq exact, Authorized(call, Q)
  PROVE  Rightful
<1> DEFINE D == Discharges(call)
           M(n) == macaroon[slots[n]]
           x(n) == Entry(M(n), History(n))
<1>1. PICK L, C :
        /\ MadeCaveats(C, nonces) /\ Ledger(L, C)
        /\ \A n \in Nodes(call) :
             /\ Mac(call, n) = M(n) /\ MadeMacaroon(M(n), History(n), C) /\ x(n) \in L
  BY CallLedger
<1>2. /\ \A n : x(n).identity = Identity(slots[n]) /\ x(n).signature = M(n).signature
      /\ \A n : /\ Identity(slots[n]).secret = History(n).secret
                /\ Identity(slots[n]).bindings = History(n).bindings
                /\ Identity(slots[n]).caveats = M(n).caveats
  BY EntryOfSlot DEF History, Identity
<1> HIDE DEF M, x
<1>3. /\ 0 \in Nodes(call) /\ call.root = M(0) /\ call.key \in CallerKey
      /\ \A d \in D : d \in Nodes(call) /\ d # 0 /\ call.discharges[d] = M(d)
  <2>1. call.key \in CallerKey
    BY DEF P!IsCall, P!CallerKey, P!Key, CallerKey, Key
  <2>2. \A d \in D : d # 0
    BY DEF Discharges
  <2> QED
    BY <1>1, <2>1, <2>2 DEF Nodes, Mac
<1>4. PICK from \in [D -> Pointers(call, D)] :
        /\ OneDischargeEach(call, D, from)
        /\ Nested(D, from)
        /\ KeysOpen(call, D, from)
        /\ SignaturesHold(call, D, from)
  BY DEF Authorized, AuthorizedBy
<1>5. PICK k \in Secret : call.key = Key(k)
  BY <1>3 DEF CallerKey
<1>6. History(0).bindings = << >> /\ call.key = Key(History(0).secret)
  <2>1. M(0).signature = FullSignature(Key(k), M(0))
    BY <1>3, <1>4, <1>5 DEF SignaturesHold
  <2>2. \A s, m : FullSignature(Key(s), m).secret = s
    BY DEF FullSignature, ChainSignature, Key
  <2>3. M(0).signature.secret = k /\ k # ZeroSecret
    BY <2>1, <2>2, SecretAssumption
  <2>4. Chained(M(0), History(0))
    BY <1>1, <1>3 DEF MadeMacaroon
  <2>5. History(0).bindings = << >>
    BY <2>3, <2>4 DEF Chained
  <2>6. M(0).signature = FullSignature(Key(History(0).secret), M(0))
    BY <2>4, <2>5 DEF Chained
  <2>7. History(0).secret = k
    BY <2>2, <2>3, <2>6
  <2> QED
    BY <1>5, <2>5, <2>7
<1>7. ASSUME NEW d \in D
      PROVE  BoundToRoot(d) /\ AskedFor(from, d)
  <2> DEFINE c == CaveatAt(call, from[d])
  <2>1. PICK n, j : /\ n \in Nodes(call) /\ j \in ThirdPartyIndices(Mac(call, n))
                    /\ from[d] = <<n, j>>
    <3>1. from[d] \in Pointers(call, D)
      BY <1>4
    <3> QED
      BY <3>1 DEF Pointers, Nodes
  <2>2. /\ j \in 1..Len(M(n).caveats) /\ c = M(n).caveats[j] /\ IsThirdParty(c)
    BY <1>1, <2>1 DEF ThirdPartyIndices, CaveatAt
  <2> HIDE DEF c
  <2>3. c \in C
    BY <1>1, <2>1, <2>2, MadeMacaroonFacts
  <2>4. c.verifier_id.plaintext \in CallerKey
    BY <1>1, <2>2, <2>3, CaveatFacts DEF MadeCaveats
  <2>5. PICK s \in Secret : c.verifier_id.plaintext = Key(s)
    BY <2>4 DEF CallerKey
  <2>6. KeyOf(call, from, d) = Key(s)
    BY <1>3, <2>5 DEF KeyOf, c
  <2>7. call.discharges[d].signature
          = BoundSignature(call.root.signature,
                           FullSignature(KeyOf(call, from, d), call.discharges[d]))
    BY <1>4 DEF SignaturesHold
  <2>8. x(d).signature
          = BoundSignature(x(0).signature, FullSignature(Key(s), M(d)))
    BY <1>2, <1>3, <2>6, <2>7
  <2>9. x(d) \in L /\ x(0) \in L
    BY <1>1, <1>3
  <2>10. /\ x(d).identity.secret = s
         /\ x(d).identity.bindings
              = << [root |-> x(0).identity, at |-> Len(x(d).identity.caveats)] >>
    BY <1>1, <2>8, <2>9, BindingTold
  <2>11. /\ History(d).secret = s
         /\ History(d).bindings
              = << [root |-> Identity(slots[0]), at |-> Len(M(d).caveats)] >>
    BY <1>2, <2>10
  <2>12. BoundToRoot(d)
    BY <2>11 DEF BoundToRoot, M
  <2>13. c.id = call.discharges[d].identifier
    BY <1>4 DEF OneDischargeEach, c
  <2>14. AskedFor(from, d)
    BY <1>3, <2>5, <2>11, <2>13 DEF AskedFor, M, c
  <2> QED
    BY <2>12, <2>14
<1>8. PredicatesOf(call) \subseteq exact
  BY DEF Authorized, AuthorizedBy, PredicatesOf, Nodes
<1>9. DistinctIdentifiers(call)
  BY DEF Authorized, AuthorizedBy
<1> QED
  BY <1>4, <1>6, <1>7, <1>8, <1>9 DEF Rightful

\* Rightful histories make signatures that authorize a call.
LEMMA RightfulIsAuthorized ==
  ASSUME ApiInv, SlotsOK, outcome # "Idle", P!IsCall(call), Rightful,
         NEW Q, PredicatesOf(call) \cap exact \subseteq Q
  PROVE  Authorized(call, Q)
<1> DEFINE D == Discharges(call)
           M(n) == macaroon[slots[n]]
           x(n) == Entry(M(n), History(n))
<1>1. PICK L, C :
        /\ MadeCaveats(C, nonces) /\ Ledger(L, C)
        /\ \A n \in Nodes(call) :
             /\ Mac(call, n) = M(n) /\ MadeMacaroon(M(n), History(n), C) /\ x(n) \in L
  BY CallLedger
<1>2. /\ \A n : x(n).identity = Identity(slots[n]) /\ x(n).signature = M(n).signature
      /\ \A n : /\ Identity(slots[n]).secret = History(n).secret
                /\ Identity(slots[n]).bindings = History(n).bindings
                /\ Identity(slots[n]).caveats = M(n).caveats
                /\ Identity(slots[n]).identifier = M(n).identifier
  BY EntryOfSlot DEF History, Identity
<1> HIDE DEF x
<1>3. /\ 0 \in Nodes(call) /\ call.root = M(0)
      /\ \A d \in D : d \in Nodes(call) /\ d # 0 /\ call.discharges[d] = M(d)
  <2>1. \A d \in D : d # 0
    BY DEF Discharges
  <2> QED
    BY <1>1, <2>1 DEF Nodes, Mac
<1>4. /\ call.key = Key(History(0).secret)
      /\ History(0).bindings = << >>
      /\ \A d \in D : BoundToRoot(d)
      /\ DistinctIdentifiers(call) /\ PredicatesOf(call) \subseteq exact
  BY DEF Rightful
<1>5. PICK from \in [D -> Pointers(call, D)] :
        /\ OneDischargeEach(call, D, from)
        /\ Nested(D, from)
        /\ \A d \in D : AskedFor(from, d)
  BY DEF Rightful
<1>6. \A d \in D : KeyOf(call, from, d) = Key(History(d).secret)
  BY <1>3, <1>5 DEF KeyOf, AskedFor
<1>7. \A n \in Nodes(call) : KeyOf(call, from, n) = Key(History(n).secret)
  BY <1>4, <1>6 DEF Nodes, KeyOf
<1>8. \A n \in Nodes(call) : UnboundOf(M(n), History(n)) = Len(M(n).caveats)
  <2> SUFFICES ASSUME NEW n \in Nodes(call)
               PROVE  UnboundOf(M(n), History(n)) = Len(M(n).caveats)
    OBVIOUS
  <2>1. CASE n = 0
    BY <1>4, <2>1 DEF UnboundOf
  <2>2. CASE n # 0
    <3>1. BoundToRoot(n)
      BY <1>4, <2>2 DEF Nodes
    <3>2. Len(History(n).bindings) = 1 /\ History(n).bindings[1].at = Len(M(n).caveats)
      BY <3>1 DEF BoundToRoot
    <3>3. History(n).bindings # << >>
      <4>1. Len(<< >>) # 1
        OBVIOUS
      <4> QED
        BY <3>2, <4>1
    <3> QED
      BY <3>2, <3>3 DEF UnboundOf
  <2> QED
    BY <2>1, <2>2
<1> HIDE DEF M
<1>9. KeysOpen(call, D, from)
  <2> SUFFICES ASSUME NEW d \in D
               PROVE  LET n == from[d][1]
                      IN  Decrypts(ChainSignature(KeyOf(call, from, n), Mac(call, n),
                                                  from[d][2] - 1),
                                   CaveatAt(call, from[d]).verifier_id)
    BY DEF KeysOpen
  <2>1. PICK n, j : /\ n \in Nodes(call) /\ j \in ThirdPartyIndices(Mac(call, n))
                    /\ from[d] = <<n, j>>
    <3>1. from[d] \in Pointers(call, D)
      BY <1>5
    <3> QED
      BY <3>1 DEF Pointers, Nodes
  <2>2. from[d][1] = n /\ from[d][2] = j /\ CaveatAt(call, from[d]) = M(n).caveats[j]
    BY <1>1, <2>1 DEF CaveatAt
  <2>3. Chained(M(n), History(n)) /\ j \in ThirdPartyIndices(M(n))
    BY <1>1, <2>1 DEF MadeMacaroon
  <2>4. j \in 1..Len(M(n).caveats) /\ Len(M(n).caveats) \in Nat
    BY <1>1, <2>1, <2>3, MadeMacaroonFacts DEF ThirdPartyIndices
  <2>5. j <= UnboundOf(M(n), History(n))
    BY <1>8, <2>1, <2>4
  <2>6. M(n).caveats[j].verifier_id.key
          = ChainSignature(Key(History(n).secret), M(n), j - 1)
    BY <2>3, <2>5 DEF Chained
  <2> QED
    BY <1>1, <1>7, <2>1, <2>2, <2>6 DEF Decrypts
<1>10. SignaturesHold(call, D, from)
  <2>1. call.root.signature = FullSignature(call.key, call.root)
    <3>1. Chained(M(0), History(0))
      BY <1>1, <1>3 DEF MadeMacaroon
    <3> QED
      BY <1>3, <1>4, <3>1 DEF Chained
  <2>2. ASSUME NEW d \in D
        PROVE  call.discharges[d].signature =
                 BoundSignature(call.root.signature,
                   FullSignature(KeyOf(call, from, d), call.discharges[d]))
    <3>1. /\ x(d) \in L /\ x(0) \in L /\ x(0).identity.bindings = << >>
      BY <1>1, <1>2, <1>3, <1>4
    <3>2. BoundToRoot(d)
      BY <1>4
    <3>3. /\ Len(History(d).bindings) = 1
          /\ History(d).bindings[1].root = Identity(slots[0])
          /\ History(d).bindings[1].at = Len(M(d).caveats)
      BY <3>2 DEF BoundToRoot, M
    <3>4. /\ Len(x(d).identity.bindings) = 1
          /\ x(d).identity.bindings[1].root = x(0).identity
          /\ x(d).identity.bindings[1].at = Len(x(d).identity.caveats)
      BY <1>2, <3>3
    <3>5. x(d).signature = BoundSignature(x(0).signature,
            FullSignature(Key(x(d).identity.secret), x(d).identity))
      BY <1>1, <3>1, <3>4, BindingTells
    <3>6. FullSignature(Key(x(d).identity.secret), x(d).identity)
            = FullSignature(Key(History(d).secret), M(d))
      BY <1>2, SameChain
    <3> QED
      BY <1>2, <1>3, <1>6, <3>5, <3>6
  <2> QED
    BY <2>1, <2>2 DEF SignaturesHold
<1>11. \A n \in {0} \cup D : FirstPartyPredicates(Mac(call, n)) \subseteq Q
  BY <1>4 DEF PredicatesOf, Nodes
<1> QED
  BY <1>4, <1>5, <1>9, <1>10, <1>11 DEF Authorized, AuthorizedBy

-----------------------------------------------------------------------------
(***************************************************************************)
(* The invariant of the program: those of its components, that the slots    *)
(* hold the macaroons of the call, and that a refusal is justified.         *)
(***************************************************************************)
Refused == outcome \in P!Errors => P!Justified

SystemInv ==
  /\ ApiInv
  /\ P!VerifierInv /\ P!CompleteInv
  /\ SlotsOK
  /\ Refused

USE SecretAssumption, DepthAssumption, DischargesAssumption

\* While verify runs, all that it is given stays.
LEMMA SlotsStay ==
  ASSUME SlotsOK, outcome # "Idle",
         UNCHANGED <<macaroon, origin, slots, call>>
  PROVE  SlotsOK'
BY DEF SlotsOK, Held, Nodes, Discharges, Mac

\* An answer that was justified stays so while the verifier is the same.
LEMMA RefusedStays ==
  ASSUME P!Justified, UNCHANGED <<exact, general, now, started, call>>
  PROVE  P!Justified'
BY DEF P!Justified, P!SatisfiedThroughout

\* The invariant holds at the start.
LEMMA SystemInit == Init => SystemInv
<1> SUFFICES ASSUME Init PROVE SystemInv
  OBVIOUS
<1>1. ApiInv
  BY ApiInitInv DEF Init
<1>2. P!Init
  BY SameSteps DEF Init
<1>3. P!VerifierInv /\ P!CompleteInv
  BY <1>2, P!InitInv, P!CompleteInit
<1>4. outcome = "Idle"
  BY <1>2 DEF P!Init
<1> QED
  BY <1>1, <1>3, <1>4 DEF SystemInv, SlotsOK, Refused, P!Errors

\* Every step preserves the invariant.
LEMMA SystemNext ==
  ASSUME SystemInv, [Next]_vars
  PROVE  SystemInv'
<1>1. ApiInv /\ P!VerifierInv /\ P!CompleteInv /\ SlotsOK /\ Refused
  BY DEF SystemInv
<1>2. ASSUME UNCHANGED apiVars PROVE ApiInv'
  BY <1>1, <1>2 DEF apiVars, ApiInv, Accounts, Held
<1>3. CASE Make
  <2>1. ApiInv' /\ outcome = "Idle" /\ UNCHANGED verifierVars
    BY <1>1, <1>3, ApiNextInv DEF Make
  <2>2. P!VerifierInv' /\ P!CompleteInv'
    BY <1>1, <2>1, VerifierNext
  <2>3. outcome' = "Idle"
    BY <2>1 DEF verifierVars
  <2> QED
    BY <2>1, <2>2, <2>3 DEF SystemInv, SlotsOK, Refused, P!Errors
<1>4. CASE Configure
  <2>1. (\E p \in Exact : P!satisfy_exact(p)) /\ UNCHANGED apiVars
    BY <1>4, SameSteps DEF Configure
  <2>2. P!VerifierInv' /\ P!CompleteInv'
    BY <1>1, <2>1, VerifierNext
  <2>3. outcome' = "Idle"
    BY <2>1 DEF P!satisfy_exact
  <2> QED
    BY <1>2, <2>1, <2>2, <2>3 DEF SystemInv, SlotsOK, Refused, P!Errors
<1>5. CASE Verify
  <2>0. PICK k \in 0..MaxDischarges :
          \E choice \in [0..k -> Held], key \in CallerKey :
            slots' = choice /\ P!verify(CallOf(choice, k, key))
    BY <1>5, SameSteps DEF Verify
  <2>1. PICK choice \in [0..k -> Held], key \in CallerKey :
          slots' = choice /\ P!verify(CallOf(choice, k, key))
    BY <2>0
  <2> DEFINE c == CallOf(choice, k, key)
  <2>2. /\ P!IsCall(c)
        /\ \A n \in Nodes(c) : choice[n] \in Held /\ Mac(c, n) = macaroon[choice[n]]
    BY <1>1, CallOfSlots
  <2> HIDE DEF c
  <2>3. P!VerifierInv'
    BY <1>1, <2>1, <2>2, P!CallStep DEF c
  <2>4. outcome' = "Collecting" /\ call' = c /\ UNCHANGED apiVars
    BY <1>5, <2>1 DEF P!verify, c, Verify
  <2>5. P!CompleteInv' /\ Refused'
    BY <2>4 DEF P!CompleteInv, Refused, P!Errors
  <2>6. SlotsOK'
    <3>1. Nodes(call') = Nodes(c) /\ (\A n : Mac(call', n) = Mac(c, n))
          /\ slots' = choice /\ UNCHANGED macaroon
      BY <2>1, <2>4 DEF apiVars
    <3> QED
      BY <2>2, <3>1 DEF SlotsOK, Held
  <2> QED
    BY <1>2, <2>3, <2>4, <2>5, <2>6 DEF SystemInv
<1>6. CASE Running
  <2>1. P!Step /\ UNCHANGED apiVars /\ UNCHANGED slots
    BY <1>6, SameSteps DEF Running
  <2>2. P!VerifierInv' /\ P!CompleteInv'
    BY <1>1, <2>1, VerifierNext
  <2>3. /\ UNCHANGED <<exact, general, now, started, call>>
        /\ outcome \in {"Collecting", "Running"}
    BY <1>1, <2>1, P!StepFrame
  <2>4. SlotsOK'
    BY <1>1, <2>1, <2>3, SlotsStay DEF apiVars
  <2>5. Refused'
    <3> SUFFICES ASSUME outcome' \in P!Errors PROVE P!Justified'
      BY DEF Refused
    <3>1. outcome' \notin {"Running", "Ok"}
      BY DEF P!Errors
    <3>2. P!Justified
      BY <1>1, <2>1, <3>1, P!RefusalJustified
    <3> QED
      BY <2>3, <3>2, RefusedStays
  <2> QED
    BY <1>2, <2>1, <2>2, <2>4, <2>5 DEF SystemInv
<1>7. CASE Return
  <2>1. P!Return /\ UNCHANGED apiVars
    BY <1>7, SameSteps DEF Return
  <2>2. P!VerifierInv' /\ P!CompleteInv'
    BY <1>1, <2>1, VerifierNext
  <2>3. outcome' = "Idle"
    BY <2>1 DEF P!Return
  <2> QED
    BY <1>2, <2>1, <2>2, <2>3 DEF SystemInv, SlotsOK, Refused, P!Errors
<1>8. CASE UNCHANGED vars
  <2>1. UNCHANGED apiVars /\ UNCHANGED verifierVars /\ UNCHANGED slots
    BY <1>8 DEF vars
  <2>2. P!VerifierInv' /\ P!CompleteInv'
    BY <1>1, <2>1, VerifierNext
  <2>3. UNCHANGED <<macaroon, origin, slots, call, outcome, exact, general, now, started>>
    BY <2>1 DEF apiVars, verifierVars
  <2>4. SlotsOK'
    BY <1>1, <2>3 DEF SlotsOK, Held
  <2>5. Refused'
    BY <1>1, <2>3, RefusedStays DEF Refused
  <2> QED
    BY <1>2, <2>1, <2>2, <2>4, <2>5 DEF SystemInv
<1> QED
  BY <1>3, <1>4, <1>5, <1>6, <1>7, <1>8 DEF Next

\* What verify answers, by the proofs of the verifier.
LEMMA Answers ==
  ASSUME SystemInv
  PROVE  /\ outcome # "Idle" => P!IsCall(call)
         /\ outcome = "Ok" => \E Q : Q \subseteq exact /\ Authorized(call, Q)
         /\ outcome \in P!Errors =>
              \E Q : PredicatesOf(call) \cap exact \subseteq Q /\ ~Authorized(call, Q)
<1>1. /\ P!VerifierInv /\ P!StateOK
      /\ outcome \in P!Errors => P!Justified
  BY DEF SystemInv, Refused, P!VerifierInv
<1>2. 1..Len(general) = {}
  BY <1>1 DEF P!StateOK
<1>3. outcome # "Idle" => P!IsCall(call)
  BY <1>1 DEF P!StateOK
<1>4. ASSUME outcome = "Ok"
      PROVE  \E Q : Q \subseteq exact /\ Authorized(call, Q)
  <2>1. P!AcceptsOnlyAuthorized
    BY <1>1 DEF P!VerifierInv, P!AnswerOK, P!AcceptsOnlyAuthorized, P!Authorized
  <2>2. Authorized(call, SatisfiedAtSomeTime(call, exact, general, started..now))
    BY <1>4, <2>1, SameAuthorization
    DEF P!AcceptsOnlyAuthorized, P!SatisfiedDuringCall
  <2>3. SatisfiedAtSomeTime(call, exact, general, started..now) \subseteq exact
    BY <1>2 DEF SatisfiedAtSomeTime
  <2> QED
    BY <2>2, <2>3
<1>5. ASSUME outcome \in P!Errors
      PROVE  \E Q : PredicatesOf(call) \cap exact \subseteq Q /\ ~Authorized(call, Q)
  <2>1. ~Authorized(call, SatisfiedAllAlong(call, exact, general, started..now))
    BY <1>1, <1>5, SameAuthorization DEF P!Justified, P!SatisfiedThroughout
  <2>2. PredicatesOf(call) \cap exact
          \subseteq SatisfiedAllAlong(call, exact, general, started..now)
    BY DEF SatisfiedAllAlong
  <2> QED
    BY <2>1, <2>2
<1> QED
  BY <1>3, <1>4, <1>5

\* HistoryDecides: verify accepts a call if and only if the histories of its
\* macaroons make it rightful, whatever the program did before.
THEOREM HistoriesDecide == Spec => []HistoryDecides
<1>1. ASSUME SystemInv PROVE HistoryDecides
  <2>1. ApiInv /\ SlotsOK
    BY <1>1 DEF SystemInv
  <2>2. ASSUME outcome = "Ok" PROVE Rightful
    BY <1>1, <2>1, <2>2, Answers, AuthorizedIsRightful
  <2>3. ASSUME outcome \in P!Errors PROVE ~Rightful
    <3>1. outcome # "Idle"
      BY <2>3 DEF P!Errors
    <3> QED
      BY <1>1, <2>1, <2>3, <3>1, Answers, RightfulIsAuthorized
  <2> QED
    BY <2>2, <2>3, SameSteps DEF HistoryDecides
<1>2. SystemInv /\ [Next]_vars => SystemInv'
  BY SystemNext
<1> QED
  BY <1>1, <1>2, SystemInit, PTL DEF Spec
=============================================================================
