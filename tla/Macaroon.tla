------------------------------ MODULE Macaroon ------------------------------
(***************************************************************************)
(* Macaroons and caveats as data (src/src/lib.rs, src/src/caveat.rs): their *)
(* fields, the signature step of a caveat and what each construction call   *)
(* makes of its arguments once its checks have passed.  The checks, errors  *)
(* and limits are in MacaroonApi.                                           *)
(***************************************************************************)
EXTENDS Crypto

FirstParty(predicate) == [kind |-> "FirstParty", predicate |-> predicate]

ThirdParty(id, verifier_id, location) ==
  [kind |-> "ThirdParty", id |-> id, verifier_id |-> verifier_id,
   location |-> location]

IsFirstParty(c) == c.kind = "FirstParty"
IsThirdParty(c) == c.kind = "ThirdParty"

\* third_party_caveats, as positions in the list, and first_party_caveats, as
\* the predicates they demand.
ThirdPartyIndices(m) ==
  { j \in 1..Len(m.caveats) : IsThirdParty(m.caveats[j]) }

FirstPartyPredicates(m) ==
  { m.caveats[j].predicate :
      j \in { i \in 1..Len(m.caveats) : IsFirstParty(m.caveats[i]) } }

\* Mutant: the caveat key is not signed.
signIdOnly(c, key) ==
  IF IsFirstParty(c) THEN hmac(key, c.predicate) ELSE hmac(key, c.id)

\* Caveat::sign: the next signature of the chain.
sign(c, key) ==
  IF IsFirstParty(c) THEN hmac(key, c.predicate)
                     ELSE hmac2(key, c.verifier_id, c.id)

\* Macaroon::create.
New(location, key, identifier) ==
  [identifier |-> identifier, location |-> location,
   signature  |-> hmac(key, identifier), caveats |-> << >>]

\* Mutant: the signature is not updated.
WithCaveatUnsigned(m, c) == [m EXCEPT !.caveats = Append(@, c)]

\* The last two statements of add_first_party_caveat and add_third_party_caveat.
WithCaveat(m, c) ==
  [m EXCEPT !.signature = sign(c, @), !.caveats = Append(@, c)]

\* Mutant: the signature is sealed under the caveat key.
NewThirdPartySwapped(m, location, key, id, nonce) ==
  ThirdParty(id, encrypt_key(key, m.signature, nonce), location)

\* The third-party caveat that add_third_party_caveat makes for m.
NewThirdParty(m, location, key, id, nonce) ==
  ThirdParty(id, encrypt_key(m.signature, key, nonce), location)

\* Mutant: the discharge's own signature is overwritten, not bound.
BoundSignatureOfRoot(rootSignature, sig) == hmac(Key(ZeroSecret), rootSignature)

\* The signature that bind leaves in a discharge whose signature was sig.
BoundSignature(rootSignature, sig) ==
  hmac2(Key(ZeroSecret), rootSignature, sig)

Bound(root, discharge) ==
  [discharge EXCEPT !.signature = BoundSignature(root.signature, @)]

-----------------------------------------------------------------------------
(***************************************************************************)
(* The same chain in closed form, for the properties: the signature that a  *)
(* macaroon minted with a caller's key has after its first n caveats.       *)
(***************************************************************************)
CaveatText(c) ==
  IF IsFirstParty(c) THEN <<c.predicate>> ELSE <<c.verifier_id, c.id>>

ChainSignature(key, m, n) ==
  [secret |-> key.secret,
   texts  |-> [i \in 1..(n + 1) |->
                 IF i = 1 THEN <<m.identifier>>
                          ELSE CaveatText(m.caveats[i - 1])]]

FullSignature(key, m) == ChainSignature(key, m, Len(m.caveats))
=============================================================================
