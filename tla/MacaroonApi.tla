----------------------------- MODULE MacaroonApi -----------------------------
(***************************************************************************)
(* A program that makes macaroons with the calls of src/src/lib.rs: create, *)
(* add_first_party_caveat, add_third_party_caveat, bind and clone, in any   *)
(* order on any of its macaroons.  `origin' is a history: for each macaroon *)
(* the secret it was created with, and the bindings made to it since.       *)
(***************************************************************************)
EXTENDS Macaroon

CONSTANTS
  Slot,                  \* the program's variables of type Macaroon
  Text,                  \* identifiers, caveat ids and predicates
  Location,              \* locations
  NoLocation,            \* None
  Size(_),               \* the length of a text or location in bytes
  MAX_FIELD_SIZE_BYTES,
  MAX_CAVEATS,
  RngFailures,           \* {TRUE, FALSE} when the RNG may fail, {FALSE} when not
  MaxCalls               \* bound: calls that make or change a macaroon

ASSUME LimitsAssumption ==
  /\ MAX_FIELD_SIZE_BYTES \in Nat
  /\ MAX_CAVEATS \in Nat
  /\ MaxCalls \in Nat
  /\ \A x \in Text \cup Location : Size(x) \in Nat

VARIABLES
  macaroon,  \* slot -> its macaroon, for the slots that were assigned
  origin,    \* slot -> the history of that macaroon
  nonces,    \* how many nonces encrypt_key has drawn
  calls,     \* how many calls made or changed a macaroon
  result     \* what the last call returned

apiVars == <<macaroon, origin, nonces, calls, result>>

ApiErrors ==
  {"FieldTooLarge", "IncompleteMacaroon", "TooManyCaveats", "RngError"}

Held == DOMAIN macaroon

ApiInit ==
  /\ macaroon = << >>
  /\ origin = << >>
  /\ nonces = 0
  /\ calls = 0
  /\ result = "Ok"

TooLarge(x) == Size(x) > MAX_FIELD_SIZE_BYTES

Err(error) ==
  /\ result' = error
  /\ UNCHANGED <<macaroon, origin, nonces, calls>>

Assign(s, m, history) ==
  /\ macaroon' = [t \in Held \cup {s} |-> IF t = s THEN m ELSE macaroon[t]]
  /\ origin' = [t \in Held \cup {s} |-> IF t = s THEN history ELSE origin[t]]
  /\ result' = "Ok"
  /\ calls < MaxCalls
  /\ calls' = calls + 1

-----------------------------------------------------------------------------
create(s, location, secret, identifier) ==
  \/ /\ \/ TooLarge(identifier)
        \/ location # NoLocation /\ TooLarge(location)
     /\ Err("FieldTooLarge")
  \/ /\ ~TooLarge(identifier)
     /\ location # NoLocation => ~TooLarge(location)
     /\ IF Size(identifier) = 0
          THEN Err("IncompleteMacaroon")
          ELSE /\ Assign(s, New(location, Key(secret), identifier),
                         [secret |-> secret, bindings |-> << >>])
               /\ UNCHANGED nonces

\* Mutant: the limit is one more.
CapacityByOne(m) == Len(m.caveats) <= MAX_CAVEATS

check_caveat_capacity(m) == Len(m.caveats) < MAX_CAVEATS

add_first_party_caveat(s, predicate) ==
  LET m == macaroon[s]
  IN  \/ TooLarge(predicate) /\ Err("FieldTooLarge")
      \/ /\ ~TooLarge(predicate)
         /\ ~check_caveat_capacity(m)
         /\ Err("TooManyCaveats")
      \/ /\ ~TooLarge(predicate)
         /\ check_caveat_capacity(m)
         /\ Assign(s, WithCaveat(m, FirstParty(predicate)), origin[s])
         /\ UNCHANGED nonces

add_third_party_caveat(s, location, secret, id) ==
  LET m == macaroon[s]
  IN  \/ (TooLarge(id) \/ TooLarge(location)) /\ Err("FieldTooLarge")
      \/ /\ ~TooLarge(id) /\ ~TooLarge(location)
         /\ ~check_caveat_capacity(m)
         /\ Err("TooManyCaveats")
      \/ /\ ~TooLarge(id) /\ ~TooLarge(location)
         /\ check_caveat_capacity(m)
         /\ TRUE \in RngFailures
         /\ Err("RngError")
      \/ /\ ~TooLarge(id) /\ ~TooLarge(location)
         /\ check_caveat_capacity(m)
         /\ nonces' = nonces + 1
         /\ Assign(s, WithCaveat(m, NewThirdParty(m, location, Key(secret), id,
                                                  nonces)), origin[s])

\* What a binding is to: a macaroon as its history tells it, no signatures.
Identity(s) ==
  [identifier |-> macaroon[s].identifier, caveats |-> macaroon[s].caveats,
   secret |-> origin[s].secret, bindings |-> origin[s].bindings]

\* root.bind(&mut discharge): two variables, by Rust's aliasing rule.
bind(root, discharge) ==
  /\ root # discharge
  /\ Assign(discharge, Bound(macaroon[root], macaroon[discharge]),
            [origin[discharge] EXCEPT
               !.bindings = Append(@, [root |-> Identity(root),
                                       at   |-> Len(macaroon[discharge].caveats)])])
  /\ UNCHANGED nonces

clone(from, to) ==
  /\ from # to
  /\ Assign(to, macaroon[from], origin[from])
  /\ UNCHANGED nonces

ApiNext ==
  \/ \E s \in Slot, secret \in Secret, identifier \in Text,
        location \in Location \cup {NoLocation} :
       create(s, location, secret, identifier)
  \/ \E s \in Held, predicate \in Text : add_first_party_caveat(s, predicate)
  \/ \E s \in Held, secret \in Secret, id \in Text, location \in Location :
       add_third_party_caveat(s, location, secret, id)
  \/ \E root, discharge \in Held : bind(root, discharge)
  \/ \E from \in Held, to \in Slot : clone(from, to)

ApiSpec == ApiInit /\ [][ApiNext]_apiVars

-----------------------------------------------------------------------------
Bindings(s) == origin[s].bindings

\* The number of caveats that were there before the first binding.
Unbound(s) ==
  IF Bindings(s) = << >> THEN Len(macaroon[s].caveats) ELSE Bindings(s)[1].at

\* The type invariant.
ApiTypeOK ==
  /\ calls \in 0..MaxCalls
  /\ nonces \in 0..calls
  /\ result \in ApiErrors \cup {"Ok"}
  /\ Held \subseteq Slot /\ DOMAIN origin = Held
  /\ \A s \in Held :
       /\ macaroon[s].identifier \in Text
       /\ macaroon[s].location \in Location \cup {NoLocation}
       /\ origin[s].secret \in Secret
       /\ \A i \in 1..Len(macaroon[s].caveats) :
            LET c == macaroon[s].caveats[i]
            IN  IF IsFirstParty(c)
                  THEN c.predicate \in Text
                  ELSE c.id \in Text /\ c.location \in Location
                         /\ c.verifier_id.plaintext \in CallerKey

\* No sequence of calls makes a macaroon over the limits, which the parsers
\* would refuse: MAX_CAVEATS and MAX_FIELD_SIZE_BYTES, an identifier that is
\* not empty.
WithinLimits ==
  \A s \in Held :
    LET m == macaroon[s]
    IN  /\ Size(m.identifier) \in 1..MAX_FIELD_SIZE_BYTES
        /\ m.location # NoLocation => ~TooLarge(m.location)
        /\ Len(m.caveats) <= MAX_CAVEATS
        /\ \A i \in 1..Len(m.caveats) :
             IF IsFirstParty(m.caveats[i])
               THEN ~TooLarge(m.caveats[i].predicate)
               ELSE ~TooLarge(m.caveats[i].id) /\ ~TooLarge(m.caveats[i].location)

\* A holder of the secret can walk a macaroon from its identifier and open
\* every caveat key in order, however often it was cloned and attenuated,
\* until the first caveat that was added after a binding.  From there on no
\* caveat key opens.
KeysOpenInOrder ==
  \A s \in Held :
    \A i \in ThirdPartyIndices(macaroon[s]) :
      i <= Unbound(s) <=>
        Decrypts(ChainSignature(Key(origin[s].secret), macaroon[s], i - 1),
                 macaroon[s].caveats[i].verifier_id)

\* The signature of a macaroon proves its secret and all its caveats exactly
\* until it is bound.
SignatureIsChainUntilBound ==
  \A s \in Held :
    Bindings(s) = << >> <=>
      macaroon[s].signature =
        FullSignature(Key(origin[s].secret), macaroon[s])

\* Two macaroons have the same signature only if they have the same history:
\* the same secret, identifier, caveats and bindings, in the same order.
SignatureTellsHistory ==
  \A s, t \in Held :
    macaroon[s].signature = macaroon[t].signature
      => Identity(s) = Identity(t)
=============================================================================
