# A verification of the macaroon crate

This directory holds TLA+ specifications of the Rust crate in `src/` (macaroons:
bearer tokens with caveats, after libmacaroons), the TLC configurations that
check them, and proofs that TLAPS checks.

## The system

| Part | Source | State | Operations |
| --- | --- | --- | --- |
| Cryptographic layer | `src/src/crypto/` | none (a key is a value) | `hmac`, `hmac2`, `encrypt_key`, `decrypt_key`, key generation |
| Macaroons and caveats | `src/src/lib.rs`, `src/src/caveat.rs` | identifier, location, signature, caveats of each macaroon | `create`, `add_first_party_caveat`, `add_third_party_caveat`, `bind`, `clone`, accessors |
| Verifier | `src/src/verifier.rs` | exact predicates, closures; during a call the map of discharges and the recursion | `satisfy_exact`, `satisfy_general`, `verify` |
| Formats V1, V2, V2JSON | `src/src/serialization/` | the parsers' loops: position, builder of the macaroon, builder of the caveat | `serialize`, `deserialize` |
| Token front end | `src/src/lib.rs` | none | base64, format sniffing, `validate` |

The parts interact by calls alone. There are no threads, files or messages in
the crate: `Macaroon` calls are `&mut self` on one value, `verify` borrows
everything it reads. What makes it hard is elsewhere:

- **Sequences of calls.** A macaroon is attenuated, cloned and bound in any
  order by parties that do not know of one another, and verified much later.
  Each signature, each sealed key and each binding is a snapshot of another
  macaroon at some moment. Whether a set of macaroons verifies depends on the
  order in which all of them were made.
- **The recursion of `verify_with_sig`.** It consumes one map of discharges
  across the whole tree, compares with the *root's* signature at every depth
  (`verifier.rs:85`), and is bounded by a depth limit that arbitrary discharges
  (chains, cycles, a macaroon that discharges itself) run into.
- **Callbacks.** The closures of `satisfy_general` may read a clock (the
  crate's examples do): time passes while `verify` runs.
- **Limits and partial failure.** Field sizes, caveat counts, an RNG that may
  fail in the middle of `add_third_party_caveat`.
- **Parsers.** Each format has a loop with a half-built caveat; what one call
  serializes another must read back.

What makes each part correct:

- *Crypto*: equal HMACs mean equal inputs; a sealed key opens under its key only.
- *Macaroon*: a signature tells the whole history (secret, identifier, caveats
  and bindings, in order); the caveat keys open in order to a holder of the
  secret; no call makes a macaroon over the limits; a failed call changes nothing.
- *Verifier*: it accepts exactly the calls that are authorized; it reports
  unused discharges only when nothing else is wrong; it always answers; its
  recursion is bounded.
- *Formats*: what is serialized is read back unchanged; what is read back was a
  complete macaroon within the limits; one macaroon has one V2 encoding.

## Modules

| Module | Models | Used by |
| --- | --- | --- |
| `Crypto` | `src/src/crypto` as a term algebra | all |
| `Macaroon` | the data of `lib.rs` and `caveat.rs`; what each call makes of its arguments; `ChainSignature`, the chain in closed form | all |
| `Authorization` | when a set of macaroons authorizes a call, without any traversal | `VerifierSpec`, `Verifier`, `MacaroonSystem` |
| `VerifierSpec` | the abstract specification of a verifier: one step from a call to its answer | `Verifier` (refinement) |
| `Verifier` | `verifier.rs`, one caveat and one closure call per step | `VerifierInvariant`, `MacaroonSystem` |
| `VerifierInvariant` | the inductive invariant of `Verifier` | `VerifierProofs`, `MCVerifier` |
| `VerifierProofs` | its theorems, the refinement of `VerifierSpec` among them | `MacaroonSystemProofs` |
| `MacaroonApi` | a program that makes macaroons by calls of `lib.rs`, with checks, errors and limits | `MacaroonSystem` |
| `MacaroonSystem` | `MacaroonApi` and `Verifier` composed | |
| `MacaroonSystemProofs` | the theorems of `MacaroonApi`, with the ledger of all macaroons that ever were; that of `MacaroonSystem`, from those of the two parts | |
| `Builders` | `CaveatBuilder`, `MacaroonBuilder`, the limits, a call of `deserialize` | the formats |
| `FormatV2`, `FormatV1`, `FormatV2Json` | serializer and parser of each format, item by item | `BytesV2` extends `FormatV2` |
| `BytesV2` | V2 byte by byte: tags, varint sizes, data | |
| `BytesV1` | the packets of V1 byte by byte: header, split, last byte | |
| `Digits` | numbers and their digits in any base | `BytesV1`, `FrontEnd` |
| `MacaroonLemmas` | lemmas of several proofs: least elements, sequences, `FlattenSeq`, numbers and their digits, signatures as data | the proof modules |
| `FrontEnd` | from a text to bytes to a parser: base64, alphabets, the first byte | |
| `BytesV2Proofs`, `FormatV1Proofs`, `BytesV1Proofs`, `FormatV2JsonProofs`, `FrontEndProofs` | the theorems of these modules (`BytesV2Proofs` has those of `FormatV2` too) | |
| `MC*` | instances for TLC | |

### Crypto

A key or signature (`MacaroonKey` is both) is a record of the secret at the
bottom and the list of texts that were MACed onto it. HMACs are equal exactly
if their terms are. `hmac2` is MAC of a pair. A secretbox is a record of its key,
plaintext and nonce, and opens under that key only. So the model assumes what the crate assumes of
HMAC-SHA256 and XSalsa20-Poly1305: no collisions, no forgeries, no two equal
nonces. The bytes of a verifier id that no `encrypt_key` made are a box
whose key is under no chain; `decrypt_key` fails on them with the same error.
Constant-time comparison and zeroizing do not change what the program computes
and are left out.

### Verifier

A call of the recursive `verify_with_sig` is a *frame*, named by the number of
its macaroon (0 is the root, d the d-th discharge; a discharge is taken out of
the map before it is verified, so it has one frame at most). A frame
keeps the locals of the function (`key`, `sig`, the next caveat, how many closures
`any()` has asked, `depth`) and the caveat that called it. `active` is the
innermost frame; `unused` is `discharge_set`. Frames of functions that have returned stay until
`verify` returns: they are the history that the invariant speaks of.

| Action | Code |
| --- | --- |
| `verify` | the call; its arguments are any macaroons of `Token` |
| `CollectDischarges` | `verifier.rs:30-41`: the map, the duplicate check, the outermost call |
| `ExactMatch`, `GeneralMatch`, `GeneralMismatch`, `NotSatisfied` | `:71-80`, `:106-108`, one closure at a time |
| `CannotDecrypt`, `NoDischarge`, `TooDeep`, `Discharge` | `:65-68` and the depth test `:57-61` of the callee |
| `BadSignature`, `ReturnToParent`, `FinishRoot` | `:83-95`, then `:69` of the caller or `:42-46` |
| `Return` | the result is the caller's; a new call may come |
| `satisfy_exact`, `satisfy_general` | `:98-104`, between calls (`&mut self`) |
| `Tick` | the clock of the closures, at any time |

Iteration order of the `HashMap` is never used, and the collection of the
discharges reads nothing that changes: it is one step. `Accepts(f, p, t)` says
what closure f answers at time t, so closures are functions of the predicate
and of the clock.

`Authorization` says what `verify` should compute with no order of evaluation:
a bijection `from` between discharges and third-party caveats, equal
identifiers, a tree within the depth limit, keys that open, signatures that are
the full chains, bound to the root. `VerifierSpec` is then the abstract machine:
a call is answered, once; accepted only if authorized by predicates that were
*satisfied at some time* of the call, rejected only if not authorized by
predicates *satisfied all along*. (With a clock that moves, no atomic answer
could say more: the code asks each closure at a time of its own.) Without
closures that read the clock the two are equal, and `verify` accepts exactly what is authorized.

### MacaroonApi and MacaroonSystem

`MacaroonApi` is a program with a few variables of type `Macaroon` and calls the
API on them in any order. A failed call changes nothing but `result`. `origin`
is a history variable: who created the macaroon, and what it was bound to and
when. `MacaroonSystem` adds calls of `verify` on any of its macaroons and says
(`HistoryDecides`) that the answer is a function of the histories, with no
signature and no sealed key in the statement.

### Formats

A token is a sequence of items: tags with their fields (V2), packets (V1), JSON
objects (V2JSON). In these modules, what can be wrong with the bytes of an item is
an item of its own (`Unreadable`, `MALFORMED`, `INVALID`). A parser reads
one item a step, any item at all, so that a run visits every token up to its
bound; `read` is what it has read. A field is one of a few values, told apart by what the
code tests: its length and whether it is UTF-8.

This loses nothing of V2, where the code reads item by item too. V1 splits the
whole token into packets first, and V2JSON leaves it to serde first; in the
models the two passes are one, and a refused item may be answered with an error of
what follows it. Which tokens are accepted, and as what, is the same.

| Module | Variables | Actions |
| --- | --- | --- |
| `FormatV2` | `at`: the place in `deserialize` (`v2.rs:148-254`) | one per tag and place; the loop `while tag != EOS` is `at = "Caveat"` |
| `FormatV1` | `seen`: `seen_location`, `seen_identifier`, `seen_signature` | one per key of the `match` (`v1.rs:153-221`) |
| `FormatV2Json` | none of its own | the top-level object, then one caveat each (`v2json.rs:97-208`) |

`builder` and `caveat_builder` are those of the code. The serializers are operators
(`Encode`); `RefusesNoEncodedBytes`, `RefusesNoEncoding` and `ReadsBack` relate the two directions, and `OneEncoding` says of V2 that the parser accepts
nothing but what the serializer writes, `OneEncodingInBytes` that it is so byte for byte.

### Bytes

`BytesV2` extends `FormatV2`: it reads bytes and takes the step of `FormatV2` that an
item leads to together with the item's last byte, so each of its steps is one of
`FormatV2!Next` or leaves those variables alone (a field whose size is
refused, or that the end cuts off, is an `Unreadable` item). `bytes` is the history
of the token; a run visits every token of bytes, since no byte is chosen before it
is read. The widths are constants and scaled down: a byte carries `DIGIT` = 2 bits of a
size and a usize has `BITS` = 9, in place of 7 and 64. Both pairs leave
one bit over when the last digit that the loop takes (`shift <= BITS - (DIGIT + 1)`)
is full, and in both the largest field has three digits.

`BytesV1` is `serialize_as_packet` and the loop of `deserialize_as_packets`, one
packet a step; a slice out of range is the outcome `"Panic"`. Its packets are what `FormatV1`
reads, its errors the `MALFORMED` ones. A header is two digits of radix six, in
place of four of sixteen: with a sign it can still say a size larger than itself.

`FrontEnd` is the way of a token through `deserialize`, `base64_decode_flexible`
and `deserialize_binary`, and of a V2JSON field through `visit_str`, which calls the
second. Tokens come from `serialize`, from other
implementations (either alphabet, padding or none), or from anywhere. The base64
crate is modelled from the configuration of its engines: three bytes are four characters, spare
bits must be zero, padding is optional. Bytes have four bits and characters
three, which keeps the arithmetic and lets all short texts be enumerated. The
model is of a build with the feature `v2json`.

## Runs

Mutants of the code, defined next to the definitions they replace and
marked `Mutant`, are what each property was tried on: with the
mutant in its place the property fails.

| Run | Checks | Bounds |
| --- | --- | --- |
| `verifier_discharges` | `TypeOK`, `VerifierInv`, `AcceptsOnlyAuthorized`, `NotUsedMeansRedundant`, `KeepsPromise` | 21 macaroons: roots with 0 to 2 third-party caveats (distinct, with one identifier, on itself), one with a caveat lost, one with a garbled sealed key; discharges unbound, bound, bound twice, bound to another root, attenuated after binding, minted with a wrong key, nested; every call with at most 2 discharges |
| `verifier_families` | `CallStackBounded`, `KeepsPromise` | two families of calls: a cycle of three discharges and chains of 3, with a limit of 2 instead of 32; two predicates in every position, up to two closures in both orders, one clock tick at any point |
| `api` | `ApiTypeOK`, `WithinLimits`, `KeysOpenInOrder`, `SignatureIsChainUntilBound`, `SignatureTellsHistory` | two macaroons, two secrets, 6 calls that succeed: room for a caveat before and after a binding, a binding to a clone, a double binding; caveat limit 2, fields of 0, 1 and 2 bytes with a limit of 1, the RNG fails at will |
| `system` | `HistoryDecides` | two macaroons, 6 calls, one discharge: enough to mint, attenuate, discharge, bind, and do one thing too many |
| `system_nested` | `HistoryDecides` | starts after 5 calls that made a root, a discharge and a discharge of that; 3 more calls, two discharges |
| `format_v2` | `TypeOK`, `OneEncoding`, `OneEncodingInBytes`, `RefusesNoEncodedBytes`, `NoDigitLost` | every token of bytes of up to 14 items, the length of one with two third-party caveats; caveat limit 2, field limit 16, values of 0, 16 (a signature, not UTF-8) and 17 bytes, sizes of up to four digits |
| `bytes_v1` | `NeverPanics`, `ReadsWhatIsThere`, `RefusesNothingWritten` | every token of up to 10 bytes: two packets, headers with digits of either case, a sign and bytes that are no digits, data with spaces, newlines and bytes that are not UTF-8 |
| `front_end` | `NeverPanics`, `ReachesItsParser`, `DecodesOnlyEncodings` | every text of up to 5 characters over both alphabets, `=` and `{`; every token of up to 4 bytes that some implementation writes: all three remainders of base64, more than one block |
| `format_v1` | `TypeOK`, `CaveatsAsWritten`, `ReadsBack` | every token of up to 7 packets; caveat limit 2; values empty, of 32 bytes, and one of 65526 bytes, which fits a `cid` packet but not an `identifier` packet |
| `format_v1_one` | `OneRepresentation`: violated, see below | the same |
| `format_v2json` | `TypeOK`, `CaveatsAsWritten`, `RefusesNoOrdinaryEncoding` | every token of up to two caveats and one too many, each field absent, twice, plain or base64; values empty, too large, of 32 bytes, not UTF-8; the element beyond the caveat limit is one that the serializer writes |
| `format_v2json_empty` | `RefusesNoEncoding`: violated, see below | as `format_v2json` |

The bounds are small because each hazard needs few actors: two discharges make a
duplicate, an unused one, or a nested one; the shortest cycle that outruns the depth
limit needs one discharge more than the limit. In the `system` runs locations
are all equal (`NoLocation = loc`): no property of `verify` reads them. In
`api` an absent location is one of the locations, for the same reason; failed
calls do not count, so the program goes on after `MaxCalls` calls and
deadlock is checked.
Slots are symmetric where the cfg says so; the runs with `SYMMETRY` check invariants only.

**Fairness.** `Verifier!Spec` has weak fairness on `Step`, the steps of `verify`
and its recursion. They are the loop of one thread that nothing in the crate
blocks, so once begun it runs on; closures are assumed to return. Nothing is
fair about the caller: it need never call, `Return`, or configure. Under it,
`KeepsPromise` includes that every call is answered.

## Proofs

TLAPS proves these, for every value of the constants that the assumptions allow.

| Theorem | States | Module |
| --- | --- | --- |
| `TypeCorrect` | `Verifier!TypeOK` | `VerifierProofs` |
| `Soundness` | `AcceptsOnlyAuthorized` | |
| `RedundantDischarges` | `NotUsedMeansRedundant` | |
| `BoundedRecursion` | `CallStackBounded` | |
| `PromiseKept` | the safety part of `KeepsPromise`: `Verifier` implements `VerifierSpec` | |
| `ApiTypeCorrect` | `ApiTypeOK` | `MacaroonSystemProofs` |
| `LimitsRespected` | `WithinLimits` | |
| `CaveatKeysOpen` | `KeysOpenInOrder` | |
| `ChainUntilBound` | `SignatureIsChainUntilBound` | |
| `SignaturesTellHistory` | `SignatureTellsHistory` | |
| `HistoriesDecide` | `HistoryDecides` | |
| `BuildersWithinLimits` | `FormatV2!TypeOK` | `BytesV2Proofs` |
| `ItemsAreCanonical` | `OneEncoding` | |
| `BytesImplementItems` | `ByteSpec => Spec`: reading bytes implements reading items | |
| `BytesAreCanonical` | `OneEncodingInBytes` | |
| `NoDigitIsLost` | `NoDigitLost` | |
| `EncodedBytesAreRead` | `RefusesNoEncodedBytes` | |
| `V1WithinLimits` | `FormatV1!TypeOK` | `FormatV1Proofs` |
| `V1CaveatsAsWritten` | `FormatV1!CaveatsAsWritten` | |
| `V1ReadsBack` | `ReadsBack` | |
| `V1NeverPanics` | `BytesV1!NeverPanics` | `BytesV1Proofs` |
| `V1ReadsWhatIsThere` | `ReadsWhatIsThere` | |
| `V1RefusesNothingWritten` | `RefusesNothingWritten` | |
| `JsonWithinLimits` | `FormatV2Json!TypeOK` | `FormatV2JsonProofs` |
| `JsonCaveatsAsWritten` | `FormatV2Json!CaveatsAsWritten` | |
| `JsonReadsWhatItWrites` | `RefusesNoOrdinaryEncoding` | |
| `TokensNeverPanic` | `FrontEnd!NeverPanics` | `FrontEndProofs` |
| `OnlyEncodingsDecode` | `DecodesOnlyEncodings` | |
| `TokensReachTheirParsers` | `ReachesItsParser` | |

`InvariantHolds`, `ApiInvariantHolds`, `FormatInvariantHolds`, `ByteInvariantHolds`,
`V1InvariantHolds`, `JsonInvariantHolds`, `IInvHolds` and `FrontInvHolds` are the
inductive invariants they rest on.

**Assumptions.** `SecretAssumption`: no caller uses the all-zero key that `bind`
uses. `DepthAssumption`, `DischargesAssumption`, `BoundsAssumption` and
`LimitsAssumption`: limits and sizes are natural numbers. `TokenAssumption` (of
`Verifier` by itself, which is given any macaroons): a macaroon's
caveats are of the two kinds, the keys under its verifier ids are keys that
callers chose, and a signature is not a binding of itself (terms are finite; as
TLA+ functions could be otherwise, it is stated). `ValueAssumption`: values have
sizes, the empty one is empty and UTF-8. `SignatureAssumption`: a signature is not
empty. `PacketAssumption`: no packet can hold a field that is too large.
`WidthAssumption`: a byte holds a digit of 2 to 7 bits and the bit that says
that more follow, a usize holds at least one such byte, and some value is too
large (if none were, a size could be cut off with no value to tell it by).
`SizeAssumption`: the limit on fields needs no bit of the last digit of a usize (65535 is
below 2^57). `FieldAssumption`: the mark of an unreadable field is no value, and a
signature (32 bytes) is within the limit on fields. `BytesAssumption`: headers have at least one
digit, of a radix of at least two; a digit of either case has one value and is not
`+`; the names of fields are UTF-8 without spaces; the mark of the end of a token is no
byte. `FrontEndAssumption`: the characters of an alphabet differ from one another and from
`=` and `{`; the alphabets differ in the last two characters alone, and those of the URL-safe
one (`-` and `_`) are not in the standard one; the first byte of V2 is no hex
digit, and V1 tokens begin with one; the bounds are numbers. All of it can
be read off ASCII and the constants of the code.

### The verifier

`AcceptsOnlyAuthorized` is not inductive: it says nothing while
`verify` runs. `VerifierInv` adds, of the frames:

1. `FrameOK`: a frame's `sig` is the chain of the caveats before `next`. The step
   is the lemma `NextLink`, that `sign` extends `ChainSignature`.
2. `MapOK`, `LinkOK`: each frame but the root's answers one third-party caveat of
   its parent, with the key that opens there; the discharges without a frame are
   exactly those in the map.
3. `StackOK`: the unfinished frames are one for each depth, `active` the deepest.
4. `Cleared`: every caveat a frame has passed was satisfied or has a frame.
5. `FinishedOK`: a finished discharge is bound to the root, **or** its chain
   equals the root's signature. The second is what the code allows at every
   depth (`verifier.rs:85`).

When the root's frame ends, its links are the bijection `from` of
`Authorization` and the depths its tree. What is left is to exclude the second
case of `FinishedOK` (lemma `RootAuthorized`). Suppose discharge d has the
root's chain. `RootAsked` gives a third-party caveat j of the root that some
discharge e answered; by `EqualChains` caveat j of d is third-party with the
same identifier; it was answered too, by some k with the identifier of e. Identifiers
are distinct, so k = e, but e answers one caveat only, of the root. So the
shortcut is harmless, given the duplicate check of `verifier.rs:31-40` and that
`remove` takes a discharge once: it is those two that the proof uses.

`CallStackBounded` follows from `StackOK`: unfinished frames have different
depths, all within the limit.

**The refinement.** `Soundness` is one half of it. The other is that a refusal
is justified: no authorization of the call exists by the predicates satisfied
all along. Suppose one did (`Witness`). Then its links agree with those of
the frames (`WitnessFrames`: identifiers are distinct), its keys with theirs
(`WitnessKeys`) and its depths too (`WitnessDepths`: of the frames that disagree,
one of least depth has a caller that does not). So at each line that refuses, the authorization
says the opposite of the test: the key opens, the discharge is in
the map, it is not too deep, the signature is the one wanted. For this two facts are
added to the invariant (`CompleteInv`): the caveat at which a frame stands
has been asked of all closures before the present one, and what was returned from
was passed. The last case is `DischargeNotUsed`: of the discharges left over, one of
least depth discharges a caveat of a frame that is finished, whose discharge was used.

### The program and its histories

`MacaroonApi`'s variables do not hold what its properties are about. A macaroon that was bound
to another, or overwritten, is gone; its signature lives on inside others. The inductive
invariant therefore says that there are a set of all caveats ever made and a *ledger*
of all pairs of a signature and an identity (secret, identifier, caveats, bindings) ever made
(`Accounts`). In a ledger

- each entry was made from entries of the ledger by one of the calls (`MadeFrom`),
- a signature is the full chain of its secret while there is no binding, under
  no caller's secret from then on, and no binding of itself (`Lawful`),
- a signature stands for one identity.

The third is the point. A new entry could share its signature with an old one only
if both were made by the same call from the same entries, since HMACs and sealed
keys tell their inputs apart. Two third-party caveats with one nonce are the same
caveat: `MadeCaveats` has it that nonces are drawn once.

`HistoryDecides` joins the two. `MacaroonSystemProofs` instantiates
`VerifierProofs` with the program's macaroons: what it proves holds of any call that
`IsCall` accepts, and the ledger shows that all calls of the program are such. What is left is
that the signatures of a call authorize it if and only if
the histories make it rightful: from left to right by the ledger (`BindingTold`: a signature
that is a binding to the root's was made by one `bind`, to that root as
it is now, after the last caveat), from right to left by what the calls compute.

### The formats

*V2, items.* `OneEncoding` says nothing before the end. `FormatInv` says for
each place of `deserialize` (`Progress`) that what was read is what `serialize`
makes of the two builders up to that place.

*V2, bytes.* Each byte is a step of the items or none, whence `ByteSpec => Spec`.
`BytesSoFar` says that the bytes are those of `serialize` for the items read, then
inside a field those of its tag and of the digits of its size so far, as
`varint_size` would begin. `varint_size` is a recursive function: that it
is one at all, and what it is, is proved from `Induction`. All that is
needed of powers of two comes from counting subsets. Every digit is below the bit it is
shifted to, so that `|` is a sum and nothing is cut off, up to `BITS`.

`RefusesNoEncodedBytes` is the other direction: along an encoding there is a next byte that
`serialize` writes, and none of the tests refuses it. `ByteWalk` says that while the bytes read
begin the encoding of some macaroon, what is left of it is what is left to read: of
the items (`Holds`), then inside a field its data and, before them, the digits of its size: the
size read so far is the size of the next value but for what is still to be shifted in
(`ByteHolds`). That a size within the limit is never cut off is `SizeAssumption`.

*V1.* Packets come in any order, so `PacketInv` compares lists: the values of
the `cid`, `vid` and `cl` packets read are those of the caveats in the builder
and of the one that is waiting (`Lists`). Caveats of which the token gives no id
are dropped only if there is no caveat at all (`Waiting`).
`ReadsBack` has an invariant of its own, `Walk`: while what was read
begins an encoding, the builders hold as much of its macaroon as was written
(`At`), with the last caveat still in the caveat builder; so the next packet of the
encoding passes every test, and the end is the macaroon.

*V1, bytes.* `deserialize_as_packets` is one packet a step, and the three
properties of `BytesV1` are inductive once the types are added (`IInv`); the work is in
one packet. `DigitsOfNumber` says that the digits of a number are worth that number if it
*fits* (`FitsIn`), that is, if dividing it by the radix once for each digit leaves nothing; so
the header that `packet_header` writes says the size it was made of, up to `MAX_PACKET_SIZE`
(`LimitFits`). `split_index` finds the space after the key since names have none, and
at each test a packet that was written passes. Conversely, `Spells`: what a chunk
that passed says from its header on is its key, a space and its value, up to the last byte.

*V2JSON.* Each element of `"c"` is read by itself, so `Progress` says that
the caveats are those that the elements describe. `FirstOfNone` turns the chain of early returns
into a conjunction, and the items of an encoding pass all of them.

### The front end

Base64 reads the bytes and the characters as the digits of one number, shifted by the
spare bits. A number fits c digits in base 8 exactly if it fits 3c in base
2, and b in base 16 exactly if it fits 4b, so `EncodedNumber` and `DecodedNumber`
count bits on both sides: no digit is lost in either direction, and
the digits decoded are the digits that were encoded (`NumberOfDigits`, `DigitsOfNumber`). The
rest is about characters: the text of some digits is read back as those digits, in an alphabet
whose characters differ, and the body ends at the first `=` (`BodyOfPadded`).
`SpellsAsItLooks` covers the choice of the alphabet: a text without `-` and `_` has the same
digits in either. `FrontInv` then follows a token that was
written from place to place (`BinaryOnItsWay`, `JsonOnItsWay`).

### How induction is done

The library's induction theorems take an operator and cannot be used here.
`MacaroonLemmas` states the two facts that replace them for *sets*: a set of numbers that
is not empty has a least element (`LeastElement`), and a set that has 0 and the successor
of each element has all numbers (`Induction`). With them and the definitions as
recursive functions, `FlattenSeq`, `varint_size` and the numbers of `Digits` can be reasoned about.

### Model-checked only

- That `verify` answers every call (the fairness in `KeepsPromise`): liveness is out of the
  prover's reach. Its safety part is `PromiseKept`.
- That the packets of `BytesV1` are what `FormatV1` reads is not stated as a
  refinement: the two are checked and proved each by itself.

Every invariant that a passing run checks is proved. The runs remain as the check that the
theorems are about states that exist, and that a plausible bug would break them.

## Plan

*Done*: all modules and runs; the theorems above. What could follow: `BytesV1` as
a refinement of `FormatV1`, as `BytesV2` is of `FormatV2`; and base64 at its own widths, bytes
of eight bits and characters of six (the lemmas on digits hold for any base, but
`FrontEnd` and `FrontEndProofs` count four and three).

A system whose macaroons travel through a format between the calls was considered
and left out: with `OneEncoding`, `ReadsBack` and `RefusesNoEncodedBytes` a
round trip is the identity, or the refusal that `format_v2json_empty` shows.

## Findings

Two runs end in a counterexample; each is a statement of the repository that
the code does not keep.

- `format_v1_one`: *"Parsers reject non-canonical encodings so a given macaroon
  has one byte representation and cannot carry hidden trailing payload"*
  (`ChangeLog.md:33-34`). It is so for V2, byte for byte (`OneEncodingInBytes`). V1 takes `identifier`
  before `location`, or either among the caveats; and a `vid` or `cl` with no `cid`
  before the signature is dropped in silence (`v1.rs:174`). Within a packet, the
  header may have capital digits or a sign, and the last byte may be any:
  `BytesV1!Spells` is what stays the same.
- `format_v2json_empty`: *"a macaroon that this crate serializes can always be
  parsed back"* (`error.rs:40-41`). An empty predicate or third-party id becomes
  `"i64":""`, which `base64_decode_flexible` refuses (`lib.rs:265`). The round-trip tests
  (`tests/proptest_roundtrip.rs`) draw lengths from 1. V1 and V2 read such
  macaroons back.

## Not modelled

- JSON syntax: `serde_json`'s; the order of keys, duplicate keys and fields
  of the wrong type are `INVALID` or items of `FormatV2Json`.
- `Display`, `Debug`, `From` and the accessors change no state; zeroizing and
  constant-time comparison change no result.
- Tests, fuzz targets and examples are clients of the crate.
- Nothing in the crate persists, sends or runs concurrently, so there are no
  crashes, messages or schedulers to model; the only liveness is that of `verify`
  (a parser's loop consumes at least one byte each time round).
