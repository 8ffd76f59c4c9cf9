---------------------------- MODULE Authorization ----------------------------
(***************************************************************************)
(* When a macaroon and its discharges authorize a request, said without any *)
(* traversal: every third-party caveat is discharged by a macaroon of its   *)
(* own, every macaroon was minted with the key its caveat carries and bound *)
(* to the root, and every predicate holds.  Verifier::verify                *)
(* (src/src/verifier.rs) is meant to compute exactly this.                  *)
(*                                                                          *)
(* A call of verify is a record of its arguments: root, key, discharges.    *)
(* Its macaroons are numbered: 0 is the root, d > 0 is discharges[d].       *)
(***************************************************************************)
EXTENDS Macaroon

CONSTANTS
  MAX_VERIFICATION_DEPTH,  \* nested discharges that verify follows
  Accepts(_, _, _)         \* Accepts(f, p, t): the closure f, called with
                           \* predicate p at time t, returns true

ASSUME DepthAssumption == MAX_VERIFICATION_DEPTH \in Nat

Discharges(call) == 1..Len(call.discharges)
Nodes(call) == {0} \cup Discharges(call)

Mac(call, n) == IF n = 0 THEN call.root ELSE call.discharges[n]

\* A pointer <<n, j>> is the j-th caveat of macaroon n.
Pointers(call, D) ==
  UNION { { <<n, j>> : j \in ThirdPartyIndices(Mac(call, n)) } :
            n \in {0} \cup D }

CaveatAt(call, ptr) == Mac(call, ptr[1]).caveats[ptr[2]]

DistinctIdentifiers(call) ==
  \A d, e \in Discharges(call) :
    call.discharges[d].identifier = call.discharges[e].identifier => d = e

-----------------------------------------------------------------------------
(***************************************************************************)
(* from[d] is the caveat that discharge d discharges.                       *)
(***************************************************************************)
OneDischargeEach(call, D, from) ==
  /\ \A ptr \in Pointers(call, D) : \E d \in D : from[d] = ptr
  /\ \A d, e \in D : from[d] = from[e] => d = e
  /\ \A d \in D :
       CaveatAt(call, from[d]).id = call.discharges[d].identifier

\* The discharges form a tree under the root, no deeper than the limit.
Nested(D, from) ==
  \E depth \in [{0} \cup D -> 0..MAX_VERIFICATION_DEPTH] :
    /\ depth[0] = 0
    /\ \A d \in D : depth[d] = depth[from[d][1]] + 1

KeyOf(call, from, n) ==
  IF n = 0 THEN call.key ELSE CaveatAt(call, from[n]).verifier_id.plaintext

\* Each caveat key opens under the signature of the chain just before it.
KeysOpen(call, D, from) ==
  \A d \in D :
    LET n == from[d][1]
    IN  Decrypts(ChainSignature(KeyOf(call, from, n), Mac(call, n), from[d][2] - 1),
                 CaveatAt(call, from[d]).verifier_id)

SignaturesHold(call, D, from) ==
  /\ call.root.signature = FullSignature(call.key, call.root)
  /\ \A d \in D :
       call.discharges[d].signature =
         BoundSignature(call.root.signature,
                        FullSignature(KeyOf(call, from, d), call.discharges[d]))

\* The discharges in D, no more and no fewer, authorize the call when the
\* predicates that hold are those in P.
AuthorizedBy(call, D, P) ==
  /\ DistinctIdentifiers(call)
  /\ \A n \in {0} \cup D : FirstPartyPredicates(Mac(call, n)) \subseteq P
  /\ \E from \in [D -> Pointers(call, D)] :
       /\ OneDischargeEach(call, D, from)
       /\ Nested(D, from)
       /\ KeysOpen(call, D, from)
       /\ SignaturesHold(call, D, from)

Authorized(call, P) == AuthorizedBy(call, Discharges(call), P)

-----------------------------------------------------------------------------
(***************************************************************************)
(* The predicates of a call that a verifier (its exact predicates and its   *)
(* closures) satisfies.  A closure may read the clock, so over a period a   *)
(* predicate may be satisfied at some time, or by one closure all along.    *)
(***************************************************************************)
PredicatesOf(call) ==
  UNION { FirstPartyPredicates(Mac(call, n)) : n \in Nodes(call) }

SatisfiedAtSomeTime(call, exact, general, period) ==
  { p \in PredicatesOf(call) :
      \/ p \in exact
      \/ \E i \in 1..Len(general), t \in period : Accepts(general[i], p, t) }

SatisfiedAllAlong(call, exact, general, period) ==
  { p \in PredicatesOf(call) :
      \/ p \in exact
      \/ \E i \in 1..Len(general) :
           \A t \in period : Accepts(general[i], p, t) }
=============================================================================
