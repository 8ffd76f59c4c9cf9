--------------------------- MODULE MacaroonSystem ---------------------------
(***************************************************************************)
(* A program that makes macaroons (MacaroonApi) and verifies them           *)
(* (Verifier): any macaroon it holds may be the root or a discharge of a    *)
(* call of verify, at any stage of its life.  verify borrows its arguments, *)
(* so no macaroon changes while it runs.                                    *)
(*                                                                          *)
(* The property says what the signatures are for: verify's answer is a      *)
(* function of the histories of the macaroons, that is of who created them  *)
(* with which key, what was added to them and when they were bound.         *)
(***************************************************************************)
EXTENDS MacaroonApi, Authorization

CONSTANTS
  MaxDischarges,  \* bound: discharges in one call
  Exact           \* the predicates given to satisfy_exact

ASSUME DischargesAssumption == MaxDischarges \in Nat

VARIABLES
  exact, general, now, started, call, unused, frames, active, outcome,
  slots           \* the slots of the call's macaroons: the root's at 0

V == INSTANCE Verifier WITH
       Token <- {}, General <- {}, MaxGeneral <- 0, MaxTime <- 0

verifierVars ==
  <<exact, general, now, started, call, unused, frames, active, outcome>>
vars == <<apiVars, verifierVars, slots>>

NoSlots == << >>

Init == ApiInit /\ V!Init /\ slots = NoSlots

\* The arguments that the slots in choice stand for.
CallOf(choice, k, key) ==
  [root |-> macaroon[choice[0]], key |-> key,
   discharges |-> [d \in 1..k |-> macaroon[choice[d]]]]

Make ==
  /\ outcome = "Idle"
  /\ ApiNext
  /\ UNCHANGED <<verifierVars, slots>>

Configure ==
  /\ \E p \in Exact : V!satisfy_exact(p)
  /\ UNCHANGED <<apiVars, slots>>

Verify ==
  /\ outcome = "Idle"
  /\ \E k \in 0..MaxDischarges : \E choice \in [0..k -> Held], key \in CallerKey :
       /\ slots' = choice
       /\ V!verify(CallOf(choice, k, key))
  /\ UNCHANGED apiVars

Running == V!Step /\ UNCHANGED <<apiVars, slots>>

Return == V!Return /\ slots' = NoSlots /\ UNCHANGED apiVars

Next == Make \/ Configure \/ Verify \/ Running \/ Return

Spec == Init /\ [][Next]_vars

-----------------------------------------------------------------------------
History(n) == origin[slots[n]]

\* The discharge in slot n was made for the root as it now is: bound to it,
\* once, by the last thing done to the discharge, after the last thing done
\* to the root.
BoundToRoot(n) ==
  /\ Len(History(n).bindings) = 1
  /\ History(n).bindings[1].root = Identity(slots[0])
  /\ History(n).bindings[1].at = Len(macaroon[slots[n]].caveats)

\* from[d] is the third-party caveat that asked for discharge d, and d was
\* created with the key that was given with that caveat.
AskedFor(from, d) ==
  LET c == CaveatAt(call, from[d])
  IN  /\ c.id = macaroon[slots[d]].identifier
      /\ c.verifier_id.plaintext = Key(History(d).secret)

\* The call by its histories, without a signature or a sealed key: the key is
\* the root's, the root was never bound, every discharge was bound to the
\* root, and caveats and discharges correspond one to one in a tree.
Rightful ==
  LET D == Discharges(call)
  IN  /\ call.key = Key(History(0).secret)
      /\ History(0).bindings = << >>
      /\ \A d \in D : BoundToRoot(d)
      /\ DistinctIdentifiers(call)
      /\ PredicatesOf(call) \subseteq exact
      /\ \E from \in [D -> Pointers(call, D)] :
           /\ OneDischargeEach(call, D, from)
           /\ Nested(D, from)
           /\ \A d \in D : AskedFor(from, d)

\* verify accepts exactly the calls that are rightful by the histories of
\* their macaroons: a discharge that was never bound, was bound to another
\* macaroon, was bound twice, or was bound before the root or itself was
\* attenuated again, is of no use, and nothing else makes verify refuse.
HistoryDecides ==
  /\ outcome = "Ok" => Rightful
  /\ outcome \in V!Errors => ~Rightful
=============================================================================
