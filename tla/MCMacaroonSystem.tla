-------------------------- MODULE MCMacaroonSystem --------------------------
(***************************************************************************)
(* Instances of MacaroonSystem for TLC: a program that starts from nothing, *)
(* and one that has made a root, a discharge and a discharge for that       *)
(* discharge, and is about to bind them.                                    *)
(***************************************************************************)
EXTENDS MacaroonSystem, TLC

CONSTANTS r, a, b, kr, s1, s2, s3, loc

NoAccepts(f, p, t) == FALSE
OneByte(x) == 1
SlotSymmetry == Permutations(Slot)

Mint(id) == New(loc, Key(kr), id)
AndThird(m, id, nonce) ==
  WithCaveat(m, NewThirdParty(m, loc, Key(kr), id, nonce))

\* Where five calls of the API, on three variables, have led.
NestedInit ==
  /\ macaroon = s1 :> AndThird(Mint(r), a, 0) @@ s2 :> AndThird(Mint(a), b, 1)
                   @@ s3 :> Mint(b)
  /\ origin = [s \in Slot |-> [secret |-> kr, bindings |-> << >>]]
  /\ nonces = 2
  /\ calls = 5
  /\ result = "Ok"
  /\ V!Init
  /\ slots = NoSlots

NestedSpec == NestedInit /\ [][Next]_vars
=============================================================================
