---------------------------- MODULE MCMacaroonApi ----------------------------
(***************************************************************************)
(* Instances of MacaroonApi for TLC.                                        *)
(***************************************************************************)
EXTENDS MacaroonApi, TLC

CONSTANTS
  empty, r, a, huge,  \* texts: of no bytes, of some, over the limit
  loc, farLoc         \* locations: of some bytes, over the limit

MCSize(x) == CASE x = empty -> 0 [] x \in {huge, farLoc} -> 2 [] OTHER -> 1

SlotSymmetry == Permutations(Slot)
=============================================================================
