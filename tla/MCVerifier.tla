----------------------------- MODULE MCVerifier -----------------------------
(***************************************************************************)
(* Instances of Verifier for TLC: the macaroons callers hold, in three      *)
(* families, and the closures.                                              *)
(***************************************************************************)
EXTENDS VerifierInvariant

CONSTANTS
  kr, ka, kb, kc,  \* the secrets of the root and of the third parties
  r, a, b, cc,     \* identifiers
  p, q,            \* predicates
  clock, always    \* closures

Loc == "location"
MCSecret == {kr, ka, kb, kc}

Mint(secret, id) == New(Loc, Key(secret), id)
AndFirst(m, predicate) == WithCaveat(m, FirstParty(predicate))
AndThird(m, secret, id, nonce) ==
  WithCaveat(m, NewThirdParty(m, Loc, Key(secret), id, nonce))
BoundAll(root, discharges) == { Bound(root, d) : d \in discharges }

\* The clock accepts p before time 1 and q from then on.
MCAccepts(f, predicate, t) ==
  \/ f = clock /\ predicate = (IF t = 0 THEN p ELSE q)
  \/ f = always /\ predicate = q

-----------------------------------------------------------------------------
\* Roots with every arrangement of up to two third-party caveats, and the
\* discharges that answer them, whole and broken.
Root   == Mint(kr, r)
RootA  == AndThird(Root, ka, a, 1)
RootAp == AndFirst(RootA, p)
RootAB == AndThird(RootA, kb, b, 2)
RootAA == AndThird(RootA, ka, a, 2)
RootR  == AndThird(Root, kr, r, 3)
Da     == Mint(ka, a)
Dap    == AndFirst(Da, p)
DaB    == AndThird(Da, kb, b, 4)
DbA    == AndThird(Mint(kb, b), ka, a, 5)
Db     == Mint(kb, b)

\* A caveat lost, and a caveat key that opens under no chain.
Lost    == [RootA EXCEPT !.caveats = << >>]
Garbled == [RootA EXCEPT !.caveats[1].verifier_id.key = Key(kb)]

DischargeTokens ==
  { Root, RootA, RootAp, RootAB, RootAA, RootR, Lost, Garbled, Da }
    \cup BoundAll(RootA, {Da, Dap, DaB, Db, DbA, Bound(RootA, Da), Mint(kb, a)})
    \cup BoundAll(RootAB, {Da, Db})
    \cup { Bound(DaB, Db), AndFirst(Bound(RootA, Da), p),
           Bound(RootAp, Da), Bound(RootR, Root), Bound(RootAA, Da) }

-----------------------------------------------------------------------------
\* A chain of discharges, each behind the one before, one longer than the
\* limit, and one that closes a cycle.
DcA == AndThird(Mint(kc, cc), ka, a, 7)
DbC == AndThird(Db, kc, cc, 6)
DepthTokens ==
  {RootA} \cup BoundAll(RootA, {Da, DaB, Db, DbC, Mint(kc, cc), DcA})

-----------------------------------------------------------------------------
\* Predicates in every position, for the exact matches and the closures.
RootPQ == AndFirst(AndFirst(Root, p), q)
RootPAQ == AndFirst(AndThird(AndFirst(Root, p), ka, a, 1), q)
PredicateTokens ==
  { Root, RootPQ, RootPAQ }
    \cup BoundAll(RootPAQ, {Da, Dap, AndFirst(Dap, p)})

-----------------------------------------------------------------------------
\* A verifier that is configured, and is called with predicates, or is not, and
\* is called with chains of discharges.
ConfiguredCalls ==
  [root : PredicateTokens, key : CallerKey,
   discharges : UNION { [1..k -> PredicateTokens] : k \in 0..1 }]
ChainedCalls ==
  [root : DepthTokens, key : CallerKey,
   discharges : UNION { [1..k -> DepthTokens] : k \in 0..MaxDischarges }]

TwoFamilies == DepthTokens \cup PredicateTokens
TwoFamiliesNext ==
  \/ \E x \in Exact : satisfy_exact(x)
  \/ \E f \in General : satisfy_general(f)
  \/ Tick
  \/ outcome = "Idle" /\ \E arguments \in ConfiguredCalls : verify(arguments)
  \/ /\ outcome = "Idle" /\ exact = {} /\ general = << >>
     /\ \E arguments \in ChainedCalls : verify(arguments)
  \/ Step
  \/ Return

TwoFamiliesSpec == Init /\ [][TwoFamiliesNext]_vars /\ WF_vars(Step)
=============================================================================
