------------------------------ MODULE Verifier ------------------------------
(***************************************************************************)
(* Verifier::verify and verify_with_sig (src/src/verifier.rs), one caveat   *)
(* and one closure call at a time.                                          *)
(*                                                                          *)
(* A call of the recursive verify_with_sig is a frame: it belongs to a      *)
(* macaroon of the call, and keeps the locals of the function.  Frames stay *)
(* when their function returns, as a history of the call; the call stack is *)
(* the unfinished ones, linked by `from', with `active' on top.             *)
(***************************************************************************)
EXTENDS Authorization, FiniteSets

CONSTANTS
  Token,          \* the macaroons callers hold
  MaxDischarges,  \* bound: discharges in one call
  Exact,          \* the predicates given to satisfy_exact
  General,        \* the closures given to satisfy_general
  MaxGeneral,     \* bound: closures of one verifier
  MaxTime         \* bound: the clock

ASSUME BoundsAssumption ==
  /\ MaxDischarges \in Nat
  /\ MaxGeneral \in Nat
  /\ MaxTime \in Nat

(***************************************************************************)
(* Macaroons are finite terms: no signature is a binding of itself.  A key  *)
(* under a verifier id is one that a caller gave to add_third_party_caveat. *)
(***************************************************************************)
IsToken(m) ==
  /\ Len(m.caveats) \in Nat
  /\ \A j \in 1..Len(m.caveats) :
       \/ IsFirstParty(m.caveats[j])
       \/ /\ IsThirdParty(m.caveats[j])
          /\ m.caveats[j].verifier_id.plaintext \in CallerKey
  /\ Len(m.signature.texts) = 1 /\ Len(m.signature.texts[1]) = 2
       => m.signature.texts[1][1] # m.signature

ASSUME TokenAssumption == \A m \in Token : IsToken(m)

VARIABLES
  exact,    \* Verifier.exact
  general,  \* Verifier.general
  now,      \* the clock that closures may read
  started,  \* when the call in progress was made (history)
  call,     \* the arguments of verify, NoCall when it is not running
  unused,   \* discharge_set, as the numbers of the macaroons still in it
  frames,   \* the calls of verify_with_sig, by the number of their macaroon
  active,   \* the macaroon of the innermost frame
  outcome   \* where verify is, and what it returns

vars ==
  <<exact, general, now, started, call, unused, frames, active, outcome>>
config == <<exact, general>>

NoCall == << >>
NoFrames == << >>

Calls ==
  [root : Token, key : CallerKey,
   discharges : UNION { [1..k -> Token] : k \in 0..MaxDischarges }]

Errors ==
  { "CaveatNotSatisfied", "CryptoError", "InvalidSignature", "DischargeNotUsed" }

Init ==
  /\ exact = {}
  /\ general = << >>
  /\ now = 0
  /\ started = 0
  /\ call = NoCall
  /\ unused = {}
  /\ frames = NoFrames
  /\ active = 0
  /\ outcome = "Idle"

-----------------------------------------------------------------------------
(***************************************************************************)
(* Between calls.  satisfy_exact and satisfy_general take &mut self and     *)
(* verify takes &self: the borrow checker keeps them apart.                 *)
(***************************************************************************)
satisfy_exact(p) ==
  /\ outcome = "Idle"
  /\ exact' = exact \cup {p}
  /\ UNCHANGED <<general, now, started, call, unused, frames, active, outcome>>

satisfy_general(f) ==
  /\ outcome = "Idle"
  /\ Len(general) < MaxGeneral
  /\ general' = Append(general, f)
  /\ UNCHANGED <<exact, now, started, call, unused, frames, active, outcome>>

Tick ==
  /\ now < MaxTime
  /\ now' = now + 1
  /\ UNCHANGED <<config, started, call, unused, frames, active, outcome>>

verify(arguments) ==
  /\ outcome = "Idle"
  /\ call' = arguments
  /\ started' = now
  /\ outcome' = "Collecting"
  /\ UNCHANGED <<config, now, unused, frames, active>>

-----------------------------------------------------------------------------
\* Mutant: the depth is not passed on to the recursive call.
FrameDepthLost(m, key, from, depth) ==
  [key |-> key, sig |-> hmac(key, m.identifier), next |-> 1, asked |-> 0,
   from |-> from, depth |-> 0, finished |-> FALSE]

\* verify_with_sig up to its loop: sig = hmac(key, m.identifier()).
Frame(m, key, from, depth) ==
  [key |-> key, sig |-> hmac(key, m.identifier), next |-> 1, asked |-> 0,
   from |-> from, depth |-> depth, finished |-> FALSE]

Fail(error) ==
  /\ outcome' = error
  /\ UNCHANGED <<config, now, started, call, frames, active>>

\* Mutant: a discharge replaces one with the same identifier in the map.
CollectDischargesLastWins ==
  /\ outcome = "Collecting"
  /\ unused' = { d \in Discharges(call) :
                  \A e \in Discharges(call) :
                    call.discharges[e].identifier = call.discharges[d].identifier
                      => e <= d }
  /\ frames' = [n \in {0} |-> Frame(call.root, call.key, << >>, 0)]
  /\ active' = 0
  /\ outcome' = "Running"
  /\ UNCHANGED <<config, now, started, call>>

\* The loop that fills discharge_set, and the outermost verify_with_sig.
CollectDischarges ==
  /\ outcome = "Collecting"
  /\ IF DistinctIdentifiers(call)
       THEN /\ unused' = Discharges(call)
            /\ frames' = [n \in {0} |-> Frame(call.root, call.key, << >>, 0)]
            /\ active' = 0
            /\ outcome' = "Running"
            /\ UNCHANGED <<config, now, started, call>>
       ELSE Fail("CaveatNotSatisfied") /\ UNCHANGED unused

\* The caveat the innermost loop is at.
frame == frames[active]
AtCaveat ==
  outcome = "Running" /\ frame.next <= Len(Mac(call, active).caveats)
caveat == Mac(call, active).caveats[frame.next]
AtFirstParty == AtCaveat /\ IsFirstParty(caveat)
AtThirdParty == AtCaveat /\ IsThirdParty(caveat)

\* Mutants: the caveat is passed over without signing it; one iterator over
\* the closures serves all the caveats of a macaroon.
SignedNot(f, c) == [f EXCEPT !.next = @ + 1, !.asked = 0]
SignedClosuresUsedUp(f, c) == [f EXCEPT !.sig = sign(c, @), !.next = @ + 1]

\* sig = c.sign(&sig), and on to the next caveat.
Signed(f, c) == [f EXCEPT !.sig = sign(c, @), !.next = @ + 1, !.asked = 0]

Satisfy ==
  /\ frames' = [frames EXCEPT ![active] = Signed(@, caveat)]
  /\ UNCHANGED <<config, now, started, call, unused, active, outcome>>

ExactMatch ==
  /\ AtFirstParty
  /\ caveat.predicate \in exact
  /\ Satisfy

\* verify_general: any() asks the closures in turn, and the clock may tick
\* between two of them.
GeneralMatch ==
  /\ AtFirstParty
  /\ caveat.predicate \notin exact
  /\ frame.asked < Len(general)
  /\ Accepts(general[frame.asked + 1], caveat.predicate, now)
  /\ Satisfy

GeneralMismatch ==
  /\ AtFirstParty
  /\ caveat.predicate \notin exact
  /\ frame.asked < Len(general)
  /\ ~Accepts(general[frame.asked + 1], caveat.predicate, now)
  /\ frames' = [frames EXCEPT ![active].asked = @ + 1]
  /\ UNCHANGED <<config, now, started, call, unused, active, outcome>>

NotSatisfied ==
  /\ AtFirstParty
  /\ caveat.predicate \notin exact
  /\ frame.asked = Len(general)
  /\ Fail("CaveatNotSatisfied")
  /\ UNCHANGED unused

-----------------------------------------------------------------------------
CannotDecrypt ==
  /\ AtThirdParty
  /\ ~Decrypts(frame.sig, caveat.verifier_id)
  /\ Fail("CryptoError")
  /\ UNCHANGED unused

\* The macaroons that discharge_set.remove(tp.id()) finds: one or none.
Found == { d \in unused : call.discharges[d].identifier = caveat.id }

NoDischarge ==
  /\ AtThirdParty
  /\ Decrypts(frame.sig, caveat.verifier_id)
  /\ Found = {}
  /\ Fail("CaveatNotSatisfied")
  /\ UNCHANGED unused

\* Mutant: the limit is one less.
TooDeepByOne ==
  /\ AtThirdParty
  /\ Decrypts(frame.sig, caveat.verifier_id)
  /\ frame.depth + 1 >= MAX_VERIFICATION_DEPTH
  /\ \E d \in Found :
       /\ unused' = unused \ {d}
       /\ Fail("CaveatNotSatisfied")

TooDeep ==
  /\ AtThirdParty
  /\ Decrypts(frame.sig, caveat.verifier_id)
  /\ frame.depth + 1 > MAX_VERIFICATION_DEPTH
  /\ \E d \in Found :
       /\ unused' = unused \ {d}
       /\ Fail("CaveatNotSatisfied")

\* Mutant: the discharge is looked up (get) and stays in the map.
DischargeKept ==
  /\ AtThirdParty
  /\ Decrypts(frame.sig, caveat.verifier_id)
  /\ frame.depth + 1 <= MAX_VERIFICATION_DEPTH
  /\ \E d \in Found :
       /\ frames' =
            [n \in DOMAIN frames \cup {d} |->
               IF n = d
                 THEN Frame(Mac(call, d), decrypt_key(caveat.verifier_id),
                            <<active, frame.next>>, frame.depth + 1)
                 ELSE frames[n]]
       /\ active' = d
  /\ UNCHANGED <<config, now, started, call, unused, outcome>>

Discharge ==
  /\ AtThirdParty
  /\ Decrypts(frame.sig, caveat.verifier_id)
  /\ frame.depth + 1 <= MAX_VERIFICATION_DEPTH
  /\ \E d \in Found :
       /\ unused' = unused \ {d}
       /\ frames' =
            [n \in DOMAIN frames \cup {d} |->
               IF n = d
                 THEN Frame(Mac(call, d), decrypt_key(caveat.verifier_id),
                            <<active, frame.next>>, frame.depth + 1)
                 ELSE frames[n]]
       /\ active' = d
  /\ UNCHANGED <<config, now, started, call, outcome>>

-----------------------------------------------------------------------------
AtEnd == outcome = "Running" /\ frame.next > Len(Mac(call, active).caveats)

\* Mutants: a discharge passes with its own signature, not bound at all; a
\* discharge is to be bound to the macaroon that asked for it.
SignatureHoldsUnbound ==
  \/ Mac(call, active).signature = frame.sig
  \/ BoundSignature(call.root.signature, frame.sig) = Mac(call, active).signature

SignatureHoldsBoundToParent ==
  IF active = 0
    THEN call.root.signature = frame.sig
    ELSE BoundSignature(Mac(call, frame.from[1]).signature, frame.sig)
           = Mac(call, active).signature

\* root_sig == &sig at any depth, else bound_sig == m.signature.
SignatureHolds ==
  LET root_sig == call.root.signature
  IN  \/ root_sig = frame.sig
      \/ BoundSignature(root_sig, frame.sig) = Mac(call, active).signature

BadSignature ==
  /\ AtEnd
  /\ ~SignatureHolds
  /\ Fail("InvalidSignature")
  /\ UNCHANGED unused

\* A discharge is verified: its third-party caveat is signed by the caller.
ReturnToParent ==
  /\ AtEnd
  /\ SignatureHolds
  /\ active # 0
  /\ LET parent == frame.from[1]
         c      == CaveatAt(call, frame.from)
     IN  /\ frames' = [frames EXCEPT ![active].finished = TRUE,
                                     ![parent] = Signed(@, c)]
         /\ active' = parent
  /\ UNCHANGED <<config, now, started, call, unused, outcome>>

\* The root is verified: were all the discharges used?
FinishRoot ==
  /\ AtEnd
  /\ SignatureHolds
  /\ active = 0
  /\ frames' = [frames EXCEPT ![0].finished = TRUE]
  /\ outcome' = IF unused = {} THEN "Ok" ELSE "DischargeNotUsed"
  /\ UNCHANGED <<config, now, started, call, unused, active>>

\* The result is the caller's; what verify allocated is dropped.
Return ==
  /\ outcome \in Errors \cup {"Ok"}
  /\ outcome' = "Idle"
  /\ call' = NoCall
  /\ started' = 0
  /\ unused' = {}
  /\ frames' = NoFrames
  /\ active' = 0
  /\ UNCHANGED <<config, now>>

verify_with_sig ==
  \/ ExactMatch \/ GeneralMatch \/ GeneralMismatch \/ NotSatisfied
  \/ CannotDecrypt \/ NoDischarge \/ TooDeep \/ Discharge
  \/ BadSignature \/ ReturnToParent \/ FinishRoot

Step == CollectDischarges \/ verify_with_sig

Next ==
  \/ \E p \in Exact : satisfy_exact(p)
  \/ \E f \in General : satisfy_general(f)
  \/ Tick
  \/ outcome = "Idle" /\ \E arguments \in Calls : verify(arguments)
  \/ Step
  \/ Return

Spec == Init /\ [][Next]_vars /\ WF_vars(Step)

-----------------------------------------------------------------------------
Finished == { n \in DOMAIN frames : frames[n].finished }
CallStack == DOMAIN frames \ Finished

FrameFields == {"key", "sig", "next", "asked", "from", "depth", "finished"}

\* The signature computed so far is the chain of the caveats before `next'.
FrameOK(n) ==
  LET f == frames[n]
      m == Mac(call, n)
  IN  /\ DOMAIN f = FrameFields
      /\ f.key \in CallerKey
      /\ f.next \in 1..(Len(m.caveats) + 1)
      /\ f.asked \in 0..Len(general)
      /\ f.sig = ChainSignature(f.key, m, f.next - 1)
      /\ f.depth \in 0..MAX_VERIFICATION_DEPTH
      /\ f.finished \in BOOLEAN

\* The arguments of a call, whoever holds its macaroons.
IsCall(c) ==
  /\ c.key \in CallerKey
  /\ Len(c.discharges) \in Nat
  /\ \A n \in Nodes(c) : IsToken(Mac(c, n))

StateOK ==
  /\ exact \subseteq Exact
  /\ general \in Seq(General) /\ Len(general) <= MaxGeneral
  /\ now \in 0..MaxTime
  /\ started \in 0..now
  /\ outcome \in Errors \cup {"Idle", "Collecting", "Running", "Ok"}
  /\ IF outcome = "Idle"
       THEN call = NoCall /\ unused = {} /\ frames = NoFrames /\ active = 0
       ELSE /\ IsCall(call)
            /\ unused \subseteq Discharges(call)
            /\ DOMAIN frames \subseteq Nodes(call)
            /\ frames # NoFrames => active \in DOMAIN frames
            /\ \A n \in DOMAIN frames : FrameOK(n)

\* The type invariant.
TypeOK == call \in Calls \cup {NoCall} /\ StateOK

SatisfiedDuringCall ==
  SatisfiedAtSomeTime(call, exact, general, started..now)

\* Soundness of verify: it returns Ok only when all the discharges, each for
\* one third-party caveat, authorize the root with predicates that held at
\* some time of the call.  In particular no discharge passes unbound, by the
\* comparison with root_sig that is meant for the root.
AcceptsOnlyAuthorized ==
  outcome = "Ok" => Authorized(call, SatisfiedDuringCall)

\* DischargeNotUsed says that nothing but the unused discharges is wrong: the
\* others, by themselves, authorize the root.
NotUsedMeansRedundant ==
  outcome = "DischargeNotUsed" =>
    /\ unused # {}
    /\ AuthorizedBy(call, Discharges(call) \ unused, SatisfiedDuringCall)

\* The recursion is bounded whatever the discharges are (chains, cycles,
\* macaroons that discharge themselves): MAX_VERIFICATION_DEPTH calls below
\* the one for the root.
CallStackBounded == Cardinality(CallStack) <= MAX_VERIFICATION_DEPTH + 1

\* verify does what a Verifier promises, answering every call included.
Promise ==
  INSTANCE VerifierSpec WITH
    verdict <- CASE outcome = "Idle" -> "None"
                 [] outcome \in {"Collecting", "Running"} -> "Pending"
                 [] outcome = "Ok" -> "Accepted"
                 [] OTHER -> "Rejected"
KeepsPromise == Promise!Spec
=============================================================================
