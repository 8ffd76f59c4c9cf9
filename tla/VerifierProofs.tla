---------------------------- MODULE VerifierProofs ----------------------------
(***************************************************************************)
(* Proofs about Verifier, for all sets of macaroons, closures and           *)
(* configurations: its inductive invariant, that the recursion is bounded,  *)
(* that verify accepts only what is authorized, that it refuses only what   *)
(* is not, and from these that it implements VerifierSpec.                  *)
(***************************************************************************)
EXTENDS VerifierInvariant, MacaroonLemmas, SequenceTheorems, FiniteSetTheorems

-----------------------------------------------------------------------------
(***************************************************************************)
(* What the state is made of while verify runs.                             *)
(***************************************************************************)

\* What is known of a call.
LEMMA CallFacts ==
  ASSUME NEW c, IsCall(c)
  PROVE  /\ IsToken(c.root) /\ c.key \in CallerKey
         /\ Len(c.discharges) \in Nat
         /\ \A n \in Nodes(c) : IsToken(Mac(c, n)) /\ Len(Mac(c, n).caveats) \in Nat
         /\ \A d \in Discharges(c) : d \in Nat /\ d # 0
                                     /\ Mac(c, d) = c.discharges[d]
<1>1. \A d \in Discharges(c) : d \in Nat /\ d # 0
  BY DEF IsCall, Discharges
<1>2. 0 \in Nodes(c) /\ Mac(c, 0) = c.root
  BY DEF Nodes, Mac
<1>3. \A n \in Nodes(c) : IsToken(Mac(c, n))
  BY DEF IsCall
<1>4. \A n \in Nodes(c) : Len(Mac(c, n).caveats) \in Nat
  BY <1>3 DEF IsToken
<1> QED
  BY <1>1, <1>2, <1>3, <1>4 DEF IsCall, Mac

\* Calls of macaroons from Token are such calls.
LEMMA CallsAreCalls ==
  ASSUME NEW c \in Calls
  PROVE  IsCall(c)
<1>1. PICK k \in 0..MaxDischarges : c.discharges \in [1..k -> Token]
  BY BoundsAssumption DEF Calls
<1>2. c.discharges \in Seq(Token) /\ Len(c.discharges) = k
  BY <1>1, BoundsAssumption
<1>3. \A n \in Nodes(c) : Mac(c, n) \in Token
  BY <1>1, <1>2, BoundsAssumption DEF Calls, Nodes, Discharges, Mac
<1> QED
  BY <1>1, <1>2, <1>3, TokenAssumption, BoundsAssumption DEF Calls, IsCall

\* The fields of a frame after its caveat was signed.
LEMMA SignedFields ==
  ASSUME NEW f, NEW c, DOMAIN f = FrameFields
  PROVE  LET g == Signed(f, c)
         IN  /\ DOMAIN g = FrameFields
             /\ g.sig = sign(c, f.sig) /\ g.next = f.next + 1 /\ g.asked = 0
             /\ g.key = f.key /\ g.from = f.from /\ g.depth = f.depth
             /\ g.finished = f.finished
BY DEF Signed, FrameFields

\* Time only adds to what was satisfied during the call.
LEMMA SatisfiedGrows ==
  ASSUME now \in Nat, started \in Nat, now' \in Nat, now <= now',
         UNCHANGED <<exact, general, call, started>>
  PROVE  SatisfiedDuringCall \subseteq SatisfiedDuringCall'
BY DEF SatisfiedDuringCall, SatisfiedAtSomeTime

\* More satisfied predicates authorize no less.
LEMMA AuthorizedByGrows ==
  ASSUME NEW c, NEW D, NEW P, NEW Q, P \subseteq Q, AuthorizedBy(c, D, P)
  PROVE  AuthorizedBy(c, D, Q)
BY Zenon DEF AuthorizedBy

\* The macaroon of a frame, and the caveat it is at.
LEMMA CaveatFacts ==
  ASSUME IsCall(call), NEW n \in Nodes(call), FrameOK(n)
  PROVE  LET m == Mac(call, n)
             j == frames[n].next
         IN  /\ IsToken(m)
             /\ Len(m.caveats) \in Nat
             /\ j \in Nat /\ j > 0
             /\ j <= Len(m.caveats) =>
                  \/ IsFirstParty(m.caveats[j])
                  \/ /\ IsThirdParty(m.caveats[j])
                     /\ ~IsFirstParty(m.caveats[j])
                     /\ j \in ThirdPartyIndices(m)
                     /\ m.caveats[j].verifier_id.plaintext \in CallerKey
<1>1. IsToken(Mac(call, n))
  BY CallFacts
<1>2. Len(Mac(call, n).caveats) \in Nat
  BY <1>1 DEF IsToken
<1>3. frames[n].next \in 1..(Len(Mac(call, n).caveats) + 1)
  BY DEF FrameOK
<1> QED
  BY <1>1, <1>2, <1>3
  DEF IsToken, ThirdPartyIndices, IsFirstParty, IsThirdParty

\* A frame that signs its caveat is well formed again.
LEMMA FrameAdvances ==
  ASSUME IsCall(call), UNCHANGED <<call, general>>, NEW n \in Nodes(call),
         FrameOK(n), frames[n].next <= Len(Mac(call, n).caveats),
         Len(general) \in Nat,
         frames'[n] = Signed(frames[n], Mac(call, n).caveats[frames[n].next])
  PROVE  FrameOK(n)'
<1> DEFINE m == Mac(call, n)
           f == frames[n]
           g == Signed(f, m.caveats[f.next])
<1>1. /\ Len(m.caveats) \in Nat
      /\ f.next \in Nat /\ f.next > 0
      /\ IsFirstParty(m.caveats[f.next]) \/ IsThirdParty(m.caveats[f.next])
  BY CaveatFacts
<1>2. /\ DOMAIN f = FrameFields /\ f.key \in CallerKey
      /\ f.sig = ChainSignature(f.key, m, f.next - 1)
      /\ f.depth \in 0..MAX_VERIFICATION_DEPTH /\ f.finished \in BOOLEAN
  BY DEF FrameOK
<1>3. g.sig = ChainSignature(f.key, m, f.next)
  BY <1>1, <1>2, NextLink, SignedFields
<1>4. /\ DOMAIN g = FrameFields /\ g.next = f.next + 1 /\ g.asked = 0
      /\ g.key = f.key /\ g.depth = f.depth /\ g.finished = f.finished
  BY <1>2, SignedFields
<1>5. frames'[n] = g /\ Mac(call, n)' = m /\ general' = general
  BY DEF Mac
<1>6. g.next - 1 = f.next /\ g.next \in 1..(Len(m.caveats) + 1)
  BY <1>1, <1>4
<1> HIDE DEF g, f, m
<1> QED
  BY <1>2, <1>3, <1>4, <1>5, <1>6 DEF FrameOK

\* A frame that a step leaves alone stays as it should be.
LEMMA FrameStays ==
  ASSUME UNCHANGED <<call, general>>, NEW n, frames'[n] = frames[n], FrameOK(n)
  PROVE  FrameOK(n)'
BY DEF FrameOK, Mac

\* Nothing that is not on top of the stack hangs below the top.
LEMMA NoChildOfActive ==
  ASSUME StateOK, outcome = "Running", StackOK, active \in Visited, NEW d \in Asked,
         LinkOK(d), frames[d].from[1] = active
  PROVE  frames[d].finished
<1>1. FrameOK(d) /\ FrameOK(active)
  BY DEF StateOK, Asked, Visited
<1>2. frames[d].depth \in Nat /\ frames[active].depth \in Nat
  BY <1>1, DepthAssumption DEF FrameOK
<1>3. frames[d].depth = frames[active].depth + 1
  BY DEF LinkOK
<1>4. ~frames[d].finished => d \in CallStack
  BY <1>1 DEF CallStack, Finished, Asked, Visited
<1> QED
  BY <1>2, <1>3, <1>4 DEF StackOK

-----------------------------------------------------------------------------
(***************************************************************************)
(* The steps of verify_with_sig that change a frame keep RunningOK.         *)
(***************************************************************************)

Running == StateOK /\ outcome = "Running" /\ RunningOK

\* What is known of the frame that runs.
LEMMA RunningFacts ==
  ASSUME Running
  PROVE  /\ IsCall(call)
         /\ Len(general) \in Nat /\ now \in Nat /\ started \in Nat
         /\ started <= now
         /\ active \in Visited /\ 0 \in Visited
         /\ \A n \in Visited : n \in Nodes(call) /\ FrameOK(n) /\ n \in Nat
         /\ CallStack \subseteq Visited
<1>1. /\ IsCall(call) /\ general \in Seq(General)
      /\ now \in 0..MaxTime /\ started \in 0..now
      /\ \A n \in Visited : FrameOK(n)
  BY DEF Running, StateOK, Visited
<1>2. /\ active \in Visited /\ 0 \in Visited
      /\ Visited \subseteq Nodes(call)
  BY DEF Running, RunningOK, MapOK
<1>3. Len(general) \in Nat
  BY <1>1
<1>4. \A n \in Nodes(call) : n \in Nat
  BY <1>1, CallFacts DEF Nodes
<1> QED
  BY <1>1, <1>2, <1>3, <1>4, BoundsAssumption DEF CallStack, Visited

\* A step of the innermost frame alone, past a caveat at most.
LEMMA ActiveStep ==
  ASSUME Running,
         UNCHANGED <<exact, general, now, started, call, unused, active, outcome>>,
         DOMAIN frames' = DOMAIN frames,
         \A n \in Visited : n # active => frames'[n] = frames[n],
         frames'[active].key = frames[active].key,
         frames'[active].from = frames[active].from,
         frames'[active].depth = frames[active].depth,
         frames'[active].finished = frames[active].finished,
         FrameOK(active)',
         \/ frames'[active].next = frames[active].next
         \/ /\ frames'[active].next = frames[active].next + 1
            /\ Cleared(active, frames[active].next)
  PROVE  Running'
<1> DEFINE f == frames[active]
<1>1. UNCHANGED <<exact, general, now, started, call, unused, active, outcome>>
  OBVIOUS
<1>2. Visited' = Visited
  BY DEF Visited
<1>3. f.next \in Nat
  BY RunningFacts, CaveatFacts
<1>4. \A n \in Visited :
        /\ frames'[n].key = frames[n].key /\ frames'[n].from = frames[n].from
        /\ frames'[n].depth = frames[n].depth
        /\ frames'[n].finished = frames[n].finished
        /\ n # active => frames'[n] = frames[n]
  OBVIOUS
<1>5. Asked' = Asked /\ CallStack' = CallStack
  BY <1>2, <1>4 DEF Asked, CallStack, Finished, Visited
<1>6. SatisfiedDuringCall' = SatisfiedDuringCall
  BY <1>1 DEF SatisfiedDuringCall
<1>7. \A n \in Visited : FrameOK(n)'
  <2> SUFFICES ASSUME NEW n \in Visited
               PROVE  FrameOK(n)'
    OBVIOUS
  <2>1. CASE n = active
    BY <2>1
  <2>2. CASE n # active
    BY <2>2, FrameStays, RunningFacts
  <2> QED BY <2>1, <2>2
<1>8. StateOK'
  BY <1>1, <1>2, <1>7, RunningFacts DEF StateOK, Visited, Running
<1>9. MapOK' /\ RootOK'
  BY <1>1, <1>2, <1>4, RunningFacts DEF Running, RunningOK, MapOK, RootOK
<1>10. StackOK'
  BY <1>1, <1>2, <1>4, <1>5, RunningFacts DEF Running, RunningOK, StackOK
<1>11. RootAsked'
  BY <1>4, <1>5 DEF Running, RunningOK, RootAsked, Asked
<1>12. \A d \in Asked : LinkOK(d)'
  <2> SUFFICES ASSUME NEW d \in Asked
               PROVE  LinkOK(d)'
    OBVIOUS
  <2> DEFINE n == frames[d].from[1]
  <2>1. LinkOK(d) /\ d \in Visited
    BY DEF Running, RunningOK, Asked
  <2>2. n \in Visited
    BY <2>1 DEF LinkOK
  <2>3. ~frames[d].finished => frames'[n] = frames[n]
    BY <2>1, <2>2, <1>4, NoChildOfActive, RunningFacts DEF Running, RunningOK
  <2>4. Answers(call, d, frames[d].from, frames[n].key, frames[d].key)'
    BY <1>1, <1>4, <2>1, <2>2 DEF LinkOK
  <2>5. n' = n /\ (n \in Visited)'
    BY <1>2, <1>4, <2>1, <2>2
  <2>6. frames'[d].depth = frames'[n].depth + 1
    BY <1>4, <2>1, <2>2 DEF LinkOK
  <2>7. ~frames'[d].finished =>
          ~frames'[n].finished /\ frames'[n].next = frames'[d].from[2]
    BY <1>4, <2>1, <2>2, <2>3 DEF LinkOK
  <2> QED
    BY <2>4, <2>5, <2>6, <2>7 DEF LinkOK
<1>13. \A n \in Visited : ProgressOK(n)'
  <2>1. \A n, j : Cleared(n, j) => Cleared(n, j)'
    <3> SUFFICES ASSUME NEW n, NEW j, Cleared(n, j) PROVE Cleared(n, j)'
      OBVIOUS
    <3>1. Mac(call, n)' = Mac(call, n)
      BY <1>1
    <3>2. \A d \in Asked : frames'[d].from = frames[d].from
      BY <1>4 DEF Asked
    <3> QED
      BY <1>5, <1>6, <3>1, <3>2 DEF Cleared
  <2> SUFFICES ASSUME NEW n \in Visited, NEW j \in 1..(frames'[n].next - 1)
               PROVE  Cleared(n, j)
    BY <1>2, <2>1 DEF ProgressOK
  <2>3. \/ j \in 1..(frames[n].next - 1)
        \/ n = active /\ j = f.next /\ Cleared(active, f.next)
    BY <1>3, <1>4
  <2> QED BY <2>3 DEF Running, RunningOK, ProgressOK
<1>14. \A n \in Visited : FinishedOK(n)'
  <2> SUFFICES ASSUME NEW n \in Visited
               PROVE  FinishedOK(n)'
    OBVIOUS
  <2>1. FinishedOK(n) /\ ~frames[active].finished
    BY DEF Running, RunningOK, StackOK
  <2>2. frames'[n].finished => frames'[n] = frames[n]
    BY <1>4, <2>1
  <2> QED
    BY <1>1, <1>4, <2>1, <2>2 DEF FinishedOK, Mac
<1> QED
  BY <1>1, <1>2, <1>5, <1>8, <1>9, <1>10, <1>11, <1>12, <1>13, <1>14
  DEF Running, RunningOK

\* The predicate of the caveat at hand is one of the call's.
LEMMA CaveatDemanded ==
  ASSUME Running, AtFirstParty
  PROVE  caveat.predicate \in PredicatesOf(call)
<1>1. /\ active \in Nodes(call) /\ frames[active].next \in Nat
      /\ frames[active].next > 0 /\ Len(Mac(call, active).caveats) \in Nat
  BY RunningFacts, CaveatFacts
<1>2. caveat.predicate \in FirstPartyPredicates(Mac(call, active))
  BY <1>1 DEF AtFirstParty, AtCaveat, caveat, frame, FirstPartyPredicates
<1> QED
  BY <1>1, <1>2 DEF PredicatesOf

\* A first-party caveat that is satisfied.
LEMMA SatisfyStep ==
  ASSUME Running, AtFirstParty, caveat.predicate \in SatisfiedDuringCall,
         Satisfy
  PROVE  Running'
<1> DEFINE f == frames[active]
           c == Mac(call, active).caveats[f.next]
<1>1. /\ UNCHANGED <<exact, general, now, started, call, unused, active, outcome>>
      /\ frames' = [frames EXCEPT ![active] = Signed(@, c)]
      /\ f.next <= Len(Mac(call, active).caveats)
      /\ Cleared(active, f.next)
  BY DEF Satisfy, config, AtFirstParty, AtCaveat, caveat, frame, Cleared
<1>2. /\ DOMAIN frames' = DOMAIN frames /\ frames'[active] = Signed(f, c)
      /\ \A n \in Visited : n # active => frames'[n] = frames[n]
  BY <1>1, RunningFacts DEF Visited
<1>3. DOMAIN f = FrameFields
  BY RunningFacts DEF FrameOK
<1>4. FrameOK(active)'
  <2>1. FrameOK(active) /\ active \in Nodes(call) /\ UNCHANGED <<call, general>>
    BY <1>1, RunningFacts
  <2>2. \A n \in Nodes(call) :
          n = active => FrameOK(n)'
    BY <2>1, <1>1, <1>2, FrameAdvances, RunningFacts
  <2> QED BY <1>1, <2>1, <2>2
<1> QED
  BY <1>1, <1>2, <1>3, <1>4, SignedFields, ActiveStep

\* A closure that does not accept the predicate.
LEMMA MismatchStep ==
  ASSUME Running, GeneralMismatch
  PROVE  Running'
<1> DEFINE f == frames[active]
<1>1. /\ UNCHANGED <<exact, general, now, started, call, unused, active, outcome>>
      /\ frames' = [frames EXCEPT ![active].asked = @ + 1]
      /\ f.asked < Len(general)
  BY DEF GeneralMismatch, config, AtFirstParty, AtCaveat, frame
<1>2. /\ FrameOK(active) /\ active \in Visited /\ Len(general) \in Nat
  BY RunningFacts
<1>3. /\ DOMAIN frames' = DOMAIN frames
      /\ frames'[active] = [f EXCEPT !.asked = @ + 1]
      /\ \A n \in Visited : n # active => frames'[n] = frames[n]
  BY <1>1, <1>2 DEF Visited
<1>4. LET g == frames'[active]
      IN  /\ DOMAIN g = FrameFields /\ g.asked = f.asked + 1
          /\ g.sig = f.sig /\ g.next = f.next /\ g.key = f.key
          /\ g.from = f.from /\ g.depth = f.depth /\ g.finished = f.finished
  BY <1>2, <1>3 DEF FrameOK, FrameFields
<1>5. FrameOK(active)'
  BY <1>1, <1>2, <1>4 DEF FrameOK
<1> QED
  BY <1>1, <1>3, <1>4, <1>5, ActiveStep

\* A third-party caveat whose discharge is taken from the map.
LEMMA DischargeStep ==
  ASSUME Running, Discharge
  PROVE  Running'
<1> DEFINE f == frames[active]
           j == f.next
           c == Mac(call, active).caveats[j]
<1>1. /\ UNCHANGED <<exact, general, now, started, call, outcome>>
      /\ j <= Len(Mac(call, active).caveats) /\ IsThirdParty(c)
      /\ Decrypts(f.sig, c.verifier_id)
      /\ f.depth + 1 <= MAX_VERIFICATION_DEPTH
  BY DEF Discharge, config, AtThirdParty, AtCaveat, caveat, frame
<1>2. PICK d \in unused :
        /\ call.discharges[d].identifier = c.id
        /\ unused' = unused \ {d}
        /\ frames' = [n \in DOMAIN frames \cup {d} |->
                        IF n = d
                          THEN Frame(Mac(call, d), c.verifier_id.plaintext,
                                     <<active, j>>, f.depth + 1)
                          ELSE frames[n]]
        /\ active' = d
  BY DEF Discharge, Found, caveat, frame, decrypt_key
<1> DEFINE g == frames'[d]
<1>3. /\ d \in Discharges(call) /\ d \in Nat /\ d # 0 /\ d \notin Visited
      /\ d \in Nodes(call) /\ DistinctIdentifiers(call)
      /\ Visited = Nodes(call) \ unused
  BY CallFacts, RunningFacts DEF Running, RunningOK, MapOK, Nodes
<1>4. Visited' = Visited \cup {d} /\ Asked' = Asked \cup {d}
  BY <1>2, <1>3 DEF Visited, Asked
<1>5. \A n \in Visited : frames'[n] = frames[n] /\ n # d
  BY <1>2, <1>3 DEF Visited
<1>6. /\ FrameOK(active) /\ j \in Nat /\ c.verifier_id.plaintext \in CallerKey
      /\ j \in ThirdPartyIndices(Mac(call, active))
  BY <1>1, RunningFacts, CaveatFacts DEF IsThirdParty, IsFirstParty
<1>7. g = Frame(Mac(call, d), c.verifier_id.plaintext, <<active, j>>, f.depth + 1)
  BY <1>2 DEF Visited
<1>8. /\ DOMAIN g = FrameFields
      /\ g.key = c.verifier_id.plaintext /\ g.next = 1 /\ g.asked = 0
      /\ g.sig = hmac(g.key, Mac(call, d).identifier)
      /\ g.from = <<active, j>> /\ g.depth = f.depth + 1 /\ g.finished = FALSE
  BY <1>7 DEF Frame, FrameFields
<1>9. f.depth \in Nat /\ g.depth \in 0..MAX_VERIFICATION_DEPTH
  BY <1>1, <1>6, <1>8, DepthAssumption DEF FrameOK
<1>10. FrameOK(d)'
  <2>1. g.sig = ChainSignature(g.key, Mac(call, d), 0)
    BY <1>6, <1>8, FirstLink
  <2>2. Mac(call, d)' = Mac(call, d) /\ Len(Mac(call, d).caveats) \in Nat
    BY <1>1, <1>3, CallFacts, RunningFacts
  <2>3. Len(general') \in Nat
    BY <1>1, RunningFacts
  <2>4. g.sig = ChainSignature(g.key, Mac(call, d), g.next - 1)
    BY <1>8, <2>1
  <2>5. g.next \in 1..(Len(Mac(call, d).caveats) + 1) /\ g.asked \in 0..Len(general')
    BY <1>8, <2>2, <2>3
  <2> HIDE DEF g
  <2> QED
    BY <1>6, <1>8, <1>9, <2>2, <2>4, <2>5 DEF FrameOK, g
<1>11. \A n \in Visited' : FrameOK(n)'
  BY <1>1, <1>4, <1>5, <1>10, FrameStays, RunningFacts
<1>12. StateOK' /\ MapOK'
  <2>1. Visited' = Nodes(call) \ unused' /\ unused' \subseteq Discharges(call)
    BY <1>2, <1>3, <1>4 DEF Running, RunningOK, MapOK
  <2>2. active' \in Visited' /\ 0 \in Visited'
    BY <1>2, <1>4, RunningFacts
  <2>3. StateOK'
    BY <1>1, <1>11, <2>1, <2>2 DEF StateOK, Visited, Running
  <2> QED
    BY <1>1, <1>3, <2>1, <2>2, <2>3 DEF MapOK
<1>13. RootOK'
  BY <1>1, <1>5, RunningFacts DEF Running, RunningOK, RootOK
<1>14. \A e \in Asked' : LinkOK(e)'
  <2> SUFFICES ASSUME NEW e \in Asked'
               PROVE  LinkOK(e)'
    OBVIOUS
  <2>1. CASE e = d
    <3>1. /\ g.from[1] = active /\ g.from[2] = j
          /\ active \in Visited' /\ frames'[active] = f /\ ~f.finished
      BY <1>4, <1>5, <1>8, RunningFacts DEF Running, RunningOK, StackOK
    <3>2. Answers(call, d, g.from, f.key, g.key)
      <4>1. f.sig = ChainSignature(f.key, Mac(call, active), j - 1)
        BY <1>6 DEF FrameOK
      <4> QED
        BY <1>1, <1>2, <1>6, <1>8, <3>1, <4>1 DEF Answers, CaveatAt
    <3> QED
      BY <1>1, <1>8, <2>1, <3>1, <3>2 DEF LinkOK
  <2>2. CASE e \in Asked
    <3> DEFINE n == frames[e].from[1]
    <3>1. LinkOK(e) /\ e \in Visited /\ n \in Visited
      BY <2>2 DEF Running, RunningOK, LinkOK, Asked
    <3>2. frames'[e] = frames[e] /\ frames'[n] = frames[n] /\ n \in Visited'
      BY <1>4, <1>5, <3>1
    <3> QED
      BY <1>1, <3>1, <3>2 DEF LinkOK
  <2> QED BY <1>4, <2>1, <2>2
<1>15. StackOK'
  <2>1. CallStack' = CallStack \cup {d}
    BY <1>4, <1>5, <1>8 DEF CallStack, Finished, Visited
  <2>2. \A n \in CallStack :
          /\ frames'[n] = frames[n]
          /\ frames[n].depth \in Nat /\ frames[n].depth <= f.depth
    BY <1>5, RunningFacts, DepthAssumption
    DEF Running, RunningOK, StackOK, FrameOK
  <2>3. \A n \in CallStack : frames'[n].depth < g.depth
    BY <1>8, <1>9, <2>2
  <2>4. \A n, k \in CallStack : frames[n].depth = frames[k].depth => n = k
    BY DEF Running, RunningOK, StackOK
  <2>5. \A n \in CallStack' :
          /\ frames'[n].depth <= g.depth
          /\ frames'[n].depth = g.depth => n = d
    BY <1>9, <2>1, <2>2, <2>3
  <2>6. \A n, k \in CallStack' : frames'[n].depth = frames'[k].depth => n = k
    <3> SUFFICES ASSUME NEW n \in CallStack', NEW k \in CallStack',
                        frames'[n].depth = frames'[k].depth
                 PROVE  n = k
      OBVIOUS
    <3>1. CASE n = d \/ k = d
      BY <2>5, <3>1
    <3>2. CASE n # d /\ k # d
      BY <2>1, <2>2, <2>4, <3>2
    <3> QED BY <3>1, <3>2
  <2> QED
    BY <1>2, <1>8, <2>5, <2>6 DEF StackOK
<1>16. \A n \in Visited' : ProgressOK(n)' /\ FinishedOK(n)'
  <2>1. SatisfiedDuringCall' = SatisfiedDuringCall
    BY <1>1 DEF SatisfiedDuringCall
  <2>2. \A n, i : Cleared(n, i) => Cleared(n, i)'
    <3> SUFFICES ASSUME NEW n, NEW i, Cleared(n, i) PROVE Cleared(n, i)'
      OBVIOUS
    <3>1. Mac(call, n)' = Mac(call, n)
      BY <1>1
    <3>2. \A e \in Asked : e \in Asked' /\ frames'[e].from = frames[e].from
      BY <1>4, <1>5 DEF Asked
    <3> QED
      BY <2>1, <3>1, <3>2 DEF Cleared
  <2>3. ProgressOK(d)' /\ FinishedOK(d)'
    BY <1>8 DEF ProgressOK, FinishedOK
  <2>4. ASSUME NEW n \in Visited
        PROVE  ProgressOK(n)' /\ FinishedOK(n)'
    BY <1>1, <1>5, <2>2 DEF Running, RunningOK, ProgressOK, FinishedOK
  <2> QED BY <1>4, <2>3, <2>4
<1>17. RootAsked'
  <2>1. CASE Asked = {}
    <3>1. active = 0
      BY <2>1, RunningFacts DEF Asked
    <3> QED BY <1>4, <1>8, <3>1 DEF RootAsked
  <2>2. CASE Asked # {}
    BY <1>4, <1>5, <2>2 DEF Running, RunningOK, RootAsked, Asked
  <2> QED BY <2>1, <2>2
<1> QED
  BY <1>1, <1>12, <1>13, <1>14, <1>15, <1>16, <1>17 DEF Running, RunningOK

\* At the end of the loop the signature is the full chain; what the code
\* compares then is what FinishedOK says.
LEMMA AtEndFacts ==
  ASSUME Running, AtEnd, SignatureHolds
  PROVE  LET f   == frames[active]
             m   == Mac(call, active)
             sig == FullSignature(f.key, m)
         IN  /\ f.next = Len(m.caveats) + 1 /\ Len(m.caveats) \in Nat
             /\ \/ m.signature = BoundSignature(call.root.signature, sig)
                \/ call.root.signature = sig
<1>1. /\ FrameOK(active) /\ Len(Mac(call, active).caveats) \in Nat
      /\ frames[active].next > Len(Mac(call, active).caveats)
  BY RunningFacts, CaveatFacts DEF AtEnd, frame
<1>2. frames[active].next = Len(Mac(call, active).caveats) + 1
  BY <1>1 DEF FrameOK
<1>3. frames[active].sig
        = ChainSignature(frames[active].key, Mac(call, active),
                         Len(Mac(call, active).caveats))
  BY <1>1, <1>2 DEF FrameOK
<1> QED
  BY <1>1, <1>2, <1>3 DEF SignatureHolds, FullSignature, frame

\* A verified discharge, and the caveat it was taken for.
LEMMA ReturnStep ==
  ASSUME Running, ReturnToParent
  PROVE  Running'
\* The discharge a, its caller p and the caveat of p it answers, as they are
\* before the step.
<1>0. PICK a, p, j : a = active /\ p = frames[a].from[1] /\ j = frames[a].from[2]
  OBVIOUS
<1> DEFINE f == frames[a]
           c == CaveatAt(call, f.from)
<1>1. /\ UNCHANGED <<exact, general, now, started, call, unused, outcome>>
      /\ a # 0 /\ AtEnd /\ SignatureHolds
      /\ frames' = [frames EXCEPT ![a].finished = TRUE,
                                  ![p] = Signed(@, c)]
      /\ active' = p
  BY <1>0 DEF ReturnToParent, config, frame
<1>2. a \in Asked /\ LinkOK(a) /\ FrameOK(a)
  BY <1>0, <1>1, RunningFacts DEF Asked, Running, RunningOK
<1>3. /\ p \in Visited /\ Answers(call, a, f.from, frames[p].key, f.key)
      /\ f.depth = frames[p].depth + 1
      /\ ~f.finished /\ ~frames[p].finished /\ frames[p].next = j
  BY <1>0, <1>2 DEF LinkOK, Running, RunningOK, StackOK
<1>4. /\ c = Mac(call, p).caveats[j] /\ f.from = <<p, j>>
      /\ j \in ThirdPartyIndices(Mac(call, p))
  BY <1>0, <1>3 DEF Answers, CaveatAt
<1>5. /\ FrameOK(p) /\ p \in Nodes(call)
      /\ frames[p].depth \in Nat /\ f.depth \in Nat /\ p # a
  <2>1. FrameOK(p) /\ p \in Nodes(call)
    BY <1>3, RunningFacts
  <2>2. frames[p].depth \in Nat /\ f.depth \in Nat
    BY <1>2, <2>1, DepthAssumption DEF FrameOK
  <2> QED BY <1>3, <2>1, <2>2
<1>6. /\ DOMAIN frames' = DOMAIN frames
      /\ frames'[p] = Signed(frames[p], c)
      /\ frames'[a] = [f EXCEPT !.finished = TRUE]
      /\ \A n \in Visited : n \notin {p, a} => frames'[n] = frames[n]
  BY <1>0, <1>1, <1>3, <1>5, RunningFacts DEF Visited
<1>7. LET g == frames'[p]
      IN  /\ g.key = frames[p].key /\ g.from = frames[p].from
          /\ g.depth = frames[p].depth /\ g.finished = frames[p].finished
          /\ g.next = j + 1
  BY <1>3, <1>5, <1>6, SignedFields DEF FrameOK
<1>8. LET g == frames'[a]
      IN  /\ DOMAIN g = FrameFields
          /\ g.key = f.key /\ g.from = f.from /\ g.depth = f.depth
          /\ g.next = f.next /\ g.sig = f.sig /\ g.asked = f.asked
          /\ g.finished = TRUE
  BY <1>2, <1>6 DEF FrameOK, FrameFields
<1>9. Visited' = Visited /\ Asked' = Asked
  BY <1>6 DEF Visited, Asked
<1>10. \A n \in Visited :
         /\ frames'[n].key = frames[n].key /\ frames'[n].from = frames[n].from
         /\ frames'[n].depth = frames[n].depth
         /\ n # a => frames'[n].finished = frames[n].finished
         /\ n # p => frames'[n].next = frames[n].next
  BY <1>3, <1>6, <1>7, <1>8
<1>11. CallStack' = CallStack \ {a}
  BY <1>2, <1>8, <1>9, <1>10 DEF Asked, CallStack, Finished, Visited
<1>12. \A n \in Visited : FrameOK(n)'
  <2>1. FrameOK(a)'
    BY <1>1, <1>2, <1>8 DEF FrameOK
  <2>2. j \in 1..Len(Mac(call, p).caveats)
    BY <1>4 DEF ThirdPartyIndices
  <2>3. frames[p].next <= Len(Mac(call, p).caveats)
    BY <1>3, <1>5, <2>2, CaveatFacts, RunningFacts
  <2>4. frames'[p] = Signed(frames[p], Mac(call, p).caveats[frames[p].next])
    BY <1>3, <1>4, <1>6
  <2>5. \A n \in Nodes(call) : n = p => FrameOK(n)'
    BY <1>1, <1>5, <2>3, <2>4, FrameAdvances, RunningFacts
  <2>6. \A n \in Visited : n \notin {p, a} => FrameOK(n)'
    BY <1>1, <1>6, FrameStays, RunningFacts
  <2> QED BY <1>5, <2>1, <2>5, <2>6
<1>13. StateOK' /\ MapOK' /\ RootOK'
  BY <1>1, <1>3, <1>9, <1>10, <1>12, RunningFacts
  DEF StateOK, Visited, Running, RunningOK, MapOK, RootOK
<1>14. StackOK'
  <2>1. \A n \in CallStack :
          /\ frames[n].depth \in Nat
          /\ frames'[n].depth = frames[n].depth
          /\ frames[n].depth <= f.depth
          /\ frames[n].depth = f.depth => n = a
    BY <1>0, <1>3, <1>10, RunningFacts, DepthAssumption
    DEF Running, RunningOK, StackOK, FrameOK, CallStack, Finished, Visited
  <2>2. \A n \in CallStack \ {a} : frames'[n].depth <= frames'[p].depth
    <3> SUFFICES ASSUME NEW n \in CallStack, n # a
                 PROVE  frames'[n].depth <= frames'[p].depth
      OBVIOUS
    <3>1. /\ frames[n].depth \in Nat /\ frames[n].depth <= f.depth
          /\ frames[n].depth # f.depth /\ frames'[n].depth = frames[n].depth
      BY <2>1, Zenon
    <3>2. frames'[p].depth = frames[p].depth
      BY <1>7
    <3> HIDE DEF f
    <3> QED BY <1>3, <1>5, <3>1, <3>2
  <2>3. \A n, k \in CallStack \ {a} :
          frames'[n].depth = frames'[k].depth => n = k
    <3>1. \A n, k \in CallStack : frames[n].depth = frames[k].depth => n = k
      BY DEF Running, RunningOK, StackOK
    <3> QED BY <2>1, <3>1, Zenon
  <2> QED
    BY <1>1, <1>3, <1>7, <1>11, <2>2, <2>3 DEF StackOK
<1>15. \A d \in Asked : LinkOK(d)'
  <2> SUFFICES ASSUME NEW d \in Asked
               PROVE  LinkOK(d)'
    OBVIOUS
  <2> DEFINE n == frames[d].from[1]
  <2>1. LinkOK(d) /\ d \in Visited /\ n \in Visited
    BY DEF Running, RunningOK, Asked, LinkOK
  <2>2. Answers(call, d, frames[d].from, frames[n].key, frames[d].key)'
    BY <1>1, <1>10, <2>1 DEF LinkOK
  <2>3. frames'[d].depth = frames'[n].depth + 1
    BY <1>10, <2>1 DEF LinkOK
  <2>4. ~frames'[d].finished =>
          ~frames'[n].finished /\ frames'[n].next = frames'[d].from[2]
    <3> SUFFICES ASSUME ~frames'[d].finished
                 PROVE  ~frames'[n].finished /\ frames'[n].next = frames'[d].from[2]
      OBVIOUS
    <3>1. d # a /\ ~frames[d].finished
      BY <1>8, <1>10, <2>1
    <3>2. n # a
      BY <1>0, <3>1, <2>1, NoChildOfActive, RunningFacts DEF Running, RunningOK
    <3>3. n # p
      <4>1. n = p => frames[d].depth = f.depth
        BY <1>3, <2>1 DEF LinkOK
      <4>2. d \in CallStack /\ a \in CallStack
        BY <1>2, <1>3, <2>1, <3>1 DEF Asked, CallStack, Finished, Visited
      <4>3. \A m, k \in CallStack : frames[m].depth = frames[k].depth => m = k
        BY DEF Running, RunningOK, StackOK
      <4>4. frames[d].depth # f.depth
        BY <3>1, <4>2, <4>3
      <4> HIDE DEF n, f
      <4> QED
        BY <4>1, <4>4
    <3> QED
      BY <1>10, <2>1, <3>1, <3>2, <3>3 DEF LinkOK
  <2>5. n' = n /\ (n \in Visited)'
    BY <1>9, <1>10, <2>1
  <2> QED
    BY <2>2, <2>3, <2>4, <2>5 DEF LinkOK
<1>16. \A n \in Visited : ProgressOK(n)'
  <2>1. SatisfiedDuringCall' = SatisfiedDuringCall
    BY <1>1 DEF SatisfiedDuringCall
  <2>2. \A n, i : Cleared(n, i) => Cleared(n, i)'
    <3> SUFFICES ASSUME NEW n, NEW i, Cleared(n, i) PROVE Cleared(n, i)'
      OBVIOUS
    <3>1. Mac(call, n)' = Mac(call, n)
      BY <1>1
    <3>2. \A d \in Asked : frames'[d].from = frames[d].from
      BY <1>10 DEF Asked
    <3> QED
      BY <1>9, <2>1, <3>1, <3>2 DEF Cleared
  <2>3. Cleared(p, j)
    <3>1. ~IsFirstParty(Mac(call, p).caveats[j])
      BY <1>4 DEF ThirdPartyIndices, IsThirdParty, IsFirstParty
    <3> QED
      BY <1>2, <1>4, <3>1 DEF Cleared
  <2> SUFFICES ASSUME NEW n \in Visited, NEW i \in 1..(frames'[n].next - 1)
               PROVE  Cleared(n, i)
    BY <2>2 DEF ProgressOK
  <2>4. frames[p].next \in Nat
    BY <1>5, CaveatFacts, RunningFacts
  <2>5. \/ i \in 1..(frames[n].next - 1)
        \/ n = p /\ i = j
    BY <1>3, <1>7, <1>10, <2>4
  <2> QED BY <2>3, <2>5 DEF Running, RunningOK, ProgressOK
<1>17. \A n \in Visited : FinishedOK(n)'
  <2>1. FinishedOK(a)'
    BY <1>0, <1>1, <1>8, AtEndFacts DEF FinishedOK
  <2>2. FinishedOK(p)'
    BY <1>3, <1>7 DEF FinishedOK
  <2>3. \A n \in Visited : n \notin {p, a} => FinishedOK(n)'
    BY <1>1, <1>6 DEF FinishedOK, Running, RunningOK
  <2> QED BY <2>1, <2>2, <2>3
<1>18. RootAsked'
  BY <1>9, <1>10 DEF Running, RunningOK, RootAsked, Asked
<1> QED
  BY <1>1, <1>9, <1>13, <1>14, <1>15, <1>16, <1>17, <1>18
  DEF Running, RunningOK

-----------------------------------------------------------------------------
(***************************************************************************)
(* When the root is verified, the frames are an authorization.              *)
(***************************************************************************)

\* Two macaroons with equal chains have equally many caveats.
LEMMA EqualLengths ==
  ASSUME NEW key1, NEW key2, NEW m1, NEW m2,
         Len(m1.caveats) \in Nat, Len(m2.caveats) \in Nat,
         FullSignature(key1, m1) = FullSignature(key2, m2)
  PROVE  Len(m1.caveats) = Len(m2.caveats)
<1> DEFINE text(m, i) == IF i = 1 THEN <<m.identifier>>
                                  ELSE CaveatText(m.caveats[i - 1])
           texts(m) == [i \in 1..(Len(m.caveats) + 1) |-> text(m, i)]
<1>1. texts(m1) = texts(m2)
  BY DEF FullSignature, ChainSignature
<1>2. /\ DOMAIN texts(m1) = 1..(Len(m1.caveats) + 1)
      /\ DOMAIN texts(m2) = 1..(Len(m2.caveats) + 1)
  OBVIOUS
<1> HIDE DEF texts
<1>3. 1..(Len(m1.caveats) + 1) = 1..(Len(m2.caveats) + 1)
  BY <1>1, <1>2
<1> QED BY <1>3

\* Two macaroons with equal chains have the same third-party caveats.
LEMMA EqualChains ==
  ASSUME NEW key1, NEW key2, NEW m1, NEW m2,
         Len(m1.caveats) \in Nat, Len(m2.caveats) \in Nat,
         FullSignature(key1, m1) = FullSignature(key2, m2),
         NEW j \in ThirdPartyIndices(m1),
         IsFirstParty(m2.caveats[j]) \/ IsThirdParty(m2.caveats[j])
  PROVE  /\ j \in ThirdPartyIndices(m2)
         /\ m2.caveats[j].id = m1.caveats[j].id
<1> DEFINE text(m, i) == IF i = 1 THEN <<m.identifier>>
                                  ELSE CaveatText(m.caveats[i - 1])
           texts(m) == [i \in 1..(Len(m.caveats) + 1) |-> text(m, i)]
<1>1. texts(m1) = texts(m2)
  BY DEF FullSignature, ChainSignature
<1>2. Len(m1.caveats) = Len(m2.caveats)
  BY EqualLengths
<1>4. j \in 1..Len(m1.caveats) /\ IsThirdParty(m1.caveats[j])
  BY DEF ThirdPartyIndices
<1>5. texts(m1)[j + 1] = CaveatText(m1.caveats[j])
      /\ texts(m2)[j + 1] = CaveatText(m2.caveats[j])
  BY <1>2, <1>4
<1>6. CaveatText(m1.caveats[j]) = CaveatText(m2.caveats[j])
  <2> HIDE DEF texts
  <2> QED BY <1>1, <1>5
<1>7. CaveatText(m1.caveats[j])
        = <<m1.caveats[j].verifier_id, m1.caveats[j].id>>
  BY <1>4 DEF CaveatText, IsFirstParty, IsThirdParty
<1>8. ~IsFirstParty(m2.caveats[j])
  <2> SUFFICES ASSUME IsFirstParty(m2.caveats[j]) PROVE FALSE
    OBVIOUS
  <2>1. <<m2.caveats[j].predicate>>
          = <<m1.caveats[j].verifier_id, m1.caveats[j].id>>
    BY <1>6, <1>7 DEF CaveatText
  <2>2. Len(<<m2.caveats[j].predicate>>) = 1
    OBVIOUS
  <2>3. Len(<<m1.caveats[j].verifier_id, m1.caveats[j].id>>) = 2
    OBVIOUS
  <2> QED BY <2>1, <2>2, <2>3
<1>9. CaveatText(m2.caveats[j])
        = <<m2.caveats[j].verifier_id, m2.caveats[j].id>>
  BY <1>8 DEF CaveatText
<1>10. m2.caveats[j].id = m1.caveats[j].id
  <2>1. \A v, i, w, k : <<v, i>> = <<w, k>> => i = k
    OBVIOUS
  <2>2. <<m1.caveats[j].verifier_id, m1.caveats[j].id>>
          = <<m2.caveats[j].verifier_id, m2.caveats[j].id>>
    BY <1>6, <1>7, <1>9, Zenon
  <2> QED BY <2>1, <2>2, Zenon
<1> QED
  BY <1>2, <1>4, <1>8, <1>10 DEF ThirdPartyIndices

\* A root's signature is no binding of itself.
LEMMA NotSelfBound ==
  ASSUME NEW m, IsToken(m), NEW sig
  PROVE  BoundSignature(m.signature, sig) # m.signature
<1> SUFFICES ASSUME BoundSignature(m.signature, sig) = m.signature
             PROVE  FALSE
  OBVIOUS
<1>1. m.signature.texts = Append(<< >>, <<m.signature, sig>>)
  BY DEF BoundSignature, hmac2, MACed, Key
<1>2. Append(<< >>, <<m.signature, sig>>) = << <<m.signature, sig>> >>
  OBVIOUS
<1>3. /\ Len(m.signature.texts) = 1
      /\ m.signature.texts[1] = <<m.signature, sig>>
  BY <1>1, <1>2
<1>4. /\ Len(m.signature.texts[1]) = 2
      /\ m.signature.texts[1][1] = m.signature
  BY <1>3
<1> QED
  BY <1>3, <1>4 DEF IsToken

\* A verification that returns Ok has found its root authorized.
LEMMA RootAuthorized ==
  ASSUME Running, AtEnd, SignatureHolds, active = 0
  PROVE  AuthorizedBy(call, Discharges(call) \ unused, SatisfiedDuringCall)
<1> DEFINE D == Discharges(call) \ unused
           root == Mac(call, 0)
           from == [d \in D |-> frames[d].from]
<1>1. /\ IsCall(call) /\ DistinctIdentifiers(call) /\ 0 \in Visited
      /\ \A n \in Visited : n \in Nodes(call) /\ FrameOK(n)
      /\ \A d \in Asked : LinkOK(d) /\ d \in Visited /\ d # 0
      /\ \A n \in Visited : ProgressOK(n) /\ FinishedOK(n)
      /\ root = call.root /\ IsToken(root)
  BY RunningFacts, CallFacts DEF Running, RunningOK, MapOK, Asked, Mac
<1>2. D = Asked
  <2>1. 0 \notin Discharges(call)
    BY <1>1, CallFacts
  <2> QED
    BY <2>1 DEF Running, RunningOK, MapOK, Asked, Nodes
<1>3. \A d \in Asked : frames[d].finished
  <2> SUFFICES ASSUME NEW d \in Asked, ~frames[d].finished
               PROVE  FALSE
    OBVIOUS
  <2>1. d \in CallStack /\ frames[0].depth = 0
    BY <1>1 DEF CallStack, Finished, Visited, Running, RunningOK, RootOK
  <2>2. frames[d].depth <= 0
    BY <2>1 DEF Running, RunningOK, StackOK
  <2>3. frames[d].depth = frames[frames[d].from[1]].depth + 1
        /\ frames[d].from[1] \in Visited
    BY <1>1 DEF LinkOK
  <2>4. frames[frames[d].from[1]].depth \in Nat
    BY <1>1, <2>3, DepthAssumption DEF FrameOK
  <2> QED BY <2>2, <2>3, <2>4
<1>4. \A n \in Visited :
        /\ frames[n].next = Len(Mac(call, n).caveats) + 1
        /\ Len(Mac(call, n).caveats) \in Nat
  <2>1. \A n \in Visited : Len(Mac(call, n).caveats) \in Nat
    BY <1>1, CallFacts
  <2>2. frames[0].next = Len(Mac(call, 0).caveats) + 1
    BY AtEndFacts
  <2> QED
    BY <1>1, <1>3, <2>1, <2>2 DEF FinishedOK, Asked
<1>5. frames[0].key = call.key
  BY DEF Running, RunningOK, RootOK
<1>6. call.root.signature = FullSignature(call.key, call.root)
  BY <1>1, <1>5, AtEndFacts, NotSelfBound
<1>7. \A n \in Visited : \A j \in 1..Len(Mac(call, n).caveats) : Cleared(n, j)
  <2> SUFFICES ASSUME NEW n \in Visited, NEW j \in 1..Len(Mac(call, n).caveats)
               PROVE  Cleared(n, j)
    OBVIOUS
  <2>1. frames[n].next - 1 = Len(Mac(call, n).caveats)
    BY <1>4
  <2> QED
    BY <1>1, <2>1 DEF ProgressOK
<1>8. \A n \in Visited : \A j \in ThirdPartyIndices(Mac(call, n)) :
        \E d \in Asked : frames[d].from = <<n, j>>
  BY <1>7 DEF Cleared, ThirdPartyIndices, IsThirdParty, IsFirstParty
<1>9. \A d \in Asked :
        Mac(call, d).signature
          = BoundSignature(call.root.signature,
                           FullSignature(frames[d].key, Mac(call, d)))
  <2> SUFFICES ASSUME NEW d \in Asked,
                      call.root.signature
                        = FullSignature(frames[d].key, Mac(call, d))
               PROVE  FALSE
    BY <1>1, <1>3 DEF FinishedOK
  <2>1. PICK e \in Asked : frames[e].from[1] = 0
    BY DEF Running, RunningOK, RootAsked
  <2> DEFINE j == frames[e].from[2]
  <2>2. /\ frames[e].from = <<0, j>> /\ j \in ThirdPartyIndices(root)
        /\ root.caveats[j].id = call.discharges[e].identifier
    BY <1>1, <2>1 DEF LinkOK, Answers, CaveatAt
  <2>3. /\ j \in ThirdPartyIndices(Mac(call, d))
        /\ Mac(call, d).caveats[j].id = root.caveats[j].id
    <3>1. FullSignature(call.key, root) = FullSignature(frames[d].key, Mac(call, d))
      BY <1>1, <1>6
    <3>2. Len(root.caveats) = Len(Mac(call, d).caveats)
      BY <1>1, <1>4, <3>1, EqualLengths
    <3>3. /\ j \in 1..Len(Mac(call, d).caveats) /\ IsToken(Mac(call, d))
      BY <1>1, <2>2, <3>2, CallFacts DEF ThirdPartyIndices
    <3>4. \/ IsFirstParty(Mac(call, d).caveats[j])
          \/ IsThirdParty(Mac(call, d).caveats[j])
      BY <3>3 DEF IsToken
    <3>5. /\ Len(root.caveats) \in Nat /\ Len(Mac(call, d).caveats) \in Nat
          /\ j \in ThirdPartyIndices(root)
      BY <1>1, <1>4, <2>2
    <3> HIDE DEF root, j
    <3> QED
      BY <3>1, <3>4, <3>5, EqualChains
  <2>4. PICK k \in Asked : frames[k].from = <<d, j>>
    BY <1>1, <1>8, <2>3
  <2>5. Mac(call, d).caveats[j].id = call.discharges[k].identifier
    BY <1>1, <2>4 DEF LinkOK, Answers, CaveatAt
  <2>6. k = e
    BY <1>1, <1>2, <2>2, <2>3, <2>5 DEF DistinctIdentifiers
  <2> QED
    BY <1>1, <2>1, <2>4, <2>6
<1>10. from \in [D -> Pointers(call, D)]
  <2> SUFFICES ASSUME NEW d \in D
               PROVE  frames[d].from \in Pointers(call, D)
    OBVIOUS
  <2> DEFINE n == frames[d].from[1]
             j == frames[d].from[2]
  <2>1. /\ n \in Visited /\ frames[d].from = <<n, j>>
        /\ j \in ThirdPartyIndices(Mac(call, n))
    BY <1>1, <1>2 DEF LinkOK, Answers
  <2>2. n \in {0} \cup D
    BY <1>2, <2>1 DEF Asked
  <2> QED BY <2>1, <2>2 DEF Pointers
<1>11. OneDischargeEach(call, D, from)
  <2>1. ASSUME NEW ptr \in Pointers(call, D)
        PROVE  \E d \in D : from[d] = ptr
    <3>0. PICK n \in {0} \cup D :
            ptr \in { <<n, j>> : j \in ThirdPartyIndices(Mac(call, n)) }
      BY DEF Pointers
    <3>1. PICK j \in ThirdPartyIndices(Mac(call, n)) : ptr = <<n, j>>
      BY <3>0
    <3>2. n \in Visited
      BY <1>1, <1>2, <3>1 DEF Asked
    <3> QED
      BY <1>2, <1>8, <3>1, <3>2
  <2>2. \A d \in D : CaveatAt(call, from[d]).id = call.discharges[d].identifier
    BY <1>1, <1>2 DEF LinkOK, Answers
  <2>3. \A d, e \in D : from[d] = from[e] => d = e
    BY <1>1, <2>2 DEF DistinctIdentifiers
  <2> QED BY <2>1, <2>2, <2>3 DEF OneDischargeEach
<1>12. Nested(D, from)
  <2> DEFINE depth == [n \in {0} \cup D |-> frames[n].depth]
  <2>1. depth \in [{0} \cup D -> 0..MAX_VERIFICATION_DEPTH]
    BY <1>1, <1>2 DEF FrameOK, Asked
  <2>2. depth[0] = 0
    BY DEF Running, RunningOK, RootOK
  <2>3. \A d \in D : depth[d] = depth[from[d][1]] + 1
    <3> SUFFICES ASSUME NEW d \in D
                 PROVE  depth[d] = depth[from[d][1]] + 1
      OBVIOUS
    <3>1. /\ frames[d].depth = frames[frames[d].from[1]].depth + 1
          /\ frames[d].from[1] \in Visited
      BY <1>1, <1>2 DEF LinkOK
    <3>2. frames[d].from[1] \in {0} \cup D
      BY <1>2, <3>1 DEF Asked
    <3> QED BY <3>1, <3>2
  <2> HIDE DEF depth, from
  <2> QED BY <2>1, <2>2, <2>3 DEF Nested
<1>13. \A n \in {0} \cup D : frames[n].key = KeyOf(call, from, n)
  BY <1>1, <1>2, <1>5 DEF KeyOf, LinkOK, Answers
<1>14. KeysOpen(call, D, from)
  <2> SUFFICES ASSUME NEW d \in D
               PROVE  LET n == from[d][1]
                      IN  Decrypts(ChainSignature(KeyOf(call, from, n), Mac(call, n),
                                                  from[d][2] - 1),
                                   CaveatAt(call, from[d]).verifier_id)
    BY DEF KeysOpen
  <2> DEFINE n == frames[d].from[1]
  <2>1. n \in Visited /\ Answers(call, d, frames[d].from, frames[n].key, frames[d].key)
    BY <1>1, <1>2 DEF LinkOK
  <2>2. n \in {0} \cup D
    BY <1>2, <2>1 DEF Asked
  <2>3. from[d] = frames[d].from /\ KeyOf(call, from, n) = frames[n].key
    BY <1>13, <2>2
  <2> HIDE DEF from
  <2> QED BY <2>1, <2>3 DEF Answers
<1>15. SignaturesHold(call, D, from)
  <2>1. ASSUME NEW d \in D
        PROVE  call.discharges[d].signature =
                 BoundSignature(call.root.signature,
                   FullSignature(KeyOf(call, from, d), call.discharges[d]))
    <3>1. Mac(call, d) = call.discharges[d] /\ KeyOf(call, from, d) = frames[d].key
      BY <1>1, <1>13, CallFacts
    <3> QED BY <1>2, <1>9, <3>1
  <2> QED BY <1>6, <2>1 DEF SignaturesHold
<1>16. ASSUME NEW n \in {0} \cup D
       PROVE  FirstPartyPredicates(Mac(call, n)) \subseteq SatisfiedDuringCall
  <2>1. n \in Visited
    BY <1>1, <1>2 DEF Asked
  <2> QED
    BY <1>7, <2>1 DEF Cleared, FirstPartyPredicates
<1> HIDE DEF from
<1> QED
  BY <1>1, <1>10, <1>11, <1>12, <1>14, <1>15, <1>16 DEF AuthorizedBy

-----------------------------------------------------------------------------
(***************************************************************************)
(* The invariant.                                                           *)
(***************************************************************************)

\* The invariant holds before the first call.
LEMMA InitInv == Init => VerifierInv
BY BoundsAssumption, EmptySeq
DEF Init, VerifierInv, StateOK, AnswerOK, config

\* verify fails: nothing but the outcome, and the map at most, changes.
LEMMA FailStep ==
  ASSUME Running, NEW error \in Errors \ {"DischargeNotUsed"}, Fail(error),
         unused' \subseteq unused
  PROVE  VerifierInv'
<1>1. /\ UNCHANGED <<exact, general, now, started, call, frames, active>>
      /\ outcome' = error
      /\ outcome' \in Errors /\ outcome' \notin {"Idle", "Running", "Ok", "DischargeNotUsed"}
  BY DEF Fail, config, Errors
<1>2. StateOK'
  <2>1. \A n \in Visited : FrameOK(n)'
    BY <1>1, FrameStays, RunningFacts
  <2> QED
    BY <1>1, <2>1 DEF Running, StateOK, Visited
<1> QED
  BY <1>1, <1>2 DEF VerifierInv, AnswerOK

\* The end of the root preserves the invariant.
LEMMA FinishStep ==
  ASSUME Running, FinishRoot
  PROVE  VerifierInv'
<1>1. /\ UNCHANGED <<exact, general, now, started, call, unused, active>>
      /\ AtEnd /\ SignatureHolds /\ active = 0
      /\ frames' = [frames EXCEPT ![0].finished = TRUE]
      /\ outcome' = IF unused = {} THEN "Ok" ELSE "DischargeNotUsed"
  BY DEF FinishRoot, config
<1>2. 0 \in Visited /\ FrameOK(0)
  BY RunningFacts
<1>3. /\ DOMAIN frames' = DOMAIN frames
      /\ frames'[0] = [frames[0] EXCEPT !.finished = TRUE]
      /\ \A n \in Visited : n # 0 => frames'[n] = frames[n]
  BY <1>1, <1>2 DEF Visited
<1>4. FrameOK(0)'
  <2>1. LET g == frames'[0]
            f == frames[0]
        IN  /\ DOMAIN g = FrameFields
            /\ g.key = f.key /\ g.depth = f.depth /\ g.next = f.next
            /\ g.sig = f.sig /\ g.asked = f.asked /\ g.finished = TRUE
    BY <1>2, <1>3 DEF FrameOK, FrameFields
  <2> QED BY <1>1, <1>2, <2>1 DEF FrameOK
<1>5. \A n \in Visited : FrameOK(n)'
  BY <1>1, <1>3, <1>4, FrameStays, RunningFacts
<1>6. StateOK'
  <2>1. outcome' \in Errors \cup {"Ok"} /\ outcome' # "Idle"
    BY <1>1 DEF Errors
  <2>2. /\ exact' \subseteq Exact
        /\ general' \in Seq(General) /\ Len(general') <= MaxGeneral
        /\ now' \in 0..MaxTime /\ started' \in 0..now'
    BY <1>1 DEF Running, StateOK
  <2>3. /\ IsCall(call') /\ unused' \subseteq Discharges(call')
        /\ DOMAIN frames' \subseteq Nodes(call')
    BY <1>1, <1>3 DEF Running, StateOK
  <2>4. active' \in DOMAIN frames' /\ \A n \in DOMAIN frames' : FrameOK(n)'
    BY <1>1, <1>2, <1>3, <1>5 DEF Visited
  <2> QED
    BY <2>1, <2>2, <2>3, <2>4 DEF StateOK
<1>7. AuthorizedBy(call, Discharges(call) \ unused, SatisfiedDuringCall)
  BY <1>1, RootAuthorized
<1>8. SatisfiedDuringCall' = SatisfiedDuringCall
  BY <1>1 DEF SatisfiedDuringCall
<1>9. AnswerOK'
  BY <1>1, <1>7, <1>8 DEF AnswerOK
<1> QED
  BY <1>1, <1>6, <1>9 DEF VerifierInv

\* CollectDischarges preserves the invariant.
LEMMA CollectStep ==
  ASSUME StateOK, CollectDischarges
  PROVE  VerifierInv'
<1>1. /\ UNCHANGED <<exact, general, now, started, call>>
      /\ IsCall(call) /\ Len(general) \in Nat
  BY DEF StateOK, CollectDischarges, Fail, config
<1>2. CASE DistinctIdentifiers(call)
  <2>1. /\ unused' = Discharges(call) /\ active' = 0 /\ outcome' = "Running"
        /\ frames' = [n \in {0} |-> Frame(call.root, call.key, << >>, 0)]
    BY <1>2 DEF CollectDischarges
  <2>2. /\ Visited' = {0} /\ Asked' = {}
        /\ frames'[0] = Frame(call.root, call.key, << >>, 0)
    BY <2>1 DEF Visited, Asked
  <2>3. /\ call.root = Mac(call, 0) /\ IsToken(call.root) /\ call.key \in CallerKey
        /\ Len(call.root.caveats) \in Nat
    BY <1>1, CallFacts DEF Mac, Nodes
  <2>4. LET g == frames'[0]
        IN  /\ DOMAIN g = FrameFields
            /\ g.key = call.key /\ g.next = 1 /\ g.asked = 0 /\ g.depth = 0
            /\ g.finished = FALSE
            /\ g.sig = ChainSignature(call.key, Mac(call, 0), 0)
    BY <2>2, <2>3, FirstLink DEF Frame, FrameFields
  <2>5. FrameOK(0)'
    <3> DEFINE g == frames'[0]
    <3>1. g.sig = ChainSignature(g.key, Mac(call, 0), g.next - 1)
      BY <2>4
    <3>2. /\ g.next \in 1..(Len(Mac(call, 0).caveats) + 1)
          /\ g.asked \in 0..Len(general)
          /\ g.depth \in 0..MAX_VERIFICATION_DEPTH
      BY <1>1, <2>3, <2>4, DepthAssumption
    <3> HIDE DEF g
    <3> QED BY <1>1, <2>3, <2>4, <3>1, <3>2 DEF FrameOK, g
  <2>6. StateOK'
    BY <1>1, <2>1, <2>2, <2>5 DEF StateOK, Visited, Nodes
  <2>7. \A d \in Discharges(call) : d # 0
    BY <1>1, CallFacts
  <2>8. MapOK' /\ RootOK' /\ RootAsked' /\ (\A d \in Asked' : LinkOK(d)')
    BY <1>1, <1>2, <2>1, <2>2, <2>4, <2>7
    DEF MapOK, RootOK, RootAsked, Nodes
  <2>9. StackOK'
    BY <2>1, <2>2, <2>4 DEF StackOK, CallStack, Finished, Visited
  <2>10. \A n \in Visited' : ProgressOK(n)' /\ FinishedOK(n)'
    BY <2>2, <2>4 DEF ProgressOK, FinishedOK
  <2> QED
    BY <2>1, <2>6, <2>8, <2>9, <2>10 DEF VerifierInv, RunningOK, AnswerOK
<1>3. CASE ~DistinctIdentifiers(call)
  <2>1. /\ UNCHANGED <<unused, frames, active>>
        /\ outcome' = "CaveatNotSatisfied" /\ outcome = "Collecting"
    BY <1>3 DEF CollectDischarges, Fail
  <2>2. \A n \in Visited : FrameOK(n) => FrameOK(n)'
    BY <1>1, <2>1, FrameStays
  <2>3. StateOK'
    BY <1>1, <2>1, <2>2 DEF StateOK, Visited, Errors
  <2> QED
    BY <2>1, <2>3 DEF VerifierInv, AnswerOK
<1> QED BY <1>2, <1>3

\* The clock may tick while verify runs, or nothing happens.
LEMMA TickStep ==
  ASSUME VerifierInv, Tick \/ UNCHANGED vars
  PROVE  VerifierInv'
<1>1. /\ UNCHANGED <<exact, general, started, call, unused, frames, active, outcome>>
      /\ now' \in 0..MaxTime /\ now \in Nat /\ now <= now' /\ started \in 0..now
  BY BoundsAssumption DEF Tick, vars, config, VerifierInv, StateOK
<1>2. SatisfiedDuringCall \subseteq SatisfiedDuringCall'
  BY <1>1, SatisfiedGrows
<1>3. Visited' = Visited /\ Asked' = Asked /\ CallStack' = CallStack
  BY <1>1 DEF Visited, Asked, CallStack, Finished
<1>4. StateOK'
  <2>1. \A n \in Visited : FrameOK(n) => FrameOK(n)'
    BY <1>1, FrameStays
  <2>2. StateOK /\ started' \in 0..now'
    BY <1>1 DEF VerifierInv
  <2> QED BY <1>1, <2>1, <2>2 DEF StateOK, Visited
<1>5. RunningOK => RunningOK'
  <2> SUFFICES ASSUME RunningOK PROVE RunningOK'
    OBVIOUS
  <2>1. MapOK' /\ RootOK' /\ StackOK' /\ RootAsked'
    BY <1>1, <1>3 DEF RunningOK, MapOK, RootOK, StackOK, RootAsked
  <2>2. \A d \in Asked : LinkOK(d)'
    BY <1>1, <1>3 DEF RunningOK, LinkOK
  <2>3. \A n, j : Cleared(n, j) => Cleared(n, j)'
    BY <1>1, <1>2, <1>3 DEF Cleared
  <2>4. \A n \in Visited : ProgressOK(n)' /\ FinishedOK(n)'
    BY <1>1, <2>3 DEF RunningOK, ProgressOK, FinishedOK
  <2> QED BY <1>3, <2>1, <2>2, <2>4 DEF RunningOK
<1>6. AnswerOK'
  <2> SUFFICES ASSUME outcome \in {"Ok", "DischargeNotUsed"}
               PROVE  AnswerOK'
    BY <1>1 DEF AnswerOK
  <2>1. AuthorizedBy(call, Discharges(call) \ unused, SatisfiedDuringCall')
    BY <1>2, AuthorizedByGrows DEF VerifierInv, AnswerOK
  <2> QED BY <1>1, <2>1 DEF VerifierInv, AnswerOK
<1> QED
  BY <1>1, <1>4, <1>5, <1>6 DEF VerifierInv

\* Each step of verify_with_sig preserves the invariant.
LEMMA VerifyWithSigStep ==
  ASSUME Running, verify_with_sig
  PROVE  VerifierInv'
<1> USE DEF Errors
<1>1. Running' => VerifierInv'
  BY DEF Running, VerifierInv, AnswerOK
<1>2. CASE ExactMatch
  <2>1. AtFirstParty /\ Satisfy /\ caveat.predicate \in exact
    BY <1>2 DEF ExactMatch
  <2>2. caveat.predicate \in SatisfiedDuringCall
    BY <2>1, CaveatDemanded DEF SatisfiedDuringCall, SatisfiedAtSomeTime
  <2> QED BY <1>1, <2>1, <2>2, SatisfyStep
<1>3. CASE GeneralMatch
  <2>1. /\ AtFirstParty /\ Satisfy /\ frame.asked < Len(general)
        /\ Accepts(general[frame.asked + 1], caveat.predicate, now)
    BY <1>3 DEF GeneralMatch
  <2>2. frame.asked + 1 \in 1..Len(general) /\ now \in started..now
    BY <2>1, RunningFacts DEF frame, FrameOK
  <2>3. caveat.predicate \in SatisfiedDuringCall
    BY <2>1, <2>2, CaveatDemanded DEF SatisfiedDuringCall, SatisfiedAtSomeTime
  <2> QED BY <1>1, <2>1, <2>3, SatisfyStep
<1>4. CASE GeneralMismatch
  BY <1>1, <1>4, MismatchStep
<1>5. CASE NotSatisfied
  BY <1>5, FailStep DEF NotSatisfied
<1>6. CASE CannotDecrypt
  BY <1>6, FailStep DEF CannotDecrypt
<1>7. CASE NoDischarge
  BY <1>7, FailStep DEF NoDischarge
<1>8. CASE TooDeep
  BY <1>8, FailStep DEF TooDeep
<1>9. CASE Discharge
  BY <1>1, <1>9, DischargeStep
<1>10. CASE BadSignature
  BY <1>10, FailStep DEF BadSignature
<1>11. CASE ReturnToParent
  BY <1>1, <1>11, ReturnStep
<1>12. CASE FinishRoot
  BY <1>12, FinishStep
<1> QED
  BY <1>2, <1>3, <1>4, <1>5, <1>6, <1>7, <1>8, <1>9, <1>10, <1>11, <1>12
  DEF verify_with_sig

\* The call, and what happens between calls.
LEMMA CallStep ==
  ASSUME VerifierInv, NEW arguments, IsCall(arguments), verify(arguments)
  PROVE  VerifierInv'
<1>1. /\ StateOK /\ outcome = "Idle" /\ frames = NoFrames /\ unused = {}
  BY DEF VerifierInv, StateOK, verify
<1>2. DOMAIN NoFrames = {}
  BY DEF NoFrames
<1>3. /\ call' = arguments /\ started' = now /\ outcome' = "Collecting"
      /\ UNCHANGED <<exact, general, now, unused, frames, active>>
  BY DEF verify, config
<1> QED
  BY <1>1, <1>2, <1>3, BoundsAssumption DEF VerifierInv, StateOK, AnswerOK

\* satisfy_exact and satisfy_general preserve the invariant.
LEMMA IdleStep ==
  ASSUME VerifierInv,
         \/ \E p \in Exact : satisfy_exact(p)
         \/ \E f \in General : satisfy_general(f)
  PROVE  VerifierInv'
<1>1. /\ StateOK /\ outcome = "Idle"
      /\ call = NoCall /\ unused = {} /\ frames = NoFrames /\ active = 0
      /\ general \in Seq(General) /\ Len(general) <= MaxGeneral
  BY DEF VerifierInv, StateOK, satisfy_exact, satisfy_general
<1>2. CASE \E p \in Exact : satisfy_exact(p)
  BY <1>1, <1>2 DEF satisfy_exact, VerifierInv, StateOK, AnswerOK
<1>3. CASE \E f \in General : satisfy_general(f)
  <2>1. PICK f \in General : satisfy_general(f)
    BY <1>3
  <2>2. general' \in Seq(General) /\ Len(general') <= MaxGeneral
    BY <1>1, <2>1, BoundsAssumption DEF satisfy_general
  <2> QED
    BY <1>1, <2>1, <2>2 DEF satisfy_general, VerifierInv, StateOK, AnswerOK
<1> QED BY <1>2, <1>3

\* Every step preserves the invariant.
LEMMA NextInv == VerifierInv /\ [Next]_vars => VerifierInv'
<1> SUFFICES ASSUME VerifierInv, [Next]_vars PROVE VerifierInv'
  OBVIOUS
<1>1. CASE Step
  <2>1. CASE CollectDischarges
    BY <2>1, CollectStep DEF VerifierInv
  <2>2. CASE verify_with_sig
    <3>1. outcome = "Running"
      BY <2>2 DEF verify_with_sig, ExactMatch, GeneralMatch, GeneralMismatch,
         NotSatisfied, CannotDecrypt, NoDischarge, TooDeep, Discharge,
         BadSignature, ReturnToParent, FinishRoot, AtFirstParty, AtThirdParty,
         AtCaveat, AtEnd
    <3> QED
      BY <2>2, <3>1, VerifyWithSigStep DEF VerifierInv, Running
  <2> QED BY <1>1, <2>1, <2>2 DEF Step
<1>2. CASE Tick \/ UNCHANGED vars
  BY <1>2, TickStep
<1>3. CASE Return
  BY <1>3, BoundsAssumption DEF Return, config, VerifierInv, StateOK, AnswerOK
<1>4. CASE \E p \in Exact : satisfy_exact(p)
  BY <1>4, IdleStep
<1>5. CASE \E f \in General : satisfy_general(f)
  BY <1>5, IdleStep
<1>6. CASE \E arguments \in Calls : verify(arguments)
  BY <1>6, CallStep, CallsAreCalls
<1> QED
  BY <1>1, <1>2, <1>3, <1>4, <1>5, <1>6, Zenon DEF Next

\* The inductive invariant: at every moment of a call, what verify has done so
\* far is a part of an authorization.
THEOREM InvariantHolds == Spec => []VerifierInv
BY InitInv, NextInv, PTL DEF Spec

\* The state of the verifier is well formed.
THEOREM TypeCorrect == Spec => []TypeOK
<1> DEFINE Typed == call \in Calls \cup {NoCall}
<1>1. Init => Typed
  BY DEF Init
<1>2. Typed /\ [Next]_vars => Typed'
  BY DEF Next, vars, satisfy_exact, satisfy_general, Tick, verify, Return, Step,
     CollectDischarges, verify_with_sig, ExactMatch, GeneralMatch,
     GeneralMismatch, NotSatisfied, CannotDecrypt, NoDischarge, TooDeep,
     Discharge, BadSignature, ReturnToParent, FinishRoot, Fail, Satisfy
<1>3. VerifierInv /\ Typed => TypeOK
  BY DEF VerifierInv, TypeOK
<1> HIDE DEF Typed
<1> QED BY <1>1, <1>2, <1>3, InvariantHolds, PTL DEF Spec

\* verify returns Ok only if the discharges authorize the root.
THEOREM Soundness == Spec => []AcceptsOnlyAuthorized
<1>1. VerifierInv => AcceptsOnlyAuthorized
  BY DEF VerifierInv, AnswerOK, AcceptsOnlyAuthorized, Authorized
<1> QED BY <1>1, InvariantHolds, PTL

\* DischargeNotUsed is returned only if the other discharges authorize it.
THEOREM RedundantDischarges == Spec => []NotUsedMeansRedundant
<1>1. VerifierInv => NotUsedMeansRedundant
  BY DEF VerifierInv, AnswerOK, NotUsedMeansRedundant
<1> QED BY <1>1, InvariantHolds, PTL

-----------------------------------------------------------------------------
(***************************************************************************)
(* The bound of the recursion.  After an error the frames stay as they were,*)
(* so that their depths differ is an invariant of every outcome.            *)
(***************************************************************************)
DepthsDiffer ==
  \A n, k \in CallStack : frames[n].depth = frames[k].depth => n = k

\* The depths differ before the first call.
LEMMA DepthsDifferInit == Init => DepthsDiffer
BY DEF Init, DepthsDiffer, CallStack, NoFrames

\* Every step keeps the depths different.
LEMMA DepthsDifferNext ==
  ASSUME VerifierInv, VerifierInv', DepthsDiffer, [Next]_vars
  PROVE  DepthsDiffer'
<1>1. CASE outcome' = "Running"
  BY <1>1 DEF VerifierInv, RunningOK, StackOK, DepthsDiffer
<1>2. CASE UNCHANGED frames
  BY <1>2 DEF DepthsDiffer, CallStack, Finished
<1>3. CASE frames' = NoFrames
  BY <1>3 DEF DepthsDiffer, CallStack, NoFrames
<1>4. CASE FinishRoot
  <2>1. frames' = [frames EXCEPT ![0].finished = TRUE]
    BY <1>4 DEF FinishRoot
  <2>2. DOMAIN frames' = DOMAIN frames
    BY <2>1
  <2>3. ASSUME NEW n \in CallStack'
        PROVE  n \in CallStack /\ frames'[n] = frames[n]
    <3>1. n \in DOMAIN frames /\ ~frames'[n].finished
      BY <2>2, <2>3 DEF CallStack, Finished
    <3>2. n # 0
      <4> SUFFICES ASSUME n = 0 PROVE frames'[0].finished
        BY <3>1
      <4>1. FrameOK(0) /\ DOMAIN frames[0] = FrameFields
        BY <1>4, <3>1 DEF FinishRoot, AtEnd, VerifierInv, StateOK, FrameOK
      <4> QED
        BY <2>1, <3>1, <4>1 DEF FrameFields
    <3> QED
      BY <2>1, <3>1, <3>2 DEF CallStack, Finished
  <2> QED
    BY <2>3, Zenon DEF DepthsDiffer
<1> QED
  <2>1. CASE Step
    BY <1>1, <1>2, <1>4, <2>1
    DEF Step, CollectDischarges, verify_with_sig, ExactMatch, GeneralMatch,
        GeneralMismatch, NotSatisfied, CannotDecrypt, NoDischarge, TooDeep,
        Discharge, BadSignature, ReturnToParent, Fail, Satisfy, AtFirstParty,
        AtThirdParty, AtCaveat, AtEnd
  <2>2. CASE Return
    BY <1>3, <2>2 DEF Return
  <2>3. CASE \/ \E p \in Exact : satisfy_exact(p)
             \/ \E f \in General : satisfy_general(f)
             \/ Tick
             \/ \E arguments \in Calls : verify(arguments)
             \/ UNCHANGED vars
    BY <1>2, <2>3 DEF satisfy_exact, satisfy_general, Tick, verify, vars
  <2> QED
    BY <2>1, <2>2, <2>3 DEF Next

\* CallStackBounded: never more than MAX_VERIFICATION_DEPTH calls below the
\* outermost one, for the unfinished frames have different depths.
THEOREM BoundedRecursion == Spec => []CallStackBounded
<1>1. ASSUME VerifierInv, DepthsDiffer PROVE CallStackBounded
  <2> DEFINE f == [n \in CallStack |-> frames[n].depth]
             T == 0..MAX_VERIFICATION_DEPTH
  <2>1. ASSUME NEW n \in CallStack PROVE frames[n].depth \in T
    <3>1. outcome # "Idle"
      BY <1>1 DEF VerifierInv, StateOK, NoFrames, CallStack
    <3>2. FrameOK(n)
      BY <1>1, <3>1 DEF VerifierInv, StateOK, CallStack
    <3> QED
      BY <3>2 DEF FrameOK
  <2>2. f \in Injection(CallStack, T)
    BY <1>1, <2>1 DEF Injection, IsInjective, DepthsDiffer
  <2>3. IsFiniteSet(T) /\ Cardinality(T) = MAX_VERIFICATION_DEPTH + 1
    BY FS_Interval, DepthAssumption
  <2> HIDE DEF f, T
  <2>4. Cardinality(CallStack) <= Cardinality(T)
    BY <2>2, <2>3, FS_Injection
  <2> QED
    BY <2>3, <2>4 DEF CallStackBounded
<1> QED
  BY <1>1, InvariantHolds, DepthsDifferInit, DepthsDifferNext, PTL DEF Spec

-----------------------------------------------------------------------------
(***************************************************************************)
(* Two more facts of a running call, kept by all its steps.                 *)
(***************************************************************************)

\* The caveat of a verified discharge has been passed.
ReturnedOK ==
  \A d \in Asked :
    frames[d].finished => frames[d].from[2] < frames[frames[d].from[1]].next

\* Each closure that was asked about the caveat at hand refused it at some
\* time of the call.
AskedOK ==
  \A i \in 1..frames[active].asked :
    \E t \in started..now :
      ~Accepts(general[i], Mac(call, active).caveats[frames[active].next].predicate, t)

CompleteInv == outcome = "Running" => ReturnedOK /\ AskedOK

\* A satisfied first-party caveat preserves both.
LEMMA CompleteSatisfy ==
  ASSUME Running, ReturnedOK, AtCaveat, Satisfy
  PROVE  ReturnedOK' /\ AskedOK'
<1>1. /\ active \in Visited /\ FrameOK(active)
      /\ \A d \in Asked : LinkOK(d)
      /\ \A n \in Visited : frames[n].next \in Nat
  <2>1. \A n \in Visited : FrameOK(n) /\ n \in Nodes(call) /\ IsCall(call)
    BY RunningFacts
  <2>2. \A n \in Visited : frames[n].next \in Nat
    BY <2>1, CaveatFacts
  <2> QED
    BY <2>1, <2>2, RunningFacts DEF Running, RunningOK
<1>2. /\ frames' = [frames EXCEPT ![active] = Signed(frames[active], caveat)]
      /\ active' = active
  BY DEF Satisfy
<1>3. /\ frames'[active] = Signed(frames[active], caveat)
      /\ \A n \in Visited : n # active => frames'[n] = frames[n]
      /\ Visited' = Visited
  BY <1>1, <1>2 DEF Visited
<1>4. /\ frames'[active].asked = 0
      /\ frames'[active].next = frames[active].next + 1
      /\ frames'[active].from = frames[active].from
      /\ frames'[active].finished = frames[active].finished
  BY <1>1, <1>3, SignedFields DEF FrameOK
<1>5. ReturnedOK'
  <2> SUFFICES ASSUME NEW d \in Asked', frames'[d].finished
               PROVE  frames'[d].from[2] < frames'[frames'[d].from[1]].next
    BY DEF ReturnedOK
  <2>1. /\ d \in Asked /\ d \in Visited
        /\ frames[d].finished /\ frames'[d].from = frames[d].from
    BY <1>3, <1>4 DEF Asked
  <2>2. frames[d].from[1] \in Visited
    BY <1>1, <2>1 DEF LinkOK
  <2>3. frames[d].from[2] < frames[frames[d].from[1]].next
    BY <2>1 DEF ReturnedOK
  <2>4. frames[d].from[2] \in Nat
    BY <1>1, <2>1 DEF LinkOK, Answers, ThirdPartyIndices
  <2> DEFINE p == frames[d].from[1]
             i == frames[d].from[2]
  <2>5. frames'[p].next \in Nat /\ frames'[p].next >= frames[p].next
    BY <1>1, <1>3, <1>4, <2>2
  <2>6. i < frames'[p].next
    <3> HIDE DEF p, i
    <3> QED
      BY <1>1, <2>2, <2>3, <2>4, <2>5 DEF p, i
  <2> QED
    BY <2>1, <2>6
<1>6. AskedOK'
  BY <1>2, <1>4 DEF AskedOK
<1> QED
  BY <1>5, <1>6

\* So does a closure that refuses the caveat at hand.
LEMMA CompleteMismatch ==
  ASSUME Running, ReturnedOK, AskedOK, GeneralMismatch
  PROVE  ReturnedOK' /\ AskedOK'
<1>1. /\ active \in Visited /\ FrameOK(active)
      /\ started <= now /\ started \in Nat /\ now \in Nat
  BY RunningFacts
<1>2. /\ frames' = [frames EXCEPT ![active].asked = frames[active].asked + 1]
      /\ UNCHANGED <<general, now, started, call, active>>
      /\ ~Accepts(general[frames[active].asked + 1], caveat.predicate, now)
  BY DEF GeneralMismatch, config, frame
<1>3. DOMAIN frames' = DOMAIN frames
  BY <1>2
<1>4. /\ \A n \in Visited : n # active => frames'[n] = frames[n]
      /\ frames'[active] = [frames[active] EXCEPT !.asked = frames[active].asked + 1]
  BY <1>1, <1>2 DEF Visited
<1>5. /\ frames'[active].asked = frames[active].asked + 1
      /\ frames'[active].next = frames[active].next
      /\ frames'[active].from = frames[active].from
      /\ frames'[active].finished = frames[active].finished
      /\ frames[active].asked \in Nat
  BY <1>1, <1>4, RunningFacts DEF FrameOK, FrameFields
<1>6. \A n \in Visited : /\ frames'[n].next = frames[n].next
                         /\ frames'[n].from = frames[n].from
                         /\ frames'[n].finished = frames[n].finished
  BY <1>4, <1>5
<1>7. ReturnedOK'
  <2>1. Asked' = Asked /\ \A d \in Asked : d \in Visited
    BY <1>3 DEF Asked, Visited
  <2>2. \A d \in Asked : frames[d].from[1] \in Visited
    BY DEF Running, RunningOK, LinkOK
  <2> QED
    BY <1>6, <2>1, <2>2 DEF ReturnedOK
<1>8. AskedOK'
  <2> SUFFICES ASSUME NEW i \in 1..(frames[active].asked + 1)
               PROVE  \E t \in started..now : ~Accepts(general[i], caveat.predicate, t)
    BY <1>2, <1>5 DEF AskedOK, caveat, frame, Mac
  <2>1. CASE i = frames[active].asked + 1
    BY <1>1, <1>2, <2>1
  <2>2. CASE i # frames[active].asked + 1
    <3>1. i \in 1..frames[active].asked
      BY <1>5, <2>2
    <3> QED
      BY <3>1 DEF AskedOK, caveat, frame
  <2> QED
    BY <2>1, <2>2
<1> QED
  BY <1>7, <1>8

\* So does going into a discharge.
LEMMA CompleteDischarge ==
  ASSUME Running, ReturnedOK, Discharge
  PROVE  ReturnedOK' /\ AskedOK'
<1>1. PICK d \in Found :
        /\ frames' = [n \in DOMAIN frames \cup {d} |->
                        IF n = d
                          THEN Frame(Mac(call, d), decrypt_key(caveat.verifier_id),
                                     <<active, frame.next>>, frame.depth + 1)
                          ELSE frames[n]]
        /\ active' = d
  BY DEF Discharge
<1>2. d \in unused /\ d \notin Visited
  BY <1>1 DEF Found, Running, RunningOK, MapOK
<1>3. /\ frames'[d].asked = 0 /\ frames'[d].finished = FALSE
      /\ \A n \in Visited : frames'[n] = frames[n]
      /\ Asked' \subseteq Asked \cup {d}
  BY <1>1, <1>2 DEF Frame, Visited, Asked
<1>4. AskedOK'
  BY <1>1, <1>3 DEF AskedOK
<1>5. ReturnedOK'
  <2> SUFFICES ASSUME NEW e \in Asked', frames'[e].finished
               PROVE  frames'[e].from[2] < frames'[frames'[e].from[1]].next
    BY DEF ReturnedOK
  <2>1. e \in Asked /\ e \in Visited /\ frames'[e] = frames[e]
    BY <1>3 DEF Asked
  <2>2. frames[e].from[1] \in Visited
    BY <2>1 DEF Running, RunningOK, LinkOK
  <2> QED
    BY <1>3, <2>1, <2>2 DEF ReturnedOK
<1> QED
  BY <1>4, <1>5

\* So does the return to the caller.
LEMMA CompleteReturn ==
  ASSUME Running, ReturnedOK, ReturnToParent
  PROVE  ReturnedOK' /\ AskedOK'
<1> DEFINE p == frames[active].from[1]
           j == frames[active].from[2]
           c == CaveatAt(call, frames[active].from)
<1>1. /\ frames' = [frames EXCEPT ![active].finished = TRUE,
                                  ![p] = Signed(@, c)]
      /\ active' = p /\ active # 0
  BY DEF ReturnToParent, frame
<1>2. /\ active \in Visited /\ active \in Asked /\ LinkOK(active)
      /\ ~frames[active].finished
      /\ \A d \in Asked : LinkOK(d)
      /\ \A n \in Visited : FrameOK(n) /\ frames[n].next \in Nat
  <2>1. \A n \in Visited : FrameOK(n) /\ n \in Nodes(call) /\ IsCall(call)
    BY RunningFacts
  <2>2. \A n \in Visited : frames[n].next \in Nat
    BY <2>1, CaveatFacts
  <2> QED
    BY <1>1, <2>1, <2>2, RunningFacts DEF Running, RunningOK, StackOK, Asked
<1>3. /\ p \in Visited /\ p # active /\ frames[p].next = j
      /\ frames[active].depth = frames[p].depth + 1
  <2>1. /\ p \in Visited /\ frames[active].depth = frames[p].depth + 1
        /\ frames[p].next = j
    BY <1>2 DEF LinkOK
  <2>2. frames[p].depth \in Nat
    BY <1>2, <2>1, DepthAssumption DEF FrameOK
  <2> QED
    BY <2>1, <2>2
<1> HIDE DEF p, j, c
<1>4. /\ Visited' = Visited
      /\ frames'[active] = [frames[active] EXCEPT !.finished = TRUE]
      /\ frames'[p] = Signed(frames[p], c)
      /\ \A n \in Visited : n # active /\ n # p => frames'[n] = frames[n]
  BY <1>1, <1>2, <1>3 DEF Visited
<1>5. /\ frames'[active].from = frames[active].from
      /\ frames'[active].next = frames[active].next
  BY <1>2, <1>4 DEF FrameOK, FrameFields
<1>6. /\ frames'[p].asked = 0
      /\ frames'[p].next = frames[p].next + 1
      /\ frames'[p].from = frames[p].from
      /\ frames'[p].finished = frames[p].finished
  BY <1>2, <1>3, <1>4, SignedFields DEF FrameOK
<1>7. AskedOK'
  BY <1>1, <1>6 DEF AskedOK
<1>8. ASSUME NEW n \in Visited
      PROVE  /\ frames'[n].from = frames[n].from
             /\ frames'[n].next \in Nat
             /\ frames'[n].next >= frames[n].next
  <2>1. frames[n].next \in Nat
    BY <1>2
  <2>2. CASE n = active
    BY <1>5, <2>1, <2>2
  <2>3. CASE n = p
    BY <1>6, <2>1, <2>3
  <2>4. CASE n # active /\ n # p
    BY <1>4, <2>1, <2>4
  <2> QED
    BY <2>2, <2>3, <2>4
<1>9. ReturnedOK'
  <2> SUFFICES ASSUME NEW d \in Asked', frames'[d].finished
               PROVE  frames'[d].from[2] < frames'[frames'[d].from[1]].next
    BY DEF ReturnedOK
  <2>1. d \in Asked /\ d \in Visited /\ frames'[d].from = frames[d].from
    BY <1>4, <1>8 DEF Asked
  <2>2. CASE d = active
    <3>1. frames'[d].from[1] = p /\ frames'[d].from[2] = j
      BY <1>5, <2>2 DEF p, j
    <3>2. frames'[p].next = j + 1 /\ j \in Nat
      BY <1>2, <1>3, <1>6
    <3> QED
      BY <3>1, <3>2
  <2>3. CASE d # active
    <3> DEFINE q == frames[d].from[1]
               i == frames[d].from[2]
    <3>1. frames[d].finished
      BY <1>4, <1>6, <2>1, <2>3
    <3>2. q \in Visited /\ i \in Nat
      <4>1. LinkOK(d)
        BY <1>2, <2>1
      <4>2. q \in Visited /\ i \in ThirdPartyIndices(Mac(call, q))
        BY <4>1 DEF LinkOK, Answers
      <4> HIDE DEF q, i
      <4> QED
        BY <4>2 DEF ThirdPartyIndices
    <3>3. i < frames[q].next
      BY <2>1, <3>1 DEF ReturnedOK
    <3> HIDE DEF q, i
    <3>4. i < frames'[q].next
      BY <1>2, <1>8, <3>2, <3>3
    <3> QED
      BY <2>1, <3>4 DEF q, i
  <2> QED
    BY <2>2, <2>3
<1> QED
  BY <1>7, <1>9

\* Both facts hold throughout a call.
LEMMA CompleteNext ==
  ASSUME VerifierInv, CompleteInv, [Next]_vars
  PROVE  CompleteInv'
<1> SUFFICES ASSUME outcome' = "Running" PROVE ReturnedOK' /\ AskedOK'
  BY DEF CompleteInv
<1> USE DEF Errors
<1>1. CASE CollectDischarges
  <2>1. /\ frames' = [n \in {0} |-> Frame(call.root, call.key, << >>, 0)]
        /\ active' = 0
    BY <1>1 DEF CollectDischarges, Fail
  <2>2. frames'[0].asked = 0 /\ Asked' = {}
    BY <2>1 DEF Frame, Asked, Visited
  <2> QED
    BY <2>1, <2>2 DEF ReturnedOK, AskedOK
<1>2. CASE verify_with_sig
  <2>1. Running /\ ReturnedOK /\ AskedOK
    BY <1>2 DEF verify_with_sig, ExactMatch, GeneralMatch, GeneralMismatch,
       NotSatisfied, CannotDecrypt, NoDischarge, TooDeep, Discharge,
       BadSignature, ReturnToParent, FinishRoot, AtFirstParty, AtThirdParty,
       AtCaveat, AtEnd, VerifierInv, Running, CompleteInv
  <2>2. CASE ExactMatch \/ GeneralMatch
    BY <2>1, <2>2, CompleteSatisfy DEF ExactMatch, GeneralMatch, AtFirstParty
  <2>3. CASE GeneralMismatch
    BY <2>1, <2>3, CompleteMismatch
  <2>4. CASE Discharge
    BY <2>1, <2>4, CompleteDischarge
  <2>5. CASE ReturnToParent
    BY <2>1, <2>5, CompleteReturn
  <2>6. CASE \/ NotSatisfied \/ CannotDecrypt \/ NoDischarge \/ TooDeep
             \/ BadSignature \/ FinishRoot
    BY <2>6 DEF NotSatisfied, CannotDecrypt, NoDischarge, TooDeep,
       BadSignature, FinishRoot, Fail
  <2> QED
    BY <1>2, <2>2, <2>3, <2>4, <2>5, <2>6 DEF verify_with_sig
<1>3. CASE Tick \/ UNCHANGED vars
  <2>1. /\ UNCHANGED <<general, started, call, frames, active, outcome>>
        /\ now <= now' /\ now \in Nat /\ now' \in Nat /\ started \in Nat
    BY <1>3, BoundsAssumption DEF Tick, vars, config, VerifierInv, StateOK
  <2>2. started..now \subseteq started..now'
    BY <2>1
  <2>3. ReturnedOK /\ AskedOK
    BY <2>1 DEF CompleteInv
  <2>4. Asked' = Asked /\ Mac(call, active)' = Mac(call, active)
    BY <2>1 DEF Asked, Visited, Mac
  <2> QED
    BY <2>1, <2>2, <2>3, <2>4 DEF ReturnedOK, AskedOK
<1>4. CASE Return \/ \E p \in Exact : satisfy_exact(p)
  BY <1>4 DEF Return, satisfy_exact
<1>5. CASE \E f \in General : satisfy_general(f)
  BY <1>5 DEF satisfy_general
<1>6. CASE \E arguments \in Calls : verify(arguments)
  BY <1>6 DEF verify
<1> QED
  BY <1>1, <1>2, <1>3, <1>4, <1>5, <1>6, Zenon DEF Next, Step

-----------------------------------------------------------------------------
(***************************************************************************)
(* A call that is authorized: from[d] is the caveat that d discharges.      *)
(***************************************************************************)
Witness(from) ==
  LET D == Discharges(call)
  IN  /\ from \in [D -> Pointers(call, D)]
      /\ OneDischargeEach(call, D, from)
      /\ Nested(D, from)
      /\ KeysOpen(call, D, from)
      /\ SignaturesHold(call, D, from)

\* A third-party caveat of a macaroon of the call is a pointer, and the
\* authorization has a discharge for it.
LEMMA WitnessCovers ==
  ASSUME NEW from, Witness(from),
         NEW n \in Nodes(call), NEW j \in ThirdPartyIndices(Mac(call, n))
  PROVE  \E d \in Discharges(call) :
            /\ from[d] = <<n, j>>
            /\ Mac(call, n).caveats[j].id = call.discharges[d].identifier
<1>1. <<n, j>> \in Pointers(call, Discharges(call))
  BY DEF Pointers, Nodes
<1>2. PICK d \in Discharges(call) : from[d] = <<n, j>>
  BY <1>1 DEF Witness, OneDischargeEach
<1>3. CaveatAt(call, from[d]).id = call.discharges[d].identifier
  BY DEF Witness, OneDischargeEach
<1> QED
  BY <1>2, <1>3 DEF CaveatAt

\* The frames agree with the authorization on who discharges what.
LEMMA WitnessFrames ==
  ASSUME Running, NEW from, Witness(from), NEW d \in Asked
  PROVE  /\ d \in Discharges(call) /\ frames[d].from = from[d]
         /\ from[d] = <<from[d][1], from[d][2]>>
         /\ from[d][1] \in Visited
<1> DEFINE n == frames[d].from[1]
           j == frames[d].from[2]
<1>1. /\ d \in Nodes(call) /\ d # 0 /\ LinkOK(d) /\ DistinctIdentifiers(call)
      /\ \A k \in Visited : k \in Nodes(call)
  BY RunningFacts DEF Running, RunningOK, MapOK, Asked
<1>2. /\ d \in Discharges(call) /\ n \in Visited /\ n \in Nodes(call)
      /\ frames[d].from = <<n, j>>
      /\ j \in ThirdPartyIndices(Mac(call, n))
      /\ CaveatAt(call, <<n, j>>).id = call.discharges[d].identifier
  BY <1>1 DEF LinkOK, Answers, Nodes
<1> HIDE DEF n, j
<1>3. Mac(call, n).caveats[j].id = call.discharges[d].identifier
  BY <1>2 DEF CaveatAt
<1>4. PICK e \in Discharges(call) :
        /\ from[e] = <<n, j>>
        /\ Mac(call, n).caveats[j].id = call.discharges[e].identifier
  BY <1>2, WitnessCovers
<1>5. e = d
  BY <1>1, <1>2, <1>3, <1>4 DEF DistinctIdentifiers
<1> QED
  BY <1>2, <1>4, <1>5

\* They agree on the keys.
LEMMA WitnessKeys ==
  ASSUME Running, NEW from, Witness(from), NEW n \in Visited
  PROVE  frames[n].key = KeyOf(call, from, n)
<1>1. CASE n = 0
  BY <1>1 DEF Running, RunningOK, RootOK, KeyOf
<1>2. CASE n # 0
  <2>1. n \in Asked
    BY <1>2 DEF Asked
  <2>2. frames[n].from = from[n] /\ LinkOK(n)
    BY <2>1, WitnessFrames DEF Running, RunningOK
  <2> QED
    BY <1>2, <2>2 DEF LinkOK, Answers, KeyOf
<1> QED
  BY <1>1, <1>2

\* They agree on the depths: a frame of least depth that does not cannot be,
\* for the frame that called it does.
LEMMA WitnessDepths ==
  ASSUME Running, NEW from, Witness(from), NEW depth,
         depth[0] = 0,
         \A d \in Discharges(call) : depth[d] = depth[from[d][1]] + 1
  PROVE  \A n \in Visited : frames[n].depth = depth[n]
<1> DEFINE Bad == { n \in Visited : frames[n].depth # depth[n] }
           T == { frames[n].depth : n \in Bad }
<1> SUFFICES ASSUME Bad # {} PROVE FALSE
  OBVIOUS
<1>1. \A n \in Visited : frames[n].depth \in Nat
  BY RunningFacts, DepthAssumption DEF FrameOK
<1>2. T \in SUBSET Nat /\ T # {}
  BY <1>1
<1>3. PICK t \in T : \A k \in T : t <= k
  <2> HIDE DEF T
  <2> QED
    BY <1>2, LeastElement
<1>4. PICK n \in Bad : \A k \in Bad : frames[n].depth <= frames[k].depth
  BY <1>3
<1>5. n # 0
  BY <1>4 DEF Running, RunningOK, RootOK
<1>6. /\ n \in Asked /\ n \in Discharges(call)
      /\ frames[n].from = from[n] /\ from[n][1] \in Visited
      /\ frames[n].depth = frames[from[n][1]].depth + 1
  <2>1. n \in Asked
    BY <1>5 DEF Asked
  <2> QED
    BY <2>1, WitnessFrames DEF Running, RunningOK, LinkOK
<1> DEFINE p == from[n][1]
<1>7. p \in Visited /\ frames[p].depth \in Nat /\ frames[n].depth = frames[p].depth + 1
  BY <1>1, <1>6
<1>8. p \notin Bad
  <2> HIDE DEF p, Bad
  <2> QED
    BY <1>4, <1>7
<1>9. frames[p].depth = depth[p]
  BY <1>7, <1>8
<1> QED
  BY <1>4, <1>6, <1>9

\* At a third-party caveat the map still holds its discharge, and no other
\* with its identifier.
LEMMA WitnessFound ==
  ASSUME Running, ReturnedOK, AtThirdParty, NEW from, Witness(from)
  PROVE  /\ Found # {}
         /\ \A d \in Found : d \in Discharges(call)
                             /\ from[d] = <<active, frame.next>>
<1> DEFINE j == frame.next
<1>1. /\ active \in Visited /\ active \in Nodes(call)
      /\ DistinctIdentifiers(call) /\ unused \subseteq Discharges(call)
      /\ Visited = Nodes(call) \ unused
      /\ \A d \in Discharges(call) : d # 0
  BY RunningFacts, CallFacts DEF Running, RunningOK, MapOK
<1>2. j \in ThirdPartyIndices(Mac(call, active)) /\ j \in Nat
  BY <1>1, RunningFacts, CaveatFacts
  DEF AtThirdParty, AtCaveat, caveat, frame, IsFirstParty, IsThirdParty
<1>3. PICK d \in Discharges(call) :
        /\ from[d] = <<active, j>>
        /\ Mac(call, active).caveats[j].id = call.discharges[d].identifier
  <2> HIDE DEF j
  <2> QED
    BY <1>1, <1>2, WitnessCovers
<1>4. d \in unused
  <2> SUFFICES ASSUME d \notin unused PROVE FALSE
    OBVIOUS
  <2>1. d \in Asked
    BY <1>1 DEF Asked, Nodes
  <2>2. frames[d].from = <<active, j>> /\ LinkOK(d)
    BY <1>3, <2>1, WitnessFrames DEF Running, RunningOK
  <2>3. frames[d].from[1] = active /\ frames[d].from[2] = j
    BY <2>2
  <2>4. frames[d].finished
    BY <1>1, <2>1, <2>2, <2>3, NoChildOfActive DEF Running, RunningOK
  <2>5. frames[d].from[2] < frames[frames[d].from[1]].next
    BY <2>1, <2>4 DEF ReturnedOK
  <2> QED
    BY <1>2, <2>3, <2>5 DEF frame
<1>5. d \in Found
  BY <1>3, <1>4 DEF Found, caveat, frame
<1>6. \A e \in Found : e = d
  BY <1>1, <1>3 DEF Found, caveat, frame, DistinctIdentifiers
<1> QED
  BY <1>3, <1>5, <1>6

-----------------------------------------------------------------------------
(***************************************************************************)
(* A check that fails refutes the authorization: verify refuses a call only *)
(* if the predicates satisfied throughout it do not authorize it.           *)
(***************************************************************************)
SatisfiedThroughout ==
  SatisfiedAllAlong(call, exact, general, started..now)

Justified == ~Authorized(call, SatisfiedThroughout)

\* What an authorization of the call gives to refute.
LEMMA AuthorizedFacts ==
  ASSUME Authorized(call, SatisfiedThroughout)
  PROVE  /\ \A n \in Nodes(call) :
              FirstPartyPredicates(Mac(call, n)) \subseteq SatisfiedThroughout
         /\ \E from : Witness(from)
<1>1. AuthorizedBy(call, Discharges(call), SatisfiedThroughout)
  BY DEF Authorized
<1>2. \A n \in Nodes(call) :
        FirstPartyPredicates(Mac(call, n)) \subseteq SatisfiedThroughout
  BY <1>1 DEF AuthorizedBy, Nodes
<1>3. \E from \in [Discharges(call) -> Pointers(call, Discharges(call))] :
        /\ OneDischargeEach(call, Discharges(call), from)
        /\ Nested(Discharges(call), from)
        /\ KeysOpen(call, Discharges(call), from)
        /\ SignaturesHold(call, Discharges(call), from)
  BY <1>1 DEF AuthorizedBy
<1> QED
  BY <1>2, <1>3 DEF Witness

\* Two discharges with one identifier.
LEMMA CollisionJustified ==
  ASSUME ~DistinctIdentifiers(call)
  PROVE  Justified
BY DEF Justified, Authorized, AuthorizedBy

\* No exact predicate and no closure, though each was asked, accepts the
\* first-party caveat.
LEMMA NotSatisfiedJustified ==
  ASSUME Running, AskedOK, NotSatisfied
  PROVE  Justified
<1> SUFFICES ASSUME Authorized(call, SatisfiedThroughout) PROVE FALSE
  BY DEF Justified
<1>1. active \in Nodes(call) /\ FrameOK(active) /\ IsCall(call)
  BY RunningFacts
<1> DEFINE j == frames[active].next
           m == Mac(call, active)
           p == m.caveats[j].predicate
<1>2. /\ j <= Len(m.caveats) /\ IsFirstParty(m.caveats[j])
      /\ p \notin exact /\ frames[active].asked = Len(general)
  BY DEF NotSatisfied, AtFirstParty, AtCaveat, caveat, frame
<1>3. j \in 1..Len(m.caveats)
  BY <1>1, <1>2, CaveatFacts
<1>4. p \in FirstPartyPredicates(m)
  BY <1>2, <1>3 DEF FirstPartyPredicates
<1>5. p \in SatisfiedThroughout
  BY <1>1, <1>4, AuthorizedFacts
<1>6. PICK i \in 1..Len(general) : \A t \in started..now : Accepts(general[i], p, t)
  BY <1>2, <1>5 DEF SatisfiedThroughout, SatisfiedAllAlong
<1> QED
  BY <1>2, <1>6 DEF AskedOK

\* At a third-party caveat the authorization says the key opens, the
\* discharge is there and it is not too deep.
LEMMA ThirdPartyJustified ==
  ASSUME Running, ReturnedOK, CannotDecrypt \/ NoDischarge \/ TooDeep
  PROVE  Justified
<1> SUFFICES ASSUME Authorized(call, SatisfiedThroughout) PROVE FALSE
  BY DEF Justified
<1>1. PICK from : Witness(from)
  BY AuthorizedFacts
<1>2. AtThirdParty
  BY DEF CannotDecrypt, NoDischarge, TooDeep
<1>3. PICK d \in Found : d \in Discharges(call) /\ from[d] = <<active, frame.next>>
  BY <1>1, <1>2, WitnessFound
<1>4. from[d][1] = active /\ from[d][2] = frame.next
  BY <1>3
<1>5. active \in Visited /\ FrameOK(active)
  BY RunningFacts
<1>6. Decrypts(frame.sig, caveat.verifier_id)
  <2>1. KeysOpen(call, Discharges(call), from)
    BY <1>1 DEF Witness
  <2>2. Decrypts(ChainSignature(KeyOf(call, from, active), Mac(call, active),
                                frame.next - 1),
                 CaveatAt(call, from[d]).verifier_id)
    BY <1>3, <1>4, <2>1 DEF KeysOpen
  <2>3. KeyOf(call, from, active) = frames[active].key
    BY <1>1, <1>5, WitnessKeys
  <2>4. frame.sig = ChainSignature(frames[active].key, Mac(call, active),
                                   frame.next - 1)
    BY <1>5 DEF FrameOK, frame
  <2>5. CaveatAt(call, from[d]) = caveat
    BY <1>4 DEF CaveatAt, caveat
  <2> QED
    BY <2>2, <2>3, <2>4, <2>5
<1>7. frame.depth + 1 <= MAX_VERIFICATION_DEPTH
  <2>1. Nested(Discharges(call), from)
    BY <1>1 DEF Witness
  <2>2. PICK depth \in [Nodes(call) -> 0..MAX_VERIFICATION_DEPTH] :
          /\ depth[0] = 0
          /\ \A e \in Discharges(call) : depth[e] = depth[from[e][1]] + 1
    BY <2>1 DEF Nested, Nodes
  <2>3. \A n \in Visited : frames[n].depth = depth[n]
    BY <1>1, <2>2, WitnessDepths
  <2>4. frame.depth = depth[active]
    BY <1>5, <2>3 DEF frame
  <2>5. depth[d] = depth[active] + 1 /\ depth[d] \in 0..MAX_VERIFICATION_DEPTH
    BY <1>3, <1>4, <2>2 DEF Nodes
  <2> QED
    BY <2>4, <2>5, DepthAssumption
<1>8. CASE CannotDecrypt
  BY <1>6, <1>8 DEF CannotDecrypt
<1>9. CASE NoDischarge
  BY <1>3, <1>9 DEF NoDischarge
<1>10. CASE TooDeep
  <2>1. frame.depth \in Nat
    BY <1>5, DepthAssumption DEF FrameOK, frame
  <2> QED
    BY <1>7, <1>10, <2>1, DepthAssumption DEF TooDeep
<1> QED
  BY <1>8, <1>9, <1>10

\* At the end of a macaroon the authorization says its signature is its chain,
\* bound to the root when it is a discharge.
LEMMA BadSignatureJustified ==
  ASSUME Running, BadSignature
  PROVE  Justified
<1> SUFFICES ASSUME Authorized(call, SatisfiedThroughout) PROVE FALSE
  BY DEF Justified
<1>1. PICK from : Witness(from)
  BY AuthorizedFacts
<1>2. /\ active \in Visited /\ FrameOK(active) /\ active \in Nodes(call)
      /\ IsCall(call)
  BY RunningFacts
<1>3. frame.next = Len(Mac(call, active).caveats) + 1
  BY <1>2, CaveatFacts DEF BadSignature, AtEnd, FrameOK, frame
<1>4. Len(Mac(call, active).caveats) \in Nat
  BY <1>2, CaveatFacts
<1>5. frame.sig = FullSignature(KeyOf(call, from, active), Mac(call, active))
  <2>1. frame.sig = ChainSignature(frames[active].key, Mac(call, active),
                                   frame.next - 1)
    BY <1>2 DEF FrameOK, frame
  <2>2. frame.next - 1 = Len(Mac(call, active).caveats)
    BY <1>3, <1>4
  <2>3. KeyOf(call, from, active) = frames[active].key
    BY <1>1, <1>2, WitnessKeys
  <2> QED
    BY <2>1, <2>2, <2>3 DEF FullSignature
<1>6. SignaturesHold(call, Discharges(call), from)
  BY <1>1 DEF Witness
<1>7. SignatureHolds
  <2>1. CASE active = 0
    <3>1. call.root.signature = FullSignature(call.key, call.root)
      BY <1>6 DEF SignaturesHold
    <3>2. KeyOf(call, from, active) = call.key /\ Mac(call, active) = call.root
      BY <2>1 DEF KeyOf, Mac
    <3> QED
      BY <1>5, <3>1, <3>2 DEF SignatureHolds
  <2>2. CASE active # 0
    <3>1. /\ active \in Discharges(call)
          /\ Mac(call, active) = call.discharges[active]
      BY <1>2, <2>2 DEF Nodes, Mac
    <3>2. call.discharges[active].signature =
            BoundSignature(call.root.signature,
                           FullSignature(KeyOf(call, from, active),
                                         call.discharges[active]))
      BY <1>6, <3>1 DEF SignaturesHold
    <3> QED
      BY <1>5, <3>1, <3>2 DEF SignatureHolds
  <2> QED
    BY <2>1, <2>2
<1> QED
  BY <1>7 DEF BadSignature

\* When the root is verified every frame is finished with its caveats.  An
\* unused discharge of least depth would discharge one of them, but that one
\* was discharged by a macaroon that was used.
LEMMA NotUsedJustified ==
  ASSUME Running, FinishRoot, unused # {}
  PROVE  Justified
<1> SUFFICES ASSUME Authorized(call, SatisfiedThroughout) PROVE FALSE
  BY DEF Justified
<1>1. PICK from : Witness(from)
  BY AuthorizedFacts
<1>2. PICK depth \in [Nodes(call) -> 0..MAX_VERIFICATION_DEPTH] :
        \A e \in Discharges(call) : depth[e] = depth[from[e][1]] + 1
  BY <1>1 DEF Witness, Nested, Nodes
<1>3. /\ active = 0 /\ 0 \in Visited
      /\ Visited = Nodes(call) \ unused /\ unused \subseteq Discharges(call)
      /\ \A n \in Visited : n \in Nodes(call) /\ FrameOK(n)
      /\ \A n \in Nodes(call) : Len(Mac(call, n).caveats) \in Nat
      /\ \A n \in Visited : ProgressOK(n) /\ FinishedOK(n)
  <2>1. \A n \in Nodes(call) : Len(Mac(call, n).caveats) \in Nat
    BY RunningFacts, CallFacts
  <2> QED
    BY <2>1, RunningFacts DEF Running, RunningOK, MapOK, FinishRoot
<1>4. ASSUME NEW n \in Visited
      PROVE  frames[n].next = Len(Mac(call, n).caveats) + 1
  <2>1. CASE n = 0
    <3>1. frames[0].next > Len(Mac(call, 0).caveats)
      BY <1>3 DEF FinishRoot, AtEnd, frame
    <3>2. frames[0].next \in 1..(Len(Mac(call, 0).caveats) + 1)
      BY <1>3 DEF FrameOK
    <3>3. Len(Mac(call, 0).caveats) \in Nat
      BY <1>3
    <3> QED
      BY <2>1, <3>1, <3>2, <3>3
  <2>2. CASE n # 0
    <3>1. frames[n].finished
      <4> SUFFICES ASSUME ~frames[n].finished PROVE FALSE
        OBVIOUS
      <4>1. n \in CallStack /\ 0 \in CallStack
        BY <1>3 DEF Running, RunningOK, StackOK, CallStack, Finished, Visited
      <4>2. frames[n].depth <= frames[0].depth /\ frames[0].depth = 0
        BY <1>3, <4>1 DEF Running, RunningOK, StackOK, RootOK
      <4>3. frames[n].depth \in Nat
        BY <1>3, DepthAssumption DEF FrameOK
      <4>4. frames[n].depth = frames[0].depth
        BY <4>2, <4>3
      <4> QED
        BY <2>2, <4>1, <4>4 DEF Running, RunningOK, StackOK
    <3> QED
      BY <1>3, <3>1 DEF FinishedOK
  <2> QED
    BY <2>1, <2>2
<1> DEFINE T == { depth[d] : d \in unused }
<1>5. \A n \in Nodes(call) : depth[n] \in Nat
  BY <1>2, DepthAssumption
<1>6. T \in SUBSET Nat /\ T # {}
  BY <1>3, <1>5 DEF Nodes
<1>7. PICK t \in T : \A k \in T : t <= k
  <2> HIDE DEF T
  <2> QED
    BY <1>6, LeastElement
<1>8. PICK d \in unused : \A e \in unused : depth[d] <= depth[e]
  BY <1>7
<1>9. d \in Discharges(call) /\ from[d] \in Pointers(call, Discharges(call))
  BY <1>1, <1>3 DEF Witness
<1>10. PICK n, j : /\ n \in Nodes(call) /\ j \in ThirdPartyIndices(Mac(call, n))
                   /\ from[d] = <<n, j>>
  BY <1>9 DEF Pointers, Nodes
<1>11. depth[d] = depth[n] + 1
  BY <1>2, <1>9, <1>10
<1>12. n \in Visited
  BY <1>3, <1>5, <1>8, <1>10, <1>11
<1>13. j \in 1..(frames[n].next - 1) /\ ~IsFirstParty(Mac(call, n).caveats[j])
  <2>1. /\ j \in 1..Len(Mac(call, n).caveats)
        /\ ~IsFirstParty(Mac(call, n).caveats[j])
    BY <1>10 DEF ThirdPartyIndices, IsFirstParty, IsThirdParty
  <2>2. /\ frames[n].next = Len(Mac(call, n).caveats) + 1
        /\ Len(Mac(call, n).caveats) \in Nat
    BY <1>3, <1>4, <1>12
  <2> QED
    BY <2>1, <2>2
<1>14. Cleared(n, j)
  BY <1>3, <1>12, <1>13 DEF ProgressOK
<1>15. PICK e \in Asked : frames[e].from = <<n, j>>
  BY <1>13, <1>14 DEF Cleared
<1>16. e \in Discharges(call) /\ from[e] = from[d]
  BY <1>1, <1>10, <1>15, WitnessFrames
<1>17. e = d
  BY <1>1, <1>9, <1>16 DEF Witness, OneDischargeEach
<1> QED
  BY <1>3, <1>15, <1>17 DEF Asked

-----------------------------------------------------------------------------
(***************************************************************************)
(* The simulation.                                                          *)
(***************************************************************************)

\* A step into a refusal is justified.
LEMMA RefusalJustified ==
  ASSUME VerifierInv, CompleteInv, Step, outcome' \notin {"Running", "Ok"}
  PROVE  Justified
<1> USE DEF Errors
<1>1. CASE CollectDischarges
  BY <1>1, CollisionJustified DEF CollectDischarges
<1>2. CASE verify_with_sig
  <2>1. Running /\ ReturnedOK /\ AskedOK
    BY <1>2 DEF verify_with_sig, ExactMatch, GeneralMatch, GeneralMismatch,
       NotSatisfied, CannotDecrypt, NoDischarge, TooDeep, Discharge,
       BadSignature, ReturnToParent, FinishRoot, AtFirstParty, AtThirdParty,
       AtCaveat, AtEnd, VerifierInv, Running, CompleteInv
  <2>2. CASE ExactMatch \/ GeneralMatch \/ GeneralMismatch \/ Discharge \/ ReturnToParent
    BY <2>1, <2>2 DEF ExactMatch, GeneralMatch, GeneralMismatch, Satisfy,
       Discharge, ReturnToParent, Running
  <2>3. CASE NotSatisfied
    BY <2>1, <2>3, NotSatisfiedJustified
  <2>4. CASE CannotDecrypt \/ NoDischarge \/ TooDeep
    BY <2>1, <2>4, ThirdPartyJustified
  <2>5. CASE BadSignature
    BY <2>1, <2>5, BadSignatureJustified
  <2>6. CASE FinishRoot
    <3>1. unused # {}
      BY <2>6 DEF FinishRoot
    <3> QED
      BY <2>1, <2>6, <3>1, NotUsedJustified
  <2> QED
    BY <1>2, <2>2, <2>3, <2>4, <2>5, <2>6 DEF verify_with_sig
<1> QED
  BY <1>1, <1>2 DEF Step

\* A step of verify leaves the configuration, the clock and the arguments.
LEMMA StepFrame ==
  ASSUME VerifierInv, Step
  PROVE  /\ UNCHANGED <<exact, general, now, started, call>>
         /\ outcome \in {"Collecting", "Running"}
         /\ outcome' \in Errors \cup {"Running", "Ok"}
<1> USE DEF Errors, config, Fail
<1>1. CASE CollectDischarges
  BY <1>1 DEF CollectDischarges
<1>2. CASE ExactMatch \/ GeneralMatch \/ GeneralMismatch \/ NotSatisfied
  BY <1>2 DEF ExactMatch, GeneralMatch, Satisfy, GeneralMismatch, NotSatisfied,
     AtFirstParty, AtCaveat
<1>3. CASE CannotDecrypt \/ NoDischarge \/ TooDeep \/ Discharge
  BY <1>3 DEF CannotDecrypt, NoDischarge, TooDeep, Discharge, AtThirdParty, AtCaveat
<1>4. CASE BadSignature \/ ReturnToParent \/ FinishRoot
  BY <1>4 DEF BadSignature, ReturnToParent, FinishRoot, AtEnd
<1> QED
  BY <1>1, <1>2, <1>3, <1>4 DEF Step, verify_with_sig

\* VerifierSpec means by Authorized what Verifier means by it.
LEMMA SameAuthorization ==
  /\ \A c, P : Promise!Authorized(c, P) <=> Authorized(c, P)
  /\ \A c, e, g, t :
       /\ Promise!SatisfiedAtSomeTime(c, e, g, t) = SatisfiedAtSomeTime(c, e, g, t)
       /\ Promise!SatisfiedAllAlong(c, e, g, t) = SatisfiedAllAlong(c, e, g, t)
BY DEF
  Key, CallerKey, MACed, hmac, hmac2, Decrypts, IsFirstParty, IsThirdParty,
  ThirdPartyIndices, FirstPartyPredicates, BoundSignature, CaveatText,
  ChainSignature, FullSignature, Discharges, Nodes, Mac, Pointers, CaveatAt,
  DistinctIdentifiers, OneDischargeEach, Nested, KeyOf, KeysOpen,
  SignaturesHold, AuthorizedBy, Authorized, PredicatesOf,
  SatisfiedAtSomeTime, SatisfiedAllAlong,
  Promise!Key, Promise!CallerKey, Promise!MACed, Promise!hmac, Promise!hmac2,
  Promise!Decrypts, Promise!IsFirstParty, Promise!IsThirdParty,
  Promise!ThirdPartyIndices, Promise!FirstPartyPredicates,
  Promise!BoundSignature, Promise!CaveatText, Promise!ChainSignature,
  Promise!FullSignature, Promise!Discharges, Promise!Nodes, Promise!Mac,
  Promise!Pointers, Promise!CaveatAt, Promise!DistinctIdentifiers,
  Promise!OneDischargeEach, Promise!Nested, Promise!KeyOf, Promise!KeysOpen,
  Promise!SignaturesHold, Promise!AuthorizedBy, Promise!Authorized,
  Promise!PredicatesOf, Promise!SatisfiedAtSomeTime,
  Promise!SatisfiedAllAlong

\* The initial states map to initial states.
LEMMA PromiseInit == Init => Promise!Init
BY DEF Init, Promise!Init, NoCall, Promise!NoCall

\* Every step maps to a step or to a stutter.
LEMMA PromiseStep ==
  ASSUME VerifierInv, CompleteInv, Step, VerifierInv'
  PROVE  [Promise!Next]_(Promise!vars)
<1>1. /\ UNCHANGED <<exact, general, now, started, call>>
      /\ outcome \in {"Collecting", "Running"}
      /\ outcome' \in Errors \cup {"Running", "Ok"}
  BY StepFrame
<1>2. CASE outcome' = "Running"
  BY <1>1, <1>2 DEF Promise!vars
<1>3. CASE outcome' = "Ok"
  <2>1. Authorized(call, SatisfiedDuringCall)'
    BY <1>3 DEF VerifierInv, AnswerOK, Authorized
  <2>2. Authorized(call, SatisfiedDuringCall)
    BY <1>1, <2>1 DEF SatisfiedDuringCall
  <2>3. Promise!Accept
    BY <1>1, <1>3, <2>2, SameAuthorization
    DEF Promise!Accept, Promise!Period, SatisfiedDuringCall
  <2> QED
    BY <2>3 DEF Promise!Next, Promise!Answer
<1>4. CASE outcome' \in Errors
  <2>1. Justified
    BY <1>4, RefusalJustified DEF Errors
  <2>2. Promise!Reject
    BY <1>1, <1>4, <2>1, SameAuthorization
    DEF Promise!Reject, Promise!Period, Justified, SatisfiedThroughout, Errors
  <2> QED
    BY <2>2 DEF Promise!Next, Promise!Answer
<1> QED
  BY <1>1, <1>2, <1>3, <1>4

\* Every step of Verifier is a step that the promise allows, or none at all.
LEMMA PromiseNext ==
  ASSUME VerifierInv, CompleteInv, [Next]_vars, VerifierInv'
  PROVE  [Promise!Next]_(Promise!vars)
<1>1. CASE Step
  BY <1>1, PromiseStep
<1>2. CASE Tick
  BY <1>2 DEF Tick, config, Promise!Next, Promise!Tick
<1>3. CASE (\E p \in Exact : satisfy_exact(p)) \/ (\E f \in General : satisfy_general(f))
  BY <1>3 DEF satisfy_exact, satisfy_general, Promise!Next, Promise!Configure
<1>4. CASE outcome = "Idle" /\ \E arguments \in Calls : verify(arguments)
  <2>1. call' \in Promise!Calls
    BY <1>4 DEF verify, Calls, Promise!Calls, CallerKey, Promise!CallerKey, Key,
       Promise!Key
  <2>2. Promise!Call
    BY <1>4, <2>1 DEF verify, config, Promise!Call
  <2> QED
    BY <2>2 DEF Promise!Next
<1>5. CASE Return
  BY <1>5 DEF Return, config, Promise!Next, Promise!Return, Errors, NoCall,
     Promise!NoCall
<1>6. CASE UNCHANGED vars
  BY <1>6 DEF vars, Promise!vars
<1> QED
  BY <1>1, <1>2, <1>3, <1>4, <1>5, <1>6 DEF Next

\* Nothing is left out before the first call.
LEMMA CompleteInit == Init => CompleteInv
BY DEF Init, CompleteInv

\* KeepsPromise but for its fairness: Verifier implements VerifierSpec.  What
\* verify accepts is authorized, what it refuses is not, for every way in
\* which discharges can be nested, shared, reordered, bound or forged, and
\* with a clock that ticks while verify runs.
THEOREM PromiseKept == Spec => Promise!Init /\ [][Promise!Next]_(Promise!vars)
<1>1. Spec => [](VerifierInv /\ CompleteInv)
  <2>1. VerifierInv /\ CompleteInv /\ [Next]_vars => (VerifierInv /\ CompleteInv)'
    BY NextInv, CompleteNext
  <2> QED
    BY InitInv, CompleteInit, <2>1, PTL DEF Spec
<1>2. VerifierInv /\ CompleteInv /\ VerifierInv' /\ [Next]_vars
        => [Promise!Next]_(Promise!vars)
  BY PromiseNext
<1> QED
  BY PromiseInit, <1>1, <1>2, PTL DEF Spec
=============================================================================
