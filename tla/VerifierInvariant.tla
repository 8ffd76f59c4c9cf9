-------------------------- MODULE VerifierInvariant --------------------------
(***************************************************************************)
(* Why verify is sound: the inductive invariant of Verifier.  While verify  *)
(* runs, its frames are the part of an authorization (module Authorization) *)
(* found so far.                                                            *)
(***************************************************************************)
EXTENDS Verifier

Visited == DOMAIN frames
Asked == Visited \ {0}  \* the discharges that have been taken out of the map

\* discharge_set holds what has not been taken out of it.
MapOK ==
  /\ DistinctIdentifiers(call)
  /\ 0 \in Visited
  /\ active \in Visited
  /\ Visited = Nodes(call) \ unused
  /\ unused \subseteq Discharges(call)

RootOK == frames[0].key = call.key /\ frames[0].depth = 0

\* Discharge d answers the caveat that `from' points to, and is verified with
\* the key that opens there.
Answers(arguments, d, from, parentKey, key) ==
  LET m == Mac(arguments, from[1])
      c == CaveatAt(arguments, from)
  IN  /\ from = <<from[1], from[2]>>
      /\ from[2] \in ThirdPartyIndices(m)
      /\ c.id = arguments.discharges[d].identifier
      /\ Decrypts(ChainSignature(parentKey, m, from[2] - 1), c.verifier_id)
      /\ key = c.verifier_id.plaintext

\* Below an unfinished frame nothing has moved.
LinkOK(d) ==
  LET f == frames[d]
      n == f.from[1]
  IN  /\ n \in Visited
      /\ Answers(call, d, f.from, frames[n].key, f.key)
      /\ f.depth = frames[n].depth + 1
      /\ ~f.finished => ~frames[n].finished /\ frames[n].next = f.from[2]

\* The unfinished frames are a stack, one for each depth.
StackOK ==
  /\ ~frames[active].finished
  /\ \A n \in CallStack :
       /\ frames[n].depth <= frames[active].depth
       /\ \A k \in CallStack : frames[n].depth = frames[k].depth => n = k

\* The caveats before `next' are satisfied or discharged.
Cleared(n, j) ==
  LET c == Mac(call, n).caveats[j]
  IN  IF IsFirstParty(c)
        THEN c.predicate \in SatisfiedDuringCall
        ELSE \E d \in Asked : frames[d].from = <<n, j>>

ProgressOK(n) == \A j \in 1..(frames[n].next - 1) : Cleared(n, j)

\* A finished discharge is bound to the root, or has the root's very chain.
FinishedOK(n) ==
  LET sig == FullSignature(frames[n].key, Mac(call, n))
  IN  frames[n].finished =>
        /\ n # 0
        /\ frames[n].next = Len(Mac(call, n).caveats) + 1
        /\ \/ Mac(call, n).signature = BoundSignature(call.root.signature, sig)
           \/ call.root.signature = sig

\* Some caveat of the root itself asked for the first discharge.
RootAsked == Asked # {} => \E d \in Asked : frames[d].from[1] = 0

RunningOK ==
  /\ MapOK
  /\ RootOK
  /\ \A d \in Asked : LinkOK(d)
  /\ StackOK
  /\ \A n \in Visited : ProgressOK(n) /\ FinishedOK(n)
  /\ RootAsked

AnswerOK ==
  /\ outcome = "Ok" => unused = {}
  /\ outcome = "DischargeNotUsed" => unused # {}
  /\ outcome \in {"Ok", "DischargeNotUsed"} =>
       AuthorizedBy(call, Discharges(call) \ unused, SatisfiedDuringCall)

\* The inductive invariant.  StateOK and the stack bound the recursion, the
\* links and the progress of the frames make the authorization of AnswerOK.
VerifierInv ==
  /\ StateOK
  /\ outcome = "Running" => RunningOK
  /\ AnswerOK
=============================================================================
