---------------------------- MODULE VerifierSpec ----------------------------
(***************************************************************************)
(* What a Verifier promises.  Its owner configures it (satisfy_exact,       *)
(* satisfy_general) between calls.  Every call of verify is answered: it is *)
(* accepted only if the macaroons authorize it with predicates that were    *)
(* each satisfied at some time of the call, and rejected only if they do    *)
(* not authorize it with the predicates satisfied all along.                *)
(***************************************************************************)
EXTENDS Authorization

CONSTANTS
  Token,          \* the macaroons callers hold
  MaxDischarges,  \* bound: discharges in one call
  Exact,          \* the predicates given to satisfy_exact
  General,        \* the closures given to satisfy_general
  MaxGeneral,     \* bound: closures of one verifier
  MaxTime         \* bound: the clock

VARIABLES
  exact,    \* the predicates satisfied by an exact match
  general,  \* the closures, in the order they were added
  now,      \* the clock
  started,  \* when the call in progress was made
  call,     \* its arguments, NoCall when there is none
  verdict   \* "None", "Pending", "Accepted" or "Rejected"

vars == <<exact, general, now, started, call, verdict>>

NoCall == << >>

Calls ==
  [root : Token, key : CallerKey,
   discharges : UNION { [1..k -> Token] : k \in 0..MaxDischarges }]

Init ==
  /\ exact = {}
  /\ general = << >>
  /\ now = 0
  /\ started = 0
  /\ call = NoCall
  /\ verdict = "None"

Configure ==
  /\ verdict = "None"
  /\ \/ \E p \in Exact : exact' = exact \cup {p} /\ UNCHANGED general
     \/ \E f \in General :
          /\ Len(general) < MaxGeneral
          /\ general' = Append(general, f)
          /\ UNCHANGED exact
  /\ UNCHANGED <<now, started, call, verdict>>

Tick ==
  /\ now < MaxTime
  /\ now' = now + 1
  /\ UNCHANGED <<exact, general, started, call, verdict>>

Call ==
  /\ verdict = "None"
  /\ call' \in Calls
  /\ started' = now
  /\ verdict' = "Pending"
  /\ UNCHANGED <<exact, general, now>>

Period == started..now

Accept ==
  /\ verdict = "Pending"
  /\ Authorized(call, SatisfiedAtSomeTime(call, exact, general, Period))
  /\ verdict' = "Accepted"
  /\ UNCHANGED <<exact, general, now, started, call>>

Reject ==
  /\ verdict = "Pending"
  /\ ~Authorized(call, SatisfiedAllAlong(call, exact, general, Period))
  /\ verdict' = "Rejected"
  /\ UNCHANGED <<exact, general, now, started, call>>

Answer == Accept \/ Reject

Return ==
  /\ verdict \in {"Accepted", "Rejected"}
  /\ verdict' = "None"
  /\ call' = NoCall
  /\ started' = 0
  /\ UNCHANGED <<exact, general, now>>

Next == Configure \/ Tick \/ Call \/ Answer \/ Return

Spec == Init /\ [][Next]_vars /\ WF_vars(Answer)
=============================================================================
