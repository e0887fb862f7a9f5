--------------------------- MODULE PlanExecution ---------------------------
(***************************************************************************)
(* What a SovereignWorkflow promises: the steps of its plan are executed   *)
(* one after the other, a step completes only after its predecessor did,   *)
(* and a failed candidate sends the plan back to an earlier step a bounded *)
(* number of times, each time in a new iteration with nothing completed.   *)
(***************************************************************************)
EXTENDS Naturals

CONSTANTS
  N,           \* number of steps
  RewindFrom,  \* the step whose failure rewinds the plan, 0 if there is none
  RewindTo,    \* the step it goes back to
  MaxRewinds

VARIABLES
  at,       \* the step the plan is at, 0 before the first one
  iter,     \* the iteration: how often the plan was rewound
  done,     \* the completed steps, with the iteration they completed in
  outcome   \* "open", "succeeded" or "failed"

vars == <<at, iter, done, outcome>>

First(i) == IF i = 0 THEN 1 ELSE RewindTo

Init == at = 0 /\ iter = 0 /\ done = {} /\ outcome = "open"

Open == outcome = "open"

\* A step completes in the current iteration, after its predecessor.
Complete(s) ==
  /\ Open
  /\ s = First(iter) \/ <<s - 1, iter>> \in done
  /\ done' = done \cup {<<s, iter>>}
  /\ UNCHANGED <<at, iter, outcome>>

Advance ==
  /\ Open
  /\ at < N
  /\ at = 0 \/ <<at, iter>> \in done
  /\ at' = at + 1
  /\ UNCHANGED <<iter, done, outcome>>

Rewind ==
  /\ Open
  /\ at = RewindFrom
  /\ <<at, iter>> \notin done
  /\ iter < MaxRewinds
  /\ iter' = iter + 1
  /\ at' = RewindTo
  /\ UNCHANGED <<done, outcome>>

Succeed ==
  /\ Open
  /\ at = N
  /\ <<at, iter>> \in done
  /\ outcome' = "succeeded"
  /\ UNCHANGED <<at, iter, done>>

Fail ==
  /\ Open
  /\ outcome' = "failed"
  /\ UNCHANGED <<at, iter, done>>

Next == (\E s \in 1..N : Complete(s)) \/ Advance \/ Rewind \/ Succeed \/ Fail

Spec == Init /\ [][Next]_vars
=============================================================================
