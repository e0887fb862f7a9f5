------------------------- MODULE ExclusiveWorkspace -------------------------
(***************************************************************************)
(* What the workspace writer protocol promises, without the controllers:   *)
(* docs/architecture/execution-model.md, "Exclusive workspace writer       *)
(* authority".  A free workspace is granted to one unit under the next     *)
(* term; only the holder starts workloads; the term ends only when the     *)
(* holder has no workload left; the last term is never followed by another.*)
(***************************************************************************)
EXTENDS Naturals

CONSTANTS Units, NoUnit, MaxEpoch

VARIABLES
  holder,  \* the unit that may write, or NoUnit
  term,    \* the number of the current or the last term
  live     \* the units with a workload that may write

Init == holder = NoUnit /\ term = 0 /\ live = {}

Grant(u) ==
  /\ holder = NoUnit
  /\ term < MaxEpoch
  /\ holder' = u
  /\ term' = term + 1
  /\ UNCHANGED live

Start(u) == holder = u /\ live' = live \cup {u} /\ UNCHANGED <<holder, term>>

Stop(u) == live' = live \ {u} /\ UNCHANGED <<holder, term>>

Release(u) ==
  /\ holder = u
  /\ u \notin live
  /\ holder' = NoUnit
  /\ UNCHANGED <<term, live>>

Next == \E u \in Units : Grant(u) \/ Start(u) \/ Stop(u) \/ Release(u)

Spec == Init /\ [][Next]_<<holder, term, live>>

\* Only the holder has workloads (the guarantee the document states for every
\* workload created through the control plane).
OnlyHolderWrites == live \subseteq {holder}
=============================================================================
